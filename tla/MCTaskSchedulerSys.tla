------------------------ MODULE MCTaskSchedulerSys ------------------------
(* Small instances of TaskSchedulerSys for TLC. *)
EXTENDS TaskSchedulerSys

-----------------------------------------------------------------------------
(* The scheduler implements TaskGroups: an element is pending while it is  *)
(* in the list or with a worker that has not returned from it.             *)
GroupState == [c \in Clients |->
  CASE pc[c] = "idle" -> "idle"
    [] pc[c] \in {"open", "push", "broadcast"} -> "open"
    [] OTHER -> "sync"]

Pending(t, i) == i < started[t] \/ \E w \in Running(t) : elt[w] = i

GroupPending == [c \in Clients |->
  {e \in inflight \X (0 .. MaxElts-1) : event[e[1]] = c /\ Pending(e[1], e[2])}]

GroupDue == [c \in Clients |-> Unfinished(c)]

Groups == INSTANCE TaskGroups
            WITH state <- GroupState, pending <- GroupPending, due <- GroupDue

\* The list, the counters and the condition variables of the scheduler
\* implement the task groups its callers rely on, fairness included: nothing
\* is run twice, completed early, or left behind when sync returns.
ImplementsTaskGroups == Groups!Spec
=============================================================================
