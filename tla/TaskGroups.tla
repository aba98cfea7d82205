----------------------------- MODULE TaskGroups -----------------------------
(***************************************************************************)
(* What the task scheduler promises to its callers, without threads,       *)
(* lists, locks or counters: a caller opens a group, task sets are added   *)
(* to it, every element of a task set is run once, a task set is completed *)
(* after its last element, and sync returns when all task sets of the      *)
(* group are completed.                                                    *)
(***************************************************************************)
EXTENDS Integers

CONSTANTS Clients, Tasks, MaxElts

VARIABLES
  state,    (* what every caller is doing                                   *)
  pending,  (* elements not yet run, of every group                         *)
  due       (* task sets not yet completed, of every group                  *)

vars == <<state, pending, due>>

Init ==
  /\ state = [c \in Clients |-> "idle"]
  /\ pending = [c \in Clients |-> {}]
  /\ due = [c \in Clients |-> {}]

Open(c) ==
  /\ state[c] = "idle"
  /\ state' = [state EXCEPT ![c] = "open"]
  /\ UNCHANGED <<pending, due>>

\* By the caller before sync, or by a task of the group.
AddTask(c) ==
  /\ state[c] = "open" \/ (state[c] = "sync" /\ due[c] # {})
  /\ \E t \in Tasks, n \in 1..MaxElts :
       /\ \A d \in Clients : t \notin due[d]
       /\ due' = [due EXCEPT ![c] = @ \cup {t}]
       /\ pending' = [pending EXCEPT ![c] = @ \cup ({t} \X (0 .. n-1))]
  /\ UNCHANGED state

RunElement(c) ==
  /\ \E e \in pending[c] : pending' = [pending EXCEPT ![c] = @ \ {e}]
  /\ UNCHANGED <<state, due>>

Complete(c) ==
  /\ \E t \in due[c] :
       /\ \A e \in pending[c] : e[1] # t
       /\ due' = [due EXCEPT ![c] = @ \ {t}]
  /\ UNCHANGED <<state, pending>>

Sync(c) ==
  /\ state[c] = "open"
  /\ state' = [state EXCEPT ![c] = "sync"]
  /\ UNCHANGED <<pending, due>>

Return(c) ==
  /\ state[c] = "sync" /\ due[c] = {}
  /\ state' = [state EXCEPT ![c] = "idle"]
  /\ UNCHANGED <<pending, due>>

Next == \E c \in Clients :
  Open(c) \/ AddTask(c) \/ RunElement(c) \/ Complete(c) \/ Sync(c) \/ Return(c)

Fairness == \A c \in Clients :
  /\ WF_vars(RunElement(c)) /\ WF_vars(Complete(c))
  /\ WF_vars(Sync(c)) /\ WF_vars(Return(c))

Spec == Init /\ [][Next]_vars /\ Fairness
=============================================================================
