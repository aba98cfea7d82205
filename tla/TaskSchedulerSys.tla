-------------------------- MODULE TaskSchedulerSys --------------------------
(***************************************************************************)
(* The pthreads task scheduler of common/sys: a pool of worker threads     *)
(* that take elements of task sets from one list protected by a mutex and  *)
(* a condition variable, and the task groups (EventSync) callers wait for. *)
(*                                                                         *)
(* A step is one critical section of the scheduler's mutex, one atomic     *)
(* instruction on a counter, or one call of a user callback.  Tasks are    *)
(* memory: an element of Tasks is an address at which a Task object may be *)
(* constructed, freed and constructed again.  Every caller has at most one *)
(* EventSync, a local of the function that waits on it, so the caller      *)
(* names its event.                                                        *)
(***************************************************************************)
EXTENDS Integers, Sequences, FiniteSets

CONSTANTS
  Workers,   (* the threads of createThreads                                *)
  Clients,   (* the threads that open a task group and call sync on it      *)
  Tasks,     (* the addresses of Task objects                               *)
  MaxElts,   (* bound: the largest number of elements of a task set         *)
  MaxAdds,   (* bound: tasks added to one group before sync returns         *)
  Null

ASSUME SchedulerAssumption ==
  /\ Workers # {} /\ IsFiniteSet(Workers)
  /\ Workers \cap Clients = {}
  /\ IsFiniteSet(Tasks)
  /\ MaxElts \in Nat \ {0}
  /\ MaxAdds \in Nat
  /\ Null \notin Tasks \cup Clients

Threads == Workers \cup Clients

VARIABLES
  queue,            (* tasks[begin .. end-1], oldest first                  *)
  elts, started, completed, event,  (* fields of the Task objects           *)
  owner,            (* the caller whose stack holds the task, Null: heap    *)
  live,             (* addresses that hold a constructed Task               *)
  inflight,         (* history: added, complete function not yet called     *)
  done,             (* history: elements whose run function has returned    *)
  eventLive,        (* callers whose EventSync exists                       *)
  activeTasks,      (* Event::activeTasks                                   *)
  signaled,         (* callers whose EventSys flag is set                   *)
  credit,           (* bound: tasks the group may still add                 *)
  pc, task, elt, ev,(* control and locals of every thread                   *)
  adding,           (* the task a thread is inside add() with               *)
  terminateThreads,
  phase             (* progress of destroyThreads and create                *)

taskVars  == <<elts, started, completed, event, owner, live, inflight, done>>
eventVars == <<eventLive, activeTasks, signaled, credit>>
stopVars  == <<terminateThreads, phase>>
vars == <<queue, taskVars, eventVars, pc, task, elt, ev, adding, stopVars>>

Goto(x, l) == pc' = [pc EXCEPT ![x] = l]

Init ==
  /\ queue = <<>>
  /\ elts = [t \in Tasks |-> 0]
  /\ started = [t \in Tasks |-> 0]
  /\ completed = [t \in Tasks |-> 0]
  /\ event = [t \in Tasks |-> Null]
  /\ owner = [t \in Tasks |-> Null]
  /\ live = {} /\ inflight = {}
  /\ done = [t \in Tasks |-> {}]
  /\ eventLive = {} /\ signaled = {}
  /\ activeTasks = [c \in Clients |-> 0]
  /\ credit = [c \in Clients |-> 0]
  /\ pc = [x \in Threads |-> IF x \in Workers THEN "top" ELSE "idle"]
  /\ task = [x \in Threads |-> Null]
  /\ elt = [x \in Threads |-> 0]
  /\ ev = [x \in Threads |-> Null]
  /\ adding = [x \in Threads |-> Null]
  /\ terminateThreads = FALSE
  /\ phase = "running"

-----------------------------------------------------------------------------
(* add(): called by a caller that has opened a group and by a run function *)
(* with the group it was handed as an argument.                            *)

\* The Task constructor, called by x at a free address.  The task of a caller
\* is a local variable, the one of a run function is freed by its own complete
\* function.
Construct(x, t, n) ==
  /\ elts' = [elts EXCEPT ![t] = n]
  /\ started' = [started EXCEPT ![t] = n]
  /\ completed' = [completed EXCEPT ![t] = n]
  /\ event' = [event EXCEPT ![t] = ev[x]]
  /\ owner' = [owner EXCEPT ![t] = IF x \in Clients THEN x ELSE Null]
  /\ live' = live \cup {t}
  /\ inflight' = inflight \cup {t}
  /\ done' = [done EXCEPT ![t] = {}]

\* The event counts the task before the task is in the list.
AddInc(x) ==
  \E t \in Tasks \ live, n \in 1..MaxElts :
    /\ pc[x] \in {"open", "run"}
    /\ credit[ev[x]] > 0
    /\ Construct(x, t, n)
    /\ activeTasks' = [activeTasks EXCEPT ![ev[x]] = @ + 1]
    /\ credit' = [credit EXCEPT ![ev[x]] = @ - 1]
    /\ adding' = [adding EXCEPT ![x] = t]
    /\ Goto(x, "push")
    /\ UNCHANGED <<queue, eventLive, signaled, task, elt, ev, stopVars>>

\* GLOBAL_FRONT and GLOBAL_BACK, inside the scheduler's mutex.
AddPush(x) ==
  /\ pc[x] = "push"
  /\ \/ queue' = <<adding[x]>> \o queue
     \/ queue' = Append(queue, adding[x])
  /\ Goto(x, "broadcast")
  /\ UNCHANGED <<taskVars, eventVars, task, elt, ev, adding, stopVars>>

\* Mutant of Woken: the broadcast reaches nobody.
NobodyWoken == pc

\* Everybody in the wait set of the condition variable contends for the mutex.
Woken == [x \in Threads |-> IF pc[x] = "asleep" THEN "top" ELSE pc[x]]

\* After the unlock; then add() returns to its caller.
AddBroadcast(x) ==
  /\ pc[x] = "broadcast"
  /\ pc' = [Woken EXCEPT ![x] = IF x \in Clients THEN "open" ELSE "run"]
  /\ adding' = [adding EXCEPT ![x] = Null]
  /\ UNCHANGED <<queue, taskVars, eventVars, task, elt, ev, stopVars>>

-----------------------------------------------------------------------------
(* run(): the loop of a worker.                                            *)

Sleep(w) ==
  /\ pc[w] = "top" /\ queue = <<>> /\ ~terminateThreads
  /\ Goto(w, "asleep")
  /\ UNCHANGED <<queue, taskVars, eventVars, task, elt, ev, adding, stopVars>>

\* pthread_cond_wait may return without a broadcast.
SpuriousWakeup(w) ==
  /\ pc[w] = "asleep"
  /\ Goto(w, "top")
  /\ UNCHANGED <<queue, taskVars, eventVars, task, elt, ev, adding, stopVars>>

Exit(w) ==
  /\ pc[w] = "top" /\ terminateThreads
  /\ Goto(w, "exited")
  /\ UNCHANGED <<queue, taskVars, eventVars, task, elt, ev, adding, stopVars>>

\* Mutant of LastElement: the task is never popped.
NeverLastElement(t) == FALSE

\* The task leaves the list with its last element.
LastElement(t) == started[t] = 1

\* Take the highest element not yet started of the newest task.
Take(w) ==
  LET t == queue[Len(queue)] IN
  /\ pc[w] = "top" /\ queue # <<>> /\ ~terminateThreads
  /\ started' = [started EXCEPT ![t] = @ - 1]
  /\ queue' = IF LastElement(t) THEN SubSeq(queue, 1, Len(queue) - 1) ELSE queue
  /\ task' = [task EXCEPT ![w] = t]
  /\ elt' = [elt EXCEPT ![w] = started[t] - 1]
  /\ Goto(w, "start")
  /\ UNCHANGED <<elts, completed, event, owner, live, inflight, done, eventVars,
                 ev, adding, stopVars>>

\* Outside the mutex the worker reads the event of the task and calls run.
StartRun(w) ==
  /\ pc[w] = "start"
  /\ ev' = [ev EXCEPT ![w] = event[task[w]]]
  /\ Goto(w, "run")
  /\ UNCHANGED <<queue, taskVars, eventVars, task, elt, adding, stopVars>>

RunReturns(w) ==
  /\ pc[w] = "run"
  /\ done' = [done EXCEPT ![task[w]] = @ \cup {elt[w]}]
  /\ Goto(w, "count")
  /\ UNCHANGED <<queue, elts, started, completed, event, owner, live, inflight,
                 eventVars, task, elt, ev, adding, stopVars>>

\* Mutant of Completes: off by one.
CompletesEarly(t) == completed[t] <= 2

\* --task->completed reaches zero.
Completes(t) == completed[t] = 1

\* Whoever completes the task calls its complete function, everybody else
\* forgets the task.
Count(w) ==
  LET last == Completes(task[w]) IN
  /\ pc[w] = "count"
  /\ completed' = [completed EXCEPT ![task[w]] = @ - 1]
  /\ task' = IF last THEN task ELSE [task EXCEPT ![w] = Null]
  /\ Goto(w, IF last THEN "complete" ELSE "top")
  /\ UNCHANGED <<queue, elts, started, event, owner, live, inflight, done,
                 eventVars, elt, ev, adding, stopVars>>

\* The complete function.  It may free the task (as RenderJob::finish deletes
\* the job a task can be a member of): the worker goes on with its own copy of
\* the event pointer.
Complete(w) ==
  LET t == task[w] IN
  /\ pc[w] = "complete"
  /\ inflight' = inflight \ {t}
  /\ live' = IF owner[t] = Null THEN live \ {t} ELSE live
  /\ task' = [task EXCEPT ![w] = Null]
  /\ Goto(w, "dec")
  /\ UNCHANGED <<queue, elts, started, completed, event, owner, done, eventVars,
                 elt, ev, adding, stopVars>>

-----------------------------------------------------------------------------
(* Event::dec and EventSync::trigger, run by the worker that completed a   *)
(* task of the group and by the caller of sync.                            *)

\* Mutant of Triggers: off by one.
TriggersEarly(c) == activeTasks[c] <= 2

\* --activeTasks reaches zero.
Triggers(c) == activeTasks[c] = 1

AfterDec(x) == IF x \in Clients THEN "wait" ELSE "top"

\* --activeTasks, an atomic instruction.
Dec(x) ==
  LET c == ev[x] IN
  /\ pc[x] = "dec"
  /\ activeTasks' = [activeTasks EXCEPT ![c] = @ - 1]
  /\ Goto(x, IF Triggers(c) THEN "trigger" ELSE AfterDec(x))
  /\ UNCHANGED <<queue, taskVars, eventLive, signaled, credit, task, elt, ev,
                 adding, stopVars>>

Trigger(x) ==
  /\ pc[x] = "trigger"
  /\ signaled' = signaled \cup {ev[x]}
  /\ Goto(x, AfterDec(x))
  /\ UNCHANGED <<queue, taskVars, eventLive, activeTasks, credit, task, elt, ev,
                 adding, stopVars>>

-----------------------------------------------------------------------------
(* A caller: construct an EventSync, add tasks, sync, leave the function.  *)

Open(c) ==
  /\ pc[c] = "idle" /\ phase = "running"
  /\ eventLive' = eventLive \cup {c}
  /\ activeTasks' = [activeTasks EXCEPT ![c] = 1]
  /\ signaled' = signaled \ {c}
  /\ credit' = [credit EXCEPT ![c] = MaxAdds]
  /\ ev' = [ev EXCEPT ![c] = c]
  /\ Goto(c, "open")
  /\ UNCHANGED <<queue, taskVars, task, elt, adding, stopVars>>

Sync(c) ==
  /\ pc[c] = "open"
  /\ Goto(c, "dec")
  /\ UNCHANGED <<queue, taskVars, eventVars, task, elt, ev, adding, stopVars>>

\* Mutant of SyncDone: a wait that takes any wakeup for the signal.
WaitWithoutLoop(c) == TRUE

\* The loop of EventSys::wait ends when the flag is set.
SyncDone(c) == c \in signaled

\* The frame with the event and the tasks is popped.
Return(c) ==
  /\ pc[c] = "wait" /\ SyncDone(c)
  /\ eventLive' = eventLive \ {c}
  /\ live' = {t \in live : owner[t] # c}
  /\ Goto(c, "idle")
  /\ UNCHANGED <<queue, elts, started, completed, event, owner, inflight, done,
                 activeTasks, signaled, credit, task, elt, ev, adding, stopVars>>

-----------------------------------------------------------------------------
(* destroy() and create(), called when no caller is inside a group.        *)

Terminate ==
  /\ phase = "running" /\ \A c \in Clients : pc[c] = "idle"
  /\ terminateThreads' = TRUE
  /\ phase' = "flagged"
  /\ UNCHANGED <<queue, taskVars, eventVars, pc, task, elt, ev, adding>>

TerminateBroadcast ==
  /\ phase = "flagged"
  /\ pc' = Woken
  /\ phase' = "joining"
  /\ UNCHANGED <<queue, taskVars, eventVars, task, elt, ev, adding, terminateThreads>>

Join ==
  /\ phase = "joining" /\ \A w \in Workers : pc[w] = "exited"
  /\ terminateThreads' = FALSE
  /\ phase' = "destroyed"
  /\ UNCHANGED <<queue, taskVars, eventVars, pc, task, elt, ev, adding>>

Create ==
  /\ phase = "destroyed"
  /\ phase' = "running"
  /\ queue' = <<>>
  /\ pc' = [x \in Threads |-> IF x \in Workers THEN "top" ELSE pc[x]]
  /\ UNCHANGED <<taskVars, eventVars, task, elt, ev, adding, terminateThreads>>

-----------------------------------------------------------------------------
WorkerStep(w) ==
  \/ Sleep(w) \/ Exit(w) \/ Take(w) \/ StartRun(w)
  \/ RunReturns(w) \/ Count(w) \/ Complete(w)

GroupStep(x) ==
  AddInc(x) \/ AddPush(x) \/ AddBroadcast(x) \/ Dec(x) \/ Trigger(x)

Next ==
  \/ \E w \in Workers : WorkerStep(w) \/ SpuriousWakeup(w)
  \/ \E x \in Threads : GroupStep(x)
  \/ \E c \in Clients : Open(c) \/ Sync(c) \/ Return(c)
  \/ Terminate \/ TerminateBroadcast \/ Join \/ Create

\* The operating system runs every thread that can run; a run function returns
\* and a caller that has opened a group calls sync.
Fairness ==
  /\ \A w \in Workers : WF_vars(WorkerStep(w) \/ GroupStep(w))
  /\ \A c \in Clients : WF_vars(GroupStep(c) \/ Sync(c) \/ Return(c))
  /\ WF_vars(TerminateBroadcast) /\ WF_vars(Join)

Spec == Init /\ [][Next]_vars /\ Fairness

-----------------------------------------------------------------------------
WorkerPC == {"top", "asleep", "exited", "start", "run", "push", "broadcast",
             "count", "complete", "dec", "trigger"}
ClientPC == {"idle", "open", "push", "broadcast", "dec", "trigger", "wait"}

TypeOK ==
  /\ queue \in Seq(Tasks)
  /\ elts \in [Tasks -> Nat] /\ started \in [Tasks -> Nat]
  /\ completed \in [Tasks -> Nat]
  /\ event \in [Tasks -> Clients \cup {Null}]
  /\ owner \in [Tasks -> Clients \cup {Null}]
  /\ live \subseteq Tasks /\ inflight \subseteq live
  /\ done \in [Tasks -> SUBSET Nat]
  /\ eventLive \subseteq Clients /\ signaled \subseteq Clients
  /\ activeTasks \in [Clients -> Nat] /\ credit \in [Clients -> Nat]
  /\ pc \in [Threads -> WorkerPC \cup ClientPC]
  /\ \A w \in Workers : pc[w] \in WorkerPC
  /\ \A c \in Clients : pc[c] \in ClientPC
  /\ task \in [Threads -> Tasks \cup {Null}]
  /\ elt \in [Threads -> Nat]
  /\ ev \in [Threads -> Clients \cup {Null}]
  /\ adding \in [Threads -> Tasks \cup {Null}]
  /\ terminateThreads \in BOOLEAN
  /\ phase \in {"running", "flagged", "joining", "destroyed"}

Inside == {"run", "push", "broadcast"}

\* The workers that have taken an element of t and not yet returned from it.
Running(t) == {w \in Workers : task[w] = t /\ pc[w] \in Inside \cup {"start"}}

\* Element i of t is waiting in the list, with exactly one worker, or done, and
\* never two of these.
RunOnce(t) ==
  /\ \A v, w \in Running(t) : elt[v] = elt[w] => v = w
  /\ \A w \in Running(t) : elt[w] \notin done[t] /\ elt[w] >= started[t]
  /\ \A i \in done[t] : i >= started[t]
  /\ 0 .. elts[t]-1 =
       (0 .. started[t]-1) \cup {elt[w] : w \in Running(t)} \cup done[t]

\* Every element of a task set is run exactly once: none is skipped and none is
\* taken by two workers (the --started under the mutex, the pop with the last
\* element, and addresses that are used again).
ElementsRunOnce == \A t \in inflight : RunOnce(t)

\* The complete function runs when every element of the task has been run, and
\* while no other worker holds the task or can find it in the list: it may free
\* everything the run functions use.
CompleteIsLast ==
  \A w \in Workers : pc[w] = "complete" =>
    /\ task[w] \in inflight
    /\ done[task[w]] = 0 .. elts[task[w]]-1
    /\ \A v \in Workers \ {w} : task[v] # task[w]
    /\ \A i \in DOMAIN queue : queue[i] # task[w]

\* sync() returns only when all tasks of the group, the nested ones too, are
\* complete and nobody will touch the event again: the frame that holds the
\* event and the tasks can be popped.
SyncWaitsForGroup ==
  \A c \in Clients : pc[c] = "wait" /\ c \in signaled =>
    /\ \A t \in inflight : event[t] # c
    /\ \A x \in Threads : ev[x] = c => pc[x] \notin {"dec", "trigger"}

\* No thread follows a pointer to a Task or an EventSync that is gone: neither
\* through the list, nor the task it has taken, nor the event it is about to
\* count down or to signal.
NoDanglingAccess ==
  /\ \A i \in DOMAIN queue : queue[i] \in live
  /\ \A w \in Workers : task[w] # Null =>
       task[w] \in live /\ event[task[w]] \in eventLive
  /\ \A x \in Threads :
       pc[x] \in {"run", "push", "broadcast", "dec", "trigger", "open", "wait"}
         => ev[x] \in eventLive

\* A broadcast is never lost: when a task is in the list and all workers sleep,
\* a thread between its unlock and its broadcast is about to wake them; when
\* the pool is told to stop and a worker sleeps, so is the one that told it.
NoLostWakeup ==
  /\ (queue # <<>> /\ \A w \in Workers : pc[w] = "asleep")
       => \E x \in Threads : pc[x] = "broadcast"
  /\ (terminateThreads /\ \E w \in Workers : pc[w] = "asleep")
       => phase = "flagged"

\* A worker that sees terminateThreads leaves whatever the list holds: nothing
\* is dropped, because destroy() comes after every sync() has returned.
ShutdownDropsNothing ==
  terminateThreads => queue = <<>> /\ inflight = {}

\* Every sync() returns (worker threads never block inside a task).
SyncReturns == \A c \in Clients : pc[c] = "open" ~> pc[c] = "idle"

\* destroy() joins all workers, whatever they do when it is called.
DestroyReturns == phase = "flagged" ~> phase = "destroyed"

-----------------------------------------------------------------------------
(* The inductive invariant: the counters of the code equal the number of   *)
(* parties that still have to count down.                                  *)

\* The workers between --started and --completed on an element of t.
Held(t) == {w \in Workers : task[w] = t /\ pc[w] # "complete"}

\* What keeps the event of c from triggering: unfinished tasks, workers between
\* the completion of a task and the count down, and the caller before sync.
Unfinished(c) == {t \in inflight : event[t] = c}
Decrementing(c) == {w \in Workers : pc[w] = "dec" /\ ev[w] = c}
Hold(c) == IF pc[c] \in {"open", "push", "broadcast", "dec"} THEN 1 ELSE 0

ControlInv ==
  /\ \A w \in Workers :
       /\ task[w] # Null <=> pc[w] \in Inside \cup {"start", "count", "complete"}
       /\ task[w] # Null => task[w] \in inflight
       /\ pc[w] \in Inside \cup {"count", "complete"} => ev[w] = event[task[w]]
       /\ pc[w] \in {"dec", "trigger"} => ev[w] \in Clients
  /\ \A c \in Clients :
       /\ pc[c] # "idle" => ev[c] = c
       /\ c \in eventLive <=> pc[c] # "idle"
  /\ \A t \in inflight : event[t] \in Clients
  /\ \A t \in inflight : owner[t] = Null \/ owner[t] = event[t]

QueueInv ==
  /\ \A i \in DOMAIN queue : queue[i] \in inflight /\ started[queue[i]] > 0
  /\ \A i, j \in DOMAIN queue : queue[i] = queue[j] => i = j
  /\ \A x \in Threads : pc[x] = "push" =>
       /\ adding[x] \in inflight /\ started[adding[x]] > 0
       /\ \A i \in DOMAIN queue : queue[i] # adding[x]
       /\ \A y \in Threads : pc[y] = "push" /\ adding[y] = adding[x] => y = x

CountInv ==
  /\ \A t \in inflight : completed[t] = started[t] + Cardinality(Held(t))
  /\ \A w \in Workers : pc[w] = "complete" =>
       /\ completed[task[w]] = 0
       /\ \A v \in Workers : pc[v] = "complete" /\ task[v] = task[w] => v = w

EventInv ==
  /\ \A c \in Clients : activeTasks[c] =
       Cardinality(Unfinished(c)) + Cardinality(Decrementing(c)) + Hold(c)
  /\ \A x \in Threads : pc[x] = "trigger" =>
       /\ activeTasks[ev[x]] = 0 /\ ev[x] \notin signaled
       /\ pc[ev[x]] # "idle"
       /\ \A y \in Threads : pc[y] = "trigger" /\ ev[y] = ev[x] => y = x
  /\ \A c \in Clients : c \in signaled \/ pc[c] = "idle" => activeTasks[c] = 0

PhaseInv ==
  /\ phase # "running" => \A c \in Clients : pc[c] = "idle"
  /\ terminateThreads <=> phase \in {"flagged", "joining"}
  /\ \A w \in Workers : pc[w] = "exited" => phase # "running"
  /\ phase = "destroyed" => \A w \in Workers : pc[w] = "exited"

\* The parts that together are preserved by every step of the scheduler.
IInv ==
  /\ TypeOK /\ ControlInv /\ QueueInv /\ CountInv /\ EventInv /\ PhaseInv
  /\ ElementsRunOnce /\ NoLostWakeup

=============================================================================
