------------------------------ MODULE EventSync ------------------------------
(***************************************************************************)
(* One EventSync from its construction to its destruction, instruction by  *)
(* instruction: the counter of Event and the flag, mutex and condition     *)
(* variable of EventSys.  TaskSchedulerSys takes signal() and wait() for   *)
(* single steps; this module shows what that costs.  The event is a local  *)
(* variable of the caller: it is gone as soon as wait() returns, possibly  *)
(* while the thread that signaled it is still inside signal().             *)
(***************************************************************************)
EXTENDS Integers, FiniteSets

CONSTANTS
  Workers,  (* each owes the event one dec(): it completes a task of the group *)
  Caller,   (* calls sync()                                                    *)
  Nobody

ASSUME EventAssumption ==
  IsFiniteSet(Workers) /\ Caller \notin Workers /\ Nobody \notin Workers \cup {Caller}

Threads == Workers \cup {Caller}

VARIABLES
  activeTasks,  (* Event::activeTasks                                       *)
  event,        (* EventSys::event                                          *)
  mutex,        (* the holder of EventSys::mutex                            *)
  pc,
  alive         (* the event has not been destroyed                         *)

vars == <<activeTasks, event, mutex, pc, alive>>

\* Every task has been added, each with its inc(); the constructor counts one
\* more for the caller.
Init ==
  /\ activeTasks = Cardinality(Workers) + 1
  /\ event = FALSE
  /\ mutex = Nobody
  /\ pc = [x \in Threads |-> "dec"]
  /\ alive = TRUE

Goto(x, l) == pc' = [pc EXCEPT ![x] = l]

\* What follows dec(): the caller waits, a worker returns to its loop.
AfterDec(x) == IF x = Caller THEN "wait" ELSE "done"

\* --activeTasks reaches zero.
Triggers == activeTasks = 1

Dec(x) ==
  /\ pc[x] = "dec"
  /\ activeTasks' = activeTasks - 1
  /\ Goto(x, IF Triggers THEN "signal" ELSE AfterDec(x))
  /\ UNCHANGED <<event, mutex, alive>>

-----------------------------------------------------------------------------
(* EventSys::signal()                                                      *)

LockToSignal(x) ==
  /\ pc[x] = "signal" /\ mutex = Nobody
  /\ mutex' = x
  /\ Goto(x, "set")
  /\ UNCHANGED <<activeTasks, event, alive>>

\* Mutant of AfterStep: unlock first, broadcast afterwards.
UnlockFirst(x, l) ==
  [set |-> "unlock", unlock |-> "broadcast", broadcast |-> AfterDec(x)][l]

\* The order of the statements.
AfterStep(x, l) ==
  [set |-> "broadcast", broadcast |-> "unlock", unlock |-> AfterDec(x)][l]

SetEvent(x) ==
  /\ pc[x] = "set"
  /\ event' = TRUE
  /\ Goto(x, AfterStep(x, "set"))
  /\ UNCHANGED <<activeTasks, mutex, alive>>

\* Mutant of Woken: the broadcast reaches nobody.
NobodyWoken == pc

Woken == [y \in Threads |-> IF pc[y] = "asleep" THEN "wait" ELSE pc[y]]

\* Whoever sleeps contends for the mutex again.
Broadcast(x) ==
  /\ pc[x] = "broadcast"
  /\ pc' = [Woken EXCEPT ![x] = AfterStep(x, "broadcast")]
  /\ UNCHANGED <<activeTasks, event, mutex, alive>>

Unlock(x) ==
  /\ pc[x] = "unlock"
  /\ mutex' = Nobody
  /\ Goto(x, AfterStep(x, "unlock"))
  /\ UNCHANGED <<activeTasks, event, alive>>

-----------------------------------------------------------------------------
(* EventSys::wait()                                                        *)

\* The first lock of wait(), and the one that ends every condition wait.
LockToWait(x) ==
  /\ pc[x] = "wait" /\ mutex = Nobody
  /\ mutex' = x
  /\ Goto(x, "check")
  /\ UNCHANGED <<activeTasks, event, alive>>

MayLeave == event

\* pthread_cond_wait releases the mutex and sleeps in one step.
Sleep(x) ==
  /\ pc[x] = "check" /\ ~MayLeave
  /\ mutex' = Nobody
  /\ Goto(x, "asleep")
  /\ UNCHANGED <<activeTasks, event, alive>>

SpuriousWakeup(x) ==
  /\ pc[x] = "asleep"
  /\ Goto(x, "wait")
  /\ UNCHANGED <<activeTasks, event, mutex, alive>>

\* Unlock, return from sync() and leave the scope of the event.
Leave(x) ==
  /\ pc[x] = "check" /\ MayLeave
  /\ mutex' = Nobody
  /\ alive' = FALSE
  /\ Goto(x, "done")
  /\ UNCHANGED <<activeTasks, event>>

-----------------------------------------------------------------------------
Step(x) ==
  \/ Dec(x)
  \/ LockToSignal(x) \/ SetEvent(x) \/ Broadcast(x) \/ Unlock(x)
  \/ LockToWait(x) \/ Sleep(x) \/ Leave(x)

Terminated == (\A x \in Threads : pc[x] = "done") /\ UNCHANGED vars

Next == (\E x \in Threads : Step(x) \/ SpuriousWakeup(x)) \/ Terminated

\* Every thread keeps running, and a thread gets a mutex that is released again
\* and again (while the caller is woken spuriously, again and again).
Fairness == \A x \in Threads : WF_vars(Step(x)) /\ SF_vars(LockToSignal(x))
Spec == Init /\ [][Next]_vars /\ Fairness

-----------------------------------------------------------------------------
Signaling == {"signal", "set", "broadcast", "unlock"}

TypeOK ==
  /\ activeTasks \in Nat
  /\ event \in BOOLEAN /\ alive \in BOOLEAN
  /\ mutex \in Threads \cup {Nobody}
  /\ pc \in [Threads -> Signaling \cup {"dec", "wait", "check", "asleep", "done"}]

\* The caller leaves sync(), and destroys the event, only after everybody else
\* has left dec() and signal(): "this broadcast has to be protected", for after
\* an unlock it could reach a condition variable that is gone.
NoUseAfterDestroy == ~alive => \A x \in Threads : pc[x] = "done"

\* The signal is not missed, whether it comes before the wait, while the caller
\* is about to sleep, or after.
WaitReturns == <>[](pc[Caller] = "done")

-----------------------------------------------------------------------------
(* The inductive invariant.                                                *)

Owing == {x \in Threads : pc[x] = "dec"}

CountInv ==
  /\ activeTasks = Cardinality(Owing)
  /\ \A x \in Threads : pc[x] \in Signaling =>
       activeTasks = 0 /\ \A y \in Threads : pc[y] \in Signaling => y = x

MutexInv ==
  /\ \A x \in Threads : pc[x] \in {"set", "broadcast", "unlock", "check"} <=> mutex = x
  /\ \A x \in Workers : pc[x] \notin {"wait", "check", "asleep"}

FlagInv ==
  /\ event => activeTasks = 0 /\ \A x \in Threads : pc[x] \notin {"signal", "set"}
  /\ \A x \in Threads : pc[x] \in {"broadcast", "unlock"} => event
  /\ alive <=> pc[Caller] # "done"

IInv == TypeOK /\ CountInv /\ MutexInv /\ FlagInv /\ NoUseAfterDestroy
=============================================================================
