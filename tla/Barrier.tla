------------------------------ MODULE Barrier ------------------------------
(***************************************************************************)
(* BarrierSys: full_size threads meet in wait().  The mutex is held from   *)
(* the arrival to the return or to the sleep in the condition variable, so *)
(* that each of the two parts is one step; a woken thread takes the mutex  *)
(* again when it pleases, while others may arrive for the next round.  The *)
(* condition variable of pthreads may also wake a thread that nobody has   *)
(* signaled, and wait(), unlike the one of an event, has no loop: such a   *)
(* thread goes through, and is counted once more when it comes again.      *)
(***************************************************************************)
EXTENDS Integers, FiniteSets

CONSTANTS
  Members,    (* the threads that meet, full_size of them                    *)
  MaxRounds   (* bound: how often a thread arrives                           *)

ASSUME BarrierAssumption ==
  /\ IsFiniteSet(Members) /\ Members # {}
  /\ MaxRounds \in Nat

VARIABLES
  count,      (* of the calls of wait() since the barrier last opened        *)
  at,         (* running, asleep in the condition variable, or woken         *)
  arrived,    (* ghost: how often the thread called wait                     *)
  passed,     (* ghost: how often it returned from it                        *)
  rounds,     (* ghost: how often the barrier opened                         *)
  joined      (* ghost: the round in which the thread last called wait       *)

barrierVars == <<count, at, arrived, passed, rounds, joined>>

full_size == Cardinality(Members)

BarrierInit ==
  /\ count = 0
  /\ at = [t \in Members |-> "running"]
  /\ arrived = [t \in Members |-> 0]
  /\ passed = [t \in Members |-> 0]
  /\ rounds = 0
  /\ joined = [t \in Members |-> 0]

\* The thread that arrives is the last one of the round.
IsLast == count + 1 = full_size

\* wait, up to cond.wait.
Arrive(t) ==
  /\ at[t] = "running" /\ arrived[t] < MaxRounds
  /\ ~IsLast
  /\ count' = count + 1
  /\ at' = [at EXCEPT ![t] = "asleep"]
  /\ arrived' = [arrived EXCEPT ![t] = @ + 1]
  /\ joined' = [joined EXCEPT ![t] = rounds]
  /\ UNCHANGED <<passed, rounds>>

\* Mutant of AllWoken: one thread is signalled, not all of them.
SignalOne ==
  LET asleep == {u \in Members : at[u] = "asleep"}
  IN IF asleep = {} THEN at ELSE [at EXCEPT ![CHOOSE u \in asleep : TRUE] = "woken"]

\* cond.broadcast
AllWoken == [u \in Members |-> IF at[u] = "asleep" THEN "woken" ELSE at[u]]

\* wait of the last thread, which returns at once.
Open(t) ==
  /\ at[t] = "running" /\ arrived[t] < MaxRounds
  /\ IsLast
  /\ count' = 0
  /\ at' = AllWoken
  /\ arrived' = [arrived EXCEPT ![t] = @ + 1]
  /\ passed' = [passed EXCEPT ![t] = @ + 1]
  /\ rounds' = rounds + 1
  /\ joined' = [joined EXCEPT ![t] = rounds]

\* wait, from the return of cond.wait: after a broadcast, or of its own accord.
Return(t) ==
  /\ at[t] \in {"asleep", "woken"}
  /\ at' = [at EXCEPT ![t] = "running"]
  /\ passed' = [passed EXCEPT ![t] = @ + 1]
  /\ UNCHANGED <<count, arrived, rounds, joined>>

BarrierNext == \E t \in Members : Arrive(t) \/ Open(t) \/ Return(t)

BarrierSpec == BarrierInit /\ [][BarrierNext]_barrierVars

(***************************************************************************)
(* Properties.                                                             *)
(***************************************************************************)
(* Types; the count never reaches the number of threads.                   *)
BarrierTypeOK ==
  /\ count \in 0 .. full_size-1
  /\ at \in [Members -> {"running", "asleep", "woken"}]
  /\ arrived \in [Members -> Nat]
  /\ passed \in [Members -> Nat]
  /\ rounds \in Nat
  /\ joined \in [Members -> Nat]

Asleep == {t \in Members : at[t] = "asleep"}

(* Every opening of the barrier releases all the threads that sleep there, *)
(* also when fast threads have come back before those they woke returned,  *)
(* or when some went through unasked and are counted twice; and who sleeps *)
(* is counted, so that the barrier opens for it after full_size calls.     *)
NobodyIsLeftBehind ==
  /\ BarrierTypeOK
  /\ \A t \in Asleep : joined[t] = rounds
  /\ Cardinality(Asleep) <= count

(* What a barrier is for: nobody passes that of a round before everybody   *)
(* has arrived at it.  A thread that is woken unasked does.                *)
NobodyIsAhead == \A t, u \in Members : passed[t] <= arrived[u]
=============================================================================
