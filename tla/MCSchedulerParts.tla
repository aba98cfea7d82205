--------------------------- MODULE MCSchedulerParts ---------------------------
(* What lies below the scheduler: the two primitives that put threads to     *)
(* sleep in a condition variable, the event and the barrier, and the array   *)
(* of its list.  They share nothing: a behaviour is one of one of them.      *)
EXTENDS EventSync, Barrier, TaskQueueRing

VARIABLE part

PartsInit ==
  /\ part \in {"event", "barrier", "ring"}
  /\ Init /\ BarrierInit /\ RingInit

\* Everybody has met for the last time.
BarrierDone ==
  /\ \A t \in Members : at[t] = "running" /\ arrived[t] = MaxRounds
  /\ UNCHANGED barrierVars

PartsNext ==
  \/ part = "event" /\ Next /\ UNCHANGED <<part, barrierVars, ringVars>>
  \/ part = "barrier" /\ (BarrierNext \/ BarrierDone) /\ UNCHANGED <<part, vars, ringVars>>
  \/ part = "ring" /\ RingNext /\ UNCHANGED <<part, vars, barrierVars>>

\* Only behaviours of the event are fair to its threads; of the other parts
\* nothing is asked that takes fairness.
PartsSpec ==
  PartsInit /\ [][PartsNext]_<<part, vars, barrierVars, ringVars>> /\ Fairness
=============================================================================
