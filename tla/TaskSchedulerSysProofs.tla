----------------------- MODULE TaskSchedulerSysProofs -----------------------
(***************************************************************************)
(* Proofs about TaskSchedulerSys for any number of workers, callers, tasks *)
(* and elements: the inductive invariant IInv, and the safety properties   *)
(* that follow from it.  And the refinement: it implements TaskGroups.     *)
(***************************************************************************)
EXTENDS MCTaskSchedulerSys, TLAPS, FiniteSetTheorems, SequenceTheorems

USE SchedulerAssumption

\* The sets the counters are compared with are finite.
LEMMA FiniteParts ==
  ASSUME TypeOK
  PROVE  /\ \A t \in Tasks : IsFiniteSet(Held(t)) /\ Cardinality(Held(t)) \in Nat
         /\ \A c \in Clients :
              /\ IsFiniteSet(Unfinished(c)) /\ Cardinality(Unfinished(c)) \in Nat
              /\ IsFiniteSet(Decrementing(c)) /\ Cardinality(Decrementing(c)) \in Nat
<1>1. ASSUME NEW t \in Tasks PROVE IsFiniteSet(Held(t))
  BY FS_Subset, Held(t) \subseteq Workers DEF Held
<1>2. ASSUME NEW c \in Clients PROVE IsFiniteSet(Unfinished(c))
  BY FS_Subset, Unfinished(c) \subseteq Tasks DEF Unfinished, TypeOK
<1>3. ASSUME NEW c \in Clients PROVE IsFiniteSet(Decrementing(c))
  BY FS_Subset, Decrementing(c) \subseteq Workers DEF Decrementing
<1>4. QED  BY <1>1, <1>2, <1>3, FS_CardinalityType

\* A worker that has not yet counted its element down keeps completed positive.
LEMMA HeldPositive ==
  ASSUME IInv, NEW w \in Workers, pc[w] \in Inside \cup {"start", "count"}
  PROVE  /\ task[w] \in inflight /\ task[w] \in Tasks
         /\ completed[task[w]] > started[task[w]]
<1>1. task[w] \in inflight /\ task[w] \in Tasks
  BY DEF IInv, ControlInv, TypeOK
<1>2. w \in Held(task[w])
  BY DEF Held, Inside
<1>3. Cardinality(Held(task[w])) # 0 /\ Cardinality(Held(task[w])) \in Nat
  BY <1>1, <1>2, FiniteParts, FS_EmptySet DEF IInv
<1>4. QED  BY <1>1, <1>3 DEF IInv, CountInv, TypeOK

\* An unfinished task, a worker about to count down and a caller before sync
\* keep the event of their group from triggering.
LEMMA EventPositive ==
  ASSUME IInv
  PROVE  /\ \A t \in inflight : event[t] \in Clients /\ activeTasks[event[t]] > 0
         /\ \A x \in Threads : pc[x] = "dec" => ev[x] \in Clients /\ activeTasks[ev[x]] > 0
         /\ \A c \in Clients : Hold(c) = 1 => activeTasks[c] > 0
<1> USE DEF IInv
<1>0. \A c \in Clients : Hold(c) \in {0, 1}
  BY DEF Hold
<1>1. ASSUME NEW t \in inflight
      PROVE  event[t] \in Clients /\ activeTasks[event[t]] > 0
  <2>1. event[t] \in Clients  BY DEF ControlInv
  <2>2. t \in Unfinished(event[t])  BY DEF Unfinished
  <2>3. Cardinality(Unfinished(event[t])) # 0
    BY <2>1, <2>2, FiniteParts, FS_EmptySet
  <2>4. QED  BY <1>0, <2>1, <2>3, FiniteParts DEF EventInv
<1>2. ASSUME NEW c \in Clients, Hold(c) = 1 PROVE activeTasks[c] > 0
  BY <1>2, FiniteParts DEF EventInv
<1>3. ASSUME NEW x \in Threads, pc[x] = "dec"
      PROVE  ev[x] \in Clients /\ activeTasks[ev[x]] > 0
  <2>1. CASE x \in Clients
    BY <1>2, <1>3, <2>1 DEF ControlInv, Hold
  <2>2. CASE x \in Workers
    <3>1. ev[x] \in Clients /\ x \in Decrementing(ev[x])
      BY <1>3, <2>2 DEF ControlInv, Decrementing
    <3>2. Cardinality(Decrementing(ev[x])) # 0
      BY <3>1, FiniteParts, FS_EmptySet
    <3>3. QED  BY <1>0, <3>1, <3>2, FiniteParts DEF EventInv
  <2>3. QED  BY <2>1, <2>2 DEF Threads
<1>4. QED  BY <1>1, <1>2, <1>3

\* A caller that sees its flag set has nothing left in its group.
LEMMA SyncedGroupIsEmpty ==
  ASSUME IInv, NEW c \in Clients, c \in signaled, pc[c] # "idle"
  PROVE  /\ activeTasks[c] = 0
         /\ pc[c] = "wait"
         /\ \A t \in inflight : event[t] # c /\ owner[t] # c
         /\ \A x \in Threads : pc[x] \in {"dec", "trigger"} => ev[x] # c
         /\ \A w \in Workers : pc[w] \in Inside => ev[w] # c
<1> USE DEF IInv
<1>1. activeTasks[c] = 0
  BY DEF EventInv
<1>2. \A t \in inflight : event[t] # c /\ owner[t] # c
  BY <1>1, EventPositive DEF ControlInv
<1>3. \A x \in Threads : pc[x] \in {"dec", "trigger"} => ev[x] # c
  BY <1>1, EventPositive DEF EventInv
<1>4. pc[c] = "wait"
  <2>1. pc[c] \in ClientPC  BY DEF TypeOK
  <2>2. Hold(c) # 1  BY <1>1, EventPositive
  <2>3. pc[c] # "trigger"  BY <1>3 DEF ControlInv, Threads
  <2>4. QED  BY <2>1, <2>2, <2>3 DEF ClientPC, Hold
<1>5. \A w \in Workers : pc[w] \in Inside => ev[w] # c
  BY <1>2 DEF ControlInv
<1>6. QED  BY <1>1, <1>2, <1>3, <1>4, <1>5

\* A thread that adds a task, or counts an event down, knows its event.
LEMMA EventKnown ==
  ASSUME IInv, NEW x \in Threads,
         pc[x] \in Inside \cup {"open", "dec", "trigger"}
  PROVE  ev[x] \in Clients
<1> USE DEF IInv, ControlInv
<1>1. CASE x \in Clients
  BY <1>1 DEF Inside
<1>2. CASE x \in Workers
  <2>1. CASE pc[x] \in {"dec", "trigger"}
    BY <1>2, <2>1
  <2>2. CASE pc[x] \in Inside
    <3>1. task[x] \in inflight /\ ev[x] = event[task[x]]
      BY <1>2, <2>2
    <3>2. QED  BY <3>1
  <2>3. CASE pc[x] = "open"
    BY <1>2, <2>3 DEF TypeOK, WorkerPC
  <2>4. QED  BY <2>1, <2>2, <2>3
<1>3. QED  BY <1>1, <1>2 DEF Threads

-----------------------------------------------------------------------------
(* One lemma per part of the invariant; in each, one step per action.      *)

\* Every action assigns values of the right type; a task leaves the set of live ones
\* only when it is complete or its caller returns.
LEMMA TypeStep == IInv /\ [Next]_vars => TypeOK'
<1> SUFFICES ASSUME IInv, [Next]_vars PROVE TypeOK'
  OBVIOUS
<1> USE DEF TypeOK, Threads, WorkerPC, ClientPC, Goto, taskVars, eventVars, stopVars
<1>t. TypeOK  BY DEF IInv
<1>1. ASSUME NEW w \in Workers, Sleep(w) PROVE TypeOK'
  BY <1>t, <1>1 DEF Sleep
<1>2. ASSUME NEW w \in Workers, SpuriousWakeup(w) PROVE TypeOK'
  BY <1>t, <1>2 DEF SpuriousWakeup
<1>3. ASSUME NEW w \in Workers, Exit(w) PROVE TypeOK'
  BY <1>t, <1>3 DEF Exit
<1>4. ASSUME NEW w \in Workers, Take(w) PROVE TypeOK'
  <2> DEFINE t == queue[Len(queue)]
  <2>1. t \in Tasks /\ started[t] > 0 /\ started[t] - 1 \in Nat
    BY <1>t, <1>4 DEF Take, IInv, QueueInv
  <2>2. queue' \in Seq(Tasks)
    BY <1>t, <1>4 DEF Take
  <2>3. started' \in [Tasks -> Nat] /\ elt' \in [Threads -> Nat] /\ task' \in [Threads -> Tasks \cup {Null}]
    BY <1>t, <1>4, <2>1 DEF Take
  <2>4. QED  BY <1>t, <1>4, <2>2, <2>3 DEF Take
<1>5. ASSUME NEW w \in Workers, StartRun(w) PROVE TypeOK'
  BY <1>t, <1>5, HeldPositive DEF StartRun
<1>6. ASSUME NEW w \in Workers, RunReturns(w) PROVE TypeOK'
  <2>1. task[w] \in Tasks
    BY <1>6, HeldPositive DEF RunReturns, Inside
  <2>2. QED  BY <1>t, <1>6, <2>1 DEF RunReturns
<1>7. ASSUME NEW w \in Workers, Count(w) PROVE TypeOK'
  <2>1. task[w] \in Tasks /\ completed[task[w]] - 1 \in Nat
    BY <1>t, <1>7, HeldPositive DEF Count
  <2>2. QED  BY <1>t, <1>7, <2>1 DEF Count
<1>8. ASSUME NEW w \in Workers, Complete(w) PROVE TypeOK'
  BY <1>t, <1>8 DEF Complete
<1>9. ASSUME NEW x \in Threads, AddInc(x) PROVE TypeOK'
  <2>1. ev[x] \in Clients
    BY <1>9, EventKnown DEF AddInc, Inside
  <2>2. PICK t \in Tasks \ live, n \in 1..MaxElts : AddInc(x)!(t, n)
    BY <1>9 DEF AddInc
  <2>3. activeTasks' \in [Clients -> Nat] /\ credit' \in [Clients -> Nat]
    BY <1>t, <2>1, <2>2
  <2>4. pc' \in [Threads -> WorkerPC \cup ClientPC]
    BY <1>t, <2>2
  <2>5. \A w \in Workers : pc'[w] \in WorkerPC
    BY <1>t, <2>2
  <2>6. \A c \in Clients : pc'[c] \in ClientPC
    BY <1>t, <2>2
  <2>7. /\ elts' \in [Tasks -> Nat] /\ started' \in [Tasks -> Nat]
        /\ completed' \in [Tasks -> Nat] /\ done' \in [Tasks -> SUBSET Nat]
    BY <1>t, <2>2 DEF Construct
  <2>8. /\ event' \in [Tasks -> Clients \cup {Null}]
        /\ owner' \in [Tasks -> Clients \cup {Null}]
    BY <1>t, <2>1, <2>2 DEF Construct
  <2>9. /\ live' \subseteq Tasks /\ inflight' \subseteq live'
        /\ adding' \in [Threads -> Tasks \cup {Null}]
    BY <1>t, <2>2 DEF Construct
  <2>10. UNCHANGED <<queue, eventLive, signaled, task, elt, ev, stopVars>>
    BY <2>2
  <2>11. QED
    BY <1>t, <2>3, <2>4, <2>5, <2>6, <2>7, <2>8, <2>9, <2>10
<1>10. ASSUME NEW x \in Threads, AddPush(x) PROVE TypeOK'
  <2>1. adding[x] \in Tasks
    BY <1>t, <1>10 DEF AddPush, IInv, QueueInv
  <2>2. queue' \in Seq(Tasks)
    <3>1. <<adding[x]>> \in Seq(Tasks) /\ queue \in Seq(Tasks)
      BY <1>t, <2>1
    <3>2. <<adding[x]>> \o queue \in Seq(Tasks)
      BY <3>1, ConcatProperties
    <3>3. Append(queue, adding[x]) \in Seq(Tasks)
      BY <2>1, <3>1, AppendProperties
    <3>4. QED  BY <1>10, <3>2, <3>3 DEF AddPush
  <2>3. QED  BY <1>t, <1>10, <2>2 DEF AddPush
<1>11. ASSUME NEW x \in Threads, AddBroadcast(x) PROVE TypeOK'
  BY <1>t, <1>11 DEF AddBroadcast, Woken
<1>12. ASSUME NEW x \in Threads, Dec(x) PROVE TypeOK'
  <2>1. ev[x] \in Clients /\ activeTasks[ev[x]] - 1 \in Nat
    BY <1>t, <1>12, EventPositive DEF Dec
  <2>2. QED  BY <1>t, <1>12, <2>1 DEF Dec, AfterDec
<1>13. ASSUME NEW x \in Threads, Trigger(x) PROVE TypeOK'
  <2>1. ev[x] \in Clients
    BY <1>13, EventKnown DEF Trigger
  <2>2. QED  BY <1>t, <1>13, <2>1 DEF Trigger, AfterDec
<1>14. ASSUME NEW c \in Clients, Open(c) PROVE TypeOK'
  BY <1>t, <1>14 DEF Open
<1>15. ASSUME NEW c \in Clients, Sync(c) PROVE TypeOK'
  BY <1>t, <1>15 DEF Sync
<1>16. ASSUME NEW c \in Clients, Return(c) PROVE TypeOK'
  <2>1. inflight' \subseteq live'
    BY <1>t, <1>16, SyncedGroupIsEmpty DEF Return, SyncDone
  <2>2. QED  BY <1>t, <1>16, <2>1 DEF Return
<1>17. CASE Terminate
  BY <1>t, <1>17 DEF Terminate
<1>18. CASE TerminateBroadcast
  BY <1>t, <1>18 DEF TerminateBroadcast, Woken
<1>19. CASE Join
  BY <1>t, <1>19 DEF Join
<1>20. CASE Create
  BY <1>t, <1>20 DEF Create
<1>21. CASE UNCHANGED vars
  BY <1>t, <1>21 DEF vars
<1>22. QED
  BY <1>1, <1>2, <1>3, <1>4, <1>5, <1>6, <1>7, <1>8, <1>9, <1>10, <1>11, <1>12,
     <1>13, <1>14, <1>15, <1>16, <1>17, <1>18, <1>19, <1>20, <1>21
  DEF Next, WorkerStep, GroupStep

\* An address at which a Task may be constructed is referred to by nobody.
LEMMA FreeAddress ==
  ASSUME IInv, NEW t \in Tasks \ live
  PROVE  /\ t \notin inflight
         /\ \A w \in Workers : task[w] # t
         /\ \A i \in DOMAIN queue : queue[i] # t
         /\ \A x \in Threads : pc[x] = "push" => adding[x] # t
<1>1. t \notin inflight /\ t # Null
  BY DEF IInv, TypeOK
<1>2. QED  BY <1>1 DEF IInv, ControlInv, QueueInv

\* The worker that completes a task is alone with it.
LEMMA CompleteAlone ==
  ASSUME IInv, NEW w \in Workers, pc[w] = "complete"
  PROVE  /\ task[w] \in inflight /\ task[w] \in Tasks
         /\ started[task[w]] = 0
         /\ \A v \in Workers : task[v] = task[w] => v = w
         /\ \A i \in DOMAIN queue : queue[i] # task[w]
         /\ \A x \in Threads : pc[x] = "push" => adding[x] # task[w]
<1>1. task[w] \in inflight /\ task[w] \in Tasks
  BY DEF IInv, ControlInv, TypeOK
<1>2. started[task[w]] \in Nat /\ completed[task[w]] = 0
  BY <1>1 DEF IInv, CountInv, TypeOK
<1>3. Cardinality(Held(task[w])) \in Nat
  BY <1>1, FiniteParts DEF IInv
<1>4. started[task[w]] = 0 /\ Cardinality(Held(task[w])) = 0
  BY <1>1, <1>2, <1>3 DEF IInv, CountInv
<1>5. Held(task[w]) = {}
  BY <1>1, <1>4, FiniteParts, FS_EmptySet DEF IInv
<1>6. \A v \in Workers : task[v] = task[w] => v = w
  BY <1>5 DEF Held, IInv, CountInv
<1>7. QED  BY <1>1, <1>4, <1>6 DEF IInv, QueueInv

\* The locals of a thread name a live task and an open event in every phase in which
\* it uses them.
LEMMA ControlStep == IInv /\ [Next]_vars => ControlInv'
<1> SUFFICES ASSUME IInv, [Next]_vars PROVE ControlInv'
  OBVIOUS
<1> USE DEF ControlInv, Inside, Threads, Goto, taskVars, eventVars, stopVars
<1>t. /\ pc \in [Threads -> WorkerPC \cup ClientPC]
      /\ task \in [Threads -> Tasks \cup {Null}]
      /\ ev \in [Threads -> Clients \cup {Null}]
      /\ event \in [Tasks -> Clients \cup {Null}]
      /\ owner \in [Tasks -> Clients \cup {Null}]
      /\ inflight \subseteq Tasks
      /\ \A w \in Workers : pc[w] \in WorkerPC
      /\ \A c \in Clients : pc[c] \in ClientPC
  BY DEF IInv, TypeOK
<1>k. ControlInv  BY DEF IInv
<1>1. ASSUME NEW w \in Workers, Sleep(w) PROVE ControlInv'
  BY <1>t, <1>1, <1>k DEF Sleep
<1>2. ASSUME NEW w \in Workers, SpuriousWakeup(w) PROVE ControlInv'
  BY <1>t, <1>2, <1>k DEF SpuriousWakeup
<1>3. ASSUME NEW w \in Workers, Exit(w) PROVE ControlInv'
  BY <1>t, <1>3, <1>k DEF Exit
<1>4. ASSUME NEW w \in Workers, Take(w) PROVE ControlInv'
  <2>1. queue[Len(queue)] \in inflight /\ queue[Len(queue)] \in Tasks
    BY <1>4 DEF Take, IInv, QueueInv, TypeOK
  <2>2. QED  BY <1>t, <1>k, <1>4, <2>1 DEF Take
<1>5. ASSUME NEW w \in Workers, StartRun(w) PROVE ControlInv'
  BY <1>t, <1>5, <1>k DEF StartRun
<1>6. ASSUME NEW w \in Workers, RunReturns(w) PROVE ControlInv'
  BY <1>t, <1>6, <1>k DEF RunReturns
<1>7. ASSUME NEW w \in Workers, Count(w) PROVE ControlInv'
  BY <1>t, <1>7, <1>k DEF Count
<1>8. ASSUME NEW w \in Workers, Complete(w) PROVE ControlInv'
  BY <1>t, <1>8, <1>k, CompleteAlone DEF Complete
<1>9. ASSUME NEW x \in Threads, AddInc(x) PROVE ControlInv'
  <2>1. ev[x] \in Clients
    BY <1>9, EventKnown DEF AddInc
  <2>2. PICK t \in Tasks \ live, n \in 1..MaxElts : AddInc(x)!(t, n)
    BY <1>9 DEF AddInc
  <2>3. t \notin inflight /\ \A w \in Workers : task[w] # t
    BY <2>2, FreeAddress
  <2>4. /\ \A u \in inflight' : u # t => u \in inflight
        /\ event' = [event EXCEPT ![t] = ev[x]]
        /\ owner' = [owner EXCEPT ![t] = IF x \in Clients THEN x ELSE Null]
        /\ inflight' = inflight \cup {t}
        /\ pc' = [pc EXCEPT ![x] = "push"]
        /\ UNCHANGED <<task, ev, eventLive>>
    BY <2>2 DEF Construct
  <2>5. pc[x] \in {"open", "run"} /\ (x \in Clients => ev[x] = x)
    BY <1>t, <1>k, <2>2
  <2>6. /\ \A u \in inflight' : event'[u] \in Clients
        /\ \A u \in inflight' : owner'[u] = Null \/ owner'[u] = event'[u]
    BY <1>t, <1>k, <2>1, <2>2, <2>4, <2>5
  <2>7. \A c \in Clients : /\ pc'[c] # "idle" => ev'[c] = c
                           /\ c \in eventLive' <=> pc'[c] # "idle"
    BY <1>t, <1>k, <2>4, <2>5
  <2>8. ASSUME NEW w \in Workers
        PROVE  /\ task'[w] # Null <=> pc'[w] \in Inside \cup {"start", "count", "complete"}
               /\ task'[w] # Null => task'[w] \in inflight'
               /\ pc'[w] \in Inside \cup {"count", "complete"} => ev'[w] = event'[task'[w]]
               /\ pc'[w] \in {"dec", "trigger"} => ev'[w] \in Clients
    <3>1. w = x => pc[w] = "run"
      BY <1>t, <2>5, <2>8 DEF WorkerPC
    <3>2. event'[task[w]] = event[task[w]] \/ task[w] = Null
      BY <1>t, <2>3, <2>4
    <3>3. QED  BY <1>t, <1>k, <2>4, <3>1, <3>2
  <2>9. QED  BY <2>6, <2>7, <2>8
<1>10. ASSUME NEW x \in Threads, AddPush(x) PROVE ControlInv'
  BY <1>t, <1>10, <1>k DEF AddPush
<1>11. ASSUME NEW x \in Threads, AddBroadcast(x) PROVE ControlInv'
  BY <1>t, <1>k, <1>11 DEF AddBroadcast, Woken
<1>12. ASSUME NEW x \in Threads, Dec(x) PROVE ControlInv'
  BY <1>t, <1>k, <1>12 DEF Dec, AfterDec
<1>13. ASSUME NEW x \in Threads, Trigger(x) PROVE ControlInv'
  BY <1>t, <1>k, <1>13 DEF Trigger, AfterDec
<1>14. ASSUME NEW c \in Clients, Open(c) PROVE ControlInv'
  BY <1>t, <1>14, <1>k DEF Open
<1>15. ASSUME NEW c \in Clients, Sync(c) PROVE ControlInv'
  BY <1>t, <1>15, <1>k DEF Sync
<1>16. ASSUME NEW c \in Clients, Return(c) PROVE ControlInv'
  BY <1>t, <1>k, <1>16, SyncedGroupIsEmpty DEF Return, SyncDone
<1>17. CASE Terminate
  BY <1>t, <1>17, <1>k DEF Terminate
<1>18. CASE TerminateBroadcast
  BY <1>t, <1>k, <1>18 DEF TerminateBroadcast, Woken
<1>19. CASE Join
  BY <1>t, <1>19, <1>k DEF Join
<1>20. CASE Create
  BY <1>t, <1>20, <1>k DEF Create, IInv, PhaseInv
<1>21. CASE UNCHANGED vars
  BY <1>t, <1>21, <1>k DEF vars, taskVars, eventVars, stopVars
<1>22. QED
  BY <1>1, <1>2, <1>3, <1>4, <1>5, <1>6, <1>7, <1>8, <1>9, <1>10, <1>11, <1>12,
     <1>13, <1>14, <1>15, <1>16, <1>17, <1>18, <1>19, <1>20, <1>21
  DEF Next, WorkerStep, GroupStep

\* A task is in the list exactly while elements of it are not started, and once:
\* insertion, and removal with the last element, keep it so.
LEMMA QueueStep == IInv /\ [Next]_vars => QueueInv'
<1> SUFFICES ASSUME IInv, [Next]_vars PROVE QueueInv'
  OBVIOUS
<1> USE DEF QueueInv, Threads, Goto, taskVars, eventVars, stopVars
<1>t. /\ pc \in [Threads -> WorkerPC \cup ClientPC]
      /\ adding \in [Threads -> Tasks \cup {Null}]
      /\ started \in [Tasks -> Nat]
      /\ inflight \subseteq Tasks
      /\ queue \in Seq(Tasks)
  BY DEF IInv, TypeOK
<1>k. QueueInv  BY DEF IInv
<1>1. ASSUME NEW w \in Workers, Sleep(w) PROVE QueueInv'
  BY <1>t, <1>1, <1>k DEF Sleep
<1>2. ASSUME NEW w \in Workers, SpuriousWakeup(w) PROVE QueueInv'
  BY <1>t, <1>2, <1>k DEF SpuriousWakeup
<1>3. ASSUME NEW w \in Workers, Exit(w) PROVE QueueInv'
  BY <1>t, <1>3, <1>k DEF Exit
<1>4. ASSUME NEW w \in Workers, Take(w) PROVE QueueInv'
  <2> DEFINE t == queue[Len(queue)]
  <2>1. Len(queue) \in DOMAIN queue /\ t \in inflight /\ started[t] > 0 /\ t \in Tasks
    BY <1>t, <1>k, <1>4 DEF Take
  <2>2. \A u \in Tasks : u # t => started'[u] = started[u]
    BY <1>t, <1>4, <2>1 DEF Take
  <2>3. CASE started[t] = 1
    <3>1. queue' = SubSeq(queue, 1, Len(queue) - 1)
      BY <1>4, <2>3 DEF Take, LastElement
    <3>2. /\ DOMAIN queue' = 1 .. Len(queue) - 1
          /\ \A i \in DOMAIN queue' : i \in DOMAIN queue /\ queue'[i] = queue[i] /\ i # Len(queue)
      BY <1>t, <2>1, <3>1
    <3>3. \A i \in DOMAIN queue' : queue'[i] # t
      BY <1>k, <2>1, <3>2
    <3>4. \A x \in Threads : pc'[x] = "push" => pc[x] = "push" /\ adding[x] # t
      BY <1>t, <1>k, <1>4, <2>1 DEF Take
    <3>5. UNCHANGED <<inflight, adding>>
      BY <1>4 DEF Take
    <3>6. QED  BY <1>t, <1>k, <2>2, <3>2, <3>3, <3>4, <3>5
  <2>4. CASE started[t] # 1
    <3>1. queue' = queue
      BY <1>4, <2>4 DEF Take, LastElement
    <3>2. started'[t] > 0
      BY <1>t, <1>4, <2>1, <2>4 DEF Take
    <3>3. \A x \in Threads : pc'[x] = "push" => pc[x] = "push" /\ adding[x] # t
      BY <1>t, <1>k, <1>4, <2>1 DEF Take
    <3>4. UNCHANGED <<inflight, adding>>
      BY <1>4 DEF Take
    <3>5. QED  BY <1>t, <1>k, <2>2, <3>1, <3>2, <3>3, <3>4
  <2>5. QED  BY <2>3, <2>4
<1>5. ASSUME NEW w \in Workers, StartRun(w) PROVE QueueInv'
  BY <1>t, <1>5, <1>k DEF StartRun
<1>6. ASSUME NEW w \in Workers, RunReturns(w) PROVE QueueInv'
  BY <1>t, <1>6, <1>k DEF RunReturns
<1>7. ASSUME NEW w \in Workers, Count(w) PROVE QueueInv'
  BY <1>t, <1>7, <1>k DEF Count
<1>8. ASSUME NEW w \in Workers, Complete(w) PROVE QueueInv'
  BY <1>t, <1>k, <1>8, CompleteAlone DEF Complete
<1>9. ASSUME NEW x \in Threads, AddInc(x) PROVE QueueInv'
  <2>2. PICK t \in Tasks \ live, n \in 1..MaxElts : AddInc(x)!(t, n)
    BY <1>9 DEF AddInc
  <2>3. /\ t \notin inflight /\ \A i \in DOMAIN queue : queue[i] # t
        /\ \A y \in Threads : pc[y] = "push" => adding[y] # t
    BY <2>2, FreeAddress
  <2>4. /\ \A u \in Tasks : u # t => started'[u] = started[u]
        /\ started'[t] = n /\ n > 0
        /\ inflight' = inflight \cup {t}
        /\ adding' = [adding EXCEPT ![x] = t]
        /\ pc' = [pc EXCEPT ![x] = "push"]
        /\ queue' = queue
    BY <1>t, <2>2 DEF Construct
  <2>5. \A y \in Threads : pc'[y] = "push" =>
          (y = x /\ adding'[y] = t) \/ (pc[y] = "push" /\ adding'[y] = adding[y])
    BY <1>t, <2>4
  <2>6. QED  BY <1>t, <1>k, <2>3, <2>4, <2>5
<1>10. ASSUME NEW x \in Threads, AddPush(x) PROVE QueueInv'
  <2> DEFINE t == adding[x]
  <2>1. /\ t \in inflight /\ started[t] > 0 /\ t \in Tasks
        /\ \A i \in DOMAIN queue : queue[i] # t
        /\ \A y \in Threads : pc[y] = "push" /\ adding[y] = t => y = x
    BY <1>t, <1>k, <1>10 DEF AddPush
  <2>2. UNCHANGED <<started, inflight, adding>> /\ pc' = [pc EXCEPT ![x] = "broadcast"]
    BY <1>10 DEF AddPush
  <2>3. \A y \in Threads : pc'[y] = "push" => pc[y] = "push" /\ adding[y] # t
    BY <1>t, <2>1, <2>2
  <2>4. /\ \A i \in DOMAIN queue' : queue'[i] = t \/ \E k \in DOMAIN queue : queue'[i] = queue[k]
        /\ \A i, j \in DOMAIN queue' : queue'[i] = queue'[j] => i = j
    <3>1. CASE queue' = Append(queue, t)
      BY <1>t, <1>k, <2>1, <3>1, AppendProperties
    <3>2. CASE queue' = <<t>> \o queue
      <4>1. <<t>> \in Seq(Tasks) /\ Len(<<t>>) = 1 /\ <<t>>[1] = t
        BY <2>1
      <4>2. /\ DOMAIN queue' = 1 .. 1 + Len(queue)
            /\ \A i \in 1 .. 1 + Len(queue) : queue'[i] = IF i = 1 THEN t ELSE queue[i-1]
        BY <1>t, <3>2, <4>1, ConcatProperties
      <4>3. \A i \in DOMAIN queue' : i # 1 => i-1 \in DOMAIN queue
        BY <1>t, <4>2
      <4>4. ASSUME NEW i \in DOMAIN queue', NEW j \in DOMAIN queue', queue'[i] = queue'[j]
            PROVE  i = j
        <5>1. CASE i = 1 \/ j = 1
          BY <2>1, <4>2, <4>3, <4>4, <5>1
        <5>2. CASE i # 1 /\ j # 1
          <6>1. queue[i-1] = queue[j-1] /\ i-1 \in DOMAIN queue /\ j-1 \in DOMAIN queue
            BY <4>2, <4>3, <4>4, <5>2
          <6>2. i-1 = j-1  BY <1>k, <6>1
          <6>3. QED  BY <1>t, <4>2, <6>2
        <5>3. QED  BY <5>1, <5>2
      <4>5. QED  BY <4>2, <4>3, <4>4
    <3>3. QED  BY <1>10, <3>1, <3>2 DEF AddPush
  <2>5. QED  BY <1>k, <2>1, <2>2, <2>3, <2>4
<1>11. ASSUME NEW x \in Threads, AddBroadcast(x) PROVE QueueInv'
  BY <1>t, <1>k, <1>11 DEF AddBroadcast, Woken
<1>12. ASSUME NEW x \in Threads, Dec(x) PROVE QueueInv'
  BY <1>t, <1>k, <1>12 DEF Dec, AfterDec
<1>13. ASSUME NEW x \in Threads, Trigger(x) PROVE QueueInv'
  BY <1>t, <1>k, <1>13 DEF Trigger, AfterDec
<1>14. ASSUME NEW c \in Clients, Open(c) PROVE QueueInv'
  BY <1>t, <1>14, <1>k DEF Open
<1>15. ASSUME NEW c \in Clients, Sync(c) PROVE QueueInv'
  BY <1>t, <1>15, <1>k DEF Sync
<1>16. ASSUME NEW c \in Clients, Return(c) PROVE QueueInv'
  BY <1>t, <1>16, <1>k DEF Return
<1>17. CASE Terminate
  BY <1>t, <1>17, <1>k DEF Terminate
<1>18. CASE TerminateBroadcast
  BY <1>t, <1>k, <1>18 DEF TerminateBroadcast, Woken
<1>19. CASE Join
  BY <1>t, <1>19, <1>k DEF Join
<1>20. CASE Create
  BY <1>t, <1>20, <1>k DEF Create
<1>21. CASE UNCHANGED vars
  BY <1>t, <1>21, <1>k DEF vars, taskVars, eventVars, stopVars
<1>22. QED
  BY <1>1, <1>2, <1>3, <1>4, <1>5, <1>6, <1>7, <1>8, <1>9, <1>10, <1>11, <1>12,
     <1>13, <1>14, <1>15, <1>16, <1>17, <1>18, <1>19, <1>20, <1>21
  DEF Next, WorkerStep, GroupStep

\* completed counts the elements that are still in the list or with a worker: taking
\* an element moves it from one to the other, counting it down removes it.
LEMMA CountStep == IInv /\ [Next]_vars => CountInv'
<1> SUFFICES ASSUME IInv, [Next]_vars PROVE CountInv'
  OBVIOUS
<1> USE DEF CountInv, Threads, Goto, taskVars, eventVars, stopVars
<1>t. /\ pc \in [Threads -> WorkerPC \cup ClientPC]
      /\ task \in [Threads -> Tasks \cup {Null}]
      /\ started \in [Tasks -> Nat] /\ completed \in [Tasks -> Nat]
      /\ inflight \subseteq Tasks
      /\ \A t \in Tasks : IsFiniteSet(Held(t)) /\ Cardinality(Held(t)) \in Nat
  BY FiniteParts DEF IInv, TypeOK
<1>k. CountInv  BY DEF IInv
<1>q. ASSUME /\ UNCHANGED <<started, completed, inflight, task>>
             /\ \A w \in Workers : pc'[w] = "complete" <=> pc[w] = "complete"
      PROVE  CountInv'
  <2>1. \A t \in Tasks : Held(t)' = Held(t)
    BY <1>q DEF Held
  <2>2. QED  BY <1>t, <1>k, <1>q, <2>1
<1>1. ASSUME NEW w \in Workers, Sleep(w) PROVE CountInv'
  BY <1>t, <1>q, <1>1 DEF Sleep
<1>2. ASSUME NEW w \in Workers, SpuriousWakeup(w) PROVE CountInv'
  BY <1>t, <1>q, <1>2 DEF SpuriousWakeup
<1>3. ASSUME NEW w \in Workers, Exit(w) PROVE CountInv'
  BY <1>t, <1>q, <1>3 DEF Exit
<1>4. ASSUME NEW w \in Workers, Take(w) PROVE CountInv'
  <2>0. PICK t : t = queue[Len(queue)]
    OBVIOUS
  <2>1. t \in inflight /\ t \in Tasks /\ started[t] > 0
    BY <1>t, <1>4, <2>0 DEF Take, IInv, QueueInv
  <2>2. task[w] = Null /\ pc[w] = "top"
    BY <1>4 DEF Take, IInv, ControlInv, Inside
  <2>3. /\ started' = [started EXCEPT ![t] = started[t] - 1]
        /\ task' = [task EXCEPT ![w] = t] /\ pc' = [pc EXCEPT ![w] = "start"]
        /\ UNCHANGED <<completed, inflight>>
    BY <1>4, <2>0 DEF Take
  <2>4. Held(t)' = Held(t) \cup {w} /\ w \notin Held(t)
    BY <1>t, <2>1, <2>2, <2>3 DEF Held
  <2>5. Cardinality(Held(t)') = Cardinality(Held(t)) + 1
    BY <1>t, <2>1, <2>4, FS_AddElement
  <2>6. \A u \in Tasks : u # t => Held(u)' = Held(u)
    BY <1>t, <2>1, <2>2, <2>3 DEF Held
  <2>7. ASSUME NEW u \in inflight'
        PROVE  completed'[u] = started'[u] + Cardinality(Held(u)')
    <3>1. CASE u = t
      BY <1>t, <1>k, <2>1, <2>3, <2>5, <3>1
    <3>2. CASE u # t
      BY <1>t, <1>k, <2>3, <2>6, <2>7, <3>2
    <3>3. QED  BY <3>1, <3>2
  <2>8. \A v \in Workers : pc'[v] = "complete" => pc[v] = "complete" /\ task'[v] = task[v]
    BY <1>t, <2>2, <2>3
  <2>9. QED  BY <1>t, <1>k, <2>3, <2>7, <2>8
<1>5. ASSUME NEW w \in Workers, StartRun(w) PROVE CountInv'
  BY <1>t, <1>q, <1>5 DEF StartRun
<1>6. ASSUME NEW w \in Workers, RunReturns(w) PROVE CountInv'
  BY <1>t, <1>q, <1>6 DEF RunReturns
<1>7. ASSUME NEW w \in Workers, Count(w) PROVE CountInv'
  <2>0. PICK t : t = task[w]
    OBVIOUS
  <2>1. t \in inflight /\ t \in Tasks /\ completed[t] > started[t] /\ pc[w] = "count"
    BY <1>7, <2>0, HeldPositive DEF Count
  <2>2. w \in Held(t)
    BY <2>0, <2>1 DEF Held
  <2>3. /\ completed' = [completed EXCEPT ![t] = completed[t] - 1]
        /\ UNCHANGED <<started, inflight>>
    BY <1>7, <2>0 DEF Count
  <2>4. /\ Held(t)' = Held(t) \ {w}
        /\ \A u \in Tasks : u # t => Held(u)' = Held(u)
    BY <1>t, <1>7, <2>0, <2>1 DEF Count, Held
  <2>5. Cardinality(Held(t)') = Cardinality(Held(t)) - 1
    BY <1>t, <2>1, <2>2, <2>4, FS_RemoveElement
  <2>6. ASSUME NEW u \in inflight'
        PROVE  completed'[u] = started'[u] + Cardinality(Held(u)')
    <3>1. CASE u = t
      BY <1>t, <1>k, <2>1, <2>3, <2>5, <3>1
    <3>2. CASE u # t
      BY <1>t, <1>k, <2>3, <2>4, <2>6, <3>2
    <3>3. QED  BY <3>1, <3>2
  <2>7. \A v \in Workers : pc'[v] = "complete" =>
          \/ v = w /\ completed[t] = 1 /\ task'[v] = t
          \/ v # w /\ pc[v] = "complete" /\ task'[v] = task[v] /\ task[v] # t
    <3>1. \A v \in Workers : pc[v] = "complete" => task[v] # t
      BY <1>t, <1>k, <2>0, <2>1
    <3>2. QED  BY <1>t, <3>1, <1>7, <2>0, <2>1 DEF Count, Completes
  <2>8. \A v \in Workers : pc'[v] = "complete" => completed'[task'[v]] = 0
    BY <1>t, <1>k, <2>1, <2>3, <2>7
  <2>9. QED  BY <1>k, <2>6, <2>7, <2>8
<1>8. ASSUME NEW w \in Workers, Complete(w) PROVE CountInv'
  <2> DEFINE t == task[w]
  <2>1. t \in Tasks /\ \A v \in Workers : task[v] = t => v = w
    BY <1>8, CompleteAlone DEF Complete
  <2>2. \A u \in Tasks : u # t => Held(u)' = Held(u)
    BY <1>t, <1>8, <2>1 DEF Complete, Held
  <2>3. \A v \in Workers : pc'[v] = "complete" => pc[v] = "complete" /\ task'[v] = task[v] /\ v # w
    BY <1>t, <1>8 DEF Complete
  <2>4. UNCHANGED <<started, completed>> /\ inflight' = inflight \ {t}
    BY <1>8 DEF Complete
  <2>5. QED  BY <1>t, <1>k, <2>1, <2>2, <2>3, <2>4
<1>9. ASSUME NEW x \in Threads, AddInc(x) PROVE CountInv'
  <2>2. PICK t \in Tasks \ live, n \in 1..MaxElts : AddInc(x)!(t, n)
    BY <1>9 DEF AddInc
  <2>3. t \notin inflight /\ \A w \in Workers : task[w] # t
    BY <2>2, FreeAddress
  <2>4. /\ \A u \in Tasks : u # t => started'[u] = started[u] /\ completed'[u] = completed[u]
        /\ started'[t] = n /\ completed'[t] = n
        /\ inflight' = inflight \cup {t}
        /\ pc' = [pc EXCEPT ![x] = "push"] /\ pc[x] \in {"open", "run"}
        /\ task' = task
    BY <1>t, <2>2 DEF Construct
  <2>5. \A v \in Workers : pc'[v] = "complete" <=> pc[v] = "complete"
    BY <1>t, <2>4
  <2>6. \A u \in Tasks : Held(u)' = Held(u)
    BY <2>4, <2>5 DEF Held
  <2>7. Held(t) = {}
    BY <2>3 DEF Held
  <2>8. Cardinality(Held(t)') = 0
    BY <2>6, <2>7, FS_EmptySet
  <2>9. \A u \in inflight' : completed'[u] = started'[u] + Cardinality(Held(u)')
    BY <1>t, <1>k, <2>4, <2>6, <2>8
  <2>10. \A v \in Workers : pc'[v] = "complete" => task[v] # t /\ task[v] \in inflight
    BY <2>3, <2>5 DEF IInv, ControlInv
  <2>11. \A v \in Workers : pc'[v] = "complete" => completed'[task'[v]] = 0
    BY <1>t, <1>k, <2>4, <2>5, <2>10
  <2>12. QED  BY <1>k, <2>4, <2>5, <2>9, <2>11
<1>10. ASSUME NEW x \in Threads, AddPush(x) PROVE CountInv'
  BY <1>t, <1>q, <1>10 DEF AddPush
<1>11. ASSUME NEW x \in Threads, AddBroadcast(x) PROVE CountInv'
  BY <1>t, <1>q, <1>11 DEF AddBroadcast, Woken
<1>12. ASSUME NEW x \in Threads, Dec(x) PROVE CountInv'
  BY <1>t, <1>q, <1>12 DEF Dec, AfterDec
<1>13. ASSUME NEW x \in Threads, Trigger(x) PROVE CountInv'
  BY <1>t, <1>q, <1>13 DEF Trigger, AfterDec
<1>14. ASSUME NEW c \in Clients, Open(c) PROVE CountInv'
  BY <1>t, <1>q, <1>14 DEF Open
<1>15. ASSUME NEW c \in Clients, Sync(c) PROVE CountInv'
  BY <1>t, <1>q, <1>15 DEF Sync
<1>16. ASSUME NEW c \in Clients, Return(c) PROVE CountInv'
  BY <1>t, <1>q, <1>16 DEF Return
<1>17. CASE Terminate
  BY <1>t, <1>q, <1>17 DEF Terminate
<1>18. CASE TerminateBroadcast
  BY <1>t, <1>q, <1>18 DEF TerminateBroadcast, Woken
<1>19. CASE Join
  BY <1>t, <1>q, <1>19 DEF Join
<1>20. CASE Create
  BY <1>t, <1>q, <1>20 DEF Create, IInv, PhaseInv
<1>21. CASE UNCHANGED vars
  BY <1>t, <1>q, <1>21 DEF vars
<1>22. QED
  BY <1>1, <1>2, <1>3, <1>4, <1>5, <1>6, <1>7, <1>8, <1>9, <1>10, <1>11, <1>12,
     <1>13, <1>14, <1>15, <1>16, <1>17, <1>18, <1>19, <1>20, <1>21
  DEF Next, WorkerStep, GroupStep

\* activeTasks counts the unfinished tasks of a group, the workers about to count
\* down and the caller before sync; one thread at most triggers the event.
LEMMA EventStep == IInv /\ [Next]_vars => EventInv'
<1> SUFFICES ASSUME IInv, [Next]_vars PROVE EventInv'
  OBVIOUS
<1> USE DEF EventInv, Threads, Goto, taskVars, eventVars, stopVars
<1>t. /\ pc \in [Threads -> WorkerPC \cup ClientPC]
      /\ ev \in [Threads -> Clients \cup {Null}]
      /\ event \in [Tasks -> Clients \cup {Null}]
      /\ activeTasks \in [Clients -> Nat]
      /\ inflight \subseteq Tasks
      /\ signaled \subseteq Clients
  BY DEF IInv, TypeOK
<1>f. \A c \in Clients :
        /\ IsFiniteSet(Unfinished(c)) /\ Cardinality(Unfinished(c)) \in Nat
        /\ IsFiniteSet(Decrementing(c)) /\ Cardinality(Decrementing(c)) \in Nat
        /\ Hold(c) \in Nat
  BY FiniteParts DEF IInv, Hold
<1>g. \A c \in Clients : Hold(c)' \in Nat /\ Cardinality(Decrementing(c)') \in Nat
  <2>1. TypeOK'
    BY TypeStep
  <2>2. ASSUME NEW c \in Clients PROVE Cardinality(Decrementing(c)') \in Nat
    <3>1. IsFiniteSet(Decrementing(c)')
      BY FS_Subset, Decrementing(c)' \subseteq Workers DEF Decrementing
    <3>2. QED  BY <3>1, FS_CardinalityType
  <2>3. QED  BY <2>2 DEF Hold
<1>k. EventInv  BY DEF IInv
<1>e. \A x \in Threads : pc[x] = "trigger" => ev[x] \in Clients
  BY EventKnown
<1>q. ASSUME /\ UNCHANGED <<activeTasks, inflight, signaled, event>>
             /\ \A w \in Workers :
                  /\ pc'[w] = "dec" <=> pc[w] = "dec"
                  /\ pc[w] = "dec" => ev'[w] = ev[w]
             /\ \A x \in Threads :
                  /\ pc'[x] = "trigger" <=> pc[x] = "trigger"
                  /\ pc[x] = "trigger" => ev'[x] = ev[x]
             /\ \A c \in Clients :
                  Hold(c)' = Hold(c) /\ (pc'[c] = "idle" <=> pc[c] = "idle")
      PROVE  EventInv'
  <2>1. \A c \in Clients : Unfinished(c)' = Unfinished(c) /\ Decrementing(c)' = Decrementing(c)
    BY <1>q DEF Unfinished, Decrementing
  <2>2. QED  BY <1>e, <1>k, <1>q, <2>1
<1>1. ASSUME NEW w \in Workers, Sleep(w) PROVE EventInv'
  BY <1>t, <1>q, <1>1 DEF Sleep, Hold
<1>2. ASSUME NEW w \in Workers, SpuriousWakeup(w) PROVE EventInv'
  BY <1>t, <1>q, <1>2 DEF SpuriousWakeup, Hold
<1>3. ASSUME NEW w \in Workers, Exit(w) PROVE EventInv'
  BY <1>t, <1>q, <1>3 DEF Exit, Hold
<1>4. ASSUME NEW w \in Workers, Take(w) PROVE EventInv'
  BY <1>t, <1>q, <1>4 DEF Take, Hold
<1>5. ASSUME NEW w \in Workers, StartRun(w) PROVE EventInv'
  BY <1>t, <1>q, <1>5 DEF StartRun, Hold
<1>6. ASSUME NEW w \in Workers, RunReturns(w) PROVE EventInv'
  BY <1>t, <1>q, <1>6 DEF RunReturns, Hold
<1>7. ASSUME NEW w \in Workers, Count(w) PROVE EventInv'
  BY <1>t, <1>q, <1>7 DEF Count, Hold
<1>8. ASSUME NEW w \in Workers, Complete(w) PROVE EventInv'
  <2>1. PICK t \in inflight, b \in Clients : t = task[w] /\ b = event[t] /\ b = ev[w]
    BY <1>8 DEF Complete, IInv, ControlInv
  <2>2. /\ inflight' = inflight \ {t} /\ pc' = [pc EXCEPT ![w] = "dec"] /\ pc[w] = "complete"
        /\ UNCHANGED <<event, ev, activeTasks, signaled>>
    BY <1>8, <2>1 DEF Complete
  <2>3. Unfinished(b)' = Unfinished(b) \ {t} /\ t \in Unfinished(b)
    BY <2>1, <2>2 DEF Unfinished
  <2>4. Decrementing(b)' = Decrementing(b) \cup {w} /\ w \notin Decrementing(b)
    BY <1>t, <2>1, <2>2 DEF Decrementing
  <2>5. Cardinality(Unfinished(b)') = Cardinality(Unfinished(b)) - 1
    BY <1>f, <2>3, FS_RemoveElement
  <2>6. Cardinality(Decrementing(b)') = Cardinality(Decrementing(b)) + 1
    BY <1>f, <2>4, FS_AddElement
  <2>7. /\ Cardinality(Unfinished(b)') = Cardinality(Unfinished(b)) - 1
        /\ Cardinality(Decrementing(b)') = Cardinality(Decrementing(b)) + 1
    BY <2>5, <2>6
  <2>8. \A c \in Clients : c # b =>
          Unfinished(c)' = Unfinished(c) /\ Decrementing(c)' = Decrementing(c)
    BY <1>t, <2>1, <2>2 DEF Unfinished, Decrementing
  <2>9. \A c \in Clients : pc'[c] = pc[c] /\ Hold(c)' = Hold(c)
    BY <1>t, <2>2 DEF Hold
  <2>10. \A x \in Threads : pc'[x] = "trigger" <=> pc[x] = "trigger"
    BY <1>t, <2>2
  <2>11. ASSUME NEW c \in Clients
        PROVE  activeTasks'[c] =
                 Cardinality(Unfinished(c)') + Cardinality(Decrementing(c)') + Hold(c)'
    BY <1>f, <1>k, <2>2, <2>7, <2>8, <2>9
  <2>12. QED  BY <1>k, <1>e, <2>2, <2>9, <2>10, <2>11
<1>9. ASSUME NEW x \in Threads, AddInc(x) PROVE EventInv'
  <2>1. PICK b \in Clients : b = ev[x]
    BY <1>9, EventKnown DEF AddInc, Inside
  <2>2. PICK t \in Tasks \ live, n \in 1..MaxElts : AddInc(x)!(t, n)
    BY <1>9 DEF AddInc
  <2>3. t \notin inflight
    BY <2>2, FreeAddress
  <2>4. /\ inflight' = inflight \cup {t}
        /\ event' = [event EXCEPT ![t] = b]
        /\ activeTasks' = [activeTasks EXCEPT ![b] = activeTasks[b] + 1]
        /\ pc' = [pc EXCEPT ![x] = "push"] /\ pc[x] \in {"open", "run"}
        /\ UNCHANGED <<ev, signaled>>
    BY <2>1, <2>2 DEF Construct
  <2>5. activeTasks[b] > 0
    <3>1. CASE x \in Clients
      <4>1. pc[x] = "open" /\ b = x
        BY <2>1, <2>4, <3>1 DEF IInv, TypeOK, ClientPC, ControlInv
      <4>2. QED  BY <4>1, EventPositive DEF Hold
    <3>2. CASE x \in Workers
      <4>1. task[x] \in inflight /\ event[task[x]] = b
        BY <2>1, <2>4, <3>2 DEF IInv, TypeOK, WorkerPC, ControlInv, Inside
      <4>2. QED  BY <4>1, EventPositive
    <3>3. QED  BY <3>1, <3>2
  <2>6. b \notin signaled /\ pc[b] # "idle" /\ \A y \in Threads : pc[y] = "trigger" => ev[y] # b
    BY <1>k, <1>e, <2>5
  <2>7. Unfinished(b)' = Unfinished(b) \cup {t} /\ t \notin Unfinished(b)
    BY <1>t, <2>2, <2>3, <2>4 DEF Unfinished
  <2>8. Cardinality(Unfinished(b)') = Cardinality(Unfinished(b)) + 1
    BY <1>f, <2>7, FS_AddElement
  <2>9. \A c \in Clients : c # b => Unfinished(c)' = Unfinished(c)
    BY <1>t, <2>2, <2>3, <2>4 DEF Unfinished
  <2>10. \A c \in Clients : Decrementing(c)' = Decrementing(c)
    BY <1>t, <2>4 DEF Decrementing
  <2>11. \A c \in Clients : Hold(c)' = Hold(c) /\ (pc'[c] = "idle" <=> pc[c] = "idle")
    <3>1. \A y \in Threads : y # x => pc'[y] = pc[y]
      BY <1>t, <2>4
    <3>2. pc'[x] = "push"
      BY <1>t, <2>4
    <3>3. x \in Clients => pc[x] = "open"
      BY <2>4 DEF IInv, TypeOK, ClientPC
    <3>4. QED  BY <2>4, <3>1, <3>2, <3>3 DEF Hold
  <2>12. \A c \in Clients : /\ Decrementing(c)' = Decrementing(c) /\ Hold(c)' = Hold(c)
                            /\ pc'[c] = "idle" <=> pc[c] = "idle"
    BY <2>10, <2>11
  <2>13. \A y \in Threads : pc'[y] = "trigger" <=> pc[y] = "trigger"
    BY <1>t, <2>4
  <2>14. ASSUME NEW c \in Clients
        PROVE  activeTasks'[c] =
                 Cardinality(Unfinished(c)') + Cardinality(Decrementing(c)') + Hold(c)'
    BY <1>t, <1>f, <1>k, <2>4, <2>8, <2>9, <2>12
  <2>15. QED  BY <1>t, <1>k, <1>e, <2>4, <2>6, <2>12, <2>13, <2>14
<1>10. ASSUME NEW x \in Threads, AddPush(x) PROVE EventInv'
  BY <1>t, <1>q, <1>10 DEF AddPush, Hold
<1>11. ASSUME NEW x \in Threads, AddBroadcast(x) PROVE EventInv'
  BY <1>t, <1>q, <1>11 DEF AddBroadcast, Woken, Hold
<1>12. ASSUME NEW x \in Threads, Dec(x) PROVE EventInv'
  <2>1. PICK b \in Clients : b = ev[x] /\ activeTasks[b] > 0
    BY <1>12, EventPositive DEF Dec
  <2>2. /\ activeTasks' = [activeTasks EXCEPT ![b] = activeTasks[b] - 1]
        /\ pc' = [pc EXCEPT ![x] = IF activeTasks[b] = 1 THEN "trigger" ELSE AfterDec(x)]
        /\ pc[x] = "dec"
        /\ UNCHANGED <<inflight, event, ev, signaled>>
    BY <1>12, <2>1 DEF Dec, Triggers
  <2>3. AfterDec(x) \in {"wait", "top"}
    BY DEF AfterDec
  <2>4. b \notin signaled /\ pc[b] # "idle" /\ \A y \in Threads : pc[y] = "trigger" => ev[y] # b
    BY <1>k, <1>e, <2>1
  <2>5. \A c \in Clients : Unfinished(c)' = Unfinished(c)
    BY <2>2 DEF Unfinished
  <2>6. \A c \in Clients : c # b => Decrementing(c)' = Decrementing(c) /\ Hold(c)' = Hold(c)
    BY <1>t, <2>1, <2>2, <2>3 DEF Decrementing, Hold, IInv, ControlInv
  <2>7. Cardinality(Decrementing(b)') + Hold(b)' = Cardinality(Decrementing(b)) + Hold(b) - 1
    <3>1. CASE x \in Workers
      <4>1. Decrementing(b)' = Decrementing(b) \ {x} /\ x \in Decrementing(b)
        BY <1>t, <2>1, <2>2, <2>3, <3>1 DEF Decrementing
      <4>2. Cardinality(Decrementing(b)') = Cardinality(Decrementing(b)) - 1
        BY <1>f, <4>1, FS_RemoveElement
      <4>3. Hold(b)' = Hold(b)
        BY <1>t, <2>2, <3>1 DEF Hold
      <4>4. QED  BY <1>f, <4>2, <4>3
    <3>2. CASE x \in Clients
      <4>1. x = b
        BY <2>1, <2>2, <3>2 DEF IInv, ControlInv
      <4>2. Decrementing(b)' = Decrementing(b)
        BY <1>t, <2>2, <3>2 DEF Decrementing
      <4>3. Hold(b) = 1 /\ Hold(b)' = 0
        BY <1>t, <2>2, <2>3, <4>1 DEF Hold
      <4>4. QED  BY <1>f, <4>2, <4>3
    <3>3. QED  BY <3>1, <3>2
  <2>8. ASSUME NEW c \in Clients
        PROVE  activeTasks'[c] =
                 Cardinality(Unfinished(c)') + Cardinality(Decrementing(c)') + Hold(c)'
    <3>1. CASE c = b
      <4>1. /\ activeTasks'[b] = activeTasks[b] - 1
            /\ activeTasks[b] = Cardinality(Unfinished(b)) + Cardinality(Decrementing(b)) + Hold(b)
            /\ Cardinality(Unfinished(b)') = Cardinality(Unfinished(b))
        BY <1>t, <1>k, <2>2, <2>5
      <4>2. Hold(b)' \in Nat /\ Cardinality(Decrementing(b)') \in Nat
        BY <1>g
      <4>3. QED  BY <1>f, <2>7, <3>1, <4>1, <4>2
    <3>2. CASE c # b
      BY <1>t, <1>f, <1>k, <2>2, <2>5, <2>6, <3>2
    <3>3. QED  BY <3>1, <3>2
  <2>9. \A c \in Clients : pc'[c] = "idle" <=> pc[c] = "idle"
    BY <1>t, <2>2, <2>3
  <2>10. \A y \in Threads : pc'[y] = "trigger" =>
           \/ pc[y] = "trigger" /\ ev[y] # b
           \/ y = x /\ ev[y] = b /\ activeTasks'[b] = 0
    BY <1>t, <2>1, <2>2, <2>3, <2>4
  <2>11. QED  BY <1>t, <1>k, <1>e, <2>2, <2>4, <2>8, <2>9, <2>10
<1>13. ASSUME NEW x \in Threads, Trigger(x) PROVE EventInv'
  <2>1. PICK b \in Clients : b = ev[x]
    BY <1>13, <1>e DEF Trigger
  <2>2. /\ signaled' = signaled \cup {b}
        /\ pc' = [pc EXCEPT ![x] = AfterDec(x)] /\ pc[x] = "trigger"
        /\ UNCHANGED <<inflight, event, ev, activeTasks>>
    BY <1>13, <2>1 DEF Trigger
  <2>3. AfterDec(x) \in {"wait", "top"}
    BY DEF AfterDec
  <2>4. activeTasks[b] = 0 /\ \A y \in Threads : pc[y] = "trigger" /\ ev[y] = b => y = x
    BY <1>k, <2>1, <2>2
  <2>5. \A c \in Clients : /\ Unfinished(c)' = Unfinished(c)
                           /\ Decrementing(c)' = Decrementing(c) /\ Hold(c)' = Hold(c)
                           /\ pc'[c] = "idle" <=> pc[c] = "idle"
    BY <1>t, <2>2, <2>3 DEF Unfinished, Decrementing, Hold
  <2>6. \A y \in Threads : pc'[y] = "trigger" => pc[y] = "trigger" /\ ev[y] # b
    BY <1>t, <2>2, <2>3, <2>4
  <2>7. QED  BY <1>t, <1>k, <1>e, <2>2, <2>4, <2>5, <2>6
<1>14. ASSUME NEW c \in Clients, Open(c) PROVE EventInv'
  <2>1. /\ activeTasks' = [activeTasks EXCEPT ![c] = 1] /\ signaled' = signaled \ {c}
        /\ pc' = [pc EXCEPT ![c] = "open"] /\ pc[c] = "idle"
        /\ ev' = [ev EXCEPT ![c] = c]
        /\ UNCHANGED <<inflight, event>>
    BY <1>14 DEF Open
  <2>2. activeTasks[c] = 0 /\ Hold(c) = 0 /\ Hold(c)' = 1
    BY <1>t, <1>k, <2>1 DEF Hold
  <2>3. \A d \in Clients : /\ Unfinished(d)' = Unfinished(d)
                           /\ Decrementing(d)' = Decrementing(d)
                           /\ d # c => Hold(d)' = Hold(d)
    BY <1>t, <2>1, SchedulerAssumption DEF Unfinished, Decrementing, Hold
  <2>4. ASSUME NEW d \in Clients
        PROVE  activeTasks'[d] =
                 Cardinality(Unfinished(d)') + Cardinality(Decrementing(d)') + Hold(d)'
    <3>1. CASE d = c
      BY <1>t, <1>f, <1>k, <2>1, <2>2, <2>3, <3>1
    <3>2. CASE d # c
      BY <1>t, <1>f, <1>k, <2>1, <2>3, <3>2
    <3>3. QED  BY <3>1, <3>2
  <2>5. \A y \in Threads : pc'[y] = "trigger" =>
          pc[y] = "trigger" /\ ev[y] # c /\ ev'[y] = ev[y]
    BY <1>t, <1>k, <1>e, <2>1
  <2>6. QED  BY <1>t, <1>k, <1>e, <2>1, <2>4, <2>5
<1>15. ASSUME NEW c \in Clients, Sync(c) PROVE EventInv'
  BY <1>t, <1>q, <1>15 DEF Sync, Hold
<1>16. ASSUME NEW c \in Clients, Return(c) PROVE EventInv'
  <2>1. /\ pc' = [pc EXCEPT ![c] = "idle"] /\ pc[c] = "wait" /\ c \in signaled
        /\ UNCHANGED <<inflight, event, ev, activeTasks, signaled>>
    BY <1>16 DEF Return, SyncDone
  <2>2. activeTasks[c] = 0 /\ \A y \in Threads : pc[y] = "trigger" => ev[y] # c
    BY <2>1, SyncedGroupIsEmpty
  <2>3. \A d \in Clients : /\ Unfinished(d)' = Unfinished(d)
                           /\ Decrementing(d)' = Decrementing(d)
                           /\ Hold(d)' = Hold(d)
    BY <1>t, <2>1 DEF Unfinished, Decrementing, Hold
  <2>4. \A y \in Threads : pc'[y] = "trigger" => pc[y] = "trigger" /\ ev[y] # c
    BY <1>t, <2>1, <2>2
  <2>5. QED  BY <1>t, <1>k, <1>e, <2>1, <2>2, <2>3, <2>4
<1>17. CASE Terminate
  BY <1>t, <1>q, <1>17 DEF Terminate, Hold
<1>18. CASE TerminateBroadcast
  BY <1>t, <1>q, <1>18 DEF TerminateBroadcast, Woken, Hold
<1>19. CASE Join
  BY <1>t, <1>q, <1>19 DEF Join, Hold
<1>20. CASE Create
  BY <1>t, <1>q, <1>20 DEF Create, Hold, IInv, PhaseInv
<1>21. CASE UNCHANGED vars
  BY <1>t, <1>q, <1>21 DEF vars, Hold
<1>22. QED
  BY <1>1, <1>2, <1>3, <1>4, <1>5, <1>6, <1>7, <1>8, <1>9, <1>10, <1>11, <1>12,
     <1>13, <1>14, <1>15, <1>16, <1>17, <1>18, <1>19, <1>20, <1>21
  DEF Next, WorkerStep, GroupStep

\* No caller is inside a group while the pool is stopped, and no worker leaves
\* its loop while the pool runs.
LEMMA PhaseStep == IInv /\ [Next]_vars => PhaseInv'
<1> SUFFICES ASSUME IInv, [Next]_vars PROVE PhaseInv'
  OBVIOUS
<1> USE DEF PhaseInv, Threads, Goto, stopVars, WorkerPC, ClientPC
<1>t. /\ pc \in [Threads -> WorkerPC \cup ClientPC]
      /\ \A w \in Workers : pc[w] \in WorkerPC
      /\ \A c \in Clients : pc[c] \in ClientPC
  BY DEF IInv, TypeOK
<1>k. PhaseInv  BY DEF IInv
<1>1. ASSUME NEW w \in Workers, Sleep(w) PROVE PhaseInv'
  BY <1>t, <1>1, <1>k DEF Sleep
<1>2. ASSUME NEW w \in Workers, SpuriousWakeup(w) PROVE PhaseInv'
  BY <1>t, <1>2, <1>k DEF SpuriousWakeup
<1>3. ASSUME NEW w \in Workers, Exit(w) PROVE PhaseInv'
  BY <1>t, <1>3, <1>k DEF Exit
<1>4. ASSUME NEW w \in Workers, Take(w) PROVE PhaseInv'
  BY <1>t, <1>4, <1>k DEF Take
<1>5. ASSUME NEW w \in Workers, StartRun(w) PROVE PhaseInv'
  BY <1>t, <1>5, <1>k DEF StartRun
<1>6. ASSUME NEW w \in Workers, RunReturns(w) PROVE PhaseInv'
  BY <1>t, <1>6, <1>k DEF RunReturns
<1>7. ASSUME NEW w \in Workers, Count(w) PROVE PhaseInv'
  BY <1>t, <1>7, <1>k DEF Count
<1>8. ASSUME NEW w \in Workers, Complete(w) PROVE PhaseInv'
  BY <1>t, <1>8, <1>k DEF Complete
<1>9. ASSUME NEW x \in Threads, AddInc(x) PROVE PhaseInv'
  <2>1. PICK t \in Tasks \ live, n \in 1..MaxElts : AddInc(x)!(t, n)
    BY <1>9 DEF AddInc
  <2>2. QED  BY <1>t, <1>k, <2>1
<1>10. ASSUME NEW x \in Threads, AddPush(x) PROVE PhaseInv'
  BY <1>t, <1>10, <1>k DEF AddPush
<1>11. ASSUME NEW x \in Threads, AddBroadcast(x) PROVE PhaseInv'
  BY <1>t, <1>k, <1>11 DEF AddBroadcast, Woken
<1>12. ASSUME NEW x \in Threads, Dec(x) PROVE PhaseInv'
  BY <1>t, <1>k, <1>12 DEF Dec, AfterDec
<1>13. ASSUME NEW x \in Threads, Trigger(x) PROVE PhaseInv'
  BY <1>t, <1>k, <1>13 DEF Trigger, AfterDec
<1>14. ASSUME NEW c \in Clients, Open(c) PROVE PhaseInv'
  BY <1>t, <1>14, <1>k DEF Open
<1>15. ASSUME NEW c \in Clients, Sync(c) PROVE PhaseInv'
  BY <1>t, <1>15, <1>k DEF Sync
<1>16. ASSUME NEW c \in Clients, Return(c) PROVE PhaseInv'
  BY <1>t, <1>16, <1>k DEF Return
<1>17. CASE Terminate
  BY <1>t, <1>17, <1>k DEF Terminate
<1>18. CASE TerminateBroadcast
  BY <1>t, <1>k, <1>18 DEF TerminateBroadcast, Woken
<1>19. CASE Join
  BY <1>t, <1>19, <1>k DEF Join
<1>20. CASE Create
  BY <1>t, <1>20, <1>k DEF Create
<1>21. CASE UNCHANGED vars
  BY <1>t, <1>21, <1>k DEF vars, taskVars, eventVars, stopVars
<1>22. QED
  BY <1>1, <1>2, <1>3, <1>4, <1>5, <1>6, <1>7, <1>8, <1>9, <1>10, <1>11, <1>12,
     <1>13, <1>14, <1>15, <1>16, <1>17, <1>18, <1>19, <1>20, <1>21
  DEF Next, WorkerStep, GroupStep

\* A thread that is about to broadcast stays about to broadcast until it has woken
\* every sleeping worker.
LEMMA WakeupStep == IInv /\ [Next]_vars => NoLostWakeup'
<1> SUFFICES ASSUME IInv, [Next]_vars PROVE NoLostWakeup'
  OBVIOUS
<1> USE DEF NoLostWakeup, Threads, Goto, stopVars, WorkerPC, ClientPC
<1>t. /\ pc \in [Threads -> WorkerPC \cup ClientPC]
      /\ \A w \in Workers : pc[w] \in WorkerPC
      /\ \A c \in Clients : pc[c] \in ClientPC
  BY DEF IInv, TypeOK
<1>k. NoLostWakeup  BY DEF IInv
<1>1. ASSUME NEW w \in Workers, Sleep(w) PROVE NoLostWakeup'
  BY <1>t, <1>1, <1>k DEF Sleep
<1>2. ASSUME NEW w \in Workers, SpuriousWakeup(w) PROVE NoLostWakeup'
  BY <1>t, <1>2, <1>k DEF SpuriousWakeup
<1>3. ASSUME NEW w \in Workers, Exit(w) PROVE NoLostWakeup'
  BY <1>t, <1>k, <1>3 DEF Exit
<1>4. ASSUME NEW w \in Workers, Take(w) PROVE NoLostWakeup'
  BY <1>t, <1>4, <1>k DEF Take
<1>5. ASSUME NEW w \in Workers, StartRun(w) PROVE NoLostWakeup'
  BY <1>t, <1>5, <1>k DEF StartRun
<1>6. ASSUME NEW w \in Workers, RunReturns(w) PROVE NoLostWakeup'
  BY <1>t, <1>6, <1>k DEF RunReturns
<1>7. ASSUME NEW w \in Workers, Count(w) PROVE NoLostWakeup'
  BY <1>t, <1>7, <1>k DEF Count
<1>8. ASSUME NEW w \in Workers, Complete(w) PROVE NoLostWakeup'
  BY <1>t, <1>8, <1>k DEF Complete
<1>9. ASSUME NEW x \in Threads, AddInc(x) PROVE NoLostWakeup'
  <2>1. PICK t \in Tasks \ live, n \in 1..MaxElts : AddInc(x)!(t, n)
    BY <1>9 DEF AddInc
  <2>2. QED  BY <1>t, <1>k, <2>1
<1>10. ASSUME NEW x \in Threads, AddPush(x) PROVE NoLostWakeup'
  BY <1>t, <1>10, <1>k DEF AddPush
<1>11. ASSUME NEW x \in Threads, AddBroadcast(x) PROVE NoLostWakeup'
  BY <1>t, <1>k, <1>11 DEF AddBroadcast, Woken
<1>12. ASSUME NEW x \in Threads, Dec(x) PROVE NoLostWakeup'
  BY <1>t, <1>k, <1>12 DEF Dec, AfterDec
<1>13. ASSUME NEW x \in Threads, Trigger(x) PROVE NoLostWakeup'
  BY <1>t, <1>k, <1>13 DEF Trigger, AfterDec
<1>14. ASSUME NEW c \in Clients, Open(c) PROVE NoLostWakeup'
  BY <1>t, <1>14, <1>k DEF Open
<1>15. ASSUME NEW c \in Clients, Sync(c) PROVE NoLostWakeup'
  BY <1>t, <1>15, <1>k DEF Sync
<1>16. ASSUME NEW c \in Clients, Return(c) PROVE NoLostWakeup'
  BY <1>t, <1>16, <1>k DEF Return
<1>17. CASE Terminate
  BY <1>t, <1>17, <1>k DEF Terminate
<1>18. CASE TerminateBroadcast
  BY <1>t, <1>k, <1>18 DEF TerminateBroadcast, Woken
<1>19. CASE Join
  BY <1>t, <1>19, <1>k DEF Join
<1>20. CASE Create
  BY <1>t, <1>k, <1>20 DEF Create, IInv, PhaseInv
<1>21. CASE UNCHANGED vars
  BY <1>t, <1>21, <1>k DEF vars, taskVars, eventVars, stopVars
<1>22. QED
  BY <1>1, <1>2, <1>3, <1>4, <1>5, <1>6, <1>7, <1>8, <1>9, <1>10, <1>11, <1>12,
     <1>13, <1>14, <1>15, <1>16, <1>17, <1>18, <1>19, <1>20, <1>21
  DEF Next, WorkerStep, GroupStep

\* The four facts of RunOnce, for every task in flight.
LEMMA ElementsStep == IInv /\ [Next]_vars => ElementsRunOnce'
<1> SUFFICES ASSUME IInv, [Next]_vars PROVE ElementsRunOnce'
  OBVIOUS
<1> USE DEF ElementsRunOnce, Threads, Goto, taskVars, stopVars, WorkerPC
<1>t. /\ pc \in [Threads -> WorkerPC \cup ClientPC]
      /\ \A w \in Workers : pc[w] \in WorkerPC
      /\ task \in [Threads -> Tasks \cup {Null}]
      /\ elt \in [Threads -> Nat]
      /\ elts \in [Tasks -> Nat] /\ started \in [Tasks -> Nat]
      /\ done \in [Tasks -> SUBSET Nat]
      /\ inflight \subseteq Tasks
  BY DEF IInv, TypeOK
<1>k. ElementsRunOnce  BY DEF IInv
<1>q. ASSUME /\ inflight' \subseteq inflight
             /\ UNCHANGED <<elts, started, done, elt>>
             /\ \A w \in Workers :
                  /\ pc'[w] \in {"start", "run", "push", "broadcast"} <=>
                     pc[w] \in {"start", "run", "push", "broadcast"}
                  /\ pc[w] \in {"start", "run", "push", "broadcast"} => task'[w] = task[w]
      PROVE  ElementsRunOnce'
  <2>1. ASSUME NEW t \in inflight' PROVE Running(t)' = Running(t)
    BY <1>q DEF Running, Inside
  <2>2. ASSUME NEW t \in inflight' PROVE RunOnce(t)'
    BY <1>k, <1>q, <2>1 DEF RunOnce
  <2>3. QED  BY <2>2
<1>1. ASSUME NEW w \in Workers, Sleep(w) PROVE ElementsRunOnce'
  BY <1>t, <1>q, <1>1 DEF Sleep
<1>2. ASSUME NEW w \in Workers, SpuriousWakeup(w) PROVE ElementsRunOnce'
  BY <1>t, <1>q, <1>2 DEF SpuriousWakeup
<1>3. ASSUME NEW w \in Workers, Exit(w) PROVE ElementsRunOnce'
  BY <1>t, <1>q, <1>3 DEF Exit
<1>4. ASSUME NEW w \in Workers, Take(w) PROVE ElementsRunOnce'
  <2>1. PICK t \in Tasks : t = queue[Len(queue)] /\ t \in inflight /\ started[t] > 0
    BY <1>4 DEF Take, IInv, TypeOK, QueueInv
  <2>2. /\ started' = [started EXCEPT ![t] = started[t] - 1]
        /\ task' = [task EXCEPT ![w] = t]
        /\ elt' = [elt EXCEPT ![w] = started[t] - 1]
        /\ pc' = [pc EXCEPT ![w] = "start"] /\ pc[w] = "top"
        /\ UNCHANGED <<elts, done, inflight>>
    BY <1>4, <2>1 DEF Take
  <2>3. ASSUME NEW u \in inflight, u # t PROVE RunOnce(u)'
    <3>1. Running(u)' = Running(u) /\ started'[u] = started[u]
      BY <1>t, <2>1, <2>2, <2>3 DEF Running, Inside
    <3>2. \A v \in Running(u) : v # w /\ elt'[v] = elt[v]
      BY <1>t, <2>2 DEF Running, Inside
    <3>3. QED  BY <1>k, <2>2, <2>3, <3>1, <3>2 DEF RunOnce
  <2>4. RunOnce(t)'
    <3>1. Running(t)' = Running(t) \cup {w}
      BY <1>t, <2>1, <2>2 DEF Running, Inside
    <3>2. \A v \in Running(t) : v # w /\ elt'[v] = elt[v] /\ elt[v] \in Nat
      BY <1>t, <2>2 DEF Running, Inside
    <3>3. elt'[w] = started[t] - 1 /\ started'[t] = started[t] - 1 /\ started[t] \in Nat
      BY <1>t, <2>1, <2>2
    <3>4. RunOnce(t)
      BY <1>k, <2>1
    <3>5. done'[t] = done[t] /\ elts'[t] = elts[t] /\ done[t] \subseteq Nat
      BY <1>t, <2>1, <2>2
    <3>6. /\ \A v, x \in Running(t)' : elt'[v] = elt'[x] => v = x
          /\ \A v \in Running(t)' : elt'[v] \notin done'[t] /\ elt'[v] >= started'[t]
          /\ \A i \in done'[t] : i >= started'[t]
      BY <3>1, <3>2, <3>3, <3>4, <3>5 DEF RunOnce
    <3>7. {elt'[v] : v \in Running(t)'} = {elt[v] : v \in Running(t)} \cup {started[t] - 1}
      BY <3>1, <3>2, <3>3
    <3>8. 0 .. started[t]-1 = (0 .. started'[t]-1) \cup {started[t] - 1}
      BY <2>1, <3>3
    <3>9. 0 .. elts'[t]-1 = (0 .. started'[t]-1) \cup {elt'[v] : v \in Running(t)'} \cup done'[t]
      BY <3>4, <3>5, <3>7, <3>8 DEF RunOnce
    <3>10. QED  BY <3>6, <3>9 DEF RunOnce
  <2>5. QED  BY <2>2, <2>3, <2>4
<1>5. ASSUME NEW w \in Workers, StartRun(w) PROVE ElementsRunOnce'
  BY <1>t, <1>q, <1>5 DEF StartRun
<1>6. ASSUME NEW w \in Workers, RunReturns(w) PROVE ElementsRunOnce'
  <2>1. PICK t \in Tasks : t = task[w] /\ t \in inflight
    BY <1>6, HeldPositive DEF RunReturns, Inside
  <2>2. /\ done' = [done EXCEPT ![t] = done[t] \cup {elt[w]}]
        /\ pc' = [pc EXCEPT ![w] = "count"] /\ pc[w] = "run"
        /\ UNCHANGED <<elts, started, inflight, task, elt>>
    BY <1>6, <2>1 DEF RunReturns
  <2>3. ASSUME NEW u \in inflight, u # t PROVE RunOnce(u)'
    <3>1. Running(u)' = Running(u) /\ done'[u] = done[u]
      BY <1>t, <2>1, <2>2, <2>3 DEF Running
    <3>2. QED  BY <1>k, <2>2, <2>3, <3>1 DEF RunOnce
  <2>4. RunOnce(t)'
    <3>1. Running(t)' = Running(t) \ {w} /\ w \in Running(t)
      BY <1>t, <2>1, <2>2 DEF Running, Inside
    <3>2. done'[t] = done[t] \cup {elt[w]}
      BY <1>t, <2>1, <2>2
    <3>3. RunOnce(t)
      BY <1>k, <2>1
    <3>4. QED  BY <2>2, <3>1, <3>2, <3>3 DEF RunOnce
  <2>5. QED  BY <2>2, <2>3, <2>4
<1>7. ASSUME NEW w \in Workers, Count(w) PROVE ElementsRunOnce'
  BY <1>t, <1>q, <1>7 DEF Count
<1>8. ASSUME NEW w \in Workers, Complete(w) PROVE ElementsRunOnce'
  BY <1>t, <1>q, <1>8 DEF Complete
<1>9. ASSUME NEW x \in Threads, AddInc(x) PROVE ElementsRunOnce'
  <2>1. PICK t \in Tasks \ live, n \in 1..MaxElts : AddInc(x)!(t, n)
    BY <1>9 DEF AddInc
  <2>2. t \notin inflight /\ \A w \in Workers : task[w] # t
    BY <2>1, FreeAddress
  <2>3. /\ elts' = [elts EXCEPT ![t] = n] /\ started' = [started EXCEPT ![t] = n]
        /\ done' = [done EXCEPT ![t] = {}] /\ inflight' = inflight \cup {t}
        /\ pc' = [pc EXCEPT ![x] = "push"] /\ pc[x] \in {"open", "run"}
        /\ UNCHANGED <<task, elt>>
    BY <2>1 DEF Construct
  <2>4. \A u \in Tasks : Running(u)' = Running(u)
    <3>1. \A w \in Workers : pc[w] # "open"
      BY <1>t
    <3>2. \A w \in Workers : pc'[w] \in Inside \cup {"start"} <=> pc[w] \in Inside \cup {"start"}
      BY <1>t, <2>3, <3>1 DEF Inside
    <3>3. QED  BY <2>3, <3>2 DEF Running
  <2>5. ASSUME NEW u \in inflight PROVE RunOnce(u)'
    <3>1. /\ u # t /\ elts'[u] = elts[u] /\ started'[u] = started[u] /\ done'[u] = done[u]
          /\ Running(u)' = Running(u)
      BY <1>t, <2>2, <2>3, <2>4, <2>5
    <3>2. QED  BY <1>k, <2>3, <2>5, <3>1 DEF RunOnce
  <2>6. RunOnce(t)'
    <3>1. Running(t)' = {}
      BY <1>t, <2>1, <2>2, <2>4 DEF Running
    <3>2. elts'[t] = n /\ started'[t] = n /\ done'[t] = {}
      BY <1>t, <2>1, <2>3
    <3>3. QED  BY <3>1, <3>2 DEF RunOnce
  <2>7. QED  BY <2>3, <2>5, <2>6
<1>10. ASSUME NEW x \in Threads, AddPush(x) PROVE ElementsRunOnce'
  BY <1>t, <1>q, <1>10 DEF AddPush
<1>11. ASSUME NEW x \in Threads, AddBroadcast(x) PROVE ElementsRunOnce'
  BY <1>t, <1>q, <1>11 DEF AddBroadcast, Woken
<1>12. ASSUME NEW x \in Threads, Dec(x) PROVE ElementsRunOnce'
  BY <1>t, <1>q, <1>12 DEF Dec, AfterDec
<1>13. ASSUME NEW x \in Threads, Trigger(x) PROVE ElementsRunOnce'
  BY <1>t, <1>q, <1>13 DEF Trigger, AfterDec
<1>14. ASSUME NEW c \in Clients, Open(c) PROVE ElementsRunOnce'
  BY <1>t, <1>q, <1>14 DEF Open
<1>15. ASSUME NEW c \in Clients, Sync(c) PROVE ElementsRunOnce'
  BY <1>t, <1>q, <1>15 DEF Sync
<1>16. ASSUME NEW c \in Clients, Return(c) PROVE ElementsRunOnce'
  BY <1>t, <1>q, <1>16 DEF Return
<1>17. CASE Terminate
  BY <1>t, <1>q, <1>17 DEF Terminate
<1>18. CASE TerminateBroadcast
  BY <1>t, <1>q, <1>18 DEF TerminateBroadcast, Woken
<1>19. CASE Join
  BY <1>t, <1>q, <1>19 DEF Join
<1>20. CASE Create
  BY <1>t, <1>q, <1>20 DEF Create, IInv, PhaseInv
<1>21. CASE UNCHANGED vars
  BY <1>t, <1>q, <1>21 DEF vars
<1>22. QED
  BY <1>1, <1>2, <1>3, <1>4, <1>5, <1>6, <1>7, <1>8, <1>9, <1>10, <1>11, <1>12,
     <1>13, <1>14, <1>15, <1>16, <1>17, <1>18, <1>19, <1>20, <1>21
  DEF Next, WorkerStep, GroupStep

-----------------------------------------------------------------------------
(* The invariant and the properties that follow from it.                   *)

\* No task, no group and no sleeping worker exists at the start.
LEMMA InitIInv == Init => IInv
<1> SUFFICES ASSUME Init PROVE IInv
  OBVIOUS
<1> USE DEF Init, Threads
<1>1. TypeOK
  <2>1. queue \in Seq(Tasks)
    OBVIOUS
  <2>2. /\ pc \in [Threads -> WorkerPC \cup ClientPC]
        /\ \A w \in Workers : pc[w] \in WorkerPC
        /\ \A c \in Clients : pc[c] \in ClientPC
    BY DEF WorkerPC, ClientPC
  <2>3. /\ event \in [Tasks -> Clients \cup {Null}]
        /\ owner \in [Tasks -> Clients \cup {Null}]
        /\ done \in [Tasks -> SUBSET Nat]
    OBVIOUS
  <2>4. QED  BY <2>1, <2>2, <2>3 DEF TypeOK
<1>2. ControlInv /\ QueueInv
  BY DEF ControlInv, QueueInv, Inside
<1>3. CountInv
  BY DEF CountInv
<1>4. EventInv
  <2>1. ASSUME NEW c \in Clients
        PROVE  Unfinished(c) = {} /\ Decrementing(c) = {} /\ Hold(c) = 0
    BY DEF Unfinished, Decrementing, Hold
  <2>2. \A x \in Threads : pc[x] # "trigger"
    OBVIOUS
  <2>3. Cardinality({}) = 0
    BY FS_EmptySet
  <2>4. ASSUME NEW c \in Clients
        PROVE  activeTasks[c] =
                 Cardinality(Unfinished(c)) + Cardinality(Decrementing(c)) + Hold(c)
    <3>1. activeTasks[c] = 0
      OBVIOUS
    <3>2. /\ Cardinality(Unfinished(c)) = 0 /\ Cardinality(Decrementing(c)) = 0
          /\ Hold(c) = 0
      BY <2>1, <2>3
    <3>3. QED  BY <3>1, <3>2
  <2>5. QED  BY <2>2, <2>4 DEF EventInv
<1>5. PhaseInv
  BY DEF PhaseInv
<1>6. ElementsRunOnce /\ NoLostWakeup
  BY DEF ElementsRunOnce, NoLostWakeup
<1>7. QED  BY <1>1, <1>2, <1>3, <1>4, <1>5, <1>6 DEF IInv

\* Every reachable state of the scheduler satisfies the inductive invariant: the
\* counters completed and activeTasks equal the number of parties that still
\* have to count them down.
THEOREM Invariance == Spec => []IInv
<1>1. Init => IInv
  BY InitIInv
<1>2. IInv /\ [Next]_vars => IInv'
  BY TypeStep, ControlStep, QueueStep, CountStep, EventStep, PhaseStep,
     ElementsStep, WakeupStep DEF IInv
<1>3. QED  BY <1>1, <1>2, PTL DEF Spec

\* Every variable of the scheduler keeps its type; in particular no counter of
\* the code, all unsigned or compared with zero, ever goes below zero.
THEOREM TypeCorrect == Spec => []TypeOK
<1>1. IInv => TypeOK
  BY DEF IInv
<1>2. QED  BY <1>1, Invariance, PTL

\* Each element of a task set is run by exactly one worker, exactly once, for any
\* number of workers and however addresses of tasks are used again.
THEOREM ElementsAreRunOnce == Spec => []ElementsRunOnce
<1>1. IInv => ElementsRunOnce
  BY DEF IInv
<1>2. QED  BY <1>1, Invariance, PTL

\* No wakeup of a worker is lost, though the broadcast is made after the unlock.
THEOREM WakeupsAreNotLost == Spec => []NoLostWakeup
<1>1. IInv => NoLostWakeup
  BY DEF IInv
<1>2. QED  BY <1>1, Invariance, PTL

\* The complete function of a task runs after all its elements, and its caller is
\* the only worker that can still reach the task.
THEOREM CompletionIsLast == Spec => []CompleteIsLast
<1>1. ASSUME IInv PROVE CompleteIsLast
  <2>1. SUFFICES ASSUME NEW w \in Workers, pc[w] = "complete"
                 PROVE  /\ task[w] \in inflight
                        /\ done[task[w]] = 0 .. elts[task[w]]-1
                        /\ \A v \in Workers \ {w} : task[v] # task[w]
                        /\ \A i \in DOMAIN queue : queue[i] # task[w]
    BY DEF CompleteIsLast
  <2>2. /\ task[w] \in inflight /\ started[task[w]] = 0
        /\ \A v \in Workers : task[v] = task[w] => v = w
        /\ \A i \in DOMAIN queue : queue[i] # task[w]
    BY <1>1, <2>1, CompleteAlone
  <2>3. Running(task[w]) = {}
    BY <2>1, <2>2 DEF Running, Inside
  <2>4. done[task[w]] = 0 .. elts[task[w]]-1
    <3>1. RunOnce(task[w])
      BY <1>1, <2>2 DEF IInv, ElementsRunOnce
    <3>2. (0 .. started[task[w]]-1) = {}
      BY <2>2
    <3>3. {elt[v] : v \in Running(task[w])} = {}
      BY <2>3
    <3>4. QED  BY <3>1, <3>2, <3>3 DEF RunOnce
  <2>5. QED  BY <2>2, <2>4
<1>2. QED  BY <1>1, Invariance, PTL

\* When sync() returns, every task of the group is complete and no thread is
\* about to touch its event.
THEOREM SyncIsABarrier == Spec => []SyncWaitsForGroup
<1>1. ASSUME IInv PROVE SyncWaitsForGroup
  BY <1>1, SyncedGroupIsEmpty DEF SyncWaitsForGroup
<1>2. QED  BY <1>1, Invariance, PTL

\* No pointer to a task or an event is followed after the object is gone.
THEOREM PointersAreLive == Spec => []NoDanglingAccess
<1>1. ASSUME IInv PROVE NoDanglingAccess
  <2>1. ASSUME NEW c \in Clients, activeTasks[c] > 0 PROVE c \in eventLive
    <3>1. (pc[c] = "idle" => activeTasks[c] = 0) /\ (c \in eventLive <=> pc[c] # "idle")
      BY <1>1 DEF IInv, EventInv, ControlInv
    <3>2. QED  BY <2>1, <3>1
  <2>2. \A t \in inflight : t \in live /\ event[t] \in eventLive
    BY <1>1, <2>1, EventPositive DEF IInv, TypeOK
  <2>3. \A i \in DOMAIN queue : queue[i] \in live
    BY <1>1, <2>2 DEF IInv, QueueInv
  <2>4. \A w \in Workers : task[w] # Null => task[w] \in live /\ event[task[w]] \in eventLive
    BY <1>1, <2>2 DEF IInv, ControlInv
  <2>5. ASSUME NEW x \in Threads,
               pc[x] \in {"run", "push", "broadcast", "dec", "trigger", "open", "wait"}
        PROVE  ev[x] \in eventLive
    <3>1. CASE pc[x] = "dec"
      BY <1>1, <2>1, <3>1, EventPositive
    <3>2. CASE pc[x] = "trigger"
      BY <1>1, <3>2, EventKnown DEF IInv, EventInv, ControlInv
    <3>3. CASE x \in Clients
      BY <1>1, <2>5, <3>3 DEF IInv, ControlInv
    <3>4. CASE x \in Workers /\ pc[x] \in Inside
      BY <1>1, <2>2, <3>4 DEF IInv, ControlInv
    <3>5. QED
      BY <1>1, <2>5, <3>1, <3>2, <3>3, <3>4 DEF Threads, Inside, IInv, TypeOK, WorkerPC
  <2>6. QED  BY <2>3, <2>4, <2>5 DEF NoDanglingAccess
<1>2. QED  BY <1>1, Invariance, PTL

\* destroy() abandons nothing: when the workers are told to stop, no task is left.
THEOREM ShutdownIsClean == Spec => []ShutdownDropsNothing
<1>1. ASSUME IInv PROVE ShutdownDropsNothing
  <2>1. SUFFICES ASSUME terminateThreads PROVE queue = <<>> /\ inflight = {}
    BY DEF ShutdownDropsNothing
  <2>2. \A c \in Clients : activeTasks[c] = 0
    BY <1>1, <2>1 DEF IInv, PhaseInv, EventInv
  <2>3. inflight = {}
    BY <1>1, <2>2, EventPositive
  <2>4. queue \in Seq(Tasks) /\ DOMAIN queue = {}
    BY <1>1, <2>3 DEF IInv, QueueInv, TypeOK
  <2>5. QED  BY <2>3, <2>4
<1>2. QED  BY <1>1, Invariance, PTL

-----------------------------------------------------------------------------
(* The scheduler implements TaskGroups, step by step: every action is a    *)
(* step of the group of one caller, or of none.                            *)

GroupStutters == UNCHANGED <<GroupState, GroupPending, GroupDue>>

\* What the abstract state of a group is made of.
LEMMA PendingUnchanged ==
  ASSUME UNCHANGED <<inflight, event>>,
         \A t \in inflight : \A i \in 0 .. MaxElts-1 : Pending(t, i)' <=> Pending(t, i)
  PROVE  UNCHANGED <<GroupPending, GroupDue>>
BY DEF GroupPending, GroupDue, Unfinished

\* A step after which the same workers run the same elements leaves the pending
\* elements alone, if no element is started.
LEMMA RunningUnchanged ==
  ASSUME UNCHANGED <<inflight, event, started, elt>>,
         \A t \in inflight : Running(t)' = Running(t)
  PROVE  UNCHANGED <<GroupPending, GroupDue>>
BY PendingUnchanged DEF Pending

\* A worker moves, outside the run functions or inside one: no group does.
LEMMA WorkerOutside ==
  ASSUME TypeOK, NEW w \in Workers, NEW l \in WorkerPC,
         pc' = [pc EXCEPT ![w] = l],
         UNCHANGED <<inflight, event, started, elt>>,
         \A t \in inflight : task'[w] = t /\ l \in Inside \cup {"start"}
                         <=> task[w] = t /\ pc[w] \in Inside \cup {"start"},
         \A v \in Workers \ {w} : task'[v] = task[v]
  PROVE  GroupStutters
<1>1. UNCHANGED GroupState
  BY DEF GroupState, TypeOK, Threads
<1>2. ASSUME NEW t \in inflight PROVE Running(t)' = Running(t)
  <2>1. ASSUME NEW v \in Workers
        PROVE  v \in Running(t)' <=> v \in Running(t)
    BY DEF Running, Inside, TypeOK, Threads
  <2>2. QED  BY <2>1 DEF Running
<1>3. QED  BY <1>1, <1>2, RunningUnchanged DEF GroupStutters

\* A caller moves; no task does.
LEMMA CallerMoves ==
  ASSUME TypeOK, UNCHANGED <<inflight, event, started, elt, task>>,
         \A w \in Workers : pc'[w] \in Inside \cup {"start"} <=> pc[w] \in Inside \cup {"start"}
  PROVE  UNCHANGED <<GroupPending, GroupDue>>
<1>1. ASSUME NEW t \in inflight PROVE Running(t)' = Running(t)
  BY DEF Running
<1>2. QED  BY <1>1, RunningUnchanged

\* The group of a task in flight, and of a thread that may add to it, is open,
\* or waited for with something left in it.
LEMMA GroupInUse ==
  ASSUME IInv
  PROVE  /\ \A t \in inflight : GroupState[event[t]] # "idle" /\ t \in GroupDue[event[t]]
         /\ \A x \in Threads : pc[x] \in {"open", "run"} =>
              /\ ev[x] \in Clients
              /\ \/ GroupState[ev[x]] = "open"
                 \/ GroupState[ev[x]] = "sync" /\ GroupDue[ev[x]] # {}
<1>1. ASSUME NEW t \in inflight
      PROVE  /\ event[t] \in Clients
             /\ GroupState[event[t]] # "idle" /\ t \in GroupDue[event[t]]
  <2>1. event[t] \in Clients /\ activeTasks[event[t]] > 0
    BY EventPositive
  <2>2. pc[event[t]] # "idle"
    BY <2>1 DEF IInv, EventInv
  <2>3. QED  BY <2>1, <2>2 DEF GroupState, GroupDue, Unfinished
<1>2. ASSUME NEW x \in Threads, pc[x] \in {"open", "run"}
      PROVE  /\ ev[x] \in Clients
             /\ \/ GroupState[ev[x]] = "open"
                \/ GroupState[ev[x]] = "sync" /\ GroupDue[ev[x]] # {}
  <2>1. ev[x] \in Clients
    BY <1>2, EventKnown DEF Inside
  <2>2. CASE x \in Clients
    BY <1>2, <2>1, <2>2 DEF IInv, ControlInv, TypeOK, ClientPC, GroupState
  <2>3. CASE x \in Workers
    <3>1. pc[x] = "run" /\ task[x] \in inflight /\ ev[x] = event[task[x]]
      BY <1>2, <2>3 DEF IInv, ControlInv, TypeOK, WorkerPC, Inside
    <3>2. GroupState[ev[x]] # "idle" /\ GroupDue[ev[x]] # {}
      BY <1>1, <3>1
    <3>3. QED  BY <2>1, <3>2 DEF GroupState
  <2>4. QED  BY <2>1, <2>2, <2>3 DEF Threads
<1>3. QED  BY <1>1, <1>2

\* add() puts a task with its elements into the group of its event.
LEMMA AddIsAddTask ==
  ASSUME IInv, NEW x \in Threads, AddInc(x)
  PROVE  ev[x] \in Clients /\ Groups!AddTask(ev[x])
<1>1. PICK t \in Tasks \ live, n \in 1..MaxElts : AddInc(x)!(t, n)
  BY DEF AddInc
<1>2. /\ ev[x] \in Clients
      /\ \/ GroupState[ev[x]] = "open"
         \/ GroupState[ev[x]] = "sync" /\ GroupDue[ev[x]] # {}
  BY <1>1, GroupInUse
<1> DEFINE c == ev[x]
<1>3. /\ t \notin inflight /\ \A w \in Workers : task[w] # t
      /\ \A d \in Clients : t \notin GroupDue[d]
  BY <1>1, FreeAddress DEF GroupDue, Unfinished
<1>4. /\ started' = [started EXCEPT ![t] = n] /\ event' = [event EXCEPT ![t] = c]
      /\ inflight' = inflight \cup {t} /\ UNCHANGED <<task, elt, ev>>
      /\ pc' = [pc EXCEPT ![x] = "push"] /\ pc[x] \in {"open", "run"}
  BY <1>1 DEF Construct, Goto
<1>t. /\ started \in [Tasks -> Nat] /\ event \in [Tasks -> Clients \cup {Null}]
      /\ inflight \subseteq Tasks /\ pc \in [Threads -> WorkerPC \cup ClientPC]
      /\ \A w \in Workers : pc[w] \in WorkerPC
  BY DEF IInv, TypeOK
<1>5. UNCHANGED GroupState
  <2>1. ASSUME NEW d \in Clients, d = x PROVE pc[d] = "open"
    BY <1>4, <2>1 DEF IInv, TypeOK, ClientPC
  <2>2. \A d \in Clients : d # x => pc'[d] = pc[d]
    BY <1>4, <1>t DEF Threads
  <2>3. x \in Clients => pc'[x] = "push"
    BY <1>4, <1>t
  <2>4. QED  BY <2>1, <2>2, <2>3 DEF GroupState
<1>6. GroupDue' = [GroupDue EXCEPT ![c] = @ \cup {t}]
  <2>1. ASSUME NEW d \in Clients
        PROVE  Unfinished(d)' = IF d = c THEN Unfinished(d) \cup {t} ELSE Unfinished(d)
    BY <1>1, <1>3, <1>4, <1>t DEF Unfinished
  <2>2. QED  BY <1>2, <2>1 DEF GroupDue
<1>7. \A i \in Nat : Pending(t, i)' <=> i < n
  BY <1>1, <1>3, <1>4, <1>t DEF Pending, Running
<1>8. ASSUME NEW u \in inflight PROVE \A i : Pending(u, i)' <=> Pending(u, i)
  <2>1. ASSUME NEW w \in Workers PROVE w \in Running(u)' <=> w \in Running(u)
    BY <1>4, <1>t DEF Running, Inside, Threads, WorkerPC
  <2>2. Running(u)' = Running(u)
    BY <2>1 DEF Running
  <2>3. started'[u] = started[u]
    BY <1>3, <1>4, <1>t
  <2>4. QED  BY <1>4, <2>2, <2>3 DEF Pending
<1>9. GroupPending' = [GroupPending EXCEPT ![c] = @ \cup ({t} \X (0 .. n-1))]
  <2>1. ASSUME NEW d \in Clients
        PROVE  GroupPending'[d] = IF d = c THEN GroupPending[d] \cup ({t} \X (0 .. n-1))
                                            ELSE GroupPending[d]
    <3> DEFINE Old == GroupPending[d]
               New == GroupPending'[d]
               More == IF d = c THEN {t} \X (0 .. n-1) ELSE {}
    <3>1. ASSUME NEW u \in inflight', NEW i \in 0 .. MaxElts-1
          PROVE  <<u, i>> \in New <=> <<u, i>> \in Old \cup More
      <4>1. CASE u = t
        BY <1>1, <1>2, <1>3, <1>4, <1>7, <1>t, <2>1, <4>1 DEF GroupPending
      <4>2. CASE u # t
        BY <1>1, <1>2, <1>3, <1>4, <1>8, <1>t, <2>1, <4>2 DEF GroupPending
      <4>3. QED  BY <4>1, <4>2
    <3>2. /\ New \subseteq inflight' \X (0 .. MaxElts-1)
          /\ Old \cup More \subseteq inflight' \X (0 .. MaxElts-1)
      BY <1>1, <1>4, <2>1 DEF GroupPending
    <3>3. New = Old \cup More
      BY <3>1, <3>2
    <3>4. QED  BY <3>3
  <2>2. QED  BY <1>2, <2>1 DEF GroupPending
<1>10. QED
  BY <1>1, <1>2, <1>3, <1>5, <1>6, <1>9 DEF Groups!AddTask

\* A run function that returns takes its element off the group.
LEMMA ReturnIsRunElement ==
  ASSUME IInv, NEW w \in Workers, RunReturns(w)
  PROVE  GroupStutters \/ \E c \in Clients : Groups!RunElement(c)
<1> DEFINE t == task[w]
           c == event[t]
           e == <<t, elt[w]>>
<1>t. /\ pc \in [Threads -> WorkerPC \cup ClientPC] /\ done \in [Tasks -> SUBSET Nat]
      /\ elt \in [Threads -> Nat]
  BY DEF IInv, TypeOK
<1>1. /\ pc[w] = "run" /\ t \in inflight /\ c \in Clients
      /\ pc' = [pc EXCEPT ![w] = "count"]
      /\ UNCHANGED <<inflight, event, started, task, elt>>
  BY DEF RunReturns, Goto, IInv, ControlInv, Inside
<1>2. UNCHANGED <<GroupState, GroupDue>>
  BY <1>1, <1>t DEF GroupState, GroupDue, Unfinished, Threads
<1>3. RunOnce(t) /\ w \in Running(t)
  BY <1>1 DEF IInv, ElementsRunOnce, Running, Inside
<1>4. ASSUME NEW u \in inflight
      PROVE  Running(u)' = Running(u) \ {w}
  BY <1>1, <1>t DEF Running, Inside, Threads
<1>5. ASSUME NEW u \in inflight, NEW i \in 0 .. MaxElts-1
      PROVE  Pending(u, i)' <=> Pending(u, i) /\ <<u, i>> # e
  <2>1. CASE u # t
    <3>1. w \notin Running(u)  BY <2>1 DEF Running
    <3>2. Running(u)' = Running(u)  BY <1>4, <3>1
    <3>3. QED  BY <1>1, <2>1, <3>2 DEF Pending
  <2>2. CASE u = t
    <3>1. /\ \A v \in Running(u) : elt[v] = elt[w] => v = w
          /\ elt[w] >= started[u] /\ w \in Running(u)
      BY <1>3, <2>2 DEF RunOnce
    <3>2. started[u] \in Nat /\ elt[w] \in Nat
      BY <1>1, <1>t, <2>2 DEF IInv, TypeOK, Threads
    <3>3. Running(u)' = Running(u) \ {w}
      BY <1>4
    <3>4. Pending(u, i)' <=> i < started[u] \/ \E v \in Running(u) \ {w} : elt[v] = i
      BY <1>1, <3>3 DEF Pending
    <3>5. Pending(u, i) <=> i < started[u] \/ \E v \in Running(u) : elt[v] = i
      BY DEF Pending
    <3>6. CASE i = elt[w]
      BY <2>2, <3>1, <3>2, <3>4, <3>6
    <3>7. CASE i # elt[w]
      BY <2>2, <3>4, <3>5, <3>7
    <3>8. QED  BY <3>6, <3>7
  <2>3. QED  BY <2>1, <2>2
<1>6. ASSUME NEW d \in Clients
      PROVE  GroupPending'[d] = IF d = c THEN GroupPending[d] \ {e} ELSE GroupPending[d]
  BY <1>1, <1>5 DEF GroupPending
<1>7. GroupPending' = [GroupPending EXCEPT ![c] = @ \ {e}]
  BY <1>1, <1>6 DEF GroupPending
<1>8. CASE e \in GroupPending[c]
  BY <1>1, <1>2, <1>7, <1>8 DEF Groups!RunElement
<1>9. CASE e \notin GroupPending[c]
  <2>1. GroupPending' = GroupPending
    BY <1>6, <1>9 DEF GroupPending
  <2>2. QED  BY <1>2, <2>1 DEF GroupStutters
<1>10. QED  BY <1>8, <1>9

\* The complete function takes the task off the group, which has no element of
\* it left.
LEMMA CompleteIsComplete ==
  ASSUME IInv, NEW w \in Workers, Complete(w)
  PROVE  \E c \in Clients : Groups!Complete(c)
<1> DEFINE t == task[w]
           c == event[t]
<1>t. /\ pc \in [Threads -> WorkerPC \cup ClientPC]
      /\ task \in [Threads -> Tasks \cup {Null}]
      /\ inflight \subseteq Tasks
  BY DEF IInv, TypeOK
<1>1. /\ pc[w] = "complete" /\ t \in inflight /\ t \in Tasks /\ started[t] = 0
      /\ c \in Clients /\ \A v \in Workers : task[v] = t => v = w
  BY CompleteAlone DEF Complete, IInv, ControlInv
<1>2. /\ inflight' = inflight \ {t}
      /\ task' = [task EXCEPT ![w] = Null]
      /\ pc' = [pc EXCEPT ![w] = "dec"]
      /\ UNCHANGED <<event, started, elt>>
  BY DEF Complete, Goto
<1>3. UNCHANGED GroupState
  BY <1>2, <1>t DEF GroupState, Threads
<1>4. \A u \in inflight \ {t} : Running(u)' = Running(u)
  BY <1>1, <1>2, <1>t DEF Running, Inside, Threads
<1>5. \A i \in 0 .. MaxElts-1 : ~Pending(t, i)
  BY <1>1 DEF Pending, Running, Inside
<1>6. \A e \in GroupPending[c] : e[1] # t
  BY <1>1, <1>5 DEF GroupPending
<1>7. GroupPending' = GroupPending
  <2>1. \A u \in inflight \ {t} : \A i : Pending(u, i)' <=> Pending(u, i)
    BY <1>2, <1>4 DEF Pending
  <2>2. ASSUME NEW d \in Clients PROVE GroupPending'[d] = GroupPending[d]
    BY <1>2, <1>5, <2>1, <2>2 DEF GroupPending
  <2>3. QED  BY <2>2 DEF GroupPending
<1>8. GroupDue' = [GroupDue EXCEPT ![c] = @ \ {t}]
  BY <1>1, <1>2 DEF GroupDue, Unfinished
<1>9. t \in GroupDue[c]
  BY <1>1 DEF GroupDue, Unfinished
<1>10. QED
  BY <1>1, <1>3, <1>6, <1>7, <1>8, <1>9 DEF Groups!Complete

\* Taking an element moves it from the list to the worker.
LEMMA TakeStutters ==
  ASSUME IInv, NEW w \in Workers, Take(w)
  PROVE  GroupStutters
<1> DEFINE t == queue[Len(queue)]
<1>t. /\ pc \in [Threads -> WorkerPC \cup ClientPC] /\ elt \in [Threads -> Nat]
      /\ task \in [Threads -> Tasks \cup {Null}] /\ started \in [Tasks -> Nat]
      /\ inflight \subseteq Tasks /\ queue \in Seq(Tasks)
  BY DEF IInv, TypeOK
<1>1. /\ pc[w] = "top" /\ queue # <<>> /\ started' = [started EXCEPT ![t] = @ - 1]
      /\ task' = [task EXCEPT ![w] = t] /\ elt' = [elt EXCEPT ![w] = started[t] - 1]
      /\ pc' = [pc EXCEPT ![w] = "start"] /\ UNCHANGED <<inflight, event>>
  BY DEF Take, Goto
<1>2. t \in inflight /\ started[t] \in Nat \ {0}
  BY <1>1, <1>t DEF IInv, QueueInv
<1> HIDE DEF t
<1>3. UNCHANGED GroupState
  BY <1>1, <1>t DEF GroupState, Threads
<1>4. ASSUME NEW u \in inflight
      PROVE  /\ w \notin Running(u)
             /\ Running(u)' = IF u = t THEN Running(u) \cup {w} ELSE Running(u)
  BY <1>1, <1>t DEF Running, Inside, Threads
<1>5. ASSUME NEW u \in inflight, NEW i \in 0 .. MaxElts-1
      PROVE  Pending(u, i)' <=> Pending(u, i)
  <2>1. \A v \in Running(u) : v \in Workers /\ elt'[v] = elt[v]
    BY <1>1, <1>4, <1>t DEF Running, Threads
  <2>2. elt'[w] = started[t] - 1
    BY <1>1, <1>t DEF Threads
  <2>3. CASE u = t
    <3>1. started'[u] = started[u] - 1
      BY <1>1, <1>2, <1>t, <2>3
    <3>2. Running(u)' = Running(u) \cup {w} /\ elt'[w] = started[u] - 1
      BY <1>4, <2>2, <2>3
    <3>3. Pending(u, i)' <=> i < started[u] - 1 \/ i = started[u] - 1
                               \/ \E v \in Running(u) : elt[v] = i
      BY <2>1, <3>1, <3>2 DEF Pending
    <3>4. i < started[u] <=> i < started[u] - 1 \/ i = started[u] - 1
      BY <1>2, <2>3
    <3>5. QED  BY <3>3, <3>4 DEF Pending
  <2>4. CASE u # t
    <3>1. started'[u] = started[u] /\ Running(u)' = Running(u)
      BY <1>1, <1>4, <1>t, <2>4
    <3>2. QED  BY <2>1, <3>1 DEF Pending
  <2>5. QED  BY <2>3, <2>4
<1>6. QED  BY <1>1, <1>3, <1>5, PendingUnchanged DEF GroupStutters

\* The group of a caller that returns is empty: the loop around the condition
\* variable saw the flag, so nobody keeps the event from triggering any more.
LEMMA ReturnIsReturn ==
  ASSUME IInv, NEW c \in Clients, Return(c)
  PROVE  Groups!Return(c)
<1>1. /\ pc[c] = "wait" /\ pc' = [pc EXCEPT ![c] = "idle"] /\ c \in signaled
      /\ UNCHANGED <<inflight, event, started, elt, task>>
  BY DEF Return, Goto, SyncDone
<1>2. GroupState[c] = "sync" /\ GroupDue[c] = {}
  BY <1>1, SyncedGroupIsEmpty DEF GroupState, GroupDue, Unfinished
<1>3. UNCHANGED <<GroupPending, GroupDue>>
  BY <1>1, CallerMoves DEF IInv, TypeOK, Threads
<1>4. GroupState' = [GroupState EXCEPT ![c] = "idle"]
  <2>1. \A d \in Clients : pc'[d] = IF d = c THEN "idle" ELSE pc[d]
    BY <1>1 DEF IInv, TypeOK, Threads
  <2>2. QED  BY <2>1 DEF GroupState
<1>5. QED  BY <1>2, <1>3, <1>4 DEF Groups!Return

\* A caller that constructs an event opens its group; one that calls sync
\* waits for it.
LEMMA CallsAreCalls ==
  ASSUME IInv, NEW c \in Clients
  PROVE  /\ Open(c) => Groups!Open(c)
         /\ Sync(c) => Groups!Sync(c)
<1>1. ASSUME Open(c) PROVE Groups!Open(c)
  <2>1. /\ pc[c] = "idle" /\ pc' = [pc EXCEPT ![c] = "open"]
        /\ UNCHANGED <<inflight, event, started, elt, task>>
    BY <1>1 DEF Open, Goto, taskVars
  <2>2. UNCHANGED <<GroupPending, GroupDue>>
    BY <2>1, CallerMoves DEF IInv, TypeOK, Threads
  <2>3. \A d \in Clients : pc'[d] = IF d = c THEN "open" ELSE pc[d]
    BY <2>1 DEF IInv, TypeOK, Threads
  <2>4. GroupState' = [GroupState EXCEPT ![c] = "open"]
    BY <2>3 DEF GroupState
  <2>5. GroupState[c] = "idle"
    BY <2>1 DEF GroupState
  <2>6. QED  BY <2>2, <2>4, <2>5 DEF Groups!Open
<1>2. ASSUME Sync(c) PROVE Groups!Sync(c)
  <2>1. /\ pc[c] = "open" /\ pc' = [pc EXCEPT ![c] = "dec"]
        /\ UNCHANGED <<inflight, event, started, elt, task>>
    BY <1>2 DEF Sync, Goto, taskVars
  <2>2. UNCHANGED <<GroupPending, GroupDue>>
    BY <2>1, CallerMoves DEF IInv, TypeOK, Threads
  <2>3. \A d \in Clients : pc'[d] = IF d = c THEN "dec" ELSE pc[d]
    BY <2>1 DEF IInv, TypeOK, Threads
  <2>4. GroupState' = [GroupState EXCEPT ![c] = "sync"]
    BY <2>3 DEF GroupState
  <2>5. GroupState[c] = "open"
    BY <2>1 DEF GroupState
  <2>6. QED  BY <2>2, <2>4, <2>5 DEF Groups!Sync
<1>3. QED  BY <1>1, <1>2

\* What the list, the condition variable and the event count do inside is no
\* step of any group.
LEMMA InternalSteps ==
  ASSUME IInv,
         \/ \E w \in Workers : Sleep(w) \/ SpuriousWakeup(w) \/ Exit(w)
                                 \/ StartRun(w) \/ Count(w)
         \/ \E x \in Threads : AddPush(x) \/ AddBroadcast(x) \/ Dec(x) \/ Trigger(x)
         \/ Terminate \/ TerminateBroadcast \/ Join \/ Create
         \/ UNCHANGED vars
  PROVE  GroupStutters
<1>t. /\ TypeOK /\ pc \in [Threads -> WorkerPC \cup ClientPC]
      /\ task \in [Threads -> Tasks \cup {Null}] /\ inflight \subseteq Tasks
      /\ \A w \in Workers : pc[w] \in WorkerPC
      /\ \A c \in Clients : pc[c] \in ClientPC
  BY DEF IInv, TypeOK
<1> USE DEF Goto, taskVars, eventVars, stopVars
<1>1. ASSUME NEW w \in Workers, Sleep(w) PROVE GroupStutters
  BY <1>t, <1>1, WorkerOutside DEF Sleep, Inside, WorkerPC
<1>2. ASSUME NEW w \in Workers, SpuriousWakeup(w) PROVE GroupStutters
  BY <1>t, <1>2, WorkerOutside DEF SpuriousWakeup, Inside, WorkerPC
<1>3. ASSUME NEW w \in Workers, Exit(w) PROVE GroupStutters
  BY <1>t, <1>3, WorkerOutside DEF Exit, Inside, WorkerPC
<1>4. ASSUME NEW w \in Workers, StartRun(w) PROVE GroupStutters
  BY <1>t, <1>4, WorkerOutside DEF StartRun, Inside, WorkerPC
<1>5. ASSUME NEW w \in Workers, Count(w) PROVE GroupStutters
  <2>1. /\ pc[w] = "count" /\ UNCHANGED <<inflight, event, started, elt>>
        /\ \E l \in {"complete", "top"} : pc' = [pc EXCEPT ![w] = l]
        /\ \A v \in Workers \ {w} : task'[v] = task[v]
    BY <1>t, <1>5 DEF Count, Threads
  <2>2. PICK l \in {"complete", "top"} : pc' = [pc EXCEPT ![w] = l]
    BY <2>1
  <2>3. QED  BY <1>t, <2>1, <2>2, WorkerOutside DEF Inside, WorkerPC
<1>6. ASSUME NEW x \in Threads,
             AddPush(x) \/ AddBroadcast(x) \/ Dec(x) \/ Trigger(x)
      PROVE  GroupStutters
  <2>1. UNCHANGED <<inflight, event, started, elt, task>>
    BY <1>6 DEF AddPush, AddBroadcast, Dec, Trigger
  <2>2. \A w \in Workers : pc'[w] \in Inside \cup {"start"} <=> pc[w] \in Inside \cup {"start"}
    BY <1>t, <1>6 DEF AddPush, AddBroadcast, Dec, Trigger, Woken, AfterDec, Inside, Threads
  <2>3. ASSUME NEW c \in Clients
        PROVE  /\ pc'[c] = "idle" <=> pc[c] = "idle"
               /\ pc'[c] \in {"open", "push", "broadcast"} <=> pc[c] \in {"open", "push", "broadcast"}
    BY <1>t, <1>6 DEF AddPush, AddBroadcast, Dec, Trigger, Woken, AfterDec, Threads, ClientPC
  <2>4. UNCHANGED GroupState
    BY <2>3 DEF GroupState
  <2>5. QED  BY <1>t, <2>1, <2>2, <2>4, CallerMoves DEF GroupStutters
<1>7. ASSUME Terminate \/ TerminateBroadcast \/ Join \/ Create \/ UNCHANGED vars
      PROVE  GroupStutters
  <2>1. UNCHANGED <<inflight, event, started, elt, task>>
    BY <1>7 DEF Terminate, TerminateBroadcast, Join, Create, vars
  <2>2. \A w \in Workers : pc'[w] \in Inside \cup {"start"} <=> pc[w] \in Inside \cup {"start"}
    BY <1>t, <1>7 DEF Terminate, TerminateBroadcast, Join, Create, vars, Woken, Inside,
                      Threads, IInv, PhaseInv
  <2>3. \A c \in Clients : pc'[c] = pc[c]
    BY <1>t, <1>7 DEF Terminate, TerminateBroadcast, Join, Create, vars, Woken, Threads, ClientPC
  <2>4. UNCHANGED GroupState
    BY <2>3 DEF GroupState
  <2>5. QED  BY <1>t, <2>1, <2>2, <2>4, CallerMoves DEF GroupStutters
<1>8. QED  BY <1>1, <1>2, <1>3, <1>4, <1>5, <1>6, <1>7

\* Every step of the scheduler is a step of one group or of none.
LEMMA StepImplements == IInv /\ [Next]_vars => [Groups!Next]_(Groups!vars)
<1> SUFFICES ASSUME IInv, [Next]_vars PROVE [Groups!Next]_(Groups!vars)
  OBVIOUS
<1>0. GroupStutters => [Groups!Next]_(Groups!vars)
  BY DEF GroupStutters, Groups!vars
<1>1. ASSUME NEW x \in Threads, AddInc(x) PROVE Groups!Next
  BY <1>1, AddIsAddTask DEF Groups!Next
<1>2. ASSUME NEW w \in Workers, Take(w) PROVE GroupStutters
  BY <1>2, TakeStutters
<1>3. ASSUME NEW w \in Workers, RunReturns(w) PROVE GroupStutters \/ Groups!Next
  BY <1>3, ReturnIsRunElement DEF Groups!Next
<1>4. ASSUME NEW w \in Workers, Complete(w) PROVE Groups!Next
  BY <1>4, CompleteIsComplete DEF Groups!Next
<1>5. ASSUME NEW c \in Clients, Open(c) \/ Sync(c) \/ Return(c) PROVE Groups!Next
  BY <1>5, CallsAreCalls, ReturnIsReturn DEF Groups!Next
<1>6. CASE \/ \E w \in Workers : Sleep(w) \/ SpuriousWakeup(w) \/ Exit(w)
                                  \/ StartRun(w) \/ Count(w)
           \/ \E x \in Threads : AddPush(x) \/ AddBroadcast(x) \/ Dec(x) \/ Trigger(x)
           \/ Terminate \/ TerminateBroadcast \/ Join \/ Create
           \/ UNCHANGED vars
  BY <1>0, <1>6, InternalSteps
<1>7. QED
  BY <1>0, <1>1, <1>2, <1>3, <1>4, <1>5, <1>6 DEF Next, WorkerStep, GroupStep

\* The scheduler implements the task groups, fairness apart: with its list, its
\* counters and its condition variables, what a caller sees of its group is only
\* that it is opened, that task sets are added, that an element is run once, that
\* a task set is completed after its elements, and that sync returns when the
\* group is empty.
THEOREM GroupsImplemented ==
  Spec => Groups!Init /\ [][Groups!Next]_(Groups!vars)
<1>1. Init => Groups!Init
  <2> SUFFICES ASSUME Init PROVE Groups!Init
    OBVIOUS
  <2>1. inflight = {} /\ \A c \in Clients : pc[c] = "idle"
    BY DEF Init, Threads
  <2>2. QED  BY <2>1 DEF Groups!Init, GroupState, GroupPending, GroupDue, Unfinished
<1>2. QED  BY <1>1, Invariance, StepImplements, PTL DEF Spec
=============================================================================
