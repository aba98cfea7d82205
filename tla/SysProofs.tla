----------------------------- MODULE SysProofs -----------------------------
(***************************************************************************)
(* The parts the scheduler is made of.  The event for any number of        *)
(* workers: nobody touches it after the caller has destroyed it.  The      *)
(* barrier for any number of threads and rounds: what it promises although *)
(* threads are woken unasked.  And the array of its list, for any size and *)
(* any width of its counters.                                              *)
(***************************************************************************)
EXTENDS MCSchedulerParts, SequenceTheorems, TLAPS, FiniteSetTheorems

USE EventAssumption

\* The threads that owe a dec() are finitely many, and one that does keeps the
\* counter above zero.
LEMMA OwingPositive ==
  ASSUME IInv
  PROVE  /\ IsFiniteSet(Owing) /\ Cardinality(Owing) \in Nat
         /\ \A x \in Threads : pc[x] = "dec" => activeTasks > 0
<1>1. IsFiniteSet(Threads)
  BY FS_AddElement DEF Threads
<1>2. IsFiniteSet(Owing) /\ Cardinality(Owing) \in Nat
  BY <1>1, FS_Subset, FS_CardinalityType, Owing \subseteq Threads DEF Owing
<1>3. ASSUME NEW x \in Threads, pc[x] = "dec" PROVE activeTasks > 0
  BY <1>2, <1>3, x \in Owing, FS_EmptySet DEF Owing, IInv, CountInv
<1>4. QED  BY <1>2, <1>3

\* The event starts with one count for every worker and one for the caller.
LEMMA InitIInv == Init => IInv
<1> SUFFICES ASSUME Init PROVE IInv
  OBVIOUS
<1> USE DEF Init
<1>1. Owing = Workers \cup {Caller}
  BY DEF Owing, Threads
<1>2. Cardinality(Owing) = Cardinality(Workers) + 1 /\ activeTasks \in Nat
  BY <1>1, FS_AddElement, FS_CardinalityType
<1>3. TypeOK
  BY <1>2 DEF TypeOK
<1>4. CountInv /\ MutexInv /\ FlagInv /\ NoUseAfterDestroy
  BY <1>2 DEF CountInv, MutexInv, FlagInv, NoUseAfterDestroy, Threads, Signaling
<1>5. QED  BY <1>3, <1>4 DEF IInv

\* A step that neither counts down nor moves a thread into or out of signal()
\* keeps CountInv.
LEMMA CountKept ==
  ASSUME IInv, UNCHANGED activeTasks,
         \A x \in Threads : /\ pc'[x] = "dec" <=> pc[x] = "dec"
                            /\ pc'[x] \in Signaling => pc[x] \in Signaling
  PROVE  CountInv'
<1>1. Owing' = Owing
  BY DEF Owing
<1>2. QED  BY <1>1 DEF IInv, CountInv

\* Every instruction of dec(), signal() and wait() preserves the invariant.
LEMMA NextIInv == IInv /\ [Next]_vars => IInv'
<1> SUFFICES ASSUME IInv, [Next]_vars PROVE IInv'
  OBVIOUS
<1> USE DEF IInv
<1>t. /\ pc \in [Threads -> Signaling \cup {"dec", "wait", "check", "asleep", "done"}]
      /\ activeTasks \in Nat /\ Nobody \notin Threads /\ Caller \in Threads
  BY DEF TypeOK, Threads
<1> USE DEF TypeOK, MutexInv, FlagInv, NoUseAfterDestroy, Goto, AfterDec, AfterStep,
            Signaling, Threads
<1>1. ASSUME NEW x \in Threads, Dec(x) PROVE IInv'
  <2>1. activeTasks > 0 /\ activeTasks - 1 \in Nat
    BY <1>1, <1>t, OwingPositive DEF Dec
  <2>2. Owing' = Owing \ {x} /\ x \in Owing
    BY <1>1, <1>t DEF Dec, Owing
  <2>3. Cardinality(Owing') = Cardinality(Owing) - 1
    BY <2>2, OwingPositive, FS_RemoveElement
  <2>4. CountInv'
    BY <1>1, <1>t, <2>1, <2>3 DEF Dec, CountInv, Triggers
  <2>5. QED  BY <1>1, <1>t, <2>1, <2>4 DEF Dec, Triggers
<1>2. ASSUME NEW x \in Threads, LockToSignal(x) PROVE IInv'
  <2>1. CountInv'
    BY <1>2, <1>t, CountKept DEF LockToSignal
  <2>2. QED  BY <1>2, <1>t, <2>1 DEF LockToSignal
<1>3. ASSUME NEW x \in Threads, SetEvent(x) PROVE IInv'
  <2>1. CountInv'
    BY <1>3, <1>t, CountKept DEF SetEvent
  <2>2. activeTasks = 0 /\ \A y \in Threads : pc[y] \in Signaling => y = x
    BY <1>3, <1>t DEF SetEvent, CountInv
  <2>3. QED  BY <1>3, <1>t, <2>1, <2>2 DEF SetEvent
<1>4. ASSUME NEW x \in Threads, Broadcast(x) PROVE IInv'
  <2>1. CountInv'
    BY <1>4, <1>t, CountKept DEF Broadcast, Woken
  <2>2. QED  BY <1>4, <1>t, <2>1 DEF Broadcast, Woken
<1>5. ASSUME NEW x \in Threads, Unlock(x) PROVE IInv'
  <2>1. CountInv'
    BY <1>5, <1>t, CountKept DEF Unlock
  <2>2. QED  BY <1>5, <1>t, <2>1 DEF Unlock
<1>6. ASSUME NEW x \in Threads, LockToWait(x) PROVE IInv'
  <2>1. CountInv'
    BY <1>6, <1>t, CountKept DEF LockToWait
  <2>2. QED  BY <1>6, <1>t, <2>1 DEF LockToWait
<1>7. ASSUME NEW x \in Threads, Sleep(x) PROVE IInv'
  <2>1. CountInv'
    BY <1>7, <1>t, CountKept DEF Sleep
  <2>2. QED  BY <1>7, <1>t, <2>1 DEF Sleep
<1>8. ASSUME NEW x \in Threads, SpuriousWakeup(x) PROVE IInv'
  <2>1. CountInv'
    BY <1>8, <1>t, CountKept DEF SpuriousWakeup
  <2>2. QED  BY <1>8, <1>t, <2>1 DEF SpuriousWakeup
<1>9. ASSUME NEW x \in Threads, Leave(x) PROVE IInv'
  <2>1. CountInv'
    BY <1>9, <1>t, CountKept DEF Leave
  <2>2. x = Caller /\ event /\ mutex = x
    BY <1>9, <1>t DEF Leave, MayLeave
  <2>3. \A y \in Threads : pc[y] # "dec"
    BY <2>2, <1>t, OwingPositive
  <2>4. \A y \in Threads : y # x => pc[y] = "done"
    BY <1>t, <2>2, <2>3
  <2>5. QED  BY <1>9, <1>t, <2>1, <2>2, <2>4 DEF Leave
<1>10. CASE UNCHANGED vars
  BY <1>10, <1>t, CountKept DEF vars
<1>11. QED
  BY <1>1, <1>2, <1>3, <1>4, <1>5, <1>6, <1>7, <1>8, <1>9, <1>10
  DEF Next, Step, Terminated

\* The counter equals the number of threads that still owe a dec(), at most one
\* thread is inside signal(), and nobody is in there once the flag is visible
\* to the caller that holds the mutex.
THEOREM EventInvariance == Spec => []IInv
BY InitIInv, NextIInv, PTL DEF Spec

\* Destroying the event when sync() returns is safe, for any number of workers.
THEOREM DestroyIsSafe == Spec => []NoUseAfterDestroy
<1>1. IInv => NoUseAfterDestroy
  BY DEF IInv
<1>2. QED  BY <1>1, EventInvariance, PTL

-----------------------------------------------------------------------------
(* The barrier.                                                            *)

\* The threads that sleep are finitely many.
LEMMA AsleepIsFinite ==
  /\ IsFiniteSet(Asleep) /\ Cardinality(Asleep) \in Nat
  /\ full_size \in Nat \ {0}
<1>1. IsFiniteSet(Members) /\ Members # {}
  BY BarrierAssumption
<1>2. IsFiniteSet(Asleep)
  BY <1>1, FS_Subset, Asleep \subseteq Members DEF Asleep
<1>3. Cardinality(Asleep) \in Nat /\ Cardinality(Members) \in Nat
  BY <1>1, <1>2, FS_CardinalityType
<1>4. Cardinality(Members) # 0
  BY <1>1, FS_EmptySet
<1>. QED
  BY <1>2, <1>3, <1>4 DEF full_size

\* At first nobody sleeps.
LEMMA InitBarrier == BarrierInit => NobodyIsLeftBehind
<1>. SUFFICES ASSUME BarrierInit PROVE NobodyIsLeftBehind
  OBVIOUS
<1>1. Asleep = {}
  BY DEF Asleep, BarrierInit
<1>2. Cardinality(Asleep) = 0
  BY <1>1, FS_EmptySet
<1>3. BarrierTypeOK
  BY AsleepIsFinite DEF BarrierInit, BarrierTypeOK
<1>. QED
  BY <1>1, <1>2, <1>3 DEF NobodyIsLeftBehind, BarrierInit

\* Every step keeps those that sleep within the round and the count.
LEMMA NextBarrier ==
  ASSUME NobodyIsLeftBehind, [BarrierNext]_barrierVars
  PROVE  NobodyIsLeftBehind'
<1>0. /\ BarrierTypeOK /\ \A u \in Asleep : joined[u] = rounds
      /\ IsFiniteSet(Asleep) /\ Cardinality(Asleep) \in Nat /\ Cardinality(Asleep) <= count
      /\ full_size \in Nat \ {0} /\ full_size' = full_size
  BY AsleepIsFinite DEF NobodyIsLeftBehind, full_size
<1>1. ASSUME NEW t \in Members, Arrive(t) PROVE NobodyIsLeftBehind'
  <2>1. Asleep' = Asleep \cup {t}
    BY <1>0, <1>1 DEF Arrive, Asleep, BarrierTypeOK
  <2>2. Cardinality(Asleep') <= count'
    <3>1. t \notin Asleep /\ count' = count + 1 /\ count \in Int
      BY <1>0, <1>1 DEF Arrive, Asleep, BarrierTypeOK
    <3>2. Cardinality(Asleep \cup {t}) = Cardinality(Asleep) + 1
      BY <1>0, <3>1, FS_AddElement
    <3>. QED
      BY <1>0, <2>1, <3>1, <3>2
  <2>3. BarrierTypeOK'
    BY <1>0, <1>1 DEF Arrive, IsLast, BarrierTypeOK
  <2>4. \A u \in Asleep' : joined'[u] = rounds'
    BY <1>0, <1>1, <2>1 DEF Arrive, Asleep, BarrierTypeOK
  <2>. QED
    BY <2>2, <2>3, <2>4 DEF NobodyIsLeftBehind
<1>2. ASSUME NEW t \in Members, Open(t) PROVE NobodyIsLeftBehind'
  <2>1. Asleep' = {}
    BY <1>2 DEF Open, AllWoken, Asleep
  <2>2. Cardinality(Asleep') <= count'
    BY <1>2, <2>1, FS_EmptySet DEF Open
  <2>3. BarrierTypeOK'
    BY <1>0, <1>2 DEF Open, AllWoken, BarrierTypeOK
  <2>. QED
    BY <2>1, <2>2, <2>3 DEF NobodyIsLeftBehind
<1>3. ASSUME NEW t \in Members, Return(t) PROVE NobodyIsLeftBehind'
  <2>1. Asleep' \subseteq Asleep
    BY <1>0, <1>3 DEF Return, Asleep, BarrierTypeOK
  <2>2. Cardinality(Asleep') <= count'
    <3>1. Cardinality(Asleep') <= Cardinality(Asleep) /\ Cardinality(Asleep') \in Nat
      BY <1>0, <2>1, FS_Subset, FS_CardinalityType
    <3>. QED
      BY <1>0, <1>3, <3>1 DEF Return, BarrierTypeOK
  <2>3. BarrierTypeOK'
    BY <1>0, <1>3 DEF Return, BarrierTypeOK
  <2>. QED
    BY <1>0, <1>3, <2>1, <2>2, <2>3 DEF NobodyIsLeftBehind, Return
<1>4. ASSUME UNCHANGED barrierVars PROVE NobodyIsLeftBehind'
  BY <1>0, <1>4 DEF barrierVars, NobodyIsLeftBehind, BarrierTypeOK, Asleep
<1>. QED
  BY <1>1, <1>2, <1>3, <1>4 DEF BarrierNext

\* Every opening of the barrier releases all that sleep there, and who sleeps is
\* counted: for any number of threads and rounds, whoever is woken unasked.
THEOREM BarrierReleasesAll == BarrierSpec => []NobodyIsLeftBehind
BY InitBarrier, NextBarrier, PTL DEF BarrierSpec

-----------------------------------------------------------------------------
(***************************************************************************)
(* The ring of the scheduler's list, for an array and counters of any      *)
(* size: masks, first.  A cell is the same whether the counter is wrapped  *)
(* before it is masked or not, for the size divides the width.             *)
(***************************************************************************)
HIDE EventAssumption

LEMMA DivMod ==
  ASSUME NEW x \in Int, NEW n \in Nat \ {0}
  PROVE  \E q \in Int, r \in 0 .. n-1 : x = n * q + r /\ x % n = r
<1>1. x \div n \in Int /\ x % n \in 0 .. n-1 /\ x = n * (x \div n) + (x % n)
  OBVIOUS
<1>. QED
  BY <1>1

LEMMA DivUnique ==
  ASSUME NEW n \in Nat \ {0}, NEW q \in Int, NEW r \in 0 .. n-1,
         NEW x \in Int, x = n * q + r
  PROVE  x \div n = q /\ x % n = r
  OBVIOUS

LEMMA Congruent ==
  ASSUME NEW n \in Nat \ {0}, NEW x \in Int, NEW y \in Int, NEW z \in Int
  PROVE  y = x + n * z => y % n = x % n
<1>1. PICK q \in Int, r \in 0 .. n-1 : x = n * q + r /\ x % n = r
  BY DivMod
<1>2. n * z \in Int /\ n * q \in Int /\ n * (q + z) = n * q + n * z
  OBVIOUS
<1>3. PICK p \in Int : p = q + z
  OBVIOUS
<1>4. ASSUME y = x + n * z PROVE y = n * p + r
  <2>1. PICK a \in Int, b \in Int : a = n * z /\ b = n * q
    BY <1>2
  <2>2. n * p = b + a /\ x = b + r /\ y = x + a
    BY <1>1, <1>2, <1>3, <1>4, <2>1
  <2>. QED
    BY <2>2
<1>5. ASSUME y = n * p + r PROVE y % n = r
  BY <1>5, DivUnique
<1>. QED
  BY <1>1, <1>4, <1>5

LEMMA NotAgain ==
  ASSUME NEW n \in Nat \ {0}, NEW x \in Int, NEW m \in 1 .. n-1
  PROVE  (x + m) % n # x % n
<1>. SUFFICES ASSUME (x + m) % n = x % n PROVE FALSE
  OBVIOUS
<1>1. PICK q \in Int, r \in 0 .. n-1 : x = n * q + r /\ x % n = r
  BY DivMod
<1>2. PICK p \in Int, s \in 0 .. n-1 : x + m = n * p + s /\ (x + m) % n = s
  BY DivMod, x + m \in Int
<1>3. r = s
  BY <1>1, <1>2
<1>4. n * p \in Int /\ n * q \in Int /\ n * (p - q) = n * p - n * q
  OBVIOUS
<1>5. m = n * (p - q)
  BY <1>1, <1>2, <1>3, <1>4
<1>6. p - q <= 0 => n * (p - q) <= 0
  OBVIOUS
<1>7. p - q >= 1 => n * (p - q) >= n
  OBVIOUS
<1>. QED
  BY <1>5, <1>6, <1>7

LEMMA Divisor ==
  ASSUME NEW n \in Nat \ {0}, NEW w \in Nat \ {0}, w % n = 0
  PROVE  \E q \in Nat \ {0} : w = n * q
<1>1. PICK q \in Int, r \in 0 .. n-1 : w = n * q + r /\ w % n = r
  BY DivMod, w \in Int
<1>2. w = n * q
  BY <1>1
<1>3. q <= 0 => n * q <= 0
  OBVIOUS
<1>. QED
  BY <1>2, <1>3

\* A longer mask changes nothing under a shorter one.
LEMMA ModMod ==
  ASSUME NEW n \in Nat \ {0}, NEW w \in Nat \ {0}, w % n = 0, NEW x \in Int
  PROVE  x % w \in 0 .. w-1 /\ (x % w) % n = x % n
<1>1. PICK q \in Nat \ {0} : w = n * q
  BY Divisor
<1>2. PICK a \in Int, r \in 0 .. w-1 : x = w * a + r /\ x % w = r
  BY DivMod
<1>3. PICK z \in Int : z = q * a /\ n * z = (n * q) * a
  BY q * a \in Int, n * (q * a) = (n * q) * a
<1>4. x = r + n * z
  BY <1>1, <1>2, <1>3
<1>5. x % n = r % n
  BY <1>4, r \in Int, Congruent
<1>. QED
  BY <1>2, <1>5

USE RingAssumption

LEMMA WrapMod ==
  ASSUME NEW n \in Nat \ {0}, Width % n = 0, NEW x \in Int
  PROVE  Wrap(x) \in 0 .. Width-1 /\ Wrap(x) % n = x % n
  BY ModMod DEF Wrap

\* A sum may be wrapped once more.
LEMMA WrapSum ==
  ASSUME NEW n \in Nat \ {0}, Width % n = 0, NEW x \in Int, NEW m \in Int
  PROVE  (Wrap(x) + m) % n = (x + m) % n
<1>1. PICK q \in Nat \ {0} : Width = n * q
  BY Divisor
<1>2. PICK a \in Int, r \in 0 .. Width-1 : x = Width * a + r /\ x % Width = r
  BY DivMod
<1>3. PICK z \in Int, y \in Int : z = q * a /\ n * z = (n * q) * a /\ y = r + m
  BY q * a \in Int, n * (q * a) = (n * q) * a
<1>4. x + m = y + n * z
  BY <1>1, <1>2, <1>3, n * z \in Int
<1>5. PICK u \in Int : u = x + m
  OBVIOUS
<1>6. u % n = y % n
  BY <1>4, <1>5, Congruent
<1>. QED
  BY <1>2, <1>3, <1>5, <1>6 DEF Wrap

LEMMA WidthDivides == Width % Width = 0
<1>1. Width = Width * 1 + 0 /\ 0 \in 0 .. Width-1
  OBVIOUS
<1>. QED
  BY <1>1, DivUnique

\* The size can be doubled while a size_t has more values than the array cells.
LEMMA DoubleDivides ==
  ASSUME NEW n \in Nat \ {0}, Width % n = 0, n < Width
  PROVE  Width % (2 * n) = 0
<1>1. PICK q \in Nat \ {0} : Width = n * q
  BY Divisor
<1>2. q # 1 /\ q * n = n * q
  BY <1>1
<1>3. Width = q * n + 0 /\ 0 \in 0 .. q-1
  BY <1>1, <1>2
<1>4. Width % q = 0
  BY <1>3, DivUnique
<1>5. q <= n * q
  OBVIOUS
<1>6. q % 2 = 0
  BY <1>1, <1>2, <1>4, <1>5 DEF PowerOfTwo
<1>7. PICK p \in Nat \ {0} : q = 2 * p
  BY <1>6, Divisor
<1>8. n * (2 * p) = (2 * n) * p
  OBVIOUS
<1>9. PICK m \in Nat \ {0} : m = 2 * n
  OBVIOUS
<1>10. Width = m * p + 0 /\ 0 \in 0 .. m-1
  BY <1>1, <1>7, <1>8, <1>9
<1>11. Width % m = 0
  BY <1>10, DivUnique
<1>. QED
  BY <1>9, <1>11

LEMMA WrapSame == ASSUME NEW x \in 0 .. Width-1 PROVE Wrap(x) = x
<1>1. Width * 0 = 0 /\ x = Width * 0 + x
  OBVIOUS
<1>. QED
  BY <1>1, DivUnique DEF Wrap

(***************************************************************************)
(* The number of tasks follows the counters, also when they wrap.          *)
(***************************************************************************)
LEMMA LengthType ==
  ASSUME begin \in 0 .. Width-1, end \in 0 .. Width-1
  PROVE  Length \in 0 .. Width-1
<1>1. PICK x \in Int : x = end - begin
  OBVIOUS
<1>. QED
  BY <1>1, DivMod DEF Length, Wrap

\* The cell at the end is that of begin and the length.
LEMMA EndCell ==
  ASSUME begin \in 0 .. Width-1, end \in 0 .. Width-1,
         NEW n \in Nat \ {0}, Width % n = 0, NEW m \in Int
  PROVE  (end + m) % n = (begin + Length + m) % n
<1>1. PICK x \in Int, u \in Int, l \in Int : x = end - begin /\ u = begin + m /\ l = Wrap(x)
  BY WrapMod
<1>2. (l + u) % n = (x + u) % n
  BY <1>1, WrapSum
<1>3. x + u = end + m /\ l + u = begin + Length + m
  BY <1>1 DEF Length
<1>. QED
  BY <1>2, <1>3

LEMMA EndMoved ==
  ASSUME begin \in 0 .. Width-1, end \in 0 .. Width-1,
         NEW m \in Int, Length + m \in 0 .. Width-1
  PROVE  Wrap(Wrap(end + m) - begin) = Length + m
<1>1. PICK x \in Int, b \in Int, u \in Int : x = end + m /\ b = 0 - begin /\ u = end - begin
  OBVIOUS
<1>2. (Wrap(x) + b) % Width = (x + b) % Width
  BY WrapSum, WidthDivides
<1>3. (Wrap(u) + m) % Width = (u + m) % Width
  BY WrapSum, WidthDivides
<1>4. x + b = u + m /\ Wrap(u) = Length
  BY <1>1 DEF Length
<1>6. PICK v \in Int : v = Wrap(x)
  BY WrapMod, WidthDivides
<1>7. v + b = v - begin /\ v = Wrap(end + m)
  BY <1>1, <1>6
<1>5. Wrap(Length + m) = Length + m
  BY WrapSame
<1>. QED
  BY <1>2, <1>3, <1>4, <1>5, <1>6, <1>7 DEF Wrap

LEMMA BeginMoved ==
  ASSUME begin \in 0 .. Width-1, end \in 0 .. Width-1, Length + 1 \in 0 .. Width-1
  PROVE  Wrap(end - Wrap(begin - 1)) = Length + 1
<1>1. PICK x \in Int : x = begin - 1
  OBVIOUS
<1>2. PICK a \in Int, r \in 0 .. Width-1 : x = Width * a + r /\ x % Width = r
  BY DivMod
<1>3. PICK u \in Int, v \in Int, w \in Int : u = end - r /\ v = end - x /\ w = Width * a
  BY Width * a \in Int
<1>4. u = v + w
  BY <1>2, <1>3
<1>5. u % Width = v % Width
  BY <1>3, <1>4, Congruent
<1>6. PICK e \in Int : e = end - begin
  OBVIOUS
<1>7. (Wrap(e) + 1) % Width = (e + 1) % Width
  BY WrapSum, WidthDivides
<1>8. v = e + 1
  BY <1>1, <1>3, <1>6
<1>9. Wrap(Length + 1) = Length + 1
  BY WrapSame
<1>. QED
  BY <1>1, <1>2, <1>3, <1>5, <1>6, <1>7, <1>8, <1>9 DEF Wrap, Length

(***************************************************************************)
(* The copy loop of add() when the array is doubled.  After any number of  *)
(* rounds a cell of the lower half has its task still, or its own again; a *)
(* cell of the upper half has one if it was copied.                        *)
(***************************************************************************)
Resized(n) == [i \in Cells(2 * n) |-> IF i < n THEN tasks[i] ELSE Null]

Copy(f, k, n) ==
  LET i == Wrap(begin + k - 1)
  IN  [f EXCEPT ![NewCell(i, n, 2 * n)] = f[Mask(i, n)]]

CopyLoop(n, m) ==
  CHOOSE f : f = [k \in 0 .. m |-> IF k = 0 THEN Resized(n) ELSE Copy(f[k-1], k, n)]

Copied(n, k) ==
  [c \in Cells(2 * n) |->
     IF c < n \/ (\E j \in 1 .. k : c = (begin + j - 1) % (2 * n))
     THEN tasks[c % n] ELSE Null]

LEMMA DoubledIsLoop == Doubled = CopyLoop(Size, Length)[Length]
  BY DEF Doubled, CopyLoop, Resized, Copy

LEMMA NothingCopied ==
  ASSUME NEW n \in Nat \ {0} PROVE Copied(n, 0) = Resized(n)
<1>1. ASSUME NEW c \in 0 .. n-1 PROVE c % n = c
  BY <1>1, n * 0 = 0, c = n * 0 + c, DivUnique
<1>2. \A c \in Cells(2 * n) : c < n => c \in 0 .. n-1
  BY DEF Cells
<1>3. ~ \E j \in 1 .. 0 : TRUE
  OBVIOUS
<1>. QED
  BY <1>1, <1>2, <1>3 DEF Copied, Resized

LEMMA OneMoreCopied ==
  ASSUME NEW n \in Nat \ {0}, Width % n = 0, Width % (2 * n) = 0,
         begin \in 0 .. Width-1, NEW k \in Nat \ {0}
  PROVE  Copied(n, k) = Copy(Copied(n, k-1), k, n)
<1>1. PICK x \in Int, w \in Nat \ {0} : x = begin + k - 1 /\ w = 2 * n
  OBVIOUS
<1>2. PICK c0 \in 0 .. w-1, c1 \in 0 .. n-1 : c0 = x % w /\ c1 = x % n
  BY DivMod
<1>3. Wrap(x) % w = c0 /\ Wrap(x) % n = c1
  BY <1>1, <1>2, WrapMod
<1>4. w % n = 0
  <2>1. w = n * 2 + 0 /\ 0 \in 0 .. n-1
    BY <1>1
  <2>. QED
    BY <2>1, DivUnique
<1>5. c0 % n = c1
  BY <1>2, <1>4, ModMod
<1>6. c1 % n = c1
  BY n * 0 = 0, c1 = n * 0 + c1, DivUnique
<1>7. c1 \in Cells(w) /\ c1 < n /\ Cells(w) = 0 .. w-1
  BY <1>1 DEF Cells
<1>8. Copied(n, k-1)[c1] = tasks[c1]
  BY <1>1, <1>6, <1>7 DEF Copied
<1>9. Copy(Copied(n, k-1), k, n) = [Copied(n, k-1) EXCEPT ![c0] = tasks[c1]]
  BY <1>1, <1>3, <1>8 DEF Copy, NewCell, Mask
<1>10. ASSUME NEW c \in Cells(w)
       PROVE  Copied(n, k)[c] = IF c = c0 THEN tasks[c1] ELSE Copied(n, k-1)[c]
  <2>1. \A j \in 1 .. k : j = k \/ j \in 1 .. k-1
    OBVIOUS
  <2>2. k \in 1 .. k /\ \A j \in 1 .. k-1 : j \in 1 .. k
    OBVIOUS
  <2>3. (\E j \in 1 .. k : c = (begin + j - 1) % w)
          <=> c = c0 \/ \E j \in 1 .. k-1 : c = (begin + j - 1) % w
    BY <1>1, <1>2, <2>1, <2>2
  <2>4. Copied(n, k)[c] =
          IF c < n \/ (\E j \in 1 .. k : c = (begin + j - 1) % w) THEN tasks[c % n] ELSE Null
    BY <1>1, <1>10 DEF Copied
  <2>5. Copied(n, k-1)[c] =
          IF c < n \/ (\E j \in 1 .. k-1 : c = (begin + j - 1) % w) THEN tasks[c % n] ELSE Null
    BY <1>1, <1>10 DEF Copied
  <2>. QED
    BY <1>5, <2>3, <2>4, <2>5
<1>11. /\ Copied(n, k) = [c \in Cells(w) |-> Copied(n, k)[c]]
       /\ [Copied(n, k-1) EXCEPT ![c0] = tasks[c1]]
            = [c \in Cells(w) |-> IF c = c0 THEN tasks[c1] ELSE Copied(n, k-1)[c]]
  BY <1>1 DEF Copied
<1>. QED
  BY <1>9, <1>10, <1>11

\* What holds of 0 and is passed on holds up to n: else x |-> x + 1 where it does,
\* and x |-> x where it does not, would map 0 .. n into 1 .. n.
LEMMA PassedOn ==
  ASSUME NEW n \in Nat, NEW T \in SUBSET (0 .. n), 0 \in T,
         \A x \in T : x < n => x + 1 \in T
  PROVE  n \in T
<1>. SUFFICES ASSUME n \notin T PROVE FALSE
  OBVIOUS
<1> DEFINE f == [x \in 0 .. n |-> IF x \in T THEN x + 1 ELSE x]
<1>1. f \in Injection(0 .. n, 1 .. n)
  <2>1. \A x \in T : x < n
    OBVIOUS
  <2>2. \A x \in 0 .. n : f[x] \in 1 .. n /\ (x \in T <=> f[x] \in T)
    BY <2>1
  <2>3. ASSUME NEW x \in 0 .. n, NEW y \in 0 .. n, f[x] = f[y] PROVE x = y
    BY <2>2, <2>3
  <2>4. f \in [0 .. n -> 1 .. n]
    BY <2>2
  <2>. QED
    BY <2>3, <2>4 DEF Injection, IsInjective
<1>2. /\ IsFiniteSet(0 .. n) /\ Cardinality(0 .. n) = n + 1
      /\ IsFiniteSet(1 .. n) /\ Cardinality(1 .. n) = n
  BY FS_Interval
<1>3. Cardinality(0 .. n) <= Cardinality(1 .. n)
  BY <1>1, <1>2, FS_Injection
<1>. QED
  BY <1>2, <1>3

LEMMA CopyLoopCopies ==
  ASSUME NEW n \in Nat \ {0}, Width % n = 0, Width % (2 * n) = 0,
         begin \in 0 .. Width-1, NEW m \in Nat
  PROVE  CopyLoop(n, m)[m] = Copied(n, m)
<1>1. PICK f : f = [k \in 0 .. m |-> Copied(n, k)]
  OBVIOUS
<1>2. f = [k \in 0 .. m |-> IF k = 0 THEN Resized(n) ELSE Copy(f[k-1], k, n)]
  <2>1. ASSUME NEW k \in 0 .. m
        PROVE  f[k] = IF k = 0 THEN Resized(n) ELSE Copy(f[k-1], k, n)
    <3>1. CASE k = 0
      BY <1>1, <3>1, NothingCopied
    <3>2. CASE k # 0
      <4>1. k \in Nat \ {0} /\ k-1 \in 0 .. m
        BY <3>2
      <4>2. f[k] = Copied(n, k) /\ f[k-1] = Copied(n, k-1)
        BY <1>1, <4>1
      <4>3. Copied(n, k) = Copy(Copied(n, k-1), k, n)
        BY <4>1, OneMoreCopied
      <4>. QED
        BY <3>2, <4>2, <4>3
    <3>. QED
      BY <3>1, <3>2
  <2>. QED
    BY <1>1, <2>1
<1>3. PICK l : l = CopyLoop(n, m)
  OBVIOUS
<1>4. l = [k \in 0 .. m |-> IF k = 0 THEN Resized(n) ELSE Copy(l[k-1], k, n)]
  BY <1>2, <1>3 DEF CopyLoop
<1> DEFINE T == {k \in 0 .. m : l[k] = Copied(n, k)}
<1>5. 0 \in T
  BY <1>4, NothingCopied
<1>6. ASSUME NEW k \in T, k < m PROVE k + 1 \in T
  <2>1. k + 1 \in 0 .. m /\ k + 1 # 0 /\ (k + 1) - 1 = k /\ k + 1 \in Nat \ {0}
    BY <1>6
  <2>2. l[k+1] = Copy(l[k], k + 1, n)
    BY <1>4, <2>1
  <2>3. Copied(n, k + 1) = Copy(Copied(n, k), k + 1, n)
    BY <2>1, OneMoreCopied
  <2>. QED
    BY <1>6, <2>1, <2>2, <2>3
<1>7. T \in SUBSET (0 .. m)
  OBVIOUS
<1>. HIDE DEF T
<1>8. m \in T
  BY <1>5, <1>6, <1>7, PassedOn
<1>. QED
  BY <1>3, <1>8 DEF T

(***************************************************************************)
(* The invariant, and the array a new task is put into.                    *)
(***************************************************************************)
RingInv ==
  /\ RingTypeOK
  /\ Length <= Size /\ Length <= MaxLength
  /\ \A k \in 1 .. Length : tasks[(begin + k - 1) % Size] \in Tasks

LEMMA CellsSize ==
  ASSUME NEW n \in Nat, NEW f, DOMAIN f = Cells(n)
  PROVE  Cardinality(DOMAIN f) = n
  BY FS_Interval DEF Cells

\* An array of s cells that shows the list as it is and has room.
Holds(ring, s) ==
  /\ s \in 1 .. Width /\ s % Capacity = 0 /\ Width % s = 0
  /\ ring \in [Cells(s) -> Tasks \cup {Null}]
  /\ Length < s
  /\ \A k \in 1 .. Length : ring[(begin + k - 1) % s] = tasks[(begin + k - 1) % Size]

LEMMA DoubledHolds ==
  ASSUME RingInv, Length = Size
  PROVE  Holds(Doubled, 2 * Size)
<1>1. PICK n \in 1 .. Width : n = Size
  BY DEF RingInv, RingTypeOK
<1>2. PICK m \in Nat \ {0} : m = 2 * n
  OBVIOUS
<1>3. /\ begin \in 0 .. Width-1 /\ tasks \in [Cells(n) -> Tasks \cup {Null}]
      /\ n % Capacity = 0 /\ Width % n = 0 /\ Length = n /\ n < Width
  BY <1>1 DEF RingInv, RingTypeOK
<1>4. Width % m = 0
  BY <1>2, <1>3, DoubleDivides
<1>5. m \in 1 .. Width
  <2>1. PICK q \in Nat \ {0} : Width = m * q
    BY <1>4, Divisor
  <2>2. m * q >= m
    OBVIOUS
  <2>. QED
    BY <2>1, <2>2
<1>6. m % Capacity = 0
  <2>1. PICK q \in Nat \ {0} : n = Capacity * q
    BY <1>3, Capacity \in Nat \ {0}, n \in Nat \ {0}, Divisor
  <2>2. PICK p \in Int : p = 2 * q
    OBVIOUS
  <2>3. m = Capacity * p + 0 /\ 0 \in 0 .. Capacity-1
    BY <1>2, <2>1, <2>2
  <2>. QED
    BY <2>3, DivUnique
<1>7. Doubled = Copied(n, n)
  BY <1>1, <1>2, <1>3, <1>4, DoubledIsLoop, CopyLoopCopies
<1>8. m % n = 0
  <2>1. m = n * 2 + 0 /\ 0 \in 0 .. n-1
    BY <1>2
  <2>. QED
    BY <2>1, DivUnique
<1>9. ASSUME NEW c \in Cells(m) PROVE c % n \in Cells(n)
  <2>1. c \in Int /\ n \in Nat \ {0}
    BY <1>2 DEF Cells
  <2>2. PICK r \in 0 .. n-1 : c % n = r
    BY <2>1, DivMod
  <2>. QED
    BY <2>2 DEF Cells
<1>10. Doubled \in [Cells(m) -> Tasks \cup {Null}]
  BY <1>2, <1>3, <1>7, <1>9 DEF Copied
<1>11. ASSUME NEW k \in 1 .. n
       PROVE  Doubled[(begin + k - 1) % m] = tasks[(begin + k - 1) % n]
  <2>1. PICK x \in Int, c \in 0 .. m-1 : x = begin + k - 1 /\ c = x % m
    BY <1>3, begin + k - 1 \in Int, DivMod
  <2>2. c \in Cells(m) /\ \E j \in 1 .. n : c = (begin + j - 1) % m
    BY <2>1 DEF Cells
  <2>3. Doubled[c] = tasks[c % n]
    BY <1>2, <1>7, <2>2 DEF Copied
  <2>4. c % n = x % n
    BY <1>8, <2>1, ModMod
  <2>. QED
    BY <2>1, <2>3, <2>4
<1>12. n < m
  BY <1>2
<1>. QED
  BY <1>1, <1>2, <1>3, <1>4, <1>5, <1>6, <1>10, <1>11, <1>12 DEF Holds

LEMMA RoomHolds ==
  ASSUME RingInv
  PROVE  \E s \in Nat \ {0} : Holds(Room, s) /\ Cardinality(DOMAIN Room) = s
<1>1. PICK n \in 1 .. Width : n = Size
  BY DEF RingInv, RingTypeOK
<1>2. Length \in 0 .. Width-1
  BY LengthType DEF RingInv, RingTypeOK
<1>3. CASE MustDouble
  <2>1. Room = Doubled /\ Length = n
    BY <1>1, <1>3 DEF Room, MustDouble
  <2>2. Holds(Room, 2 * n)
    BY <1>1, <2>1, DoubledHolds
  <2>3. DOMAIN Room = Cells(2 * n) /\ 2 * n \in Nat \ {0}
    BY <2>2 DEF Holds
  <2>. QED
    BY <2>2, <2>3, CellsSize
<1>4. CASE ~MustDouble
  <2>1. Room = tasks /\ Length < n
    BY <1>1, <1>2, <1>4 DEF Room, MustDouble, RingInv
  <2>2. Holds(Room, n)
    BY <1>1, <2>1 DEF Holds, RingInv, RingTypeOK
  <2>3. DOMAIN Room = Cells(n)
    BY <2>2 DEF Holds
  <2>. QED
    BY <2>2, <2>3, CellsSize
<1>. QED
  BY <1>3, <1>4

(***************************************************************************)
(* The steps.  The cells of the list are distinct, so a new task takes     *)
(* none of them.                                                           *)
(***************************************************************************)
\* The array shows the list, with l tasks from counter b on.
Shows(ring, s, b, l, f) ==
  /\ ring \in [Cells(s) -> Tasks \cup {Null}]
  /\ s \in 1 .. Width /\ s % Capacity = 0 /\ Width % s = 0 /\ l <= s
  /\ b \in 0 .. Width-1
  /\ \A k \in 1 .. l : ring[(b + k - 1) % s] = f[k]

LEMMA FrontPut ==
  ASSUME RingInv, NEW t \in Tasks, AddFront(t)
  PROVE  \E s \in Nat \ {0} : \E f :
           /\ f \in [1 .. Length + 1 -> Tasks] /\ f[1] = t
           /\ \A k \in 1 .. Length : f[k + 1] = tasks[(begin + k - 1) % Size]
           /\ Shows(tasks', s, begin', Length + 1, f)
<1>1. PICK s \in Nat \ {0} : Holds(Room, s) /\ Cardinality(DOMAIN Room) = s
  BY RoomHolds
<1>2. PICK x \in Int, l \in Nat : x = begin - 1 /\ l = Length
  BY LengthType DEF RingInv, RingTypeOK
<1>3. /\ begin' = Wrap(x) /\ tasks' = [Room EXCEPT ![Mask(Wrap(x), s)] = t]
      /\ Width % s = 0 /\ l < s /\ s \in 1 .. Width /\ s % Capacity = 0
  BY <1>1, <1>2 DEF AddFront, Holds
<1>4. PICK c \in 0 .. s-1 : c = x % s /\ Mask(Wrap(x), s) = c /\ Wrap(x) \in 0 .. Width-1
  BY <1>3, WrapMod, DivMod DEF Mask
<1>5. PICK ring \in [Cells(s) -> Tasks \cup {Null}] : ring = Room
  BY <1>1 DEF Holds
<1>6. tasks' = [ring EXCEPT ![c] = t] /\ c \in Cells(s)
  BY <1>3, <1>4, <1>5 DEF Cells
<1>7. tasks' \in [Cells(s) -> Tasks \cup {Null}] /\ tasks'[c] = t
      /\ \A d \in Cells(s) : d # c => tasks'[d] = ring[d]
  BY <1>6
<1>8. PICK f : f = [k \in 1 .. l + 1 |-> IF k = 1 THEN t ELSE tasks[(begin + (k-1) - 1) % Size]]
  OBVIOUS
<1>9. /\ f[1] = t
      /\ \A k \in 1 .. l : f[k + 1] = tasks[(begin + k - 1) % Size]
  <2>1. 1 \in 1 .. l + 1 /\ \A k \in 1 .. l : k + 1 \in 1 .. l + 1 /\ k + 1 # 1 /\ (k + 1) - 1 = k
    OBVIOUS
  <2>. QED
    BY <1>8, <2>1
<1>10. f \in [1 .. l + 1 -> Tasks]
  <2>1. \A k \in 1 .. l + 1 : k # 1 => k-1 \in 1 .. l
    OBVIOUS
  <2>. QED
    BY <1>2, <1>8, <2>1 DEF RingInv
<1>11. ASSUME NEW k \in 1 .. l + 1 PROVE tasks'[(begin' + k - 1) % s] = f[k]
  <2>1. PICK m \in Int : m = k - 1
    OBVIOUS
  <2>2. (Wrap(x) + m) % s = (x + m) % s
    BY <1>3, WrapSum
  <2>3. Wrap(x) + m = begin' + k - 1
    BY <1>3, <1>4, <2>1
  <2>4. CASE k = 1
    BY <1>4, <1>7, <1>9, <2>1, <2>2, <2>3, <2>4
  <2>5. CASE k # 1
    <3>1. m \in 1 .. l /\ m \in 1 .. s-1 /\ k = m + 1
      BY <1>3, <2>1, <2>5
    <3>2. (x + m) % s # c
      BY <1>4, <3>1, NotAgain
    <3>3. PICK d \in 0 .. s-1 : d = (x + m) % s
      BY DivMod, x + m \in Int
    <3>4. x + m = begin + m - 1
      BY <1>2 DEF RingInv, RingTypeOK
    <3>5. ring[d] = tasks[(begin + m - 1) % Size]
      BY <1>1, <1>2, <1>5, <3>1, <3>3, <3>4 DEF Holds
    <3>6. tasks'[d] = ring[d]
      BY <1>7, <3>2, <3>3 DEF Cells
    <3>7. f[k] = tasks[(begin + m - 1) % Size]
      BY <1>9, <3>1
    <3>. QED
      BY <2>2, <2>3, <3>3, <3>5, <3>6, <3>7
  <2>. QED
    BY <2>4, <2>5
<1>12. Shows(tasks', s, begin', l + 1, f)
  BY <1>3, <1>4, <1>7, <1>11 DEF Shows
<1>. QED
  BY <1>2, <1>9, <1>10, <1>12

LEMMA BackPut ==
  ASSUME RingInv, NEW t \in Tasks, AddBack(t)
  PROVE  \E s \in Nat \ {0} : \E f :
           /\ f \in [1 .. Length + 1 -> Tasks] /\ f[Length + 1] = t
           /\ \A k \in 1 .. Length : f[k] = tasks[(begin + k - 1) % Size]
           /\ Shows(tasks', s, begin', Length + 1, f)
<1>1. PICK s \in Nat \ {0} : Holds(Room, s) /\ Cardinality(DOMAIN Room) = s
  BY RoomHolds
<1>2. PICK b \in 0 .. Width-1, l \in Nat : b = begin /\ l = Length
  BY LengthType DEF RingInv, RingTypeOK
<1>3. /\ begin' = b /\ tasks' = [Room EXCEPT ![Mask(end, s)] = t]
      /\ Width % s = 0 /\ l < s /\ s \in 1 .. Width /\ s % Capacity = 0
  BY <1>1, <1>2 DEF AddBack, Holds
<1>4. PICK c \in 0 .. s-1 : c = (b + l) % s /\ Mask(end, s) = c
  <2>1. (end + 0) % s = (begin + Length + 0) % s
    BY <1>3, EndCell DEF RingInv, RingTypeOK
  <2>2. end + 0 = end /\ begin + Length + 0 = b + l
    BY <1>2 DEF RingInv, RingTypeOK
  <2>3. PICK c \in 0 .. s-1 : c = (b + l) % s
    BY DivMod, b + l \in Int
  <2>. QED
    BY <2>1, <2>2, <2>3 DEF Mask
<1>5. PICK ring \in [Cells(s) -> Tasks \cup {Null}] : ring = Room
  BY <1>1 DEF Holds
<1>6. tasks' = [ring EXCEPT ![c] = t] /\ c \in Cells(s)
  BY <1>3, <1>4, <1>5 DEF Cells
<1>7. tasks' \in [Cells(s) -> Tasks \cup {Null}] /\ tasks'[c] = t
      /\ \A d \in Cells(s) : d # c => tasks'[d] = ring[d]
  BY <1>6
<1>8. PICK f : f = [k \in 1 .. l + 1 |-> IF k = l + 1 THEN t ELSE tasks[(begin + k - 1) % Size]]
  OBVIOUS
<1>9. /\ f[l + 1] = t
      /\ \A k \in 1 .. l : f[k] = tasks[(begin + k - 1) % Size]
  <2>1. l + 1 \in 1 .. l + 1 /\ \A k \in 1 .. l : k \in 1 .. l + 1 /\ k # l + 1
    OBVIOUS
  <2>. QED
    BY <1>8, <2>1
<1>10. f \in [1 .. l + 1 -> Tasks]
  <2>1. \A k \in 1 .. l + 1 : k # l + 1 => k \in 1 .. l
    OBVIOUS
  <2>. QED
    BY <1>2, <1>8, <2>1 DEF RingInv
<1>11. ASSUME NEW k \in 1 .. l + 1 PROVE tasks'[(b + k - 1) % s] = f[k]
  <2>1. CASE k = l + 1
    BY <1>4, <1>7, <1>9, <2>1, b + k - 1 = b + l
  <2>2. CASE k # l + 1
    <3>1. PICK x \in Int, m \in 1 .. s-1 : x = b + k - 1 /\ m = l + 1 - k /\ k \in 1 .. l
      BY <1>3, <2>2
    <3>2. x % s # c
      BY <1>4, <3>1, NotAgain, x + m = b + l
    <3>3. PICK d \in 0 .. s-1 : d = x % s
      BY DivMod
    <3>4. ring[d] = tasks[(begin + k - 1) % Size]
      BY <1>1, <1>2, <1>5, <3>1, <3>3 DEF Holds
    <3>5. tasks'[d] = ring[d]
      BY <1>7, <3>2, <3>3 DEF Cells
    <3>. QED
      BY <1>9, <3>1, <3>3, <3>4, <3>5
  <2>. QED
    BY <2>1, <2>2
<1>12. Shows(tasks', s, begin', l + 1, f)
  BY <1>2, <1>3, <1>7, <1>11 DEF Shows
<1>. QED
  BY <1>2, <1>9, <1>10, <1>12

(***************************************************************************)
(* The list an array stands for.                                           *)
(***************************************************************************)
List(ring, s, b, l) == [k \in 1 .. l |-> ring[Mask(Wrap(b + k - 1), s)]]

LEMMA ListShown ==
  ASSUME NEW ring, NEW s \in Nat \ {0}, NEW b, NEW l \in Nat, NEW f \in [1 .. l -> Tasks],
         Shows(ring, s, b, l, f)
  PROVE  List(ring, s, b, l) = f
<1>1. ASSUME NEW k \in 1 .. l PROVE ring[Mask(Wrap(b + k - 1), s)] = f[k]
  <2>1. PICK x \in Int : x = b + k - 1
    BY DEF Shows
  <2>2. Wrap(x) % s = x % s
    BY WrapMod DEF Shows
  <2>. QED
    BY <2>1, <2>2 DEF Shows, Mask
<1>. QED
  BY <1>1 DEF List

LEMMA ListedShown ==
  ASSUME RingInv
  PROVE  \E f \in [1 .. Length -> Tasks] :
           /\ \A k \in 1 .. Length : f[k] = tasks[(begin + k - 1) % Size]
           /\ Listed = f
<1>1. PICK l \in Nat, s \in 1 .. Width : l = Length /\ s = Size
  BY LengthType DEF RingInv, RingTypeOK
<1>2. PICK f : f = [k \in 1 .. l |-> tasks[(begin + k - 1) % s]]
  OBVIOUS
<1>3. f \in [1 .. l -> Tasks] /\ \A k \in 1 .. l : f[k] = tasks[(begin + k - 1) % s]
  BY <1>1, <1>2 DEF RingInv
<1>4. Shows(tasks, s, begin, l, f)
  BY <1>1, <1>3 DEF Shows, RingInv, RingTypeOK
<1>5. List(tasks, s, begin, l) = f
  BY <1>3, <1>4, ListShown, s \in Nat \ {0}
<1>6. Listed = List(tasks, s, begin, l)
  BY <1>1 DEF Listed, List
<1>. QED
  BY <1>1, <1>3, <1>5, <1>6

\* What an array and two counters show after a step is the new list.
LEMMA Stepped ==
  ASSUME NEW s \in Nat \ {0}, NEW l \in Nat, NEW f \in [1 .. l -> Tasks],
         Shows(tasks', s, begin', l, f), Length' = l, l <= MaxLength, end' \in 0 .. Width-1
  PROVE  RingInv' /\ Listed' = f
<1>1. Size' = s
  <2>1. DOMAIN tasks' = Cells(s)
    BY DEF Shows
  <2>. QED
    BY <2>1, CellsSize DEF Size
<1>2. RingTypeOK'
  BY <1>1 DEF RingTypeOK, Shows, Cells
<1>3. \A k \in 1 .. l : tasks'[(begin' + k - 1) % s] \in Tasks
  BY DEF Shows
<1>4. RingInv'
  BY <1>1, <1>2, <1>3 DEF RingInv, Shows
<1>5. Listed' = List(tasks', s, begin', l)
  BY <1>1 DEF Listed, List
<1>. QED
  BY <1>4, <1>5, ListShown

LEMMA RingStarts == RingInit => RingInv /\ Listed = <<>>
<1>. SUFFICES ASSUME RingInit PROVE RingInv /\ Listed = <<>>
  OBVIOUS
<1>1. Length = 0
  <2>1. 0 \in 0 .. Width-1 /\ end - begin = 0
    BY DEF RingInit
  <2>. QED
    BY <2>1, WrapSame DEF Length
<1>2. Size = Capacity
  <2>1. DOMAIN tasks = Cells(Capacity) /\ Capacity \in Nat
    BY DEF RingInit
  <2>. QED
    BY <2>1, CellsSize DEF Size
<1>3. Capacity % Capacity = 0
  <2>1. Capacity = Capacity * 1 + 0 /\ 0 \in 0 .. Capacity-1 /\ Capacity \in Nat \ {0}
    OBVIOUS
  <2>. QED
    BY <2>1, DivUnique
<1>4. RingInv
  BY <1>1, <1>2, <1>3 DEF RingInv, RingTypeOK, RingInit
<1>5. Listed = <<>>
  BY <1>1 DEF Listed
<1>. QED
  BY <1>4, <1>5

LEMMA AddFrontKeeps ==
  ASSUME RingInv, NEW t \in Tasks, AddFront(t)
  PROVE  RingInv' /\ L!AddFront
<1>0. PICK s \in Nat \ {0} : \E f :
        /\ f \in [1 .. Length + 1 -> Tasks] /\ f[1] = t
        /\ \A k \in 1 .. Length : f[k + 1] = tasks[(begin + k - 1) % Size]
        /\ Shows(tasks', s, begin', Length + 1, f)
  BY FrontPut
<1>1. PICK f :
        /\ f \in [1 .. Length + 1 -> Tasks] /\ f[1] = t
        /\ \A k \in 1 .. Length : f[k + 1] = tasks[(begin + k - 1) % Size]
        /\ Shows(tasks', s, begin', Length + 1, f)
  BY <1>0
<1>2. /\ begin \in 0 .. Width-1 /\ end \in 0 .. Width-1 /\ Length \in 0 .. Width-1
      /\ Length + 1 <= MaxLength /\ Length + 1 \in 0 .. Width-1
  BY LengthType DEF RingInv, RingTypeOK, AddFront
<1>3. end' = end /\ Length' = Length + 1
  BY <1>2, BeginMoved DEF AddFront, Length
<1>4. PICK l \in Nat : l = Length
  BY <1>2
<1>5. RingInv' /\ Listed' = f
  BY <1>1, <1>2, <1>3, <1>4, Stepped, l + 1 \in Nat
<1>6. PICK g \in [1 .. l -> Tasks] :
        (\A k \in 1 .. l : g[k] = tasks[(begin + k - 1) % Size]) /\ Listed = g
  BY <1>4, ListedShown
<1>7. f = <<t>> \o g
  <2>1. g \in Seq(Tasks) /\ Len(g) = l
    OBVIOUS
  <2>2. \A k \in 1 .. l : f[k + 1] = g[k]
    BY <1>1, <1>4, <1>6
  <2>3. f \in [1 .. l + 1 -> Tasks] /\ f[1] = t
    BY <1>1, <1>4
  <2>4. \A k \in 1 .. l + 1 : f[k] = IF k = 1 THEN t ELSE g[k - 1]
    <3>1. \A k \in 1 .. l + 1 : k # 1 => k - 1 \in 1 .. l /\ (k - 1) + 1 = k
      OBVIOUS
    <3>. QED
      BY <2>2, <2>3, <3>1
  <2>5. f \in Seq(Tasks) /\ Len(f) = l + 1
    BY <2>3
  <2>6. <<t>> \o g \in Seq(Tasks) /\ Len(<<t>> \o g) = l + 1
        /\ \A k \in 1 .. l + 1 : (<<t>> \o g)[k] = IF k = 1 THEN t ELSE g[k - 1]
    BY <2>1
  <2>. QED
    BY <2>4, <2>5, <2>6, SeqEqual
<1>. QED
  BY <1>5, <1>6, <1>7 DEF L!AddFront

LEMMA AddBackKeeps ==
  ASSUME RingInv, NEW t \in Tasks, AddBack(t)
  PROVE  RingInv' /\ L!AddBack
<1>0. PICK s \in Nat \ {0} : \E f :
        /\ f \in [1 .. Length + 1 -> Tasks] /\ f[Length + 1] = t
        /\ \A k \in 1 .. Length : f[k] = tasks[(begin + k - 1) % Size]
        /\ Shows(tasks', s, begin', Length + 1, f)
  BY BackPut
<1>1. PICK f :
        /\ f \in [1 .. Length + 1 -> Tasks] /\ f[Length + 1] = t
        /\ \A k \in 1 .. Length : f[k] = tasks[(begin + k - 1) % Size]
        /\ Shows(tasks', s, begin', Length + 1, f)
  BY <1>0
<1>2. /\ begin \in 0 .. Width-1 /\ end \in 0 .. Width-1 /\ Length \in 0 .. Width-1
      /\ Length + 1 <= MaxLength /\ Length + 1 \in 0 .. Width-1
  BY LengthType DEF RingInv, RingTypeOK, AddBack
<1>3. Length' = Length + 1
  BY <1>2, EndMoved DEF AddBack, Length
<1>4. end' \in 0 .. Width-1
  BY <1>2, end + 1 \in Int, WrapMod, WidthDivides DEF AddBack
<1>5. PICK l \in Nat : l = Length
  BY <1>2
<1>6. RingInv' /\ Listed' = f
  BY <1>1, <1>2, <1>3, <1>4, <1>5, Stepped, l + 1 \in Nat
<1>7. PICK g \in [1 .. l -> Tasks] :
        (\A k \in 1 .. l : g[k] = tasks[(begin + k - 1) % Size]) /\ Listed = g
  BY <1>5, ListedShown
<1>8. f = Append(g, t)
  <2>1. g \in Seq(Tasks) /\ Len(g) = l
    OBVIOUS
  <2>2. f \in [1 .. l + 1 -> Tasks] /\ f[l + 1] = t /\ \A k \in 1 .. l : f[k] = g[k]
    BY <1>1, <1>5, <1>7
  <2>3. f \in Seq(Tasks) /\ Len(f) = l + 1
    BY <2>2
  <2>4. Append(g, t) \in Seq(Tasks) /\ Len(Append(g, t)) = l + 1
        /\ \A k \in 1 .. l + 1 : Append(g, t)[k] = IF k = l + 1 THEN t ELSE g[k]
    BY <2>1
  <2>. QED
    BY <2>2, <2>3, <2>4, SeqEqual
<1>. QED
  BY <1>6, <1>7, <1>8 DEF L!AddBack

LEMMA RemoveKeeps ==
  ASSUME RingInv, RemoveNewest
  PROVE  RingInv' /\ L!RemoveNewest
<1>1. PICK l \in Nat, s \in Nat \ {0} : l = Length - 1 /\ s = Size
  BY LengthType DEF RemoveNewest, RingInv, RingTypeOK
<1>2. /\ begin \in 0 .. Width-1 /\ end \in 0 .. Width-1 /\ Length = l + 1
      /\ l <= MaxLength /\ Length + (0 - 1) \in 0 .. Width-1
      /\ begin' = begin /\ tasks' = tasks /\ end' = Wrap(end - 1)
  BY <1>1, LengthType DEF RingInv, RingTypeOK, RemoveNewest
<1>3. end + (0 - 1) = end - 1 /\ end - 1 \in Int
  BY <1>2
<1>4. Length' = l
  BY <1>2, <1>3, EndMoved DEF Length
<1>5. end' \in 0 .. Width-1
  BY <1>2, <1>3, WrapMod, WidthDivides
<1>6. PICK g \in [1 .. l + 1 -> Tasks] :
        (\A k \in 1 .. l + 1 : g[k] = tasks[(begin + k - 1) % s]) /\ Listed = g
  BY <1>1, <1>2, ListedShown
<1>7. PICK f : f = [k \in 1 .. l |-> g[k]]
  OBVIOUS
<1>8. f \in [1 .. l -> Tasks] /\ \A k \in 1 .. l : f[k] = tasks[(begin + k - 1) % s]
  BY <1>6, <1>7
<1>9. Shows(tasks', s, begin', l, f)
  BY <1>1, <1>2, <1>8 DEF Shows, RingInv, RingTypeOK
<1>10. RingInv' /\ Listed' = f
  BY <1>2, <1>4, <1>5, <1>8, <1>9, Stepped
<1>11. g \in Seq(Tasks) /\ Len(g) = l + 1 /\ g # <<>>
  OBVIOUS
<1>12. f = SubSeq(g, 1, Len(g) - 1)
  BY <1>7, <1>11
<1>. QED
  BY <1>6, <1>10, <1>11, <1>12 DEF L!RemoveNewest

(***************************************************************************)
(* The theorems.                                                           *)
(***************************************************************************)
LEMMA RingStep ==
  ASSUME RingInv, [RingNext]_ringVars
  PROVE  RingInv' /\ [L!Next]_Listed
<1>1. ASSUME NEW t \in Tasks, AddFront(t) PROVE RingInv' /\ [L!Next]_Listed
  BY <1>1, AddFrontKeeps DEF L!Next
<1>2. ASSUME NEW t \in Tasks, AddBack(t) PROVE RingInv' /\ [L!Next]_Listed
  BY <1>2, AddBackKeeps DEF L!Next
<1>3. ASSUME RemoveNewest PROVE RingInv' /\ [L!Next]_Listed
  BY <1>3, RemoveKeeps DEF L!Next
<1>4. ASSUME UNCHANGED ringVars PROVE RingInv' /\ [L!Next]_Listed
  BY <1>4 DEF ringVars, RingInv, RingTypeOK, Listed, Length, Size, Wrap, Mask, Cells
<1>. QED
  BY <1>1, <1>2, <1>3, <1>4 DEF RingNext

\* The counters, the array and the cells of the list fit together.
THEOREM RingInvariance == RingSpec => []RingInv
<1>1. RingInit => RingInv
  BY RingStarts
<1>2. RingInv /\ [RingNext]_ringVars => RingInv'
  BY RingStep
<1>. QED
  BY <1>1, <1>2, PTL DEF RingSpec

\* A worker never reads a cell nobody has written, and what it finds at the end
\* is the newest task: for any size of array, width of counters and number of tasks.
THEOREM RingCellsAreOwn == RingSpec => []CellsAreOwn
<1>1. RingInv => CellsAreOwn
  <2>. SUFFICES ASSUME RingInv PROVE CellsAreOwn
    OBVIOUS
  <2>1. PICK f \in [1 .. Length -> Tasks] :
          (\A k \in 1 .. Length : f[k] = tasks[(begin + k - 1) % Size]) /\ Listed = f
    BY ListedShown
  <2>2. PICK l \in Nat, s \in Nat \ {0} : l = Length /\ s = Size
    BY LengthType DEF RingInv, RingTypeOK
  <2>3. ASSUME l # 0 PROVE Newest \in Tasks /\ Newest = f[l]
    <3>1. PICK x \in Int : x = end - 1 /\ end + (0 - 1) = x /\ begin + Length + (0 - 1) = begin + l - 1
      BY <2>2 DEF RingInv, RingTypeOK
    <3>2. x % s = (begin + l - 1) % s
      BY <2>2, <3>1, EndCell DEF RingInv, RingTypeOK
    <3>3. Wrap(x) % s = x % s
      BY <2>2, WrapMod DEF RingInv, RingTypeOK
    <3>4. Newest = f[l]
      BY <2>1, <2>2, <2>3, <3>1, <3>2, <3>3, l \in 1 .. l DEF Newest, Mask
    <3>. QED
      BY <2>2, <2>3, <3>4, l \in 1 .. l
  <2>. QED
    BY <2>1, <2>2, <2>3 DEF CellsAreOwn, RingInv
<1>. QED
  BY <1>1, RingInvariance, PTL

\* The ring behaves as the list, whatever its size, also when the counters wrap
\* and when the array is doubled.
THEOREM RingIsList == RingSpec => ImplementsTaskList
<1>1. RingInit => L!Init
  BY RingStarts DEF L!Init
<1>2. RingInv /\ [RingNext]_ringVars => [L!Next]_Listed
  BY RingStep
<1>. QED
  BY <1>1, <1>2, RingInvariance, PTL DEF RingSpec, ImplementsTaskList, L!Spec
=============================================================================
