---------------------------- MODULE TaskQueueRing ----------------------------
(***************************************************************************)
(* The list of TaskSchedulerSys as it is stored: a power-of-two array, and *)
(* two counters of the width of a size_t that only ever grow or shrink and *)
(* are masked when the array is indexed.  A full array is doubled in place *)
(* and the tasks are copied, one after the other, to the cells the longer  *)
(* mask gives them.                                                        *)
(***************************************************************************)
EXTENDS Integers, Sequences, FiniteSets

CONSTANTS
  Tasks,
  Null,       (* the content of a cell nobody has written                   *)
  Width,      (* number of values of a size_t                               *)
  Capacity,   (* initial size of the array                                  *)
  MaxLength   (* bound: the largest number of tasks in the list             *)

\* The powers of two are the numbers without an odd divisor but one.
PowerOfTwo(n) == \A d \in 1 .. n : n % d = 0 => d = 1 \/ d % 2 = 0

\* A list of as many tasks as a size_t has values does not fit in memory.
ASSUME RingAssumption ==
  /\ Null \notin Tasks
  /\ Width \in Nat \ {0} /\ PowerOfTwo(Width)
  /\ Capacity \in 1 .. Width /\ Width % Capacity = 0
  /\ MaxLength \in 0 .. Width-1

VARIABLES tasks, begin, end
ringVars == <<tasks, begin, end>>

\* Arithmetic of size_t, and x & (n-1) for a power of two n.
Wrap(x) == x % Width
Mask(x, n) == x % n

Cells(n) == 0 .. n-1
Size == Cardinality(DOMAIN tasks)
Length == Wrap(end - begin)

RingInit ==
  /\ tasks = [i \in Cells(Capacity) |-> Null]
  /\ begin = 0 /\ end = 0

\* Mutant of NewCell: the cell under the old mask.
OldCell(i, s0, s1) == Mask(i, s0)

\* Where the copy loop puts the task whose counter value is i.
NewCell(i, s0, s1) == Mask(i, s1)

\* resize() keeps the old cells; then the loop from begin to end copies task
\* after task, reading and writing the same array.
Doubled ==
  LET s0 == Size
      s1 == 2 * Size
      resized == [i \in Cells(s1) |-> IF i < s0 THEN tasks[i] ELSE Null]
      copied[k \in 0 .. Length] ==
        IF k = 0 THEN resized
        ELSE LET i == Wrap(begin + k - 1) IN
             [copied[k-1] EXCEPT ![NewCell(i, s0, s1)] = copied[k-1][Mask(i, s0)]]
  IN  copied[Length]

\* Mutant of MustDouble: the array may overflow by one.
DoubleLate == Length > Size

MustDouble == Length = Size

Room == IF MustDouble THEN Doubled ELSE tasks

\* add(GLOBAL_FRONT) and add(GLOBAL_BACK).
AddFront(t) ==
  LET b == Wrap(begin - 1)
      ring == Room
  IN  /\ Length < MaxLength
      /\ begin' = b
      /\ tasks' = [ring EXCEPT ![Mask(b, Cardinality(DOMAIN ring))] = t]
      /\ UNCHANGED end

AddBack(t) ==
  LET ring == Room IN
  /\ Length < MaxLength
  /\ tasks' = [ring EXCEPT ![Mask(end, Cardinality(DOMAIN ring))] = t]
  /\ end' = Wrap(end + 1)
  /\ UNCHANGED begin

\* The task a worker finds at the newest end, whether or not it removes it.
Newest == tasks[Mask(Wrap(end - 1), Size)]

\* The last element of the newest task has been started.
RemoveNewest ==
  /\ Length # 0
  /\ end' = Wrap(end - 1)
  /\ UNCHANGED <<tasks, begin>>

RingNext == (\E t \in Tasks : AddFront(t) \/ AddBack(t)) \/ RemoveNewest
RingSpec == RingInit /\ [][RingNext]_ringVars

-----------------------------------------------------------------------------
\* The list the ring stands for, oldest task first.
Listed == [k \in 1 .. Length |-> tasks[Mask(Wrap(begin + k - 1), Size)]]

RingTypeOK ==
  /\ begin \in 0 .. Width-1 /\ end \in 0 .. Width-1
  /\ Size \in 1 .. Width /\ Size % Capacity = 0 /\ Width % Size = 0
  /\ tasks \in [Cells(Size) -> Tasks \cup {Null}]

\* A worker never reads a cell nobody has written, and two tasks of the list
\* never share a cell.
CellsAreOwn ==
  /\ RingTypeOK
  /\ Length <= Size
  /\ Length # 0 => Newest \in Tasks /\ Newest = Listed[Length]
  /\ \A k \in DOMAIN Listed : Listed[k] \in Tasks

\* The ring behaves as the list: insertion at either end and removal at the
\* newest end keep the other tasks and their order, also when begin runs below
\* zero and when the array is doubled while the tasks straddle its end.
L == INSTANCE TaskList WITH list <- Listed
ImplementsTaskList == L!Spec
=============================================================================
