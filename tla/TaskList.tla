------------------------------ MODULE TaskList ------------------------------
(***************************************************************************)
(* What the ring buffer of the scheduler stands for: a list of tasks that  *)
(* grows at both ends and from which the newest task is taken.  The        *)
(* variable queue of TaskSchedulerSys is such a list.                      *)
(***************************************************************************)
EXTENDS Integers, Sequences

CONSTANT Tasks
VARIABLE list

Init == list = <<>>

AddFront == \E t \in Tasks : list' = <<t>> \o list
AddBack == \E t \in Tasks : list' = Append(list, t)
RemoveNewest == list # <<>> /\ list' = SubSeq(list, 1, Len(list) - 1)

Next == AddFront \/ AddBack \/ RemoveNewest
Spec == Init /\ [][Next]_list
=============================================================================
