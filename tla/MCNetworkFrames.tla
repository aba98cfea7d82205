---------------------------- MODULE MCNetworkFrames ----------------------------
(* A frame on its way to the client: the commands and buffers that bring it   *)
(* there, and the lines it is dealt from.  They share nothing: a behaviour is *)
(* one of one of them, in which the other does not leave a single state.      *)
EXTENDS NetworkDevice, RowInterleave

VARIABLE part

FramesInit ==
  /\ part \in {"commands", "rows"}
  /\ Init /\ RowInit
  /\ part = "commands" =>
       height = 0 /\ width = 1 /\ servers = 1 /\ devices = 1
         /\ format = "RGB8" /\ encoding = "native"

FramesNext ==
  \/ part = "commands" /\ Next /\ UNCHANGED <<part, rowVars>>
  \/ part = "rows" /\ RowNext /\ UNCHANGED <<part, vars>>

\* Only behaviours of the commands are fair; of the lines nothing is asked that
\* takes fairness.
FramesSpec == FramesInit /\ [][FramesNext]_<<part, vars, rowVars>> /\ Fairness
=============================================================================
