---------------------------- MODULE FrameService ----------------------------
(***************************************************************************)
(* What the frame calls of the rendering API promise an application: a     *)
(* frame is rendered as a whole into the current buffer of the swap chain, *)
(* the next buffer becomes current, and a mapped buffer shows one complete *)
(* frame.  A picture is the sequence of frames it has accumulated.         *)
(***************************************************************************)
EXTENDS Integers, Sequences

CONSTANTS
  Depth,      (* number of buffers of the swap chain                        *)
  Callers,    (* the threads of the application                             *)
  Unfinished  (* the content of a buffer that is being rendered into        *)

VARIABLES
  image,      (* the picture in every buffer                                *)
  buf,        (* the current buffer                                         *)
  exposure,   (* the frames in the accumulation buffer                      *)
  seen        (* the last picture every caller has mapped                   *)

svars == <<image, buf, exposure, seen>>
Buffers == 0 .. Depth-1

Init ==
  /\ image = [b \in Buffers |-> <<>>]
  /\ buf = 0
  /\ exposure = <<>>
  /\ seen = [c \in Callers |-> <<>>]

Idle == \A b \in Buffers : image[b] # Unfinished

\* A frame continues the exposure or begins a new one.
Begin ==
  /\ Idle
  /\ image' = [image EXCEPT ![buf] = Unfinished]
  /\ \E next \in {exposure, <<>>} : exposure' = Append(next, Len(next))
  /\ UNCHANGED <<buf, seen>>

End ==
  /\ image[buf] = Unfinished
  /\ image' = [image EXCEPT ![buf] = exposure]
  /\ UNCHANGED <<buf, exposure, seen>>

Swap ==
  /\ Idle
  /\ buf' = (buf + 1) % Depth
  /\ UNCHANGED <<image, exposure, seen>>

Map(c, b) ==
  /\ image[b] # Unfinished
  /\ seen' = [seen EXCEPT ![c] = image[b]]
  /\ UNCHANGED <<image, buf, exposure>>

Next == Begin \/ End \/ Swap \/ \E c \in Callers, b \in Buffers : Map(c, b)
Spec == Init /\ [][Next]_svars
=============================================================================
