------------------------------ MODULE SceneApi ------------------------------
(***************************************************************************)
(* What the device interface promises about handles and scenes, without    *)
(* objects: a set function buffers a value, a clear forgets it, a commit   *)
(* takes the buffered values over, and whoever was given a committed value *)
(* keeps that value.  A slot of the scene is set to a primitive, or        *)
(* emptied by NULL.  A rendered frame shows, for every slot, the values    *)
(* that were committed when the slot was set, as of the last commit of the *)
(* scene.                                                                  *)
(***************************************************************************)
EXTENDS Integers, Sequences

CONSTANTS
  Textures, Materials, Meshes, Prims,  (* the handles                       *)
  Values,     (* contents of images and position arrays, and masks          *)
  Bad,        (* an array of the wrong type                                 *)
  Turns,      (* transformations: rotations by 1/Turns, 0 is the identity   *)
  MaxSlots,   (* bound: the number of slots of the scene                    *)
  None        (* nothing set, nothing committed, no primitive               *)

VARIABLES
  image, texture,   (* of a texture: the buffered image, the committed one   *)
  colour, material, (* of a material: the buffered texture, the committed    *)
  positions, mesh,  (* of a mesh: the buffered positions, the committed      *)
  prims,            (* shape, material, transformation and mask of a handle  *)
  slots,            (* what the slots of the scene were set to               *)
  shown             (* what a frame shows                                    *)

vars == <<image, texture, colour, material, positions, mesh, prims, slots, shown>>

Init ==
  /\ image = [t \in Textures |-> None] /\ texture = [t \in Textures |-> None]
  /\ colour = [m \in Materials |-> None] /\ material = [m \in Materials |-> None]
  /\ positions = [s \in Meshes |-> None] /\ mesh = [s \in Meshes |-> None]
  /\ prims = [p \in Prims |-> None]
  /\ slots = <<>>
  /\ shown = None

SetImage(t, v) ==
  /\ image' = [image EXCEPT ![t] = v]
  /\ UNCHANGED <<texture, colour, material, positions, mesh, prims, slots, shown>>

CommitTexture(t) ==
  /\ texture' = [texture EXCEPT ![t] = <<image[t]>>]
  /\ UNCHANGED <<image, colour, material, positions, mesh, prims, slots, shown>>

SetTexture(m, t) ==
  /\ colour' = [colour EXCEPT ![m] = texture[t]]
  /\ UNCHANGED <<image, texture, material, positions, mesh, prims, slots, shown>>

CommitMaterial(m) ==
  /\ material' = [material EXCEPT ![m] = <<colour[m]>>]
  /\ UNCHANGED <<image, texture, colour, positions, mesh, prims, slots, shown>>

SetArray(s, v) ==
  /\ positions' = [positions EXCEPT ![s] = v]
  /\ UNCHANGED <<image, texture, colour, material, mesh, prims, slots, shown>>

\* rtClear, for each type of handle.
ClearTexture(t) == SetImage(t, None)

ClearMaterial(m) ==
  /\ colour' = [colour EXCEPT ![m] = None]
  /\ UNCHANGED <<image, texture, material, positions, mesh, prims, slots, shown>>

ClearMesh(s) == SetArray(s, None)

CommitMesh(s) ==
  /\ positions[s] # Bad
  /\ mesh' = [mesh EXCEPT ![s] = <<positions[s]>>]
  /\ UNCHANGED <<image, texture, colour, material, positions, prims, slots, shown>>

NewPrimitive(p, s, m, x) ==
  /\ prims' = [prims EXCEPT ![p] = [shape |-> s, material |-> m, transform |-> x, mask |-> None]]
  /\ UNCHANGED <<image, texture, colour, material, positions, mesh, slots, shown>>

TransformPrimitive(p, q, x) ==
  /\ prims[q] # None
  /\ prims' = [prims EXCEPT
       ![p] = [prims[q] EXCEPT !.transform = (x + prims[q].transform) % Turns]]
  /\ UNCHANGED <<image, texture, colour, material, positions, mesh, slots, shown>>

SetMask(p, v) ==
  /\ prims[p] # None
  /\ prims' = [prims EXCEPT ![p].mask = v]
  /\ UNCHANGED <<image, texture, colour, material, positions, mesh, slots, shown>>

\* The value of a primitive: a mesh in its place, its material and its mask.
Placed(p) ==
  [shape    |-> IF mesh[p.shape] = None THEN None
                ELSE <<mesh[p.shape][1], p.transform>>,
   material |-> material[p.material],
   mask     |-> p.mask]

\* The slots, with v in slot i.
WithSlot(i, v) ==
  [j \in 1 .. (IF i > Len(slots) THEN i ELSE Len(slots)) |->
     IF j = i THEN v ELSE IF j <= Len(slots) THEN slots[j] ELSE None]

SetPrimitive(i, p) ==
  /\ prims[p] # None
  /\ slots' = WithSlot(i, Placed(prims[p]))
  /\ UNCHANGED <<image, texture, colour, material, positions, mesh, prims, shown>>

\* rtSetPrimitive with NULL.
DeletePrimitive(i) ==
  /\ slots' = WithSlot(i, None)
  /\ UNCHANGED <<image, texture, colour, material, positions, mesh, prims, shown>>

CommitScene ==
  /\ shown' = slots
  /\ UNCHANGED <<image, texture, colour, material, positions, mesh, prims, slots>>

Next ==
  \/ \E t \in Textures :
       ClearTexture(t) \/ CommitTexture(t) \/ \E v \in Values : SetImage(t, v)
  \/ \E m \in Materials :
       ClearMaterial(m) \/ CommitMaterial(m) \/ \E t \in Textures : SetTexture(m, t)
  \/ \E s \in Meshes :
       ClearMesh(s) \/ CommitMesh(s) \/ \E v \in Values \cup {Bad} : SetArray(s, v)
  \/ \E p \in Prims :
       \/ \E s \in Meshes, m \in Materials, x \in 0 .. Turns-1 : NewPrimitive(p, s, m, x)
       \/ \E q \in Prims, x \in 0 .. Turns-1 : TransformPrimitive(p, q, x)
       \/ \E v \in Values : SetMask(p, v)
       \/ \E i \in 1 .. MaxSlots : SetPrimitive(i, p)
  \/ \E i \in 1 .. MaxSlots : DeletePrimitive(i)
  \/ CommitScene

Spec == Init /\ [][Next]_vars
=============================================================================
