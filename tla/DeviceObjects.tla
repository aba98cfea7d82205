--------------------------- MODULE DeviceObjects ---------------------------
(***************************************************************************)
(* The handles and objects of the single-ray device, and its scenes.  A    *)
(* handle buffers parameters; rtCommit replaces the object it refers to by *)
(* a new one, unless nothing was set since the last time.  Objects refer   *)
(* to other objects: a material to the texture that was committed when     *)
(* rtSetTexture was called, a slot of a scene to the shape and material    *)
(* that were committed when rtSetPrimitive was called.  The calls are      *)
(* serialised by the mutex of the device; an object nobody refers to any   *)
(* more is gone, and its memory is used again.                             *)
(***************************************************************************)
EXTENDS Integers, Sequences, FiniteSets

CONSTANTS
  Textures, Materials, Meshes, Prims,  (* the handles                       *)
  Values,     (* contents of images and position arrays, and masks          *)
  Bad,        (* an array of the wrong type                                 *)
  Turns,      (* transformations: rotations by 1/Turns, 0 is the identity   *)
  MaxSlots,   (* bound: the number of slots of the scene                    *)
  MaxObjects, (* bound: the number of objects of a kind alive at a time     *)
  MaxCalls,   (* bound: the number of calls that are not commits            *)
  None        (* nothing set, no object, no primitive                       *)

ObjectKinds == {"texture", "material", "mesh", "primitive", "scene"}
Addresses == ObjectKinds \X (1 .. MaxObjects)

(* The handles are of one type each; a null pointer is neither an address  *)
(* nor a value.                                                            *)
ASSUME ObjectsAssumption ==
  /\ Turns \in Nat \ {0} /\ MaxSlots \in Nat /\ MaxObjects \in Nat /\ MaxCalls \in Nat
  /\ Textures \cap Materials = {} /\ Textures \cap Meshes = {} /\ Materials \cap Meshes = {}
  /\ None \notin Values \cup {Bad} \cup Addresses
  /\ \A v \in Values \cup {Bad, None} : None # <<v>>

VARIABLES
  heap,       (* the objects, by address                                    *)
  parms,      (* the buffered parameter of a texture, material or mesh      *)
  modified,   (* its flag                                                   *)
  instance,   (* the object it refers to                                    *)
  prims,      (* the primitive handles                                      *)
  slots,      (* the vector prims of the scene handle                       *)
  scene,      (* the object the scene handle refers to                      *)
  calls,      (* ghost: the number of calls that were not commits           *)
  crashed     (* a null pointer was dereferenced                            *)

vars == <<heap, parms, modified, instance, prims, slots, scene, calls, crashed>>

Handles == Textures \cup Materials \cup Meshes

(***************************************************************************)
(* Objects.                                                                *)
(***************************************************************************)
TextureObject(img) == [kind |-> "texture", image |-> img]
MaterialObject(tex) == [kind |-> "material", texture |-> tex]
MeshObject(pos, x) == [kind |-> "mesh", positions |-> pos, place |-> x]
PrimitiveObject(s, m, mask) ==
  [kind |-> "primitive", shape |-> s, material |-> m, mask |-> mask]
SceneObject(geometry) == [kind |-> "scene", geometry |-> geometry]

Elements(seq) == {seq[i] : i \in DOMAIN seq}

\* The addresses an object holds a Ref to.
Refs(o) ==
  (CASE o.kind = "material" -> {o.texture}
     [] o.kind = "primitive" -> {o.shape, o.material}
     [] o.kind = "scene" -> Elements(o.geometry)
     [] OTHER -> {}) \ {None}

\* What is reachable: scene, primitive, material, texture at the deepest.
Reached(h, roots) ==
  LET Step(S) == S \cup UNION {Refs(h[a]) : a \in S}
  IN Step(Step(Step(roots)))

\* The addresses the handles hold, given their new values.
Roots(pm, inst, sl, sc) ==
  ({pm[m] : m \in Materials} \cup {inst[k] : k \in Handles} \cup Elements(sl) \cup {sc}) \ {None}

\* The heap h without the objects nobody refers to.
Collect(h, roots) == [a \in Reached(h, roots) |-> h[a]]

\* Free memory: every kind of object has a size, and an arena, of its own.
Free(h, kind) == {n \in 1 .. MaxObjects : <<kind, n>> \notin DOMAIN h}
Room(kind) == Free(heap, kind) # {}

\* A new object of heap h: its address, and the heap with the object there.
New(h, o) ==
  LET n == CHOOSE n \in Free(h, o.kind) : \A m \in Free(h, o.kind) : n <= m
  IN <<o.kind, n>>
With(h, a, o) == [b \in DOMAIN h \cup {a} |-> IF b = a THEN o ELSE h[b]]

Alive == ~crashed

\* A call that is not a commit.
Call ==
  /\ Alive
  /\ calls < MaxCalls
  /\ calls' = calls + 1

Init ==
  /\ heap = <<>>
  /\ parms = [k \in Handles |-> None]
  /\ modified = [k \in Handles |-> TRUE]
  /\ instance = [k \in Handles |-> None]
  /\ prims = [p \in Prims |-> None]
  /\ slots = <<>>
  /\ scene = None
  /\ calls = 0
  /\ crashed = FALSE

(***************************************************************************)
(* Parameters and commits.                                                 *)
(***************************************************************************)

\* set() of a ConstructorHandle or a CreateHandle.
Set(k, v) ==
  /\ parms' = [parms EXCEPT ![k] = v]
  /\ modified' = [modified EXCEPT ![k] = TRUE]

SetParameter(k, v) ==
  /\ Call
  /\ Set(k, v)
  /\ heap' = Collect(heap, Roots(parms', instance, slots, scene))
  /\ UNCHANGED <<instance, prims, slots, scene, crashed>>

SetImage(t, v) == SetParameter(t, v)
SetTexture(m, t) == SetParameter(m, instance[t])
SetArray(s, v) == SetParameter(s, v)

\* Mutant of ClearParms: the flag is forgotten.
ClearQuietly(k) ==
  IF k \in Meshes THEN parms' = [parms EXCEPT ![k] = None] /\ UNCHANGED modified
  ELSE UNCHANGED <<parms, modified>>

\* clear(): a CreateHandle forgets its parameters; other handles do nothing.
ClearParms(k) ==
  IF k \in Meshes
  THEN parms' = [parms EXCEPT ![k] = None] /\ modified' = [modified EXCEPT ![k] = TRUE]
  ELSE UNCHANGED <<parms, modified>>

Clear(k) ==
  /\ Call
  /\ ClearParms(k)
  /\ UNCHANGED <<heap, instance, prims, slots, scene, crashed>>

\* The object the constructor of the handle makes of the parameter.
Construct(k) ==
  IF k \in Textures THEN TextureObject(parms[k])
  ELSE IF k \in Materials THEN MaterialObject(parms[k])
  ELSE MeshObject(parms[k], 0)

\* Mutant of Assign: the object is overwritten where it is.
AssignInPlace(k) ==
  LET a == IF instance[k] = None THEN New(heap, Construct(k)) ELSE instance[k]
  IN /\ heap' = With(heap, a, Construct(k))
     /\ instance' = [instance EXCEPT ![k] = a]

\* instance = new T(parms)
Assign(k) ==
  LET a == New(heap, Construct(k))
  IN /\ instance' = [instance EXCEPT ![k] = a]
     /\ heap' = Collect(With(heap, a, Construct(k)), Roots(parms, instance', slots, scene))

\* create(): nothing to do, or a constructor that throws, changes nothing.
Commit(k) ==
  /\ Alive
  /\ modified[k]
  /\ parms[k] # Bad
  /\ Room(Construct(k).kind)
  /\ Assign(k)
  /\ modified' = [modified EXCEPT ![k] = FALSE]
  /\ UNCHANGED <<parms, prims, slots, scene, calls, crashed>>

(***************************************************************************)
(* Primitives and scenes.                                                  *)
(***************************************************************************)
NewPrimitive(p, s, m, x) ==
  /\ Call
  /\ prims' = [prims EXCEPT ![p] = [shape |-> s, material |-> m, transform |-> x, mask |-> None]]
  /\ UNCHANGED <<heap, parms, modified, instance, slots, scene, crashed>>

\* A new handle for an old primitive; p may be the variable that held it.
TransformPrimitive(p, q, x) ==
  /\ Call
  /\ prims[q] # None
  /\ prims' = [prims EXCEPT
       ![p] = [prims[q] EXCEPT !.transform = (x + prims[q].transform) % Turns]]
  /\ UNCHANGED <<heap, parms, modified, instance, slots, scene, crashed>>

SetMask(p, v) ==
  /\ Call
  /\ prims[p] # None
  /\ prims' = [prims EXCEPT ![p].mask = v]
  /\ UNCHANGED <<heap, parms, modified, instance, slots, scene, crashed>>

\* shape->transform(): the identity gives the shape itself, any other a new one.
Transformed(h, s, x) ==
  IF s = None \/ x = 0 THEN [heap |-> h, shape |-> s]
  ELSE LET o == MeshObject(h[s].positions, x)
       IN [heap |-> With(h, New(h, o), o), shape |-> New(h, o)]

Resized(i) == [j \in 1 .. (IF i > Len(slots) THEN i ELSE Len(slots)) |->
                 IF j <= Len(slots) THEN slots[j] ELSE None]

SetPrimitive(i, p) ==
  /\ Call
  /\ prims[p] # None
  /\ Room("mesh") /\ Room("primitive")
  /\ LET pr == prims[p]
         t == Transformed(heap, instance[pr.shape], pr.transform)
         o == PrimitiveObject(t.shape, instance[pr.material], pr.mask)
         a == New(t.heap, o)
     IN /\ slots' = [Resized(i) EXCEPT ![i] = a]
        /\ heap' = Collect(With(t.heap, a, o), Roots(parms, instance, slots', scene))
  /\ UNCHANGED <<parms, modified, instance, prims, scene, crashed>>

\* rtSetPrimitive with NULL: prim->getShapeInstance() of a null primitive.
SetNullPrimitive ==
  /\ Call
  /\ crashed' = TRUE
  /\ UNCHANGED <<heap, parms, modified, instance, prims, slots, scene>>

\* The vector the new scene object copies.
Snapshot == slots

CommitScene ==
  /\ Alive
  /\ Room("scene")
  /\ LET o == SceneObject(Snapshot)
         a == New(heap, o)
     IN /\ scene' = a
        /\ heap' = Collect(With(heap, a, o), Roots(parms, instance, slots, a))
  /\ UNCHANGED <<parms, modified, instance, prims, slots, calls, crashed>>

Next ==
  \/ \E t \in Textures, v \in Values : SetImage(t, v)
  \/ \E m \in Materials, t \in Textures : SetTexture(m, t)
  \/ \E s \in Meshes, v \in Values \cup {Bad} : SetArray(s, v)
  \/ \E k \in Handles : Clear(k)
  \/ \E k \in Handles : Commit(k)
  \/ \E p \in Prims, s \in Meshes, m \in Materials, x \in 0 .. Turns-1 : NewPrimitive(p, s, m, x)
  \/ \E p, q \in Prims, x \in 0 .. Turns-1 : TransformPrimitive(p, q, x)
  \/ \E p \in Prims, v \in Values : SetMask(p, v)
  \/ \E i \in 1 .. MaxSlots, p \in Prims : SetPrimitive(i, p)
  \/ SetNullPrimitive
  \/ CommitScene

Spec == Init /\ [][Next]_vars

(***************************************************************************)
(* Properties.                                                             *)
(***************************************************************************)

(* Every address a handle or an object holds is that of an object of the   *)
(* right kind, and nothing is kept that nobody refers to.                  *)
TypeOK ==
  LET Kind(a, k) == a = None \/ (a \in DOMAIN heap /\ heap[a].kind = k)
  IN /\ \A t \in Textures : Kind(instance[t], "texture") /\ parms[t] \in Values \cup {None}
     /\ \A m \in Materials : Kind(instance[m], "material") /\ Kind(parms[m], "texture")
     /\ \A s \in Meshes : Kind(instance[s], "mesh") /\ parms[s] \in Values \cup {Bad, None}
     /\ \A i \in DOMAIN slots : Kind(slots[i], "primitive")
     /\ Kind(scene, "scene")
     /\ \A a \in DOMAIN heap :
          CASE heap[a].kind = "material" -> Kind(heap[a].texture, "texture")
            [] heap[a].kind = "primitive" ->
                 Kind(heap[a].shape, "mesh") /\ Kind(heap[a].material, "material")
            [] heap[a].kind = "scene" ->
                 \A i \in DOMAIN heap[a].geometry : Kind(heap[a].geometry[i], "primitive")
            [] OTHER -> TRUE
     /\ DOMAIN heap = Reached(heap, Roots(parms, instance, slots, scene))

(* A handle that is not marked as modified refers to an object made from   *)
(* the parameters it has now, so that create() may return early.           *)
UnmodifiedIsCurrent ==
  /\ TypeOK
  /\ \A k \in Handles :
       ~modified[k] => instance[k] # None /\ heap[instance[k]] = Construct(k)

(* What the addresses stand for.                                           *)
TextureValue(a) == IF a = None THEN None ELSE <<heap[a].image>>
MaterialValue(a) == IF a = None THEN None ELSE <<TextureValue(heap[a].texture)>>
MeshValue(a) == IF a = None THEN None ELSE <<heap[a].positions>>
ShapeValue(a) == IF a = None THEN None ELSE <<heap[a].positions, heap[a].place>>
PrimitiveValue(a) ==
  IF a = None THEN None
  ELSE [shape |-> ShapeValue(heap[a].shape), material |-> MaterialValue(heap[a].material),
        mask |-> heap[a].mask]
PrimitiveValues(seq) == [i \in DOMAIN seq |-> PrimitiveValue(seq[i])]

Api ==
  INSTANCE SceneApi WITH
    image     <- [t \in Textures |-> parms[t]],
    texture   <- [t \in Textures |-> TextureValue(instance[t])],
    colour    <- [m \in Materials |-> TextureValue(parms[m])],
    material  <- [m \in Materials |-> MaterialValue(instance[m])],
    positions <- [s \in Meshes |-> parms[s]],
    mesh      <- [s \in Meshes |-> MeshValue(instance[s])],
    slots     <- PrimitiveValues(slots),
    shown     <- IF scene = None THEN None ELSE PrimitiveValues(heap[scene].geometry)

\* A commit does what SceneApi says of the commit of such a handle.
CommitAsPromised(k) ==
  \/ k \in Textures /\ Api!CommitTexture(k)
  \/ k \in Materials /\ Api!CommitMaterial(k)
  \/ k \in Meshes /\ Api!CommitMesh(k)

\* The calls that do not do what SceneApi says of them: deletion by NULL stops
\* the device, and only meshes forget their parameters.
LeftOut == SetNullPrimitive \/ \E k \in Textures \cup Materials : Clear(k)

(* Every call but those left out does what SceneApi says of that very call *)
(* and nothing else: whatever sets, clears, commits and scene changes come *)
(* before it, a frame shows the values that were committed when each slot  *)
(* was set, although objects are shared, replaced and collected.           *)
ImplementsApi ==
  /\ Api!Init
  /\ [][ \/ LeftOut
         \/ \E t \in Textures, v \in Values : SetImage(t, v) /\ Api!SetImage(t, v)
         \/ \E m \in Materials, t \in Textures : SetTexture(m, t) /\ Api!SetTexture(m, t)
         \/ \E s \in Meshes, v \in Values \cup {Bad} : SetArray(s, v) /\ Api!SetArray(s, v)
         \/ \E s \in Meshes : Clear(s) /\ Api!ClearMesh(s)
         \/ \E k \in Handles : Commit(k) /\ CommitAsPromised(k)
         \/ \E p \in Prims, s \in Meshes, m \in Materials, x \in 0 .. Turns-1 :
              NewPrimitive(p, s, m, x) /\ Api!NewPrimitive(p, s, m, x)
         \/ \E p, q \in Prims, x \in 0 .. Turns-1 :
              TransformPrimitive(p, q, x) /\ Api!TransformPrimitive(p, q, x)
         \/ \E p \in Prims, v \in Values : SetMask(p, v) /\ Api!SetMask(p, v)
         \/ \E i \in 1 .. MaxSlots, p \in Prims : SetPrimitive(i, p) /\ Api!SetPrimitive(i, p)
         \/ CommitScene /\ Api!CommitScene ]_vars
=============================================================================
