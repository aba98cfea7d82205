------------------------- MODULE DeviceObjectsProofs -------------------------
(***************************************************************************)
(* Handles, objects and scenes of the single-ray device, for any number of *)
(* handles, values, slots, objects and calls: no object that is in use is  *)
(* collected or overwritten, a commit that returns early would have        *)
(* changed nothing, and the device implements SceneApi.                    *)
(***************************************************************************)
EXTENDS DeviceObjects, FiniteSetTheorems, TLAPS

USE ObjectsAssumption

-----------------------------------------------------------------------------
(* The invariant.                                                          *)

\* Address a is null or that of an object of kind k in heap h.
IsA(h, a, k) == a = None \/ (a \in DOMAIN h /\ h[a].kind = k)

\* The objects of a heap refer to objects of the right kinds, and meshes have
\* positions somebody has set.
Sound(h) ==
  /\ h = [a \in DOMAIN h |-> h[a]]
  /\ DOMAIN h \subseteq Addresses
  /\ \A a \in DOMAIN h :
       /\ h[a].kind \in ObjectKinds
       /\ h[a].kind = "mesh" => h[a].positions \in Values \cup {Bad, None}
       /\ h[a].kind = "material" => IsA(h, h[a].texture, "texture")
       /\ h[a].kind = "primitive" =>
            IsA(h, h[a].shape, "mesh") /\ IsA(h, h[a].material, "material")
       /\ h[a].kind = "scene" =>
            /\ h[a].geometry \in Seq(Addresses \cup {None})
            /\ \A j \in DOMAIN h[a].geometry : IsA(h, h[a].geometry[j], "primitive")

PrimitiveHandles ==
  [shape : Meshes, material : Materials, transform : 0 .. Turns-1, mask : Values \cup {None}]

Types ==
  /\ parms \in [Handles -> Values \cup {Bad, None} \cup Addresses]
  /\ modified \in [Handles -> BOOLEAN]
  /\ instance \in [Handles -> Addresses \cup {None}]
  /\ prims \in [Prims -> PrimitiveHandles \cup {None}]
  /\ slots \in Seq(Addresses \cup {None})
  /\ scene \in Addresses \cup {None}

\* What the handles hold in heap h.
HandlesAre(h) ==
  /\ \A t \in Textures : IsA(h, instance[t], "texture") /\ parms[t] \in Values \cup {None}
  /\ \A m \in Materials : IsA(h, instance[m], "material") /\ IsA(h, parms[m], "texture")
  /\ \A s \in Meshes : IsA(h, instance[s], "mesh") /\ parms[s] \in Values \cup {Bad, None}
  /\ \A i \in DOMAIN slots : IsA(h, slots[i], "primitive")
  /\ IsA(h, scene, "scene")

\* A handle that is not modified has an object made from its parameter, and the
\* object of a mesh has not been moved.
InstancesAreCurrent(h) ==
  /\ \A k \in Handles : ~modified[k] => instance[k] # None /\ h[instance[k]] = Construct(k)
  /\ \A s \in Meshes : instance[s] # None => h[instance[s]].place = 0

Inv ==
  /\ Types /\ Sound(heap) /\ HandlesAre(heap) /\ InstancesAreCurrent(heap)
  /\ DOMAIN heap = Reached(heap, Roots(parms, instance, slots, scene))

-----------------------------------------------------------------------------
(* What is reached, and what is collected.                                 *)

\* An object refers only to objects of lower rank.
Rank(o) ==
  IF o.kind = "scene" THEN 3 ELSE IF o.kind = "primitive" THEN 2
  ELSE IF o.kind = "material" THEN 1 ELSE 0

Further(h, S) == S \cup UNION {Refs(h[a]) : a \in S}

LEMMA ReachedIsThreeSteps ==
  ASSUME NEW h, NEW roots
  PROVE  Reached(h, roots) = Further(h, Further(h, Further(h, roots)))
BY DEF Reached, Further

LEMMA RefsDescend ==
  ASSUME NEW h, Sound(h), NEW a \in DOMAIN h, NEW b \in Refs(h[a])
  PROVE  b \in DOMAIN h /\ b # None /\ Rank(h[b]) < Rank(h[a])
<1>0. /\ h[a].kind \in ObjectKinds /\ b # None
      /\ h[a].kind = "material" => IsA(h, h[a].texture, "texture")
      /\ h[a].kind = "primitive" =>
           IsA(h, h[a].shape, "mesh") /\ IsA(h, h[a].material, "material")
      /\ h[a].kind = "scene" =>
           \A j \in DOMAIN h[a].geometry : IsA(h, h[a].geometry[j], "primitive")
  BY DEF Sound, Refs
<1>1. CASE h[a].kind = "material"
  BY <1>0, <1>1 DEF Refs, IsA, Rank
<1>2. CASE h[a].kind = "primitive"
  BY <1>0, <1>2 DEF Refs, IsA, Rank
<1>3. CASE h[a].kind = "scene"
  BY <1>0, <1>3 DEF Refs, IsA, Rank, Elements
<1>4. CASE h[a].kind \in {"texture", "mesh"}
  BY <1>4 DEF Refs
<1>. QED
  BY <1>0, <1>1, <1>2, <1>3, <1>4 DEF ObjectKinds

\* Three steps are enough, for a sound heap.
LEMMA ReachedIsClosed ==
  ASSUME NEW h, Sound(h), NEW roots \in SUBSET DOMAIN h
  PROVE  /\ roots \subseteq Reached(h, roots) /\ Reached(h, roots) \subseteq DOMAIN h
         /\ \A a \in Reached(h, roots) : Refs(h[a]) \subseteq Reached(h, roots)
<1>1. PICK one \in SUBSET DOMAIN h : one = Further(h, roots)
  BY RefsDescend DEF Further
<1>2. PICK two \in SUBSET DOMAIN h : two = Further(h, one)
  BY RefsDescend DEF Further
<1>3. PICK three \in SUBSET DOMAIN h : three = Further(h, two)
  BY RefsDescend DEF Further
<1>4. Reached(h, roots) = three
  BY <1>1, <1>2, <1>3, ReachedIsThreeSteps
<1>5. roots \subseteq one /\ one \subseteq two /\ two \subseteq three
  BY <1>1, <1>2, <1>3 DEF Further
<1>6. ASSUME NEW a \in three PROVE Refs(h[a]) \subseteq three
  <2>1. CASE a \in two
    BY <1>3, <2>1 DEF Further
  <2>2. CASE a \notin two
    <3>1. PICK b \in two : a \in Refs(h[b])
      BY <1>3, <1>6, <2>2 DEF Further
    <3>2. b \notin one
      BY <1>2, <2>2, <3>1 DEF Further
    <3>3. PICK c \in one : b \in Refs(h[c])
      BY <1>2, <3>1, <3>2 DEF Further
    <3>4. c \notin roots
      BY <1>1, <3>2, <3>3 DEF Further
    <3>5. PICK d \in roots : c \in Refs(h[d])
      BY <1>1, <3>3, <3>4 DEF Further
    <3>6. Rank(h[a]) < Rank(h[b]) /\ Rank(h[b]) < Rank(h[c]) /\ Rank(h[c]) < Rank(h[d])
      BY <3>1, <3>3, <3>5, RefsDescend
    <3>7. \A e : Rank(h[e]) \in 0 .. 3
      BY DEF Rank
    <3>8. Rank(h[a]) = 0
      BY <3>6, <3>7
    <3>9. ASSUME NEW b2 \in Refs(h[a]) PROVE FALSE
      <4>1. Rank(h[b2]) < Rank(h[a])
        BY <1>6, <3>9, RefsDescend
      <4>. QED
        BY <3>7, <3>8, <4>1
    <3>. QED
      BY <3>9
  <2>. QED
    BY <2>1, <2>2
<1>. QED
  BY <1>4, <1>5, <1>6

\* What is collected stays as it was, and nothing else is left.
LEMMA CollectKeeps ==
  ASSUME NEW h, Sound(h), NEW roots \in SUBSET DOMAIN h, NEW g, g = Collect(h, roots)
  PROVE  /\ Sound(g) /\ DOMAIN g \subseteq DOMAIN h /\ roots \subseteq DOMAIN g
         /\ \A a \in DOMAIN g : g[a] = h[a]
         /\ DOMAIN g = Reached(g, roots)
<1>1. /\ DOMAIN g = Reached(h, roots) /\ \A a \in DOMAIN g : g[a] = h[a]
      /\ g = [a \in DOMAIN g |-> g[a]]
  BY DEF Collect
<1>2. /\ roots \subseteq DOMAIN g /\ DOMAIN g \subseteq DOMAIN h
      /\ \A a \in DOMAIN g : Refs(h[a]) \subseteq DOMAIN g
  BY <1>1, ReachedIsClosed
<1>3. ASSUME NEW a \in DOMAIN g
      PROVE  /\ h[a].kind \in ObjectKinds
             /\ h[a].kind = "mesh" => h[a].positions \in Values \cup {Bad, None}
             /\ h[a].kind = "material" => IsA(g, h[a].texture, "texture")
             /\ h[a].kind = "primitive" =>
                  IsA(g, h[a].shape, "mesh") /\ IsA(g, h[a].material, "material")
             /\ h[a].kind = "scene" =>
                  /\ h[a].geometry \in Seq(Addresses \cup {None})
                  /\ \A j \in DOMAIN h[a].geometry : IsA(g, h[a].geometry[j], "primitive")
  <2>1. ASSUME NEW b, NEW k, b = None \/ b \in Refs(h[a]), IsA(h, b, k) PROVE IsA(g, b, k)
    BY <1>1, <1>2, <1>3, <2>1 DEF IsA
  <2>2. a \in DOMAIN h
    BY <1>2, <1>3
  <2>3. CASE h[a].kind \in {"mesh", "texture"}
    BY <2>2, <2>3 DEF Sound
  <2>4. CASE h[a].kind = "material"
    <3>1. IsA(h, h[a].texture, "texture")
      BY <2>2, <2>4 DEF Sound
    <3>2. h[a].texture = None \/ h[a].texture \in Refs(h[a])
      BY <2>4 DEF Refs
    <3>. QED
      BY <2>1, <2>4, <3>1, <3>2 DEF ObjectKinds
  <2>5. CASE h[a].kind = "primitive"
    <3>1. IsA(h, h[a].shape, "mesh") /\ IsA(h, h[a].material, "material")
      BY <2>2, <2>5 DEF Sound
    <3>2. /\ h[a].shape = None \/ h[a].shape \in Refs(h[a])
          /\ h[a].material = None \/ h[a].material \in Refs(h[a])
      BY <2>5 DEF Refs
    <3>. QED
      BY <2>1, <2>5, <3>1, <3>2 DEF ObjectKinds
  <2>6. CASE h[a].kind = "scene"
    <3>1. /\ h[a].geometry \in Seq(Addresses \cup {None})
          /\ \A j \in DOMAIN h[a].geometry : IsA(h, h[a].geometry[j], "primitive")
      BY <2>2, <2>6 DEF Sound
    <3>2. \A j \in DOMAIN h[a].geometry :
            h[a].geometry[j] = None \/ h[a].geometry[j] \in Refs(h[a])
      BY <2>6 DEF Refs, Elements
    <3>3. \A j \in DOMAIN h[a].geometry : IsA(g, h[a].geometry[j], "primitive")
      BY <2>1, <3>1, <3>2
    <3>. QED
      BY <2>6, <3>1, <3>3 DEF ObjectKinds
  <2>. QED
    BY <2>2, <2>3, <2>4, <2>5, <2>6 DEF Sound, ObjectKinds
<1>4. Sound(g)
  BY <1>1, <1>2, <1>3 DEF Sound
<1>5. DOMAIN g = Reached(g, roots)
  <2>1. \A S \in SUBSET DOMAIN g : Further(g, S) = Further(h, S) /\ Further(h, S) \subseteq DOMAIN g
    BY <1>1, <1>2 DEF Further
  <2>2. PICK one \in SUBSET DOMAIN g : one = Further(h, roots) /\ one = Further(g, roots)
    BY <1>2, <2>1
  <2>3. PICK two \in SUBSET DOMAIN g : two = Further(h, one) /\ two = Further(g, one)
    BY <2>1
  <2>4. Further(g, two) = Further(h, two)
    BY <2>1
  <2>. QED
    BY <1>1, <2>2, <2>3, <2>4, ReachedIsThreeSteps
<1>. QED
  BY <1>1, <1>2, <1>4, <1>5

-----------------------------------------------------------------------------
(* New objects.                                                            *)

\* Object o can be put into heap h.
Fits(h, o) ==
  /\ o.kind \in ObjectKinds
  /\ o.kind = "mesh" => o.positions \in Values \cup {Bad, None}
  /\ o.kind = "material" => IsA(h, o.texture, "texture")
  /\ o.kind = "primitive" => IsA(h, o.shape, "mesh") /\ IsA(h, o.material, "material")
  /\ o.kind = "scene" =>
       /\ o.geometry \in Seq(Addresses \cup {None})
       /\ \A j \in DOMAIN o.geometry : IsA(h, o.geometry[j], "primitive")

\* What holds of 0 and is passed on holds up to n: else x |-> x + 1 where it does,
\* and x |-> x where it does not, would map 0 .. n into 1 .. n.
LEMMA PassedOn ==
  ASSUME NEW n \in Nat, NEW T \in SUBSET (0 .. n), 0 \in T,
         \A x \in T : x < n => x + 1 \in T
  PROVE  n \in T
<1>. SUFFICES ASSUME n \notin T PROVE FALSE
  OBVIOUS
<1> DEFINE f == [x \in 0 .. n |-> IF x \in T THEN x + 1 ELSE x]
<1>1. f \in Injection(0 .. n, 1 .. n)
  <2>1. \A x \in T : x < n
    OBVIOUS
  <2>2. \A x \in 0 .. n : f[x] \in 1 .. n /\ (x \in T <=> f[x] \in T)
    BY <2>1
  <2>3. ASSUME NEW x \in 0 .. n, NEW y \in 0 .. n, f[x] = f[y] PROVE x = y
    BY <2>2, <2>3
  <2>4. f \in [0 .. n -> 1 .. n]
    BY <2>2
  <2>. QED
    BY <2>3, <2>4 DEF Injection, IsInjective
<1>2. /\ IsFiniteSet(0 .. n) /\ Cardinality(0 .. n) = n + 1
      /\ IsFiniteSet(1 .. n) /\ Cardinality(1 .. n) = n
  BY FS_Interval
<1>3. Cardinality(0 .. n) <= Cardinality(1 .. n)
  BY <1>1, <1>2, FS_Injection
<1>. QED
  BY <1>2, <1>3

LEMMA LeastNumber ==
  ASSUME NEW S \in SUBSET Nat, S # {}
  PROVE  \E n \in S : \A m \in S : n <= m
<1>. SUFFICES ASSUME \A n \in S : \E m \in S : m < n PROVE FALSE
  OBVIOUS
<1>1. PICK n \in S : TRUE
  OBVIOUS
<1> DEFINE T == {x \in 0 .. n : \A m \in S : x < m}
<1>2. 0 \in T
  OBVIOUS
<1>3. ASSUME NEW x \in T, x < n PROVE x + 1 \in T
  <2>1. ASSUME NEW m \in S PROVE x + 1 < m
    <3>1. PICK l \in S : l < m
      OBVIOUS
    <3>. QED
      BY <3>1
  <2>. QED
    BY <1>3, <2>1
<1>4. n \in T
  BY <1>2, <1>3, PassedOn
<1>. QED
  BY <1>4

\* A new object gets an address that is free.
LEMMA NewIsFree ==
  ASSUME NEW h, NEW o, o.kind \in ObjectKinds, Free(h, o.kind) # {}
  PROVE  New(h, o) \in Addresses /\ New(h, o) \notin DOMAIN h /\ New(h, o) # None
         /\ New(h, o)[1] = o.kind
<1>1. PICK n \in Free(h, o.kind) : New(h, o) = <<o.kind, n>>
  <2>1. \E n \in Free(h, o.kind) : \A m \in Free(h, o.kind) : n <= m
    <3>1. Free(h, o.kind) \in SUBSET Nat
      BY DEF Free
    <3>. QED
      BY <3>1, LeastNumber
  <2>. QED
    BY <2>1 DEF New
<1>2. n \in 1 .. MaxObjects /\ <<o.kind, n>> \notin DOMAIN h
  BY <1>1 DEF Free
<1>3. <<o.kind, n>> \in Addresses
  BY <1>2 DEF Addresses
<1>. QED
  BY <1>1, <1>2, <1>3

\* It disturbs no other.
LEMMA WithKeeps ==
  ASSUME NEW h, Sound(h), NEW o, Fits(h, o), NEW a \in Addresses, a \notin DOMAIN h,
         NEW g, g = With(h, a, o)
  PROVE  /\ Sound(g) /\ DOMAIN g = DOMAIN h \cup {a} /\ g[a] = o
         /\ \A b \in DOMAIN h : g[b] = h[b]
         /\ \A b, l : IsA(h, b, l) => IsA(g, b, l)
         /\ IsA(g, a, o.kind)
<1>1. /\ g = [b \in DOMAIN g |-> g[b]] /\ DOMAIN g = DOMAIN h \cup {a} /\ g[a] = o
      /\ \A b \in DOMAIN h : g[b] = h[b]
  BY DEF With
<1>2. \A b, l : IsA(h, b, l) => IsA(g, b, l)
  BY <1>1 DEF IsA
<1>3. IsA(g, a, o.kind)
  BY <1>1 DEF IsA
<1>4. ASSUME NEW b \in DOMAIN g
      PROVE  /\ g[b].kind \in ObjectKinds
             /\ g[b].kind = "mesh" => g[b].positions \in Values \cup {Bad, None}
             /\ g[b].kind = "material" => IsA(g, g[b].texture, "texture")
             /\ g[b].kind = "primitive" =>
                  IsA(g, g[b].shape, "mesh") /\ IsA(g, g[b].material, "material")
             /\ g[b].kind = "scene" =>
                  /\ g[b].geometry \in Seq(Addresses \cup {None})
                  /\ \A j \in DOMAIN g[b].geometry : IsA(g, g[b].geometry[j], "primitive")
  <2>1. CASE b = a
    BY <1>1, <1>2, <2>1 DEF Fits
  <2>2. CASE b # a
    <3>1. b \in DOMAIN h /\ g[b] = h[b]
      BY <1>1, <2>2
    <3>. QED
      BY <1>2, <3>1 DEF Sound
  <2>. QED
    BY <2>1, <2>2
<1>5. Sound(g)
  BY <1>1, <1>4 DEF Sound
<1>. QED
  BY <1>1, <1>2, <1>3, <1>5

LEMMA PutKeeps ==
  ASSUME NEW h, Sound(h), NEW o, Fits(h, o), Free(h, o.kind) # {},
         NEW a, a = New(h, o), NEW g, g = With(h, a, o)
  PROVE  /\ a \in Addresses /\ a # None /\ a \notin DOMAIN h /\ a[1] = o.kind
         /\ Sound(g) /\ DOMAIN g = DOMAIN h \cup {a} /\ g[a] = o
         /\ \A b \in DOMAIN h : g[b] = h[b]
         /\ \A b, l : IsA(h, b, l) => IsA(g, b, l)
         /\ IsA(g, a, o.kind)
<1>1. o.kind \in ObjectKinds
  BY DEF Fits
<1>2. a \in Addresses /\ a # None /\ a \notin DOMAIN h /\ a[1] = o.kind
  BY <1>1, NewIsFree
<1>3. /\ Sound(g) /\ DOMAIN g = DOMAIN h \cup {a} /\ g[a] = o
      /\ \A b \in DOMAIN h : g[b] = h[b]
      /\ \A b, l : IsA(h, b, l) => IsA(g, b, l)
      /\ IsA(g, a, o.kind)
  BY <1>2, WithKeeps
<1>. QED
  BY <1>2, <1>3

-----------------------------------------------------------------------------
(* Every call keeps the invariant.                                         *)

LEMMA InitInv == Init => Inv
<1>. SUFFICES ASSUME Init PROVE Inv
  OBVIOUS
<1>1. heap = <<>> /\ DOMAIN heap = {} /\ slots = <<>> /\ DOMAIN slots = {}
  BY DEF Init
<1>2. Types
  BY <1>1 DEF Init, Types
<1>3. Sound(heap)
  BY <1>1 DEF Sound
<1>4. HandlesAre(heap) /\ InstancesAreCurrent(heap)
  BY <1>1 DEF Init, HandlesAre, InstancesAreCurrent, IsA, Handles
<1>5. Roots(parms, instance, slots, scene) = {}
  BY <1>1 DEF Init, Roots, Elements, Handles
<1>6. Reached(heap, {}) = {}
  BY ReachedIsThreeSteps DEF Further
<1>. QED
  BY <1>1, <1>2, <1>3, <1>4, <1>5, <1>6 DEF Inv

\* The handles refer to objects of heap h, of which what nobody refers to is
\* collected.
LEMMA CollectedInv ==
  ASSUME NEW h, Sound(h), Types', HandlesAre(h)', InstancesAreCurrent(h)',
         heap' = Collect(h, Roots(parms', instance', slots', scene'))
  PROVE  /\ Inv' /\ DOMAIN heap' \subseteq DOMAIN h
         /\ \A a \in DOMAIN heap' : heap'[a] = h[a]
<1>1. PICK roots : roots = Roots(parms', instance', slots', scene')
  OBVIOUS
<1>2. /\ \A t \in Textures : instance'[t] \in roots \cup {None}
      /\ \A m \in Materials : instance'[m] \in roots \cup {None} /\ parms'[m] \in roots \cup {None}
      /\ \A s \in Meshes : instance'[s] \in roots \cup {None}
      /\ \A j \in DOMAIN slots' : slots'[j] \in roots \cup {None}
      /\ scene' \in roots \cup {None}
      /\ None \notin roots
  BY <1>1 DEF Roots, Elements, Handles
<1>3. roots \in SUBSET DOMAIN h
  <2>1. ASSUME NEW a \in roots PROVE a \in DOMAIN h
    BY <1>1 DEF HandlesAre, IsA, Roots, Elements, Handles
  <2>. QED
    BY <2>1
<1>4. PICK g : g = heap'
  OBVIOUS
<1>5. /\ Sound(g) /\ DOMAIN g \subseteq DOMAIN h /\ roots \subseteq DOMAIN g
      /\ \A a \in DOMAIN g : g[a] = h[a]
      /\ DOMAIN g = Reached(g, roots)
  BY <1>1, <1>3, <1>4, CollectKeeps
<1>6. ASSUME NEW a \in roots \cup {None}, NEW k, IsA(h, a, k) PROVE IsA(g, a, k)
  BY <1>5, <1>6 DEF IsA
<1>7. HandlesAre(g)'
  BY <1>2, <1>6 DEF HandlesAre
<1>8. InstancesAreCurrent(g)'
  BY <1>2, <1>5 DEF InstancesAreCurrent, Handles
<1>. QED
  BY <1>1, <1>4, <1>5, <1>7, <1>8 DEF Inv, HandlesAre, InstancesAreCurrent, Construct

\* A parameter of the type of its handle is set.
LEMMA SetParameterKeepsInv ==
  ASSUME Inv, NEW k \in Handles, NEW v, SetParameter(k, v),
         k \in Textures => v \in Values \cup {None},
         k \in Materials => IsA(heap, v, "texture"),
         k \in Meshes => v \in Values \cup {Bad, None}
  PROVE  /\ Inv' /\ DOMAIN heap' \subseteq DOMAIN heap
         /\ \A a \in DOMAIN heap' : heap'[a] = heap[a]
<1>1. PICK h : h = heap /\ Sound(h) /\ HandlesAre(h) /\ InstancesAreCurrent(h)
  BY DEF Inv
<1>2. /\ Types /\ heap' = Collect(h, Roots(parms', instance', slots', scene'))
      /\ parms' = [parms EXCEPT ![k] = v] /\ modified' = [modified EXCEPT ![k] = TRUE]
      /\ UNCHANGED <<instance, prims, slots, scene>>
  BY <1>1 DEF Inv, SetParameter, Set
<1>3. v \in Values \cup {Bad, None} \cup Addresses
  BY <1>1 DEF Handles, IsA, Sound
<1>4. Types'
  BY <1>2, <1>3 DEF Types
<1>5. \A g \in Handles \ {k} : parms'[g] = parms[g] /\ modified'[g] = modified[g]
  BY <1>2 DEF Types
<1>6. parms'[k] = v /\ modified'[k]
  BY <1>2 DEF Types
<1>7. HandlesAre(h)'
  BY <1>1, <1>2, <1>5, <1>6 DEF HandlesAre, Handles
<1>8. InstancesAreCurrent(h)'
  BY <1>1, <1>2, <1>5, <1>6 DEF InstancesAreCurrent, Construct, Handles
<1>. QED
  BY <1>1, <1>2, <1>4, <1>7, <1>8, CollectedInv

\* A call that leaves the objects alone.
LEMMA ClearKeepsInv ==
  ASSUME Inv, NEW k \in Handles, Clear(k)
  PROVE  Inv'
<1>1. UNCHANGED <<heap, instance, prims, slots, scene>> /\ Types
  BY DEF Clear, Inv
<1>2. CASE k \in Meshes
  <2>1. parms' = [parms EXCEPT ![k] = None] /\ modified' = [modified EXCEPT ![k] = TRUE]
    BY <1>2 DEF Clear, ClearParms
  <2>2. \A g \in Handles \ {k} : parms'[g] = parms[g] /\ modified'[g] = modified[g]
    BY <1>1, <2>1 DEF Types
  <2>3. parms'[k] = None /\ modified'[k] /\ \A m \in Materials : parms'[m] = parms[m]
    BY <1>1, <1>2, <2>1, <2>2 DEF Types, Handles
  <2>4. Types'
    BY <1>1, <2>1 DEF Types
  <2>5. HandlesAre(heap)'
    BY <1>1, <1>2, <2>2, <2>3 DEF Inv, HandlesAre, Handles, IsA
  <2>6. InstancesAreCurrent(heap)'
    BY <1>1, <2>2, <2>3 DEF Inv, InstancesAreCurrent, Construct, Handles
  <2>7. Roots(parms, instance, slots, scene)' = Roots(parms, instance, slots, scene)
    BY <1>1, <2>3 DEF Roots
  <2>8. DOMAIN heap' = Reached(heap', Roots(parms', instance', slots', scene'))
    BY <1>1, <2>7 DEF Inv
  <2>. QED
    BY <1>1, <2>4, <2>5, <2>6, <2>8 DEF Inv
<1>3. CASE k \notin Meshes
  <2>1. UNCHANGED <<parms, modified>>
    BY <1>3 DEF Clear, ClearParms
  <2>. QED
    BY <1>1, <2>1 DEF Inv, Types, HandlesAre, InstancesAreCurrent, Construct
<1>. QED
  BY <1>2, <1>3

LEMMA OtherKeepsInv ==
  ASSUME Inv, UNCHANGED <<heap, parms, modified, instance, slots, scene>>,
         prims' \in [Prims -> PrimitiveHandles \cup {None}]
  PROVE  Inv'
BY DEF Inv, Types, HandlesAre, InstancesAreCurrent, Construct

\* A handle that is modified gets a new object.
LEMMA CommitKeepsInv ==
  ASSUME Inv, NEW k \in Handles, Commit(k)
  PROVE  /\ Inv' /\ \A a \in DOMAIN heap \cap DOMAIN heap' : heap'[a] = heap[a]
         /\ instance'[k] # None /\ heap'[instance'[k]] = Construct(k)
<1>1. PICK h : h = heap /\ Sound(h) /\ HandlesAre(h) /\ InstancesAreCurrent(h)
  BY DEF Inv
<1>2. PICK o : o = Construct(k)
  OBVIOUS
<1>3. Types /\ UNCHANGED <<parms, prims, slots, scene>>
  BY DEF Inv, Commit
<1>4. Fits(h, o)
  <2>1. CASE k \in Textures
    BY <1>2, <2>1 DEF Construct, TextureObject, Fits, ObjectKinds
  <2>2. CASE k \in Materials
    BY <1>1, <1>2, <2>2 DEF Construct, MaterialObject, Fits, ObjectKinds, HandlesAre
  <2>3. CASE k \in Meshes
    BY <1>1, <1>2, <2>3 DEF Construct, MeshObject, Fits, ObjectKinds, HandlesAre
  <2>. QED
    BY <2>1, <2>2, <2>3 DEF Handles
<1>5. /\ k \in Textures => o.kind = "texture"
      /\ k \in Materials => o.kind = "material"
      /\ k \in Meshes => o.kind = "mesh" /\ o.place = 0
  BY <1>2 DEF Construct, TextureObject, MaterialObject, MeshObject
<1>6. PICK a \in Addresses : a = New(h, o) /\ a \notin DOMAIN h /\ a # None
  <2>1. o.kind \in ObjectKinds /\ Free(h, o.kind) # {}
    BY <1>1, <1>2, <1>4 DEF Commit, Room, Fits
  <2>. QED
    BY <2>1, NewIsFree
<1>7. PICK g : g = With(h, a, o)
  OBVIOUS
<1>8. /\ Sound(g) /\ DOMAIN g = DOMAIN h \cup {a} /\ g[a] = o
      /\ \A b \in DOMAIN h : g[b] = h[b]
      /\ \A b, l : IsA(h, b, l) => IsA(g, b, l)
      /\ IsA(g, a, o.kind)
  BY <1>1, <1>2, <1>4, <1>6, <1>7, PutKeeps DEF Commit, Room
<1>9. /\ instance' = [instance EXCEPT ![k] = a] /\ modified' = [modified EXCEPT ![k] = FALSE]
      /\ heap' = Collect(g, Roots(parms', instance', slots', scene'))
  BY <1>1, <1>2, <1>3, <1>6, <1>7 DEF Commit, Assign
<1>10. /\ instance'[k] = a /\ ~modified'[k]
       /\ \A j \in Handles \ {k} : instance'[j] = instance[j] /\ modified'[j] = modified[j]
  BY <1>3, <1>9 DEF Types
<1>11. Types'
  BY <1>3, <1>6, <1>9 DEF Types
<1>12. HandlesAre(g)'
  <2>1. \A j \in Handles \ {k} : \A l : IsA(h, instance[j], l) => IsA(g, instance'[j], l)
    BY <1>8, <1>10
  <2>. QED
    BY <1>1, <1>3, <1>5, <1>8, <1>10, <2>1 DEF HandlesAre, Handles
<1>13. InstancesAreCurrent(g)'
  <2>1. ASSUME NEW j \in Handles, ~modified'[j]
        PROVE  instance'[j] # None /\ g[instance'[j]] = Construct(j)'
    <3>1. Construct(j)' = Construct(j)
      BY <1>3 DEF Construct
    <3>2. CASE j = k
      BY <1>2, <1>6, <1>8, <1>10, <3>1, <3>2
    <3>3. CASE j # k
      <4>1. instance[j] # None /\ h[instance[j]] = Construct(j) /\ instance'[j] = instance[j]
        BY <1>1, <1>10, <2>1, <3>3 DEF InstancesAreCurrent
      <4>2. instance[j] \in DOMAIN h
        BY <1>1, <4>1 DEF HandlesAre, IsA, Handles
      <4>. QED
        BY <1>8, <3>1, <4>1, <4>2
    <3>. QED
      BY <3>2, <3>3
  <2>2. ASSUME NEW s \in Meshes, instance'[s] # None PROVE g[instance'[s]].place = 0
    <3>1. CASE s = k
      BY <1>5, <1>8, <1>10, <3>1
    <3>2. CASE s # k
      <4>1. instance'[s] = instance[s] /\ instance[s] \in DOMAIN h /\ h[instance[s]].place = 0
        BY <1>1, <1>10, <2>2, <3>2 DEF HandlesAre, IsA, Handles, InstancesAreCurrent
      <4>. QED
        BY <1>8, <4>1
    <3>. QED
      BY <3>1, <3>2
  <2>. QED
    BY <2>1, <2>2 DEF InstancesAreCurrent
<1>14. /\ Inv' /\ DOMAIN heap' \subseteq DOMAIN g
       /\ \A b \in DOMAIN heap' : heap'[b] = g[b]
  BY <1>8, <1>9, <1>11, <1>12, <1>13, CollectedInv
<1>15. a \in DOMAIN heap'
  <2>1. \E l : IsA(heap', instance'[k], l)
    BY <1>14 DEF Inv, HandlesAre, IsA, Handles
  <2>. QED
    BY <1>6, <1>10, <2>1 DEF IsA
<1>. QED
  BY <1>1, <1>2, <1>6, <1>8, <1>10, <1>14, <1>15

\* What the shape of a primitive becomes by its transformation.
LEMMA TransformedKeeps ==
  ASSUME NEW h, Sound(h), NEW s, IsA(h, s, "mesh"), s # None => h[s].place = 0,
         NEW x, Free(h, "mesh") # {}, NEW t, t = Transformed(h, s, x)
  PROVE  /\ Sound(t.heap) /\ DOMAIN h \subseteq DOMAIN t.heap
         /\ \A b \in DOMAIN h : t.heap[b] = h[b]
         /\ \A b, l : IsA(h, b, l) => IsA(t.heap, b, l)
         /\ IsA(t.heap, t.shape, "mesh") /\ Free(t.heap, "primitive") = Free(h, "primitive")
         /\ s = None => t.shape = None
         /\ s # None => /\ t.shape # None /\ t.heap[t.shape].positions = h[s].positions
                        /\ t.heap[t.shape].place = x
<1>1. CASE s = None \/ x = 0
  <2>1. t.heap = h /\ t.shape = s
    BY <1>1 DEF Transformed
  <2>. QED
    BY <1>1, <2>1
<1>2. CASE ~(s = None \/ x = 0)
  <2>1. PICK o : o = MeshObject(h[s].positions, x)
    OBVIOUS
  <2>2. PICK a : a = New(h, o)
    OBVIOUS
  <2>3. PICK g : g = With(h, a, o)
    OBVIOUS
  <2>4. t.heap = g /\ t.shape = a
    BY <1>2, <2>1, <2>2, <2>3 DEF Transformed
  <2>5. o.kind = "mesh" /\ o.positions = h[s].positions /\ o.place = x
    BY <2>1 DEF MeshObject
  <2>6. Fits(h, o)
    <3>1. s \in DOMAIN h /\ h[s].kind = "mesh"
      BY <1>2 DEF IsA
    <3>2. h[s].positions \in Values \cup {Bad, None}
      BY <3>1 DEF Sound
    <3>. QED
      BY <2>5, <3>2 DEF Fits, ObjectKinds
  <2>7. /\ a \in Addresses /\ a # None /\ a \notin DOMAIN h /\ a[1] = o.kind
        /\ Sound(g) /\ DOMAIN g = DOMAIN h \cup {a} /\ g[a] = o
        /\ \A b \in DOMAIN h : g[b] = h[b]
        /\ \A b, l : IsA(h, b, l) => IsA(g, b, l)
        /\ IsA(g, a, o.kind)
    <3>1. Free(h, o.kind) # {}
      BY <2>5
    <3>. QED
      BY <2>2, <2>3, <2>6, <3>1, PutKeeps
  <2>8. Free(g, "primitive") = Free(h, "primitive")
    <3>1. a[1] = "mesh"
      BY <2>5, <2>7
    <3>2. \A n : <<"primitive", n>> # a
      BY <3>1
    <3>3. DOMAIN g = DOMAIN h \cup {a}
      BY <2>7
    <3>. QED
      BY <3>2, <3>3 DEF Free
  <2>9. IsA(g, a, "mesh")
    BY <2>5, <2>7
  <2>. QED
    BY <1>2, <2>4, <2>5, <2>7, <2>8, <2>9
<1>. QED
  BY <1>1, <1>2

\* The vector of the scene handle grows as far as it must.
LEMMA SlotsGrow ==
  ASSUME Types, NEW i \in 1 .. MaxSlots, NEW a \in Addresses,
         slots' = [Resized(i) EXCEPT ![i] = a]
  PROVE  /\ slots' \in Seq(Addresses \cup {None}) /\ i \in DOMAIN slots' /\ slots'[i] = a
         /\ DOMAIN slots' = 1 .. (IF i > Len(slots) THEN i ELSE Len(slots))
         /\ \A j \in DOMAIN slots' : j # i =>
              slots'[j] = IF j <= Len(slots) THEN slots[j] ELSE None
<1>1. PICK n \in Nat : n = IF i > Len(slots) THEN i ELSE Len(slots)
  BY DEF Types
<1>2. PICK old : old = Resized(i)
  OBVIOUS
<1>3. /\ DOMAIN old = 1 .. n /\ old = [j \in 1 .. n |-> old[j]]
      /\ \A j \in 1 .. n : old[j] = IF j <= Len(slots) THEN slots[j] ELSE None
  BY <1>1, <1>2 DEF Resized
<1>4. \A j \in 1 .. n : old[j] \in Addresses \cup {None}
  BY <1>3 DEF Types
<1>5. slots' = [old EXCEPT ![i] = a] /\ i \in 1 .. n
  BY <1>1, <1>2 DEF Types
<1>6. /\ DOMAIN slots' = 1 .. n /\ slots'[i] = a
      /\ \A j \in 1 .. n : j # i => slots'[j] = old[j]
  BY <1>3, <1>5
<1>7. slots' \in [1 .. n -> Addresses \cup {None}]
  <2>1. old \in [1 .. n -> Addresses \cup {None}]
    BY <1>3, <1>4
  <2>2. [old EXCEPT ![i] = a] \in [1 .. n -> Addresses \cup {None}]
    BY <1>5, <2>1
  <2>. QED
    BY <1>5, <2>2
<1>8. slots' \in Seq(Addresses \cup {None})
  <2>1. \A S, new : new \in [1 .. n -> S] => new \in Seq(S)
    OBVIOUS
  <2>. QED
    BY <1>7, <2>1, Zenon
<1>. QED
  BY <1>1, <1>3, <1>5, <1>6, <1>8

\* A slot gets a new object of the shape and material that are committed.
LEMMA SetPrimitiveKeepsInv ==
  ASSUME Inv, NEW i \in 1 .. MaxSlots, NEW p \in Prims, SetPrimitive(i, p)
  PROVE  /\ Inv' /\ \A b \in DOMAIN heap \cap DOMAIN heap' : heap'[b] = heap[b]
         /\ DOMAIN slots' = 1 .. (IF i > Len(slots) THEN i ELSE Len(slots))
         /\ \A j \in DOMAIN slots' : j # i =>
              slots'[j] = IF j <= Len(slots) THEN slots[j] ELSE None
         /\ \E s : /\ slots'[i] # None
                   /\ heap'[slots'[i]] =
                        PrimitiveObject(s, instance[prims[p].material], prims[p].mask)
                   /\ instance[prims[p].shape] = None => s = None
                   /\ instance[prims[p].shape] # None =>
                        /\ s # None
                        /\ heap'[s].positions = heap[instance[prims[p].shape]].positions
                        /\ heap'[s].place = prims[p].transform
<1>1. PICK h : h = heap /\ Sound(h) /\ HandlesAre(h) /\ InstancesAreCurrent(h)
  BY DEF Inv
<1>2. Types /\ UNCHANGED <<parms, modified, instance, prims, scene>>
  BY DEF Inv, SetPrimitive
<1>3. PICK pr \in PrimitiveHandles : pr = prims[p]
  BY DEF Inv, Types, SetPrimitive
<1>4. pr.shape \in Meshes /\ pr.material \in Materials
  BY DEF PrimitiveHandles
<1>5. PICK s : s = instance[pr.shape]
  OBVIOUS
<1>6. IsA(h, s, "mesh") /\ (s # None => h[s].place = 0)
  BY <1>1, <1>4, <1>5 DEF HandlesAre, InstancesAreCurrent
<1>7. PICK t : t = Transformed(h, s, pr.transform)
  OBVIOUS
<1>8. /\ Sound(t.heap) /\ DOMAIN h \subseteq DOMAIN t.heap
      /\ \A b \in DOMAIN h : t.heap[b] = h[b]
      /\ \A b, l : IsA(h, b, l) => IsA(t.heap, b, l)
      /\ IsA(t.heap, t.shape, "mesh") /\ Free(t.heap, "primitive") = Free(h, "primitive")
      /\ s = None => t.shape = None
      /\ s # None => /\ t.shape # None /\ t.heap[t.shape].positions = h[s].positions
                     /\ t.heap[t.shape].place = pr.transform
  <2>1. Free(h, "mesh") # {}
    BY <1>1 DEF SetPrimitive, Room
  <2>2. Sound(h)
    BY <1>1
  <2>. QED
    BY <1>6, <1>7, <2>1, <2>2, TransformedKeeps
<1>9. PICK o : o = PrimitiveObject(t.shape, instance[pr.material], pr.mask)
  OBVIOUS
<1>10. /\ o.kind = "primitive" /\ o.shape = t.shape /\ o.material = instance[pr.material]
  BY <1>9 DEF PrimitiveObject
<1>11. Fits(t.heap, o)
  <2>1. IsA(h, instance[pr.material], "material")
    BY <1>1, <1>4 DEF HandlesAre
  <2>. QED
    BY <1>8, <1>10, <2>1 DEF Fits, ObjectKinds
<1>12. PICK a : a = New(t.heap, o)
  OBVIOUS
<1>13. PICK g : g = With(t.heap, a, o)
  OBVIOUS
<1>14. /\ a \in Addresses /\ a # None /\ a \notin DOMAIN t.heap /\ a[1] = o.kind
       /\ Sound(g) /\ DOMAIN g = DOMAIN t.heap \cup {a} /\ g[a] = o
       /\ \A b \in DOMAIN t.heap : g[b] = t.heap[b]
       /\ \A b, l : IsA(t.heap, b, l) => IsA(g, b, l)
       /\ IsA(g, a, o.kind)
  <2>1. Free(t.heap, o.kind) # {}
    BY <1>1, <1>8, <1>10 DEF SetPrimitive, Room
  <2>2. Sound(t.heap)
    BY <1>8
  <2>. QED
    BY <1>11, <1>12, <1>13, <2>1, <2>2, PutKeeps
<1>15. /\ slots' = [Resized(i) EXCEPT ![i] = a]
       /\ heap' = Collect(g, Roots(parms', instance', slots', scene'))
  BY <1>1, <1>2, <1>3, <1>5, <1>7, <1>9, <1>12, <1>13 DEF SetPrimitive
<1>16. /\ slots' \in Seq(Addresses \cup {None}) /\ i \in DOMAIN slots' /\ slots'[i] = a
       /\ DOMAIN slots' = 1 .. (IF i > Len(slots) THEN i ELSE Len(slots))
       /\ \A j \in DOMAIN slots' : j # i =>
            slots'[j] = IF j <= Len(slots) THEN slots[j] ELSE None
  BY <1>2, <1>14, <1>15, SlotsGrow
<1>17. Types'
  BY <1>2, <1>16 DEF Types
<1>18. \A b, l : IsA(h, b, l) => IsA(g, b, l)
  BY <1>8, <1>14
<1>19. HandlesAre(g)'
  <2>1. \A j \in DOMAIN slots' : IsA(g, slots'[j], "primitive")
    <3>1. ASSUME NEW j \in DOMAIN slots', j # i PROVE IsA(g, slots'[j], "primitive")
      <4>1. CASE slots'[j] = None
        BY <4>1 DEF IsA
      <4>2. CASE slots'[j] # None
        <5>1. j \in DOMAIN slots /\ slots'[j] = slots[j]
          BY <1>2, <1>16, <3>1, <4>2 DEF Types
        <5>2. IsA(h, slots[j], "primitive")
          BY <1>1, <5>1 DEF HandlesAre
        <5>. QED
          BY <1>18, <5>1, <5>2
      <4>. QED
        BY <4>1, <4>2
    <3>2. IsA(g, slots'[i], "primitive")
      BY <1>10, <1>14, <1>16
    <3>. QED
      BY <3>1, <3>2
  <2>. QED
    BY <1>1, <1>2, <1>18, <2>1 DEF HandlesAre
<1>20. \A b \in DOMAIN h : b \in DOMAIN g /\ g[b] = h[b]
  BY <1>8, <1>14
<1>21. InstancesAreCurrent(g)'
  <2>1. \A k \in Handles : instance[k] # None => instance[k] \in DOMAIN h
    BY <1>1 DEF HandlesAre, IsA, Handles
  <2>2. \A k \in Handles : instance[k] # None => g[instance[k]] = h[instance[k]]
    BY <1>20, <2>1
  <2>3. \A k \in Handles : Construct(k)' = Construct(k)
    BY <1>2 DEF Construct
  <2>. QED
    BY <1>1, <1>2, <2>2, <2>3 DEF InstancesAreCurrent, Handles
<1>22. /\ Inv' /\ DOMAIN heap' \subseteq DOMAIN g
       /\ \A b \in DOMAIN heap' : heap'[b] = g[b]
  <2>1. Sound(g)
    BY <1>14
  <2>. QED
    BY <1>15, <1>17, <1>19, <1>21, <2>1, CollectedInv
<1>23. a \in DOMAIN heap' /\ heap'[a] = o
  <2>1. IsA(heap', slots'[i], "primitive")
    BY <1>16, <1>22 DEF Inv, HandlesAre
  <2>. QED
    BY <1>14, <1>16, <1>22, <2>1 DEF IsA
<1>24. t.shape # None => t.shape \in DOMAIN heap' /\ heap'[t.shape] = t.heap[t.shape]
  <2>1. IsA(heap', o.shape, "mesh")
    BY <1>10, <1>22, <1>23 DEF Inv, Sound
  <2>2. t.shape # None => t.shape \in DOMAIN t.heap
    BY <1>8 DEF IsA
  <2>. QED
    BY <1>10, <1>14, <1>22, <2>1, <2>2 DEF IsA
<1>25. \A b \in DOMAIN heap \cap DOMAIN heap' : heap'[b] = heap[b]
  BY <1>1, <1>20, <1>22
<1>. QED
  BY <1>1, <1>3, <1>5, <1>8, <1>9, <1>14, <1>16, <1>22, <1>23, <1>24, <1>25

\* The scene object copies the slots.
LEMMA CommitSceneKeepsInv ==
  ASSUME Inv, CommitScene
  PROVE  /\ Inv' /\ \A b \in DOMAIN heap \cap DOMAIN heap' : heap'[b] = heap[b]
         /\ scene' # None /\ heap'[scene'] = SceneObject(slots)
<1>1. PICK h : h = heap /\ Sound(h) /\ HandlesAre(h) /\ InstancesAreCurrent(h)
  BY DEF Inv
<1>2. Types /\ UNCHANGED <<parms, modified, instance, prims, slots>>
  BY DEF Inv, CommitScene
<1>3. PICK o : o = SceneObject(slots)
  OBVIOUS
<1>4. o.kind = "scene" /\ o.geometry = slots
  BY <1>3 DEF SceneObject
<1>5. Fits(h, o)
  BY <1>1, <1>2, <1>4 DEF Fits, HandlesAre, Types, ObjectKinds
<1>6. PICK a : a = New(h, o)
  OBVIOUS
<1>7. PICK g : g = With(h, a, o)
  OBVIOUS
<1>8. /\ a \in Addresses /\ a # None /\ a \notin DOMAIN h /\ a[1] = o.kind
      /\ Sound(g) /\ DOMAIN g = DOMAIN h \cup {a} /\ g[a] = o
      /\ \A b \in DOMAIN h : g[b] = h[b]
      /\ \A b, l : IsA(h, b, l) => IsA(g, b, l)
      /\ IsA(g, a, o.kind)
  <2>1. Free(h, o.kind) # {}
    BY <1>1, <1>4 DEF CommitScene, Room
  <2>2. Sound(h)
    BY <1>1
  <2>. QED
    BY <1>5, <1>6, <1>7, <2>1, <2>2, PutKeeps
<1>9. scene' = a /\ heap' = Collect(g, Roots(parms', instance', slots', scene'))
  BY <1>1, <1>2, <1>3, <1>6, <1>7 DEF CommitScene, Snapshot
<1>10. Types'
  BY <1>2, <1>8, <1>9 DEF Types
<1>11. HandlesAre(g)'
  BY <1>1, <1>2, <1>4, <1>8, <1>9 DEF HandlesAre
<1>12. InstancesAreCurrent(g)'
  <2>1. \A k \in Handles : instance[k] # None => instance[k] \in DOMAIN h
    BY <1>1 DEF HandlesAre, IsA, Handles
  <2>2. \A k \in Handles : instance[k] # None => g[instance[k]] = h[instance[k]]
    BY <1>8, <2>1
  <2>3. \A k \in Handles : Construct(k)' = Construct(k)
    BY <1>2 DEF Construct
  <2>. QED
    BY <1>1, <1>2, <2>2, <2>3 DEF InstancesAreCurrent, Handles
<1>13. /\ Inv' /\ DOMAIN heap' \subseteq DOMAIN g
       /\ \A b \in DOMAIN heap' : heap'[b] = g[b]
  <2>1. Sound(g)
    BY <1>8
  <2>. QED
    BY <1>9, <1>10, <1>11, <1>12, <2>1, CollectedInv
<1>14. a \in DOMAIN heap'
  BY <1>8, <1>9, <1>13 DEF Inv, HandlesAre, IsA
<1>. QED
  BY <1>1, <1>3, <1>8, <1>9, <1>13, <1>14

LEMMA NewPrimitiveKeepsInv ==
  ASSUME Inv, NEW p \in Prims, NEW s \in Meshes, NEW m \in Materials, NEW x \in 0 .. Turns-1,
         NewPrimitive(p, s, m, x)
  PROVE  Inv'
<1>1. [shape |-> s, material |-> m, transform |-> x, mask |-> None] \in PrimitiveHandles
  BY DEF PrimitiveHandles
<1>2. prims' \in [Prims -> PrimitiveHandles \cup {None}]
  BY <1>1 DEF NewPrimitive, Inv, Types
<1>. QED
  BY <1>2, OtherKeepsInv DEF NewPrimitive

LEMMA TransformPrimitiveKeepsInv ==
  ASSUME Inv, NEW p \in Prims, NEW q \in Prims, NEW x \in 0 .. Turns-1,
         TransformPrimitive(p, q, x)
  PROVE  Inv'
<1>1. PICK pr \in PrimitiveHandles : pr = prims[q]
  BY DEF TransformPrimitive, Inv, Types
<1>2. (x + pr.transform) % Turns \in 0 .. Turns-1
  <2>1. x + pr.transform \in Int /\ Turns \in Int /\ 0 < Turns
    BY DEF PrimitiveHandles
  <2>. QED
    BY <2>1
<1>3. [pr EXCEPT !.transform = (x + pr.transform) % Turns] \in PrimitiveHandles
  BY <1>2 DEF PrimitiveHandles
<1>4. prims' \in [Prims -> PrimitiveHandles \cup {None}]
  BY <1>1, <1>3 DEF TransformPrimitive, Inv, Types
<1>. QED
  BY <1>4, OtherKeepsInv DEF TransformPrimitive

LEMMA SetMaskKeepsInv ==
  ASSUME Inv, NEW p \in Prims, NEW v \in Values, SetMask(p, v)
  PROVE  Inv'
<1>1. PICK pr \in PrimitiveHandles : pr = prims[p]
  BY DEF SetMask, Inv, Types
<1>2. [pr EXCEPT !.mask = v] \in PrimitiveHandles
  BY DEF PrimitiveHandles
<1>3. prims' = [prims EXCEPT ![p] = [pr EXCEPT !.mask = v]]
  BY <1>1 DEF SetMask
<1>4. prims' \in [Prims -> PrimitiveHandles \cup {None}]
  BY <1>2, <1>3 DEF Inv, Types
<1>. QED
  BY <1>4, OtherKeepsInv DEF SetMask

LEMMA SetImageKeepsInv ==
  ASSUME Inv, NEW t \in Textures, NEW v \in Values, SetImage(t, v)
  PROVE  Inv' /\ \A a \in DOMAIN heap' : a \in DOMAIN heap /\ heap'[a] = heap[a]
<1>1. t \in Handles /\ t \notin Materials /\ t \notin Meshes /\ SetParameter(t, v)
  BY DEF SetImage, Handles
<1>. QED
  BY <1>1, SetParameterKeepsInv

LEMMA SetTextureKeepsInv ==
  ASSUME Inv, NEW m \in Materials, NEW t \in Textures, SetTexture(m, t)
  PROVE  Inv' /\ \A a \in DOMAIN heap' : a \in DOMAIN heap /\ heap'[a] = heap[a]
<1>1. /\ m \in Handles /\ m \notin Textures /\ m \notin Meshes /\ SetParameter(m, instance[t])
      /\ IsA(heap, instance[t], "texture")
  BY DEF SetTexture, Handles, Inv, HandlesAre
<1>. QED
  BY <1>1, SetParameterKeepsInv

LEMMA SetArrayKeepsInv ==
  ASSUME Inv, NEW s \in Meshes, NEW v \in Values \cup {Bad}, SetArray(s, v)
  PROVE  Inv' /\ \A a \in DOMAIN heap' : a \in DOMAIN heap /\ heap'[a] = heap[a]
<1>1. s \in Handles /\ s \notin Textures /\ s \notin Materials /\ SetParameter(s, v)
  BY DEF SetArray, Handles
<1>. QED
  BY <1>1, SetParameterKeepsInv

LEMMA StepKeepsInv == Inv /\ [Next]_vars => Inv'
<1>. SUFFICES ASSUME Inv, [Next]_vars PROVE Inv'
  OBVIOUS
<1>1. CASE \E t \in Textures, v \in Values : SetImage(t, v)
  BY <1>1, SetImageKeepsInv
<1>2. CASE \E m \in Materials, t \in Textures : SetTexture(m, t)
  BY <1>2, SetTextureKeepsInv
<1>3. CASE \E s \in Meshes, v \in Values \cup {Bad} : SetArray(s, v)
  BY <1>3, SetArrayKeepsInv
<1>4. CASE \E k \in Handles : Clear(k)
  BY <1>4, ClearKeepsInv
<1>5. CASE \E k \in Handles : Commit(k)
  BY <1>5, CommitKeepsInv
<1>6. CASE \E p \in Prims, s \in Meshes, m \in Materials, x \in 0 .. Turns-1 :
             NewPrimitive(p, s, m, x)
  BY <1>6, NewPrimitiveKeepsInv
<1>7. CASE \E p, q \in Prims, x \in 0 .. Turns-1 : TransformPrimitive(p, q, x)
  BY <1>7, TransformPrimitiveKeepsInv
<1>8. CASE \E p \in Prims, v \in Values : SetMask(p, v)
  BY <1>8, SetMaskKeepsInv
<1>9. CASE \E i \in 1 .. MaxSlots, p \in Prims : SetPrimitive(i, p)
  BY <1>9, SetPrimitiveKeepsInv
<1>10. CASE SetNullPrimitive
  <2>1. UNCHANGED <<heap, parms, modified, instance, prims, slots, scene>>
    BY <1>10 DEF SetNullPrimitive
  <2>. QED
    BY <2>1, OtherKeepsInv DEF Inv, Types
<1>11. CASE CommitScene
  BY <1>11, CommitSceneKeepsInv
<1>12. CASE UNCHANGED vars
  <2>1. UNCHANGED <<heap, parms, modified, instance, prims, slots, scene>>
    BY <1>12 DEF vars
  <2>. QED
    BY <2>1, OtherKeepsInv DEF Inv, Types
<1>. QED
  BY <1>1, <1>2, <1>3, <1>4, <1>5, <1>6, <1>7, <1>8, <1>9, <1>10, <1>11, <1>12 DEF Next

(* Whatever the application sets, clears, commits and replaces, the        *)
(* handles and objects refer to live objects of the right kind, every      *)
(* object is one that is in use, and a handle that is not modified has an  *)
(* object made from its parameter.                                         *)
THEOREM Invariance == Spec => []Inv
<1>. QED
  BY InitInv, StepKeepsInv, PTL DEF Spec

(* A commit that returns early because nothing was set since the last one  *)
(* would have made the object the handle already has: the flag is never    *)
(* lost, and the object is neither collected nor overwritten.              *)
THEOREM EarlyCommitIsRight == Spec => []UnmodifiedIsCurrent
<1>1. Inv => UnmodifiedIsCurrent
  <2>. SUFFICES ASSUME Inv PROVE UnmodifiedIsCurrent
    OBVIOUS
  <2>1. TypeOK
    <3>1. PICK h : h = heap /\ Sound(h) /\ HandlesAre(h)
      BY DEF Inv
    <3>2. \A a \in DOMAIN h :
            CASE h[a].kind = "material" -> IsA(h, h[a].texture, "texture")
              [] h[a].kind = "primitive" ->
                   IsA(h, h[a].shape, "mesh") /\ IsA(h, h[a].material, "material")
              [] h[a].kind = "scene" ->
                   \A j \in DOMAIN h[a].geometry : IsA(h, h[a].geometry[j], "primitive")
              [] OTHER -> TRUE
      BY <3>1 DEF Sound
    <3>. QED
      BY <3>1, <3>2 DEF TypeOK, IsA, HandlesAre, Inv
  <2>. QED
    BY <2>1 DEF Inv, InstancesAreCurrent, UnmodifiedIsCurrent
<1>. QED
  BY <1>1, Invariance, PTL

-----------------------------------------------------------------------------
(* The device implements SceneApi: every call is a step of the abstract    *)
(* device, on what the addresses stand for in the heap before and after.   *)

TextureIn(h, a) == IF a = None THEN None ELSE <<h[a].image>>
MaterialIn(h, a) == IF a = None THEN None ELSE <<TextureIn(h, h[a].texture)>>
MeshIn(h, a) == IF a = None THEN None ELSE <<h[a].positions>>
ShapeIn(h, a) == IF a = None THEN None ELSE <<h[a].positions, h[a].place>>
PrimitiveIn(h, a) ==
  IF a = None THEN None
  ELSE [shape |-> ShapeIn(h, h[a].shape), material |-> MaterialIn(h, h[a].material),
        mask |-> h[a].mask]
SceneIn(h, a) ==
  IF a = None THEN None
  ELSE [i \in DOMAIN h[a].geometry |-> PrimitiveIn(h, h[a].geometry[i])]

\* An address that is in use before and after a call stands for the same.
LEMMA ValuesKept ==
  ASSUME NEW h, NEW g, Sound(h), Sound(g), \A b \in DOMAIN h \cap DOMAIN g : g[b] = h[b]
  PROVE  /\ \A a : IsA(h, a, "texture") /\ IsA(g, a, "texture") => TextureIn(g, a) = TextureIn(h, a)
         /\ \A a : IsA(h, a, "material") /\ IsA(g, a, "material") => MaterialIn(g, a) = MaterialIn(h, a)
         /\ \A a : IsA(h, a, "mesh") /\ IsA(g, a, "mesh") =>
              MeshIn(g, a) = MeshIn(h, a) /\ ShapeIn(g, a) = ShapeIn(h, a)
         /\ \A a : IsA(h, a, "primitive") /\ IsA(g, a, "primitive") => PrimitiveIn(g, a) = PrimitiveIn(h, a)
         /\ \A a : IsA(h, a, "scene") /\ IsA(g, a, "scene") => SceneIn(g, a) = SceneIn(h, a)
<1>1. ASSUME NEW a, IsA(h, a, "texture"), IsA(g, a, "texture") PROVE TextureIn(g, a) = TextureIn(h, a)
  BY <1>1 DEF IsA, TextureIn
<1>2. ASSUME NEW a, IsA(h, a, "material"), IsA(g, a, "material")
      PROVE  MaterialIn(g, a) = MaterialIn(h, a)
  <2>1. CASE a = None
    BY <2>1 DEF MaterialIn
  <2>2. CASE a # None
    <3>1. a \in DOMAIN h /\ a \in DOMAIN g /\ g[a] = h[a] /\ h[a].kind = "material"
      BY <1>2, <2>2 DEF IsA
    <3>2. IsA(h, h[a].texture, "texture") /\ IsA(g, h[a].texture, "texture")
      BY <3>1 DEF Sound
    <3>3. TextureIn(g, h[a].texture) = TextureIn(h, h[a].texture)
      BY <1>1, <3>2
    <3>. QED
      BY <3>1, <3>3 DEF MaterialIn
  <2>. QED
    BY <2>1, <2>2
<1>3. ASSUME NEW a, IsA(h, a, "mesh"), IsA(g, a, "mesh")
      PROVE  MeshIn(g, a) = MeshIn(h, a) /\ ShapeIn(g, a) = ShapeIn(h, a)
  BY <1>3 DEF IsA, MeshIn, ShapeIn
<1>4. ASSUME NEW a, IsA(h, a, "primitive"), IsA(g, a, "primitive")
      PROVE  PrimitiveIn(g, a) = PrimitiveIn(h, a)
  <2>1. CASE a = None
    BY <2>1 DEF PrimitiveIn
  <2>2. CASE a # None
    <3>1. a \in DOMAIN h /\ a \in DOMAIN g /\ g[a] = h[a] /\ h[a].kind = "primitive"
      BY <1>4, <2>2 DEF IsA
    <3>2. /\ IsA(h, h[a].shape, "mesh") /\ IsA(g, h[a].shape, "mesh")
          /\ IsA(h, h[a].material, "material") /\ IsA(g, h[a].material, "material")
      BY <3>1 DEF Sound
    <3>3. /\ ShapeIn(g, h[a].shape) = ShapeIn(h, h[a].shape)
          /\ MaterialIn(g, h[a].material) = MaterialIn(h, h[a].material)
      BY <1>2, <1>3, <3>2
    <3>. QED
      BY <3>1, <3>3 DEF PrimitiveIn
  <2>. QED
    BY <2>1, <2>2
<1>5. ASSUME NEW a, IsA(h, a, "scene"), IsA(g, a, "scene") PROVE SceneIn(g, a) = SceneIn(h, a)
  <2>1. CASE a = None
    BY <2>1 DEF SceneIn
  <2>2. CASE a # None
    <3>1. a \in DOMAIN h /\ a \in DOMAIN g /\ g[a] = h[a] /\ h[a].kind = "scene"
      BY <1>5, <2>2 DEF IsA
    <3>2. \A i \in DOMAIN h[a].geometry :
            IsA(h, h[a].geometry[i], "primitive") /\ IsA(g, h[a].geometry[i], "primitive")
      BY <3>1 DEF Sound
    <3>3. \A i \in DOMAIN h[a].geometry :
            PrimitiveIn(g, h[a].geometry[i]) = PrimitiveIn(h, h[a].geometry[i])
      BY <1>4, <3>2
    <3>. QED
      BY <2>2, <3>1, <3>3 DEF SceneIn
  <2>. QED
    BY <2>1, <2>2
<1>. QED
  BY <1>1, <1>2, <1>3, <1>4, <1>5

\* A handle, slot or scene that is left alone shows what it did.
LEMMA HeldIsKept ==
  ASSUME Inv, Inv', \A b \in DOMAIN heap \cap DOMAIN heap' : heap'[b] = heap[b]
  PROVE  /\ \A t \in Textures : instance'[t] = instance[t] =>
              TextureIn(heap', instance'[t]) = TextureIn(heap, instance[t])
         /\ \A m \in Materials : instance'[m] = instance[m] =>
              MaterialIn(heap', instance'[m]) = MaterialIn(heap, instance[m])
         /\ \A m \in Materials : parms'[m] = parms[m] =>
              TextureIn(heap', parms'[m]) = TextureIn(heap, parms[m])
         /\ \A s \in Meshes : instance'[s] = instance[s] =>
              MeshIn(heap', instance'[s]) = MeshIn(heap, instance[s])
         /\ \A i \in DOMAIN slots' : i \in DOMAIN slots /\ slots'[i] = slots[i] =>
              PrimitiveIn(heap', slots'[i]) = PrimitiveIn(heap, slots[i])
         /\ scene' = scene => SceneIn(heap', scene') = SceneIn(heap, scene)
<1>1. PICK h : h = heap
  OBVIOUS
<1>2. PICK g : g = heap'
  OBVIOUS
<1>3. Sound(h) /\ Sound(g) /\ \A b \in DOMAIN h \cap DOMAIN g : g[b] = h[b]
  BY <1>1, <1>2 DEF Inv
<1>4. /\ \A a : IsA(h, a, "texture") /\ IsA(g, a, "texture") => TextureIn(g, a) = TextureIn(h, a)
      /\ \A a : IsA(h, a, "material") /\ IsA(g, a, "material") => MaterialIn(g, a) = MaterialIn(h, a)
      /\ \A a : IsA(h, a, "mesh") /\ IsA(g, a, "mesh") => MeshIn(g, a) = MeshIn(h, a)
      /\ \A a : IsA(h, a, "primitive") /\ IsA(g, a, "primitive") => PrimitiveIn(g, a) = PrimitiveIn(h, a)
      /\ \A a : IsA(h, a, "scene") /\ IsA(g, a, "scene") => SceneIn(g, a) = SceneIn(h, a)
  BY <1>3, ValuesKept
<1>5. /\ \A t \in Textures : IsA(h, instance[t], "texture") /\ IsA(g, instance'[t], "texture")
      /\ \A m \in Materials : IsA(h, instance[m], "material") /\ IsA(g, instance'[m], "material")
      /\ \A m \in Materials : IsA(h, parms[m], "texture") /\ IsA(g, parms'[m], "texture")
      /\ \A s \in Meshes : IsA(h, instance[s], "mesh") /\ IsA(g, instance'[s], "mesh")
      /\ \A i \in DOMAIN slots : IsA(h, slots[i], "primitive")
      /\ \A i \in DOMAIN slots' : IsA(g, slots'[i], "primitive")
      /\ IsA(h, scene, "scene") /\ IsA(g, scene', "scene")
  BY <1>1, <1>2 DEF Inv, HandlesAre
<1>. QED
  BY <1>1, <1>2, <1>4, <1>5

\* What SceneApi sees.
ApiImage == [t \in Textures |-> parms[t]]
ApiTexture == [t \in Textures |-> TextureValue(instance[t])]
ApiColour == [m \in Materials |-> TextureValue(parms[m])]
ApiMaterial == [m \in Materials |-> MaterialValue(instance[m])]
ApiPositions == [s \in Meshes |-> parms[s]]
ApiMesh == [s \in Meshes |-> MeshValue(instance[s])]
ApiSlots == PrimitiveValues(slots)
ApiShown == IF scene = None THEN None ELSE PrimitiveValues(heap[scene].geometry)

LEMMA ApiIn ==
  /\ ApiTexture = [t \in Textures |-> TextureIn(heap, instance[t])]
  /\ ApiColour = [m \in Materials |-> TextureIn(heap, parms[m])]
  /\ ApiMaterial = [m \in Materials |-> MaterialIn(heap, instance[m])]
  /\ ApiMesh = [s \in Meshes |-> MeshIn(heap, instance[s])]
  /\ ApiSlots = [i \in DOMAIN slots |-> PrimitiveIn(heap, slots[i])]
  /\ ApiShown = SceneIn(heap, scene)
  /\ ApiTexture' = [t \in Textures |-> TextureIn(heap', instance'[t])]
  /\ ApiColour' = [m \in Materials |-> TextureIn(heap', parms'[m])]
  /\ ApiMaterial' = [m \in Materials |-> MaterialIn(heap', instance'[m])]
  /\ ApiMesh' = [s \in Meshes |-> MeshIn(heap', instance'[s])]
  /\ ApiSlots' = [i \in DOMAIN slots' |-> PrimitiveIn(heap', slots'[i])]
  /\ ApiShown' = SceneIn(heap', scene')
BY DEF ApiTexture, ApiColour, ApiMaterial, ApiMesh, ApiSlots, ApiShown, PrimitiveValues,
       TextureValue, MaterialValue, MeshValue, ShapeValue, PrimitiveValue,
       TextureIn, MaterialIn, MeshIn, ShapeIn, PrimitiveIn, SceneIn

\* What a step leaves alone, as SceneApi sees it.
LEMMA ApiUnchanged ==
  ASSUME Inv, Inv', \A b \in DOMAIN heap \cap DOMAIN heap' : heap'[b] = heap[b]
  PROVE  /\ (\A t \in Textures : instance'[t] = instance[t]) => ApiTexture' = ApiTexture
         /\ (\A m \in Materials : instance'[m] = instance[m]) => ApiMaterial' = ApiMaterial
         /\ (\A m \in Materials : parms'[m] = parms[m]) => ApiColour' = ApiColour
         /\ (\A s \in Meshes : instance'[s] = instance[s]) => ApiMesh' = ApiMesh
         /\ (\A t \in Textures : parms'[t] = parms[t]) => ApiImage' = ApiImage
         /\ (\A s \in Meshes : parms'[s] = parms[s]) => ApiPositions' = ApiPositions
         /\ slots' = slots => ApiSlots' = ApiSlots
         /\ scene' = scene => ApiShown' = ApiShown
<1>1. (\A t \in Textures : instance'[t] = instance[t]) => ApiTexture' = ApiTexture
  BY HeldIsKept, ApiIn
<1>2. (\A m \in Materials : instance'[m] = instance[m]) => ApiMaterial' = ApiMaterial
  BY HeldIsKept, ApiIn
<1>3. (\A m \in Materials : parms'[m] = parms[m]) => ApiColour' = ApiColour
  BY HeldIsKept, ApiIn
<1>4. (\A s \in Meshes : instance'[s] = instance[s]) => ApiMesh' = ApiMesh
  BY HeldIsKept, ApiIn
<1>5. (\A t \in Textures : parms'[t] = parms[t]) => ApiImage' = ApiImage
  BY DEF ApiImage
<1>6. (\A s \in Meshes : parms'[s] = parms[s]) => ApiPositions' = ApiPositions
  BY DEF ApiPositions
<1>7. slots' = slots => ApiSlots' = ApiSlots
  BY HeldIsKept, ApiIn
<1>8. scene' = scene => ApiShown' = ApiShown
  BY HeldIsKept, ApiIn
<1>. QED
  BY <1>1, <1>2, <1>3, <1>4, <1>5, <1>6, <1>7, <1>8

LEMMA InitIsApiInit == Init => Api!Init
<1>. SUFFICES ASSUME Init PROVE Api!Init
  OBVIOUS
<1>1. /\ \A k \in Handles : parms[k] = None /\ instance[k] = None
      /\ DOMAIN slots = {} /\ slots = <<>> /\ scene = None /\ prims = [p \in Prims |-> None]
  BY DEF Init
<1>2. ApiImage = [t \in Textures |-> None] /\ ApiPositions = [s \in Meshes |-> None]
  BY <1>1 DEF ApiImage, ApiPositions, Handles
<1>3. /\ ApiTexture = [t \in Textures |-> None] /\ ApiColour = [m \in Materials |-> None]
      /\ ApiMaterial = [m \in Materials |-> None] /\ ApiMesh = [s \in Meshes |-> None]
  BY <1>1 DEF ApiTexture, ApiColour, ApiMaterial, ApiMesh, TextureValue, MaterialValue, MeshValue,
              Handles
<1>4. ApiSlots = <<>> /\ ApiShown = None
  BY <1>1 DEF ApiSlots, ApiShown, PrimitiveValues
<1>. QED
  BY <1>1, <1>2, <1>3, <1>4
  DEF Api!Init, ApiImage, ApiTexture, ApiColour, ApiMaterial, ApiPositions, ApiMesh, ApiSlots,
      ApiShown

LEMMA SetImageIsApi ==
  ASSUME Inv, NEW t \in Textures, NEW v \in Values, SetImage(t, v)
  PROVE  Api!SetImage(t, v)
<1>1. /\ Inv' /\ \A b \in DOMAIN heap \cap DOMAIN heap' : heap'[b] = heap[b]
  BY SetImageKeepsInv
<1>2. /\ UNCHANGED <<instance, prims, slots, scene>> /\ parms' = [parms EXCEPT ![t] = v]
      /\ parms \in [Handles -> Values \cup {Bad, None} \cup Addresses]
  BY DEF SetImage, SetParameter, Set, Inv, Types
<1>3. /\ parms'[t] = v /\ \A u \in Textures \ {t} : parms'[u] = parms[u]
      /\ \A j \in Materials \cup Meshes : parms'[j] = parms[j]
  BY <1>2 DEF Handles
<1>4. ApiImage' = [ApiImage EXCEPT ![t] = v]
  BY <1>3 DEF ApiImage
<1>5. UNCHANGED <<ApiTexture, ApiColour, ApiMaterial, ApiPositions, ApiMesh, prims, ApiSlots, ApiShown>>
  BY <1>1, <1>2, <1>3, ApiUnchanged
<1>. QED
  BY <1>4, <1>5
  DEF Api!SetImage, ApiImage, ApiTexture, ApiColour, ApiMaterial, ApiPositions, ApiMesh, ApiSlots,
      ApiShown

LEMMA SetTextureIsApi ==
  ASSUME Inv, NEW m \in Materials, NEW t \in Textures, SetTexture(m, t)
  PROVE  Api!SetTexture(m, t)
<1>1. /\ Inv' /\ \A b \in DOMAIN heap \cap DOMAIN heap' : heap'[b] = heap[b]
  BY SetTextureKeepsInv
<1>2. /\ UNCHANGED <<instance, prims, slots, scene>>
      /\ parms' = [parms EXCEPT ![m] = instance[t]]
      /\ parms \in [Handles -> Values \cup {Bad, None} \cup Addresses]
  BY DEF SetTexture, SetParameter, Set, Inv, Types
<1>3. /\ parms'[m] = instance[t] /\ \A u \in Materials \ {m} : parms'[u] = parms[u]
      /\ \A j \in Textures \cup Meshes : parms'[j] = parms[j]
  BY <1>2 DEF Handles
<1>4. UNCHANGED <<ApiImage, ApiTexture, ApiMaterial, ApiPositions, ApiMesh, prims, ApiSlots, ApiShown>>
  BY <1>1, <1>2, <1>3, ApiUnchanged
<1>5. TextureIn(heap', parms'[m]) = ApiTexture[t]
  <2>1. TextureIn(heap', instance'[t]) = TextureIn(heap, instance[t])
    BY <1>1, <1>2, HeldIsKept
  <2>. QED
    BY <1>2, <1>3, <2>1, ApiIn
<1>6. \A u \in Materials \ {m} : TextureIn(heap', parms'[u]) = TextureIn(heap, parms[u])
  BY <1>1, <1>3, HeldIsKept
<1>7. ApiColour' = [ApiColour EXCEPT ![m] = ApiTexture[t]]
  BY <1>5, <1>6, ApiIn
<1>. QED
  BY <1>4, <1>7
  DEF Api!SetTexture, ApiImage, ApiTexture, ApiColour, ApiMaterial, ApiPositions, ApiMesh, ApiSlots,
      ApiShown

LEMMA SetArrayIsApi ==
  ASSUME Inv, NEW s \in Meshes, NEW v \in Values \cup {Bad}, SetArray(s, v)
  PROVE  Api!SetArray(s, v)
<1>1. /\ Inv' /\ \A b \in DOMAIN heap \cap DOMAIN heap' : heap'[b] = heap[b]
  BY SetArrayKeepsInv
<1>2. /\ UNCHANGED <<instance, prims, slots, scene>> /\ parms' = [parms EXCEPT ![s] = v]
      /\ parms \in [Handles -> Values \cup {Bad, None} \cup Addresses]
  BY DEF SetArray, SetParameter, Set, Inv, Types
<1>3. /\ parms'[s] = v /\ \A u \in Meshes \ {s} : parms'[u] = parms[u]
      /\ \A j \in Textures \cup Materials : parms'[j] = parms[j]
  BY <1>2 DEF Handles
<1>4. ApiPositions' = [ApiPositions EXCEPT ![s] = v]
  BY <1>3 DEF ApiPositions
<1>5. UNCHANGED <<ApiImage, ApiTexture, ApiColour, ApiMaterial, ApiMesh, prims, ApiSlots, ApiShown>>
  BY <1>1, <1>2, <1>3, ApiUnchanged
<1>. QED
  BY <1>4, <1>5
  DEF Api!SetArray, ApiImage, ApiTexture, ApiColour, ApiMaterial, ApiPositions, ApiMesh, ApiSlots,
      ApiShown

\* Nothing that SceneApi sees has changed.
LEMMA ClearIsApi ==
  ASSUME Inv, NEW k \in Meshes, Clear(k)
  PROVE  Api!ClearMesh(k)
<1>1. k \in Handles /\ Inv' /\ UNCHANGED <<heap, instance, prims, slots, scene>>
  BY ClearKeepsInv DEF Clear, Handles
<1>2. /\ parms' = [parms EXCEPT ![k] = None]
      /\ parms \in [Handles -> Values \cup {Bad, None} \cup Addresses]
  BY DEF Clear, ClearParms, Inv, Types
<1>3. /\ parms'[k] = None /\ \A u \in Meshes \ {k} : parms'[u] = parms[u]
      /\ \A j \in Textures \cup Materials : parms'[j] = parms[j]
  BY <1>2, ObjectsAssumption DEF Handles
<1>4. ApiPositions' = [ApiPositions EXCEPT ![k] = None]
  BY <1>3 DEF ApiPositions
<1>5. UNCHANGED <<ApiImage, ApiTexture, ApiColour, ApiMaterial, ApiMesh, prims, ApiSlots, ApiShown>>
  BY <1>1, <1>3, ApiUnchanged
<1>. QED
  BY <1>4, <1>5
  DEF Api!ClearMesh, Api!SetArray, ApiImage, ApiTexture, ApiColour, ApiMaterial, ApiPositions,
      ApiMesh, ApiSlots, ApiShown

LEMMA CommitIsApi ==
  ASSUME Inv, NEW k \in Handles, Commit(k)
  PROVE  \/ k \in Textures /\ Api!CommitTexture(k)
         \/ k \in Materials /\ Api!CommitMaterial(k)
         \/ k \in Meshes /\ Api!CommitMesh(k)
<1>1. /\ Inv' /\ \A b \in DOMAIN heap \cap DOMAIN heap' : heap'[b] = heap[b]
      /\ instance'[k] # None /\ heap'[instance'[k]] = Construct(k)
  BY CommitKeepsInv
<1>2. /\ UNCHANGED <<parms, prims, slots, scene>> /\ parms[k] # Bad
      /\ \A j \in Handles \ {k} : instance'[j] = instance[j]
  <2>1. instance \in [Handles -> Addresses \cup {None}] /\ \E a : instance' = [instance EXCEPT ![k] = a]
    BY DEF Commit, Assign, Inv, Types
  <2>. QED
    BY <2>1 DEF Commit
<1>3. UNCHANGED <<ApiImage, ApiColour, ApiPositions, prims, ApiSlots, ApiShown>>
  BY <1>1, <1>2, ApiUnchanged
<1>4. CASE k \in Textures
  <2>1. \A j \in Handles \ Textures : instance'[j] = instance[j]
    BY <1>2, <1>4
  <2>2. UNCHANGED <<ApiMaterial, ApiMesh>>
    BY <1>1, <2>1, ApiUnchanged DEF Handles
  <2>3. TextureIn(heap', instance'[k]) = <<ApiImage[k]>>
    BY <1>1, <1>4 DEF TextureIn, Construct, TextureObject, ApiImage
  <2>4. \A t \in Textures \ {k} : TextureIn(heap', instance'[t]) = TextureIn(heap, instance[t])
    BY <1>1, <1>2, HeldIsKept DEF Handles
  <2>5. ApiTexture' = [ApiTexture EXCEPT ![k] = <<ApiImage[k]>>]
    BY <2>3, <2>4, ApiIn
  <2>. QED
    BY <1>3, <1>4, <2>2, <2>5
    DEF Api!CommitTexture, ApiImage, ApiTexture, ApiColour, ApiMaterial, ApiPositions, ApiMesh,
        ApiSlots, ApiShown
<1>5. CASE k \in Materials
  <2>1. \A j \in Handles \ Materials : instance'[j] = instance[j]
    BY <1>2, <1>5
  <2>2. UNCHANGED <<ApiTexture, ApiMesh>>
    BY <1>1, <1>5, <2>1, ApiUnchanged DEF Handles
  <2>3. MaterialIn(heap', instance'[k]) = <<ApiColour[k]>>
    <3>1. MaterialIn(heap', instance'[k]) = <<TextureIn(heap', parms'[k])>>
      BY <1>1, <1>2, <1>5 DEF MaterialIn, Construct, MaterialObject
    <3>2. TextureIn(heap', parms'[k]) = TextureIn(heap, parms[k])
      BY <1>1, <1>2, <1>5, HeldIsKept
    <3>. QED
      BY <1>5, <3>1, <3>2, ApiIn
  <2>4. \A m \in Materials \ {k} : MaterialIn(heap', instance'[m]) = MaterialIn(heap, instance[m])
    BY <1>1, <1>2, HeldIsKept DEF Handles
  <2>5. ApiMaterial' = [ApiMaterial EXCEPT ![k] = <<ApiColour[k]>>]
    BY <2>3, <2>4, ApiIn
  <2>. QED
    BY <1>3, <1>5, <2>2, <2>5
    DEF Api!CommitMaterial, ApiImage, ApiTexture, ApiColour, ApiMaterial, ApiPositions, ApiMesh,
        ApiSlots, ApiShown
<1>6. CASE k \in Meshes
  <2>1. \A j \in Handles \ Meshes : instance'[j] = instance[j]
    BY <1>2, <1>6
  <2>2. UNCHANGED <<ApiTexture, ApiMaterial>>
    BY <1>1, <1>6, <2>1, ApiUnchanged DEF Handles
  <2>3. MeshIn(heap', instance'[k]) = <<ApiPositions[k]>> /\ ApiPositions[k] # Bad
    BY <1>1, <1>2, <1>6 DEF MeshIn, Construct, MeshObject, ApiPositions
  <2>4. \A s \in Meshes \ {k} : MeshIn(heap', instance'[s]) = MeshIn(heap, instance[s])
    BY <1>1, <1>2, HeldIsKept DEF Handles
  <2>5. ApiMesh' = [ApiMesh EXCEPT ![k] = <<ApiPositions[k]>>]
    BY <2>3, <2>4, ApiIn
  <2>. QED
    BY <1>3, <1>6, <2>2, <2>3, <2>5
    DEF Api!CommitMesh, ApiImage, ApiTexture, ApiColour, ApiMaterial, ApiPositions, ApiMesh,
        ApiSlots, ApiShown
<1>. QED
  BY <1>4, <1>5, <1>6 DEF Handles

\* The primitive handles are the same.
LEMMA PrimitiveCallIsApi ==
  ASSUME UNCHANGED <<heap, parms, modified, instance, slots, scene>>
  PROVE  UNCHANGED <<ApiImage, ApiTexture, ApiColour, ApiMaterial, ApiPositions, ApiMesh, ApiSlots,
                     ApiShown>>
BY DEF ApiImage, ApiTexture, ApiColour, ApiMaterial, ApiPositions, ApiMesh, ApiSlots, ApiShown,
       TextureValue, MaterialValue, MeshValue, ShapeValue, PrimitiveValue, PrimitiveValues

LEMMA NewPrimitiveIsApi ==
  ASSUME NEW p \in Prims, NEW s \in Meshes, NEW m \in Materials, NEW x \in 0 .. Turns-1,
         NewPrimitive(p, s, m, x)
  PROVE  Api!NewPrimitive(p, s, m, x)
BY PrimitiveCallIsApi
DEF NewPrimitive, Api!NewPrimitive, ApiImage, ApiTexture, ApiColour, ApiMaterial, ApiPositions,
    ApiMesh, ApiSlots, ApiShown

LEMMA TransformPrimitiveIsApi ==
  ASSUME NEW p \in Prims, NEW q \in Prims, NEW x \in 0 .. Turns-1, TransformPrimitive(p, q, x)
  PROVE  Api!TransformPrimitive(p, q, x)
BY PrimitiveCallIsApi
DEF TransformPrimitive, Api!TransformPrimitive, ApiImage, ApiTexture, ApiColour, ApiMaterial,
    ApiPositions, ApiMesh, ApiSlots, ApiShown

LEMMA SetMaskIsApi ==
  ASSUME NEW p \in Prims, NEW v \in Values, SetMask(p, v)
  PROVE  Api!SetMask(p, v)
BY PrimitiveCallIsApi
DEF SetMask, Api!SetMask, ApiImage, ApiTexture, ApiColour, ApiMaterial, ApiPositions, ApiMesh,
    ApiSlots, ApiShown

\* The mesh of a primitive in its place is what SceneApi calls its value.
LEMMA PlacedShape ==
  ASSUME Inv, NEW b, IsA(heap, b, "mesh"), NEW s, NEW g, NEW x,
         b = None => s = None,
         b # None => s # None /\ g[s].positions = heap[b].positions /\ g[s].place = x
  PROVE  ShapeIn(g, s) = IF MeshIn(heap, b) = None THEN None ELSE <<MeshIn(heap, b)[1], x>>
<1>1. CASE b = None
  BY <1>1 DEF ShapeIn, MeshIn
<1>2. CASE b # None
  <2>1. heap[b].positions \in Values \cup {Bad, None}
    BY <1>2 DEF IsA, Inv, Sound
  <2>2. MeshIn(heap, b) = <<heap[b].positions>> /\ MeshIn(heap, b) # None
    BY <1>2, <2>1 DEF MeshIn
  <2>. QED
    BY <1>2, <2>2 DEF ShapeIn
<1>. QED
  BY <1>1, <1>2

LEMMA SetPrimitiveIsApi ==
  ASSUME Inv, NEW i \in 1 .. MaxSlots, NEW p \in Prims, SetPrimitive(i, p)
  PROVE  Api!SetPrimitive(i, p)
<1>1. /\ Inv' /\ \A b \in DOMAIN heap \cap DOMAIN heap' : heap'[b] = heap[b]
      /\ DOMAIN slots' = 1 .. (IF i > Len(slots) THEN i ELSE Len(slots))
      /\ \A j \in DOMAIN slots' : j # i =>
           slots'[j] = IF j <= Len(slots) THEN slots[j] ELSE None
  BY SetPrimitiveKeepsInv
<1>2. UNCHANGED <<parms, instance, prims, scene>> /\ prims[p] # None
  BY DEF SetPrimitive
<1>3. UNCHANGED <<ApiImage, ApiTexture, ApiColour, ApiMaterial, ApiPositions, ApiMesh, prims, ApiShown>>
  BY <1>1, <1>2, ApiUnchanged
<1>4. PICK pr \in PrimitiveHandles : pr = prims[p]
  BY <1>2 DEF Inv, Types
<1>5. pr.shape \in Meshes /\ pr.material \in Materials
  BY DEF PrimitiveHandles
<1>6. PICK s : /\ slots'[i] # None
               /\ heap'[slots'[i]] = PrimitiveObject(s, instance[pr.material], pr.mask)
               /\ instance[pr.shape] = None => s = None
               /\ instance[pr.shape] # None =>
                    /\ s # None
                    /\ heap'[s].positions = heap[instance[pr.shape]].positions
                    /\ heap'[s].place = pr.transform
  BY <1>4, SetPrimitiveKeepsInv
<1>7. PrimitiveIn(heap', slots'[i]) =
        [shape |-> ShapeIn(heap', s), material |-> MaterialIn(heap', instance[pr.material]),
         mask |-> pr.mask]
  BY <1>6 DEF PrimitiveIn, PrimitiveObject
<1>8. MaterialIn(heap', instance[pr.material]) = ApiMaterial[pr.material]
  <2>1. MaterialIn(heap', instance'[pr.material]) = MaterialIn(heap, instance[pr.material])
    BY <1>1, <1>2, <1>5, HeldIsKept
  <2>. QED
    BY <1>2, <1>5, <2>1, ApiIn
<1>9. ShapeIn(heap', s) =
        IF ApiMesh[pr.shape] = None THEN None ELSE <<ApiMesh[pr.shape][1], pr.transform>>
  <2>1. IsA(heap, instance[pr.shape], "mesh")
    BY <1>5 DEF Inv, HandlesAre
  <2>2. PICK g : g = heap'
    OBVIOUS
  <2>3. ShapeIn(g, s) = IF MeshIn(heap, instance[pr.shape]) = None THEN None
                        ELSE <<MeshIn(heap, instance[pr.shape])[1], pr.transform>>
    BY <1>6, <2>1, <2>2, PlacedShape
  <2>. QED
    BY <1>5, <2>2, <2>3, ApiIn
<1>10. PrimitiveIn(heap', slots'[i]) = Api!Placed(pr)
  BY <1>7, <1>8, <1>9 DEF Api!Placed, ApiMesh, ApiMaterial
<1>11. /\ Len(slots) \in Nat /\ DOMAIN slots = 1 .. Len(slots)
       /\ DOMAIN ApiSlots = DOMAIN slots /\ Len(ApiSlots) = Len(slots)
  <2>1. Len(slots) \in Nat /\ DOMAIN slots = 1 .. Len(slots)
    BY DEF Inv, Types
  <2>2. ApiSlots = [j \in DOMAIN slots |-> PrimitiveIn(heap, slots[j])]
    BY ApiIn
  <2>3. PICK n \in Nat : n = Len(slots)
    BY <2>1
  <2>4. PICK shows : shows = ApiSlots
    OBVIOUS
  <2>5. PICK S : S = {PrimitiveIn(heap, slots[j]) : j \in 1 .. n}
    OBVIOUS
  <2>6. shows \in Seq(S) /\ DOMAIN shows = 1 .. n
    <3>1. shows = [j \in 1 .. n |-> PrimitiveIn(heap, slots[j])]
      BY <2>1, <2>2, <2>3, <2>4
    <3>2. shows \in [1 .. n -> S]
      BY <2>5, <3>1
    <3>. QED
      BY <3>2
  <2>7. Len(shows) = n
    BY <2>6
  <2>. QED
    BY <2>1, <2>2, <2>3, <2>4, <2>7
<1>12. \A j \in DOMAIN slots' : j # i =>
         PrimitiveIn(heap', slots'[j]) = IF j <= Len(slots) THEN ApiSlots[j] ELSE None
  <2>1. ASSUME NEW j \in DOMAIN slots', j # i, j <= Len(slots)
        PROVE  PrimitiveIn(heap', slots'[j]) = ApiSlots[j]
    <3>1. j \in DOMAIN slots /\ slots'[j] = slots[j]
      BY <1>1, <1>11, <2>1
    <3>2. PrimitiveIn(heap', slots'[j]) = PrimitiveIn(heap, slots[j])
      BY <1>1, <2>1, <3>1, HeldIsKept
    <3>. QED
      BY <3>1, <3>2, ApiIn
  <2>2. ASSUME NEW j \in DOMAIN slots', j # i, ~(j <= Len(slots))
        PROVE  PrimitiveIn(heap', slots'[j]) = None
    BY <1>1, <2>2 DEF PrimitiveIn
  <2>. QED
    BY <2>1, <2>2
<1>13. ApiSlots' = [j \in 1 .. (IF i > Len(ApiSlots) THEN i ELSE Len(ApiSlots)) |->
                      IF j = i THEN Api!Placed(pr)
                      ELSE IF j <= Len(ApiSlots) THEN ApiSlots[j] ELSE None]
  <2>1. ApiSlots' = [j \in DOMAIN slots' |-> PrimitiveIn(heap', slots'[j])]
    BY ApiIn
  <2>2. \A j \in DOMAIN slots' : PrimitiveIn(heap', slots'[j]) =
          IF j = i THEN Api!Placed(pr) ELSE IF j <= Len(ApiSlots) THEN ApiSlots[j] ELSE None
    BY <1>10, <1>11, <1>12
  <2>3. DOMAIN slots' = 1 .. (IF i > Len(ApiSlots) THEN i ELSE Len(ApiSlots))
    BY <1>1, <1>11
  <2>. QED
    BY <2>1, <2>2, <2>3, Zenon
<1>. QED
  BY <1>2, <1>3, <1>4, <1>13
  DEF Api!SetPrimitive, Api!WithSlot, ApiImage, ApiTexture, ApiColour, ApiMaterial, ApiPositions, ApiMesh, ApiSlots,
      ApiShown

LEMMA CommitSceneIsApi ==
  ASSUME Inv, CommitScene
  PROVE  Api!CommitScene
<1>1. /\ Inv' /\ \A b \in DOMAIN heap \cap DOMAIN heap' : heap'[b] = heap[b]
      /\ scene' # None /\ heap'[scene'] = SceneObject(slots)
      /\ UNCHANGED <<parms, instance, prims, slots>>
  BY CommitSceneKeepsInv DEF CommitScene
<1>2. UNCHANGED <<ApiImage, ApiTexture, ApiColour, ApiMaterial, ApiPositions, ApiMesh, prims, ApiSlots>>
  BY <1>1, ApiUnchanged
<1>3. SceneIn(heap', scene') = [i \in DOMAIN slots |-> PrimitiveIn(heap', slots[i])]
  BY <1>1 DEF SceneIn, SceneObject
<1>4. ApiShown' = ApiSlots
  <2>1. ApiSlots' = [i \in DOMAIN slots |-> PrimitiveIn(heap', slots[i])]
    BY <1>1, ApiIn
  <2>2. ApiShown' = SceneIn(heap', scene')
    BY ApiIn
  <2>. QED
    BY <1>2, <1>3, <2>1, <2>2
<1>. QED
  BY <1>2, <1>4
  DEF Api!CommitScene, ApiImage, ApiTexture, ApiColour, ApiMaterial, ApiPositions, ApiMesh, ApiSlots,
      ApiShown

\* Every step is a call that is left out, or does what SceneApi says of it.
CallAsPromised ==
  \/ LeftOut
  \/ \E t \in Textures, v \in Values : SetImage(t, v) /\ Api!SetImage(t, v)
  \/ \E m \in Materials, t \in Textures : SetTexture(m, t) /\ Api!SetTexture(m, t)
  \/ \E s \in Meshes, v \in Values \cup {Bad} : SetArray(s, v) /\ Api!SetArray(s, v)
  \/ \E s \in Meshes : Clear(s) /\ Api!ClearMesh(s)
  \/ \E k \in Handles : Commit(k) /\ CommitAsPromised(k)
  \/ \E p \in Prims, s \in Meshes, m \in Materials, x \in 0 .. Turns-1 :
       NewPrimitive(p, s, m, x) /\ Api!NewPrimitive(p, s, m, x)
  \/ \E p, q \in Prims, x \in 0 .. Turns-1 :
       TransformPrimitive(p, q, x) /\ Api!TransformPrimitive(p, q, x)
  \/ \E p \in Prims, v \in Values : SetMask(p, v) /\ Api!SetMask(p, v)
  \/ \E i \in 1 .. MaxSlots, p \in Prims : SetPrimitive(i, p) /\ Api!SetPrimitive(i, p)
  \/ CommitScene /\ Api!CommitScene

LEMMA StepIsApiStep == Inv /\ [Next]_vars => [CallAsPromised]_vars
<1>. SUFFICES ASSUME Inv, [Next]_vars PROVE CallAsPromised \/ UNCHANGED vars
  OBVIOUS
<1>1. CASE \E t \in Textures, v \in Values : SetImage(t, v)
  BY <1>1, SetImageIsApi DEF CallAsPromised
<1>2. CASE \E m \in Materials, t \in Textures : SetTexture(m, t)
  BY <1>2, SetTextureIsApi DEF CallAsPromised
<1>3. CASE \E s \in Meshes, v \in Values \cup {Bad} : SetArray(s, v)
  BY <1>3, SetArrayIsApi DEF CallAsPromised
<1>4. CASE \E k \in Handles : Clear(k)
  <2>1. PICK k \in Handles : Clear(k)
    BY <1>4
  <2>2. CASE k \in Meshes
    BY <2>1, <2>2, ClearIsApi DEF CallAsPromised
  <2>3. CASE k \in Textures \cup Materials
    BY <2>1, <2>3 DEF CallAsPromised, LeftOut
  <2>. QED
    BY <2>2, <2>3 DEF Handles
<1>5. CASE \E k \in Handles : Commit(k)
  BY <1>5, CommitIsApi DEF CallAsPromised, CommitAsPromised
<1>6. CASE \E p \in Prims, s \in Meshes, m \in Materials, x \in 0 .. Turns-1 :
             NewPrimitive(p, s, m, x)
  BY <1>6, NewPrimitiveIsApi DEF CallAsPromised
<1>7. CASE \E p, q \in Prims, x \in 0 .. Turns-1 : TransformPrimitive(p, q, x)
  BY <1>7, TransformPrimitiveIsApi DEF CallAsPromised
<1>8. CASE \E p \in Prims, v \in Values : SetMask(p, v)
  BY <1>8, SetMaskIsApi DEF CallAsPromised
<1>9. CASE \E i \in 1 .. MaxSlots, p \in Prims : SetPrimitive(i, p)
  BY <1>9, SetPrimitiveIsApi DEF CallAsPromised
<1>10. CASE SetNullPrimitive
  BY <1>10 DEF CallAsPromised, LeftOut
<1>11. CASE CommitScene
  BY <1>11, CommitSceneIsApi DEF CallAsPromised
<1>. QED
  BY <1>1, <1>2, <1>3, <1>4, <1>5, <1>6, <1>7, <1>8, <1>9, <1>10, <1>11 DEF Next

(* The device implements SceneApi: for any handles, whatever is set,       *)
(* cleared and committed in whatever order, every call but deletion by     *)
(* NULL and the clear of a texture or a material does what SceneApi says   *)
(* of it, so that a frame shows for every slot the values that were        *)
(* committed when the slot was set, as of the last commit of the scene;    *)
(* collecting and reusing memory is never seen.                            *)
THEOREM DeviceImplementsApi == Spec => ImplementsApi
<1>1. Init /\ [][CallAsPromised]_vars => ImplementsApi
  BY InitIsApiInit DEF CallAsPromised, ImplementsApi
<1>. QED
  BY <1>1, StepIsApiStep, Invariance, PTL DEF Spec
=============================================================================
