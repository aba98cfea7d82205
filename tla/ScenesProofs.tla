---------------------------- MODULE ScenesProofs ----------------------------
(***************************************************************************)
(* In the scenes of both devices, hits lead to the right primitive and the *)
(* lights of all primitives are collected, for any number of slots and of  *)
(* geometries.                                                             *)
(***************************************************************************)
EXTENDS MCScenes, FiniteSetTheorems, TLAPS

(***************************************************************************)
(* The scene of the single-ray device.  While the geometries are extracted *)
(* there are at most as many as slots seen, and the table has the slot of  *)
(* each; nothing changes either of them later.                             *)
(***************************************************************************)
FlatTypes ==
  /\ prims \in Seq(Primitives \cup {None})
  /\ i \in 0 .. Len(prims)
  /\ geometries \in Seq(Int)
  /\ id0_to_geomID \in [Slots -> Int \cup {None}]

TableIsRight ==
  \A k \in 1 .. Len(geometries) : id0_to_geomID[k - 1] = geometries[k]

\* No shape is left out.
ShapesAreExtracted ==
  \A s \in Slots : (pc = "extract" => s < i) /\ HasShape(s) =>
    \E k \in 1 .. Len(geometries) : geometries[k] = s

\* As long as no slot before the last shape lacks one, kernel and slots number
\* the geometries alike, and the filters are those of the right geometries.
Dense == \A s \in 0 .. Len(geometries)-1 : HasShape(s)

DenseIsRight ==
  Dense => /\ \A k \in 1 .. Len(geometries) : geometries[k] = k - 1
           /\ filters = Transparent

FlatInv ==
  /\ FlatTypes
  /\ Len(geometries) <= Len(prims)
  /\ pc = "extract" => Len(geometries) <= i
  /\ TableIsRight
  /\ ShapesAreExtracted
  /\ DenseIsRight

LEMMA FlatInit == Init => FlatInv
<1>. SUFFICES ASSUME Init PROVE FlatInv
  OBVIOUS
<1>1. prims \in Seq(Primitives \cup {None})
  BY SceneFlatAssumption DEF Init, BoundedSeq, SeqOf
<1>2. FlatTypes
  BY <1>1 DEF Init, FlatTypes, Slots
<1>3. ShapesAreExtracted /\ DenseIsRight
  BY <1>1 DEF Init, ShapesAreExtracted, DenseIsRight, Transparent, Slots
<1>. QED
  BY <1>1, <1>2, <1>3 DEF Init, FlatInv, TableIsRight

\* In a dense scene the next shape is that of the next slot.
LEMMA ExtractKeepsDense == FlatInv /\ Extract => DenseIsRight'
<1>. SUFFICES ASSUME FlatInv, Extract, Dense'
     PROVE  /\ \A k \in 1 .. Len(geometries') : geometries'[k] = k - 1
            /\ filters' = Transparent'
  BY DEF DenseIsRight
<1>. DEFINE n == Len(geometries)
<1>0. geometries \in Seq(Int) /\ i \in Int /\ n \in Nat /\ n <= i /\ i < Len(prims)
  BY DEF FlatInv, FlatTypes, Extract
<1>1. /\ Len(geometries') = n + 1 /\ geometries'[n + 1] = i
      /\ \A k \in 1 .. n : geometries'[k] = geometries[k]
  BY <1>0 DEF Extract
<1>2. \A s \in 0 .. n : HasShape(s)
  BY <1>0, <1>1 DEF Dense, Extract, HasShape, Prim
<1>3. (\A k \in 1 .. n : geometries[k] = k - 1) /\ filters = Transparent
  BY <1>0, <1>2 DEF FlatInv, DenseIsRight, Dense
<1>4. i = n
  <2>1. ASSUME n < i PROVE FALSE
    <3>1. n \in Slots /\ HasShape(n)
      BY <1>0, <1>2 DEF Slots, FlatInv, FlatTypes
    <3>2. PICK k \in 1 .. n : geometries[k] = n
      BY <2>1, <3>1 DEF FlatInv, ShapesAreExtracted
    <3>. QED
      BY <1>0, <1>3, <3>2
  <2>. QED
    BY <1>0, <2>1
<1>5. \A k \in 1 .. n + 1 : geometries'[k] = k - 1
  BY <1>0, <1>1, <1>3, <1>4
<1>6. filters' = IF Prim(n).transparent THEN filters \cup {n} ELSE filters
  BY <1>0, <1>4 DEF Extract, SetOcclusionFilterFunction
<1>7. filters = {id0 \in 0 .. n-1 : Prim(id0).transparent}
  <2>1. \A id0 \in 0 .. n-1 : geometries[id0 + 1] = id0
    BY <1>0, <1>3
  <2>. QED
    BY <1>3, <2>1 DEF Transparent
<1>8. Transparent' = {id0 \in 0 .. n : Prim(id0).transparent}
  <2>1. \A id0 \in 0 .. n : geometries'[id0 + 1] = id0
    BY <1>0, <1>5
  <2>2. Len(geometries') - 1 = n
    BY <1>0, <1>1
  <2>3. prims' = prims
    BY DEF Extract
  <2>. QED
    BY <2>1, <2>2, <2>3 DEF Transparent, Prim
<1>. QED
  BY <1>0, <1>1, <1>5, <1>6, <1>7, <1>8

LEMMA FlatStep == FlatInv /\ [Next]_vars => FlatInv'
<1>. SUFFICES ASSUME FlatInv, [Next]_vars PROVE FlatInv'
  OBVIOUS
<1>. USE DEF FlatInv, FlatTypes, TableIsRight, Slots
<1>1. CASE Extract
  <2>1. /\ Len(geometries) \in Slots
        /\ i \in Int
        /\ geometries' = Append(geometries, i)
        /\ id0_to_geomID' = [id0_to_geomID EXCEPT ![Len(geometries)] = i]
        /\ i' = i + 1 /\ i < Len(prims)
        /\ UNCHANGED <<prims, pc>>
    BY <1>1 DEF Extract, TableEntry, ExtractedID
  <2>2. /\ geometries' \in Seq(Int)
        /\ Len(geometries') = Len(geometries) + 1
        /\ geometries'[Len(geometries) + 1] = i
        /\ \A k \in 1 .. Len(geometries) : geometries'[k] = geometries[k]
    BY <2>1
  <2>3. FlatTypes'
    BY <2>1, <2>2
  <2>4. TableIsRight'
    BY <2>1, <2>2
  <2>5. ShapesAreExtracted'
    <3>1. ASSUME NEW s \in Slots, s < i + 1, HasShape(s)
          PROVE  \E k \in 1 .. Len(geometries) + 1 : geometries'[k] = s
      <4>1. CASE s = i
        BY <2>1, <2>2, <4>1
      <4>2. CASE s < i
        <5>1. PICK k \in 1 .. Len(geometries) : geometries[k] = s
          BY <3>1, <4>2 DEF ShapesAreExtracted
        <5>. QED
          BY <2>1, <2>2, <5>1
      <4>. QED
        BY <2>1, <3>1, <4>1, <4>2
    <3>. QED
      BY <1>1, <2>1, <2>2, <3>1 DEF Extract, ShapesAreExtracted, HasShape, Prim
  <2>6. DenseIsRight'
    BY <1>1, ExtractKeepsDense
  <2>. QED
    BY <1>1, <2>1, <2>2, <2>3, <2>4, <2>5, <2>6 DEF Extract
<1>0. UNCHANGED <<prims, geometries, filters>> => DenseIsRight'
  BY DEF DenseIsRight, Dense, Transparent, HasShape, Prim
<1>2. CASE Skip
  <2>1. ShapesAreExtracted'
    BY <1>2 DEF Skip, ShapesAreExtracted, HasShape, Prim
  <2>. QED
    BY <1>0, <1>2, <2>1 DEF Skip
<1>3. CASE Commit
  <2>1. \A s \in Slots : HasShape(s) => \E k \in 1 .. Len(geometries) : geometries[k] = s
    <3>1. Len(prims) \in Nat /\ i = Len(prims)
      BY <1>3 DEF Commit
    <3>2. \A s \in Slots : s < i
      BY <3>1
    <3>. QED
      BY <3>2 DEF ShapesAreExtracted
  <2>2. ShapesAreExtracted'
    <3>1. prims' = prims /\ geometries' = geometries
      BY <1>3 DEF Commit
    <3>2. \A s \in Slots' : HasShape(s)' => \E k \in 1 .. Len(geometries') : geometries'[k] = s
      BY <2>1, <3>1 DEF HasShape, Prim
    <3>. QED
      BY <3>2 DEF ShapesAreExtracted
  <2>. QED
    BY <1>0, <1>3, <2>2 DEF Commit
<1>4. CASE AddLight
  <2>1. ShapesAreExtracted'
    BY <1>4 DEF AddLight, ShapesAreExtracted, HasShape, Prim
  <2>. QED
    BY <1>0, <1>4, <2>1 DEF AddLight
<1>5. CASE Finish
  <2>1. ShapesAreExtracted'
    BY <1>5 DEF Finish, ShapesAreExtracted, HasShape, Prim
  <2>. QED
    BY <1>0, <1>5, <2>1 DEF Finish
<1>6. CASE Done \/ UNCHANGED vars
  <2>1. ShapesAreExtracted'
    BY <1>6 DEF Done, vars, ShapesAreExtracted, HasShape, Prim
  <2>. QED
    BY <1>0, <1>6, <2>1 DEF Done, vars
<1>. QED
  BY <1>1, <1>2, <1>3, <1>4, <1>5, <1>6 DEF Next

LEMMA FlatHits == FlatInv => HitFindsPrimitive
<1>. SUFFICES ASSUME FlatInv PROVE HitFindsPrimitive
  OBVIOUS
<1>1. Len(geometries) \in Nat
  BY DEF FlatInv, FlatTypes
<1>2. ASSUME NEW id0 \in 0 .. Len(geometries)-1
      PROVE  id0_to_geomID[id0] = geometries[id0 + 1]
  <2>1. id0 + 1 \in 1 .. Len(geometries) /\ (id0 + 1) - 1 = id0
    BY <1>1, <1>2
  <2>. QED
    BY <2>1 DEF FlatInv, TableIsRight
<1>. QED
  BY <1>2 DEF HitFindsPrimitive, HitPrimitive

LEMMA FlatFilters == FlatInv => FiltersOfDenseScenes
  BY DEF FlatInv, DenseIsRight, Dense, FiltersOfDenseScenes

(***************************************************************************)
(* The scene of the ISPC device.  No entry of the tables is ever cleared   *)
(* and the kernel gives numbers again, but the entry of a geometry that    *)
(* exists is written with it, and the slot it leads to has that geometry   *)
(* until the slot is set, which deletes it.  So only the geometry of       *)
(* another slot can be deleted by mistake, and that slot is then lost.     *)
(***************************************************************************)
IspcSlots == 0 .. MaxIspcSlots-1
IspcIDs == 0 .. MaxGeometries-1
Instances ==
  [geometry : {None} \cup IspcIDs, light : {None} \cup 1 .. MaxIspcSlots + 1,
   kind : {"shape", "area", "point", "environment"}]

IspcTypes ==
  /\ instances \in [IspcSlots -> Instances \cup {None}]
  /\ kernelGeometries \subseteq IspcIDs
  /\ handle2id \in [IspcIDs -> IspcSlots \cup {None}]
  /\ id2handle \in [IspcSlots -> IspcIDs \cup {None}]
  /\ changed \subseteq IspcSlots /\ lost \subseteq IspcSlots

\* The entry of a geometry that exists leads to a slot whose entry and whose
\* instance lead back.
GeometriesAreUsed ==
  \A g \in kernelGeometries :
    LET s == handle2id[g]
    IN  s \in IspcSlots /\ instances[s] # None /\ instances[s].geometry = g /\ id2handle[s] = g

\* The shape of a slot that is not lost exists, and leads to the slot.
ShapesAreThere ==
  \A s \in IspcSlots \ lost : instances[s] # None /\ instances[s].geometry # None =>
    instances[s].geometry \in kernelGeometries /\ handle2id[instances[s].geometry] = s

IspcInv == IspcTypes /\ GeometriesAreUsed /\ ShapesAreThere

LEMMA NoneIsNothing == None \notin IspcIDs /\ None \notin IspcSlots /\ None \notin Instances
  BY SceneFlatAssumption, ScenesAssumption DEF IspcIDs, IspcSlots, Instances

LEMMA IspcInit == I!Init => IspcInv
  BY ScenesAssumption DEF I!Init, I!Slots, I!IDs, IspcInv, IspcTypes,
     GeometriesAreUsed, ShapesAreThere, IspcSlots, IspcIDs

\* The geometry of a slot that is set is deleted, and with it no other one but
\* that of a slot which is then lost.
LEMMA RemovedIsOwn ==
  ASSUME IspcInv, NEW s \in IspcSlots
  PROVE  /\ I!Removed(s) \subseteq kernelGeometries
         /\ \A g \in I!Removed(s) : handle2id[g] # s
         /\ \A g \in kernelGeometries \ I!Removed(s) :
              handle2id[g] = s \/ handle2id[g] \in I!Robbed(s)
         /\ I!Robbed(s) \subseteq IspcSlots
<1>1. CASE instances[s] = None
  BY <1>1 DEF I!Removed, I!Robbed, IspcInv, GeometriesAreUsed
<1>2. CASE instances[s] # None
  <2>1. I!Removed(s) = kernelGeometries \ {id2handle[s]}
    BY <1>2 DEF I!Removed
  <2>2. \A g \in kernelGeometries : handle2id[g] = s => id2handle[s] = g
    BY DEF IspcInv, GeometriesAreUsed
  <2>3. \A g \in kernelGeometries : id2handle[s] = g =>
          handle2id[g] = s \/ handle2id[g] \in I!Robbed(s)
    BY <1>2 DEF IspcInv, GeometriesAreUsed, I!Robbed, I!Slots, IspcSlots
  <2>4. I!Robbed(s) \subseteq IspcSlots
    BY DEF I!Robbed, I!Slots, IspcSlots
  <2>. QED
    BY <2>1, <2>2, <2>3, <2>4
<1>. QED
  BY <1>1, <1>2

\* A slot is given an instance without a shape.
LEMMA SetWithoutShape ==
  ASSUME IspcInv, NEW s \in IspcSlots, NEW new \in Instances \cup {None},
         new # None => new.geometry = None,
         instances' = [instances EXCEPT ![s] = new],
         kernelGeometries' = I!Removed(s),
         lost' = (lost \ {s}) \cup I!Robbed(s), changed' = changed \cup {s},
         UNCHANGED <<handle2id, id2handle>>
  PROVE  IspcInv'
<1>1. IspcTypes'
  BY RemovedIsOwn DEF IspcInv, IspcTypes
<1>2. GeometriesAreUsed'
  BY RemovedIsOwn DEF IspcInv, IspcTypes, GeometriesAreUsed
<1>3. ShapesAreThere'
  <2>1. ASSUME NEW u \in IspcSlots \ lost', instances'[u] # None, instances'[u].geometry # None
        PROVE  instances'[u].geometry \in I!Removed(s) /\ handle2id[instances'[u].geometry] = u
    <3>1. u # s /\ instances'[u] = instances[u] /\ u \notin lost /\ u \notin I!Robbed(s)
      BY <2>1 DEF IspcInv, IspcTypes
    <3>2. instances[u].geometry \in kernelGeometries /\ handle2id[instances[u].geometry] = u
      BY <2>1, <3>1 DEF IspcInv, ShapesAreThere
    <3>. QED
      BY <3>1, <3>2, RemovedIsOwn
  <2>. QED
    BY <2>1 DEF ShapesAreThere
<1>. QED
  BY <1>1, <1>2, <1>3 DEF IspcInv

\* A slot is given an instance with a shape, whose number no geometry has.
LEMMA SetWithShape ==
  ASSUME IspcInv, NEW s \in IspcSlots, NEW g \in IspcIDs \ I!Removed(s),
         NEW new \in Instances, new.geometry = g,
         instances' = [instances EXCEPT ![s] = new],
         kernelGeometries' = I!Removed(s) \cup {g},
         lost' = (lost \ {s}) \cup I!Robbed(s), changed' = changed \cup {s},
         handle2id' = [handle2id EXCEPT ![g] = s],
         id2handle' = [id2handle EXCEPT ![s] = g]
  PROVE  IspcInv'
<1>0. g # None /\ new # None
  BY NoneIsNothing
<1>1. IspcTypes'
  BY RemovedIsOwn DEF IspcInv, IspcTypes
<1>2. GeometriesAreUsed'
  <2>1. ASSUME NEW h \in I!Removed(s)
        PROVE  /\ handle2id'[h] = handle2id[h] /\ handle2id[h] \in IspcSlots \ {s}
               /\ instances'[handle2id[h]] # None /\ instances'[handle2id[h]].geometry = h
               /\ id2handle'[handle2id[h]] = h
    <3>1. h # g /\ h \in kernelGeometries /\ handle2id[h] # s
      BY <2>1, RemovedIsOwn
    <3>2. /\ handle2id[h] \in IspcSlots /\ instances[handle2id[h]] # None
          /\ instances[handle2id[h]].geometry = h /\ id2handle[handle2id[h]] = h
      BY <3>1 DEF IspcInv, GeometriesAreUsed
    <3>. QED
      BY <3>1, <3>2 DEF IspcInv, IspcTypes
  <2>2. handle2id'[g] = s /\ instances'[s] = new /\ id2handle'[s] = g
    BY DEF IspcInv, IspcTypes
  <2>. QED
    BY <1>0, <2>1, <2>2 DEF GeometriesAreUsed
<1>3. ShapesAreThere'
  <2>1. ASSUME NEW u \in IspcSlots \ lost', instances'[u] # None, instances'[u].geometry # None,
               u # s
        PROVE  instances'[u].geometry \in I!Removed(s) /\ handle2id'[instances'[u].geometry] = u
    <3>1. instances'[u] = instances[u] /\ u \notin lost /\ u \notin I!Robbed(s)
      BY <2>1 DEF IspcInv, IspcTypes
    <3>2. instances[u].geometry \in kernelGeometries /\ handle2id[instances[u].geometry] = u
      BY <2>1, <3>1 DEF IspcInv, ShapesAreThere
    <3>3. instances[u].geometry \in I!Removed(s)
      BY <2>1, <3>1, <3>2, RemovedIsOwn
    <3>4. instances[u].geometry # g /\ instances[u].geometry \in IspcIDs
      BY <3>2, <3>3 DEF IspcInv, IspcTypes
    <3>. QED
      BY <3>1, <3>2, <3>3, <3>4 DEF IspcInv, IspcTypes
  <2>2. handle2id'[g] = s /\ instances'[s] = new
    BY DEF IspcInv, IspcTypes
  <2>. QED
    BY <2>1, <2>2 DEF ShapesAreThere
<1>. QED
  BY <1>1, <1>2, <1>3 DEF IspcInv

LEMMA IspcStep == IspcInv /\ [I!Next]_ispcVars => IspcInv'
<1>. SUFFICES ASSUME IspcInv, [I!Next]_ispcVars PROVE IspcInv'
  OBVIOUS
<1>1. ASSUME NEW s \in I!Slots, I!SetNullPrimitive(s) PROVE IspcInv'
  <2>1. s \in IspcSlots
    BY DEF I!Slots, IspcSlots
  <2>. QED
    BY <1>1, <2>1, SetWithoutShape DEF I!SetNullPrimitive
<1>2. ASSUME NEW s \in I!Slots, NEW k \in I!Kinds, I!SetPrimitive(s, k) PROVE IspcInv'
  <2>1. s \in IspcSlots
    BY DEF I!Slots, IspcSlots
  <2>2. PICK g \in IF I!HasShape(k) THEN I!Numbers(s) ELSE {None},
             a \in IF k = "shape" THEN {None} ELSE I!Addresses \ I!Existing : I!Set(s, k, g, a)
    BY <1>2 DEF I!SetPrimitive
  <2>. DEFINE new == [geometry |-> g, light |-> a, kind |-> k]
  <2>3. g \in {None} \cup (IspcIDs \ I!Removed(s))
    BY DEF I!Numbers, I!IDs, IspcIDs
  <2>4. a \in {None} \cup 1 .. MaxIspcSlots + 1
    BY DEF I!Addresses
  <2>5. new \in Instances
    BY <2>3, <2>4 DEF Instances, I!Kinds
  <2>6. instances' = [instances EXCEPT ![s] = new] /\ new.geometry = g
    BY <2>2 DEF I!Set
  <2>7. CASE g = None
    <3>1. /\ kernelGeometries' = I!Removed(s) /\ UNCHANGED <<handle2id, id2handle>>
          /\ lost' = (lost \ {s}) \cup I!Robbed(s) /\ changed' = changed \cup {s}
      BY <2>2, <2>7 DEF I!Set
    <3>. HIDE DEF new
    <3>. QED
      BY <2>1, <2>5, <2>6, <2>7, <3>1, SetWithoutShape
  <2>8. CASE g # None
    <3>1. g \in IspcIDs \ I!Removed(s)
      BY <2>3, <2>8
    <3>2. /\ kernelGeometries' = I!Removed(s) \cup {g}
          /\ lost' = (lost \ {s}) \cup I!Robbed(s) /\ changed' = changed \cup {s}
          /\ handle2id' = [handle2id EXCEPT ![g] = s]
          /\ id2handle' = [id2handle EXCEPT ![s] = g]
      BY <2>2, <2>8 DEF I!Set, I!HandleTables
    <3>. HIDE DEF new
    <3>. QED
      BY <2>1, <2>5, <2>6, <3>1, <3>2, SetWithShape
  <2>. QED
    BY <2>7, <2>8
<1>3. ASSUME UNCHANGED <<instances, kernelGeometries, handle2id, id2handle, lost>>,
             changed' \in {{}, changed}
      PROVE  IspcInv'
  BY <1>3 DEF IspcInv, IspcTypes, GeometriesAreUsed, ShapesAreThere
<1>4. CASE I!CommitScene \/ I!RenderFrame \/ I!FinishFrame \/ UNCHANGED ispcVars
  BY <1>3, <1>4 DEF I!CommitScene, I!RenderFrame, I!FinishFrame, I!kernelVars, ispcVars
<1>. QED
  BY <1>1, <1>2, <1>4 DEF I!Next

LEMMA IspcHits == IspcInv => I!HitFindsInstance
  BY DEF IspcInv, GeometriesAreUsed, ShapesAreThere, I!HitFindsInstance, I!Slots, IspcSlots

(***************************************************************************)
(* Both.                                                                   *)
(***************************************************************************)

\* The inductive invariant of the scenes of both devices.
ScenesInv == FlatInv /\ IspcInv

THEOREM Invariance == ScenesSpec => []ScenesInv
<1>1. ScenesInit => ScenesInv
  BY FlatInit, IspcInit DEF ScenesInit, ScenesInv
<1>2. ScenesInv /\ [ScenesNext]_<<device, vars, ispcVars>> => ScenesInv'
  <2>. SUFFICES ASSUME ScenesInv, [ScenesNext]_<<device, vars, ispcVars>> PROVE ScenesInv'
    OBVIOUS
  <2>1. [Next]_vars /\ [I!Next]_ispcVars
    BY DEF ScenesNext
  <2>. QED
    BY <2>1, FlatStep, IspcStep DEF ScenesInv
<1>. QED
  BY <1>1, <1>2, PTL DEF ScenesSpec

\* A hit of a geometry is shaded by the primitive it was made for, whatever
\* slots are empty or replaced and whatever numbers the kernel gives again; a
\* shape is only missing in the ISPC scene if its geometry was deleted through
\* the entry of another slot (SceneFlat, BackendSceneFlat::postIntersect and
\* Scene__set of the ISPC device).
THEOREM HitsFindPrimitives == ScenesSpec => []HitsAreResolved
<1>1. ScenesInv => HitsAreResolved
  BY FlatHits, IspcHits DEF ScenesInv, HitsAreResolved
<1>. QED
  BY <1>1, Invariance, PTL

\* Shadow rays pass the geometries with a transparent material, and no others,
\* if no slot before the last shape lacks one (SceneFlat).
THEOREM FiltersAreRight == ScenesSpec => []FiltersOfDenseScenes
<1>1. ScenesInv => FiltersOfDenseScenes
  BY FlatFilters DEF ScenesInv
<1>. QED
  BY <1>1, Invariance, PTL

(***************************************************************************)
(* The lights of the single-ray device: those of the slots seen, in order. *)
(***************************************************************************)
\* q has the elements of S in increasing order.
Sorted(q, S) ==
  /\ q \in Seq(Int) /\ ToSet(q) = S
  /\ \A j, k \in 1 .. Len(q) : j < k => q[j] < q[k]

Seen == {s \in Slots : pc = "done" \/ (pc = "lights" /\ s < i)}

IsEnv(s) == Lit(s) /\ Prim(s).light = "environment"

FlatLightInv ==
  /\ pc \in {"extract", "lights", "done"}
  /\ filters \subseteq Slots
  /\ \A k \in 1 .. Len(geometries) : geometries[k] \in Slots /\ HasShape(geometries[k])
  /\ \A s \in Slots : id0_to_geomID[s] \in Slots \cup {None}
  /\ Sorted(allLights, {s \in Seen : Lit(s)})
  /\ Sorted(envLights, {s \in Seen : IsEnv(s)})

LEMMA AppendSorted ==
  ASSUME NEW q, NEW S, Sorted(q, S), NEW x \in Int, \A s \in S : s < x
  PROVE  Sorted(Append(q, x), S \cup {x})
<1>1. q \in Seq(Int) /\ Len(q) \in Nat /\ DOMAIN q = 1 .. Len(q) /\ S = {q[k] : k \in 1 .. Len(q)}
  BY DEF Sorted, ToSet
<1>2. PICK p : p = Append(q, x)
  OBVIOUS
<1>3. /\ p \in Seq(Int) /\ Len(p) = Len(q) + 1 /\ DOMAIN p = 1 .. Len(q) + 1
      /\ p[Len(q) + 1] = x /\ \A k \in 1 .. Len(q) : p[k] = q[k]
  BY <1>1, <1>2
<1>4. {p[k] : k \in 1 .. Len(q) + 1} = S \cup {x}
  <2>1. 1 .. Len(q) + 1 = (1 .. Len(q)) \cup {Len(q) + 1}
    BY <1>1
  <2>2. {p[k] : k \in 1 .. Len(q)} = S
    BY <1>1, <1>3
  <2>. QED
    BY <1>3, <2>1, <2>2
<1>5. ASSUME NEW j \in 1 .. Len(q) + 1, NEW k \in 1 .. Len(q) + 1, j < k PROVE p[j] < p[k]
  <2>1. j \in 1 .. Len(q)
    BY <1>1, <1>5
  <2>2. CASE k = Len(q) + 1
    BY <1>1, <1>3, <2>1, <2>2
  <2>3. CASE k # Len(q) + 1
    <3>1. k \in 1 .. Len(q)
      BY <1>1, <2>3
    <3>. QED
      BY <1>3, <1>5, <2>1, <3>1 DEF Sorted
  <2>. QED
    BY <2>2, <2>3
<1>. QED
  BY <1>2, <1>3, <1>4, <1>5 DEF Sorted, ToSet

LEMMA FlatLightInit == Init => FlatLightInv
<1>. SUFFICES ASSUME Init PROVE FlatLightInv
  OBVIOUS
<1>1. Sorted(<<>>, {})
  BY DEF Sorted, ToSet
<1>2. Seen = {}
  BY DEF Init, Seen
<1>. QED
  BY <1>1, <1>2 DEF Init, FlatLightInv

LEMMA FlatLightStep == FlatInv /\ FlatLightInv /\ [Next]_vars => FlatLightInv'
<1>. SUFFICES ASSUME FlatInv, FlatLightInv, [Next]_vars PROVE FlatLightInv'
  OBVIOUS
<1>0. Len(prims) \in Nat /\ i \in 0 .. Len(prims) /\ geometries \in Seq(Int)
  BY DEF FlatInv, FlatTypes
<1>1. ASSUME UNCHANGED <<prims, filters, geometries, id0_to_geomID, allLights, envLights>>,
             pc' \in {"extract", "lights", "done"}, Seen' = Seen
      PROVE  FlatLightInv'
  BY <1>1 DEF FlatLightInv, Lit, IsEnv, Prim, HasShape, Slots
<1>2. CASE Extract
  <2>1. /\ i \in Slots /\ HasShape(i) /\ pc' = pc /\ pc = "extract"
        /\ UNCHANGED <<prims, allLights, envLights>>
        /\ geometries' = Append(geometries, i)
        /\ id0_to_geomID' = [id0_to_geomID EXCEPT ![Len(geometries)] = i]
    BY <1>0, <1>2 DEF Extract, Slots, TableEntry, ExtractedID
  <2>2. filters' \subseteq Slots'
    BY <1>2, <2>1 DEF Extract, SetOcclusionFilterFunction, FlatLightInv, Slots
  <2>3. \A k \in 1 .. Len(geometries') : geometries'[k] \in Slots' /\ HasShape(geometries'[k])
    <3>1. \A k \in 1 .. Len(geometries) + 1 :
            (k \in 1 .. Len(geometries) /\ geometries'[k] = geometries[k]) \/ geometries'[k] = i
      BY <1>0, <2>1
    <3>2. Len(geometries') = Len(geometries) + 1
      BY <1>0, <2>1
    <3>3. \A k \in 1 .. Len(geometries) : geometries[k] \in Slots /\ HasShape(geometries[k])
      BY DEF FlatLightInv
    <3>4. Slots' = Slots
      BY <2>1 DEF Slots
    <3>. QED
      BY <2>1, <3>1, <3>2, <3>3, <3>4
  <2>4. \A s \in Slots' : id0_to_geomID'[s] \in Slots' \cup {None}
    BY <2>1 DEF FlatLightInv, FlatInv, FlatTypes, Slots
  <2>5. Seen = {} /\ Seen' = {}
    BY <2>1 DEF Seen
  <2>6. \A k \in 1 .. Len(geometries') : geometries'[k] \in Slots' /\ HasShape(geometries[k])'
    BY <2>1, <2>3 DEF HasShape, Prim
  <2>7. Sorted(allLights, {}) /\ Sorted(envLights, {})
    BY <2>5 DEF FlatLightInv
  <2>8. Sorted(allLights, {s \in Seen : Lit(s)})' /\ Sorted(envLights, {s \in Seen : IsEnv(s)})'
    BY <2>1, <2>5, <2>7 DEF Sorted, ToSet
  <2>. QED
    BY <2>1, <2>2, <2>4, <2>6, <2>8 DEF FlatLightInv
<1>3. CASE Skip
  BY <1>1, <1>3 DEF Skip, FlatLightInv, Seen
<1>4. CASE Commit
  <2>1. Seen = {} /\ Seen' = {}
    BY <1>4 DEF Commit, Seen, Slots
  <2>. QED
    BY <1>1, <1>4, <2>1 DEF Commit
<1>5. CASE AddLight
  <2>1. /\ pc = "lights" /\ i \in Slots /\ i' = i + 1 /\ i \in Int
        /\ UNCHANGED <<prims, geometries, filters, id0_to_geomID, pc>>
    BY <1>0, <1>5 DEF AddLight, Slots
  <2>2. Seen' = Seen \cup {i} /\ \A s \in Seen : s < i
    BY <1>0, <2>1 DEF Seen, Slots
  <2>3. \A s : (Lit(s))' = Lit(s) /\ (IsEnv(s))' = IsEnv(s)
    BY <2>1 DEF Lit, IsEnv, Prim
  <2>4. Sorted(allLights', {s \in Seen' : Lit(s)})
    <3>1. Sorted(allLights, {s \in Seen : Lit(s)}) /\ \A s \in {u \in Seen : Lit(u)} : s < i
      BY <2>2 DEF FlatLightInv
    <3>2. CASE Lit(i)
      <4>1. {s \in Seen' : Lit(s)} = {s \in Seen : Lit(s)} \cup {i}
        BY <2>2, <3>2
      <4>2. allLights' = Append(allLights, i)
        BY <1>5, <3>2 DEF AddLight
      <4>. QED
        BY <2>1, <3>1, <4>1, <4>2, AppendSorted
    <3>3. CASE ~Lit(i)
      <4>1. {s \in Seen' : Lit(s)} = {s \in Seen : Lit(s)}
        BY <2>2, <3>3
      <4>2. allLights' = allLights
        BY <1>5, <3>3 DEF AddLight
      <4>. QED
        BY <3>1, <4>1, <4>2
    <3>. QED
      BY <3>2, <3>3
  <2>5. Sorted(envLights', {s \in Seen' : IsEnv(s)})
    <3>1. Sorted(envLights, {s \in Seen : IsEnv(s)}) /\ \A s \in {u \in Seen : IsEnv(u)} : s < i
      BY <2>2 DEF FlatLightInv
    <3>2. CASE IsEnv(i)
      <4>1. {s \in Seen' : IsEnv(s)} = {s \in Seen : IsEnv(s)} \cup {i}
        BY <2>2, <3>2
      <4>2. envLights' = Append(envLights, i)
        BY <1>5, <3>2 DEF AddLight, IsEnv
      <4>. QED
        BY <2>1, <3>1, <4>1, <4>2, AppendSorted
    <3>3. CASE ~IsEnv(i)
      <4>1. {s \in Seen' : IsEnv(s)} = {s \in Seen : IsEnv(s)}
        BY <2>2, <3>3
      <4>2. envLights' = envLights
        BY <1>5, <3>3 DEF AddLight, IsEnv
      <4>. QED
        BY <3>1, <4>1, <4>2
    <3>. QED
      BY <3>2, <3>3
  <2>6. {s \in Seen' : Lit(s)} = {s \in Seen : Lit(s)}' /\ {s \in Seen' : IsEnv(s)} = {s \in Seen : IsEnv(s)}'
    BY <2>3
  <2>. QED
    BY <2>1, <2>4, <2>5, <2>6 DEF FlatLightInv, HasShape, Prim, Slots
<1>6. CASE Finish
  <2>1. Seen' = Seen
    BY <1>0, <1>6 DEF Finish, Seen, Slots
  <2>. QED
    BY <1>1, <1>6, <2>1 DEF Finish
<1>7. CASE Done \/ UNCHANGED vars
  BY <1>1, <1>7 DEF Done, vars, FlatLightInv, Seen, Slots
<1>. QED
  BY <1>2, <1>3, <1>4, <1>5, <1>6, <1>7 DEF Next

LEMMA FlatLightsAreComplete == FlatInv /\ FlatLightInv => TypeOK /\ LightsAreComplete
<1>. SUFFICES ASSUME FlatInv, FlatLightInv PROVE TypeOK /\ LightsAreComplete
  OBVIOUS
<1>1. /\ allLights \in Seq(Int) /\ ToSet(allLights) = {s \in Seen : Lit(s)}
      /\ envLights \in Seq(Int) /\ ToSet(envLights) = {s \in Seen : IsEnv(s)}
      /\ \A j, k \in 1 .. Len(allLights) : j < k => allLights[j] < allLights[k]
      /\ \A j, k \in 1 .. Len(envLights) : j < k => envLights[j] < envLights[k]
  BY DEF FlatLightInv, Sorted
<1>2. TypeOK
  <2>1. /\ \A k \in DOMAIN allLights : allLights[k] \in Slots
        /\ \A k \in DOMAIN envLights : envLights[k] \in Slots
    BY <1>1 DEF ToSet, Seen
  <2>. QED
    BY <2>1 DEF TypeOK, FlatLightInv, FlatInv, FlatTypes
<1>3. ASSUME pc = "done" PROVE LightsAreComplete
  <2>1. Seen = Slots
    BY <1>3 DEF Seen
  <2>2. ToSet(allLights) = {s \in Slots : Prim(s) # None /\ Prim(s).light # "none"}
    BY <1>1, <2>1 DEF Lit
  <2>3. ToSet(envLights) = {s \in ToSet(allLights) : Prim(s).light = "environment"}
    BY <1>1 DEF IsEnv
  <2>4. \A k \in DOMAIN geometries :
          Prim(geometries[k]).light = "area" => geometries[k] \in ToSet(allLights)
    <3>1. \A k \in DOMAIN geometries : geometries[k] \in Slots /\ Prim(geometries[k]) # None
      BY DEF FlatLightInv, FlatInv, FlatTypes, HasShape
    <3>. QED
      BY <2>2, <3>1
  <2>5. /\ \A j, k \in DOMAIN allLights : j < k => allLights[j] < allLights[k]
        /\ \A j, k \in DOMAIN envLights : j < k => envLights[j] < envLights[k]
    <3>1. DOMAIN allLights = 1 .. Len(allLights) /\ DOMAIN envLights = 1 .. Len(envLights)
      BY <1>1
    <3>. QED
      BY <1>1, <3>1
  <2>. QED
    BY <2>2, <2>3, <2>4, <2>5 DEF LightsAreComplete
<1>. QED
  BY <1>2, <1>3 DEF LightsAreComplete

(***************************************************************************)
(* The loop that collects the lights of the ISPC device: its rounds are    *)
(* one induction, which no step of the state machine is part of.           *)
(***************************************************************************)

\* What holds of 0 and is passed on holds up to n: else x |-> x + 1 where it does,
\* and x |-> x where it does not, would map 0 .. n into 1 .. n.
LEMMA PassedOn ==
  ASSUME NEW n \in Nat, NEW T \in SUBSET (0 .. n), 0 \in T,
         \A x \in T : x < n => x + 1 \in T
  PROVE  n \in T
<1>. SUFFICES ASSUME n \notin T PROVE FALSE
  OBVIOUS
<1> DEFINE f == [x \in 0 .. n |-> IF x \in T THEN x + 1 ELSE x]
<1>1. f \in Injection(0 .. n, 1 .. n)
  <2>1. \A x \in T : x < n
    OBVIOUS
  <2>2. \A x \in 0 .. n : f[x] \in 1 .. n /\ (x \in T <=> f[x] \in T)
    BY <2>1
  <2>3. ASSUME NEW x \in 0 .. n, NEW y \in 0 .. n, f[x] = f[y] PROVE x = y
    BY <2>2, <2>3
  <2>4. f \in [0 .. n -> 1 .. n]
    BY <2>2
  <2>. QED
    BY <2>3, <2>4 DEF Injection, IsInjective
<1>2. /\ IsFiniteSet(0 .. n) /\ Cardinality(0 .. n) = n + 1
      /\ IsFiniteSet(1 .. n) /\ Cardinality(1 .. n) = n
  BY FS_Interval
<1>3. Cardinality(0 .. n) <= Cardinality(1 .. n)
  BY <1>1, <1>2, FS_Injection
<1>. QED
  BY <1>2, <1>3

\* The function I!Collected defines.
Loop(n, S, e) ==
  CHOOSE f : f = [k \in 0 .. n |->
    IF k = 0 THEN <<>>
    ELSE IF k-1 \in S THEN Append(f[k-1], e[k-1].light) ELSE f[k-1]]

LEMMA CollectedIsLoop ==
  ASSUME NEW S
  PROVE  I!Collected(S) = Loop(numInstances, S, instances)[numInstances]
  BY DEF I!Collected, I!Emptied, Loop

\* The rounds of the loop, up to m.
Rounds(f, m, S, e) ==
  /\ f[0] = <<>>
  /\ \A k \in 1 .. m :
       f[k] = IF k-1 \in S THEN Append(f[k-1], e[k-1].light) ELSE f[k-1]

\* There is such a function, the CHOOSE is of it.
LEMMA LoopExists ==
  ASSUME NEW n \in Nat, NEW S, NEW e
  PROVE  \E f : DOMAIN f = 0 .. n /\ f = [k \in 0 .. n |-> f[k]] /\ Rounds(f, n, S, e)
<1> DEFINE T == {m \in 0 .. n : \E f : DOMAIN f = 0 .. m /\ Rounds(f, m, S, e)}
<1>1. 0 \in T
  <2>1. PICK f : f = [k \in 0 .. 0 |-> <<>>]
    OBVIOUS
  <2>2. DOMAIN f = 0 .. 0 /\ Rounds(f, 0, S, e)
    BY <2>1 DEF Rounds
  <2>. QED
    BY <2>2
<1>2. ASSUME NEW m \in T, m < n PROVE m + 1 \in T
  <2>1. PICK f : DOMAIN f = 0 .. m /\ Rounds(f, m, S, e)
    OBVIOUS
  <2>2. PICK g : g = [k \in 0 .. m + 1 |->
                        IF k <= m THEN f[k]
                        ELSE IF m \in S THEN Append(f[m], e[m].light) ELSE f[m]]
    OBVIOUS
  <2>3. /\ DOMAIN g = 0 .. m + 1 /\ \A k \in 0 .. m : g[k] = f[k]
        /\ g[m + 1] = IF m \in S THEN Append(g[m], e[m].light) ELSE g[m]
    BY <2>2
  <2>4. \A k \in 1 .. m : g[k] = IF k-1 \in S THEN Append(g[k-1], e[k-1].light) ELSE g[k-1]
    <3>1. \A k \in 1 .. m : k \in 0 .. m /\ k-1 \in 0 .. m
      OBVIOUS
    <3>. QED
      BY <2>1, <2>3, <3>1 DEF Rounds
  <2>5. Rounds(g, m + 1, S, e)
    <3>1. \A k \in 1 .. m + 1 : k \in 1 .. m \/ k = m + 1
      OBVIOUS
    <3>2. (m + 1) - 1 = m /\ g[0] = <<>>
      BY <2>1, <2>3 DEF Rounds
    <3>. QED
      BY <2>3, <2>4, <3>1, <3>2 DEF Rounds
  <2>. QED
    BY <1>2, <2>3, <2>5
<1>3. n \in T
  <2>1. T \in SUBSET (0 .. n)
    OBVIOUS
  <2>. HIDE DEF T
  <2>. QED
    BY <1>1, <1>2, <2>1, PassedOn
<1>4. PICK f : DOMAIN f = 0 .. n /\ Rounds(f, n, S, e)
  BY <1>3
<1>5. PICK g : g = [k \in 0 .. n |-> f[k]]
  OBVIOUS
<1>6. DOMAIN g = 0 .. n /\ g = [k \in 0 .. n |-> g[k]] /\ \A k \in 0 .. n : g[k] = f[k]
  BY <1>5
<1>7. Rounds(g, n, S, e)
  <2>1. \A k \in 1 .. n : k \in 0 .. n /\ k-1 \in 0 .. n
    OBVIOUS
  <2>. QED
    BY <1>4, <1>6, <2>1 DEF Rounds
<1>. QED
  BY <1>6, <1>7

LEMMA LoopIsRounds ==
  ASSUME NEW n \in Nat, NEW S, NEW e
  PROVE  Rounds(Loop(n, S, e), n, S, e)
<1>1. PICK f : DOMAIN f = 0 .. n /\ f = [k \in 0 .. n |-> f[k]] /\ Rounds(f, n, S, e)
  BY LoopExists
<1>2. f = [k \in 0 .. n |->
             IF k = 0 THEN <<>>
             ELSE IF k-1 \in S THEN Append(f[k-1], e[k-1].light) ELSE f[k-1]]
  <2>1. \A k \in 0 .. n : f[k] =
          IF k = 0 THEN <<>>
          ELSE IF k-1 \in S THEN Append(f[k-1], e[k-1].light) ELSE f[k-1]
    <3>1. \A k \in 0 .. n : k # 0 => k \in 1 .. n
      OBVIOUS
    <3>. QED
      BY <1>1, <3>1 DEF Rounds
  <2>. QED
    BY <1>1, <2>1
<1>3. PICK l : l = Loop(n, S, e)
  OBVIOUS
<1>4. l = [k \in 0 .. n |->
             IF k = 0 THEN <<>>
             ELSE IF k-1 \in S THEN Append(l[k-1], e[k-1].light) ELSE l[k-1]]
  BY <1>2, <1>3 DEF Loop
<1>5. Rounds(l, n, S, e)
  <2>1. \A k \in 0 .. n : l[k] =
          IF k = 0 THEN <<>>
          ELSE IF k-1 \in S THEN Append(l[k-1], e[k-1].light) ELSE l[k-1]
    BY <1>4
  <2>2. 0 \in 0 .. n /\ \A k \in 1 .. n : k \in 0 .. n /\ k # 0
    OBVIOUS
  <2>. QED
    BY <2>1, <2>2 DEF Rounds
<1>. QED
  BY <1>3, <1>5

\* The sequence l has the lights of the instances in S, in the order q.
Picks(l, q, S, e, V) ==
  /\ Sorted(q, S) /\ l \in Seq(V) /\ Len(l) = Len(q)
  /\ \A j \in 1 .. Len(q) : l[j] = e[q[j]].light

LEMMA LoopPicks ==
  ASSUME NEW n \in Nat, NEW S, NEW e, NEW V, \A k \in S : e[k].light \in V,
         NEW f, Rounds(f, n, S, e)
  PROVE  \E q : Picks(f[n], q, S \cap (0 .. n-1), e, V)
<1> DEFINE T == {m \in 0 .. n : \E q : Picks(f[m], q, S \cap (0 .. m-1), e, V)}
<1>1. 0 \in T
  <2>1. f[0] = <<>> /\ S \cap (0 .. 0-1) = {}
    BY DEF Rounds
  <2>2. Picks(<<>>, <<>>, {}, e, V)
    BY DEF Picks, Sorted, ToSet
  <2>. QED
    BY <2>1, <2>2
<1>2. ASSUME NEW m \in T, m < n PROVE m + 1 \in T
  <2>1. PICK q : Picks(f[m], q, S \cap (0 .. m-1), e, V)
    OBVIOUS
  <2>2. m \in Nat /\ m + 1 \in 1 .. n /\ (m + 1) - 1 = m
    BY <1>2
  <2>3. f[m + 1] = IF m \in S THEN Append(f[m], e[m].light) ELSE f[m]
    BY <2>2 DEF Rounds
  <2>4. CASE m \notin S
    <3>1. S \cap (0 .. m) = S \cap (0 .. m-1)
      BY <2>2, <2>4
    <3>2. Picks(f[m + 1], q, S \cap (0 .. (m+1) - 1), e, V)
      BY <2>1, <2>2, <2>3, <2>4, <3>1
    <3>3. m + 1 \in 0 .. n
      BY <2>2
    <3>. QED
      BY <3>2, <3>3
  <2>5. CASE m \in S
    <3>1. S \cap (0 .. m) = (S \cap (0 .. m-1)) \cup {m}
      BY <2>2, <2>5
    <3>2. PICK p : p = Append(q, m)
      OBVIOUS
    <3>3. Sorted(p, S \cap (0 .. m))
      <4>1. Sorted(q, S \cap (0 .. m-1)) /\ m \in Int /\ \A k \in S \cap (0 .. m-1) : k < m
        BY <2>1, <2>2 DEF Picks
      <4>. QED
        BY <3>1, <3>2, <4>1, AppendSorted
    <3>4. PICK l, r : l = f[m] /\ r = f[m + 1]
      OBVIOUS
    <3>5. /\ l \in Seq(V) /\ q \in Seq(Int) /\ Len(l) = Len(q) /\ r = Append(l, e[m].light)
          /\ e[m].light \in V /\ \A j \in 1 .. Len(q) : l[j] = e[q[j]].light
      BY <2>1, <2>3, <2>5, <3>4 DEF Picks, Sorted
    <3>6. /\ r \in Seq(V) /\ Len(r) = Len(l) + 1 /\ r[Len(l) + 1] = e[m].light
          /\ \A j \in 1 .. Len(l) : r[j] = l[j]
      BY <3>5
    <3>7. /\ Len(p) = Len(q) + 1 /\ p[Len(q) + 1] = m /\ \A j \in 1 .. Len(q) : p[j] = q[j]
          /\ Len(q) \in Nat
      BY <2>2, <3>2, <3>5
    <3>8. \A j \in 1 .. Len(p) : r[j] = e[p[j]].light
      <4>1. \A j \in 1 .. Len(p) : j \in 1 .. Len(q) \/ j = Len(q) + 1
        BY <3>7
      <4>. QED
        BY <3>5, <3>6, <3>7, <4>1
    <3>9. Picks(r, p, S \cap (0 .. m), e, V)
      BY <3>3, <3>5, <3>6, <3>7, <3>8 DEF Picks
    <3>. QED
      BY <2>2, <3>4, <3>9
  <2>. QED
    BY <2>4, <2>5
<1>3. n \in T
  <2>1. T \in SUBSET (0 .. n)
    OBVIOUS
  <2>. HIDE DEF T
  <2>. QED
    BY <1>1, <1>2, <2>1, PassedOn
<1>. QED
  BY <1>3

\* It is no longer than the scene has slots, and no light is in it twice if the
\* instances have lights of their own.
LEMMA PicksOnce ==
  ASSUME NEW n \in Nat, NEW S \in SUBSET (0 .. n-1), NEW e, NEW V, NEW l, NEW q,
         Picks(l, q, S, e, V)
  PROVE  /\ l \in Seq(V) /\ Len(l) <= n /\ ToSet(l) = {e[k].light : k \in S}
         /\ (\A j, k \in S : e[j].light = e[k].light => j = k) =>
              /\ IsFiniteSet(ToSet(l)) /\ Len(l) = Cardinality(ToSet(l))
<1>1. /\ q \in Seq(Int) /\ l \in Seq(V) /\ Len(l) = Len(q) /\ Len(q) \in Nat
      /\ DOMAIN q = 1 .. Len(q) /\ DOMAIN l = 1 .. Len(q)
      /\ S = {q[j] : j \in 1 .. Len(q)}
      /\ \A j, k \in 1 .. Len(q) : j < k => q[j] < q[k]
      /\ \A j \in 1 .. Len(q) : l[j] = e[q[j]].light
  <2>1. Sorted(q, S) /\ l \in Seq(V) /\ Len(l) = Len(q)
        /\ \A j \in 1 .. Len(q) : l[j] = e[q[j]].light
    BY DEF Picks
  <2>2. q \in Seq(Int) /\ ToSet(q) = S
        /\ \A j, k \in 1 .. Len(q) : j < k => q[j] < q[k]
    BY <2>1 DEF Sorted
  <2>3. Len(q) \in Nat /\ DOMAIN q = 1 .. Len(q) /\ DOMAIN l = 1 .. Len(q)
    BY <2>1, <2>2
  <2>4. S = {q[j] : j \in 1 .. Len(q)}
    BY <2>2, <2>3 DEF ToSet
  <2>. QED
    BY <2>1, <2>2, <2>3, <2>4
<1>2. \A j, k \in 1 .. Len(q) : q[j] = q[k] => j = k
  <2>1. \A j \in 1 .. Len(q) : q[j] \in Int
    BY <1>1
  <2>2. \A j, k \in 1 .. Len(q) : j < k \/ k < j \/ j = k
    OBVIOUS
  <2>. QED
    BY <1>1, <2>1, <2>2
<1>3. /\ IsFiniteSet(1 .. Len(q)) /\ Cardinality(1 .. Len(q)) = Len(q)
      /\ IsFiniteSet(0 .. n-1) /\ Cardinality(0 .. n-1) = n
  <2>1. n - 1 \in Int /\ (n > 0 => 0 <= n - 1 /\ (n - 1) - 0 + 1 = n) /\ (n = 0 => 0 > n - 1)
    OBVIOUS
  <2>2. IsFiniteSet(0 .. n-1) /\ Cardinality(0 .. n-1) = n
    BY <2>1, FS_Interval
  <2>3. PICK m \in Nat : m = Len(q)
    BY <1>1
  <2>4. IsFiniteSet(1 .. m) /\ Cardinality(1 .. m) = m
    BY FS_Interval
  <2>. QED
    BY <2>2, <2>3, <2>4
<1>4. Len(q) <= n
  <2>1. q \in Injection(1 .. Len(q), 0 .. n-1)
    <3>1. q \in [1 .. Len(q) -> 0 .. n-1]
      BY <1>1
    <3>. QED
      BY <1>2, <3>1 DEF Injection, IsInjective
  <2>2. Cardinality(1 .. Len(q)) <= Cardinality(0 .. n-1)
    BY <1>3, <2>1, FS_Injection
  <2>. QED
    BY <1>3, <2>2
<1>5. ToSet(l) = {e[k].light : k \in S}
  BY <1>1 DEF ToSet
<1>6. ASSUME \A j, k \in S : e[j].light = e[k].light => j = k
      PROVE  IsFiniteSet(ToSet(l)) /\ Len(l) = Cardinality(ToSet(l))
  <2>1. \A j, k \in 1 .. Len(q) : l[j] = l[k] => j = k
    BY <1>1, <1>2, <1>6
  <2>2. PICK L : L = ToSet(l)
    OBVIOUS
  <2>3. L = {l[j] : j \in 1 .. Len(q)}
    BY <1>1, <2>2 DEF ToSet
  <2>4. l \in [1 .. Len(q) -> L]
    BY <1>1, <2>3
  <2>5. l \in Bijection(1 .. Len(q), L)
    BY <2>1, <2>3, <2>4 DEF Bijection, Injection, IsInjective, Surjection
  <2>6. IsFiniteSet(L) /\ Cardinality(L) = Cardinality(1 .. Len(q))
    BY <1>3, <2>5, FS_Bijection, FS_Surjection DEF ExistsBijection
  <2>. QED
    BY <1>1, <1>3, <2>2, <2>6
<1>. QED
  BY <1>1, <1>4, <1>5, <1>6

(***************************************************************************)
(* The lights of the ISPC device: the instances have lights of their own,  *)
(* in slots that are counted, and the collected lights are those of the    *)
(* last commit, so those of all slots that were not set since.             *)
(***************************************************************************)
Lighted == {s \in IspcSlots : I!HasLight(s)}

IspcCounts ==
  /\ numInstances \in 0 .. MaxIspcSlots
  /\ \A s \in IspcSlots : instances[s] # None => s < numInstances

LightsAreOwn ==
  \A s, u \in Lighted : instances[s].light = instances[u].light => s = u

IspcLightInv ==
  /\ IspcCounts
  /\ LightsAreOwn
  /\ Len(ispcLights) <= MaxIspcSlots
  /\ ToSet(ispcEnvLights) \subseteq ToSet(ispcLights)
  /\ Len(ispcLights) = Cardinality(ToSet(ispcLights))
  /\ \A s \in Lighted \ changed : instances[s].light \in ToSet(ispcLights)
  /\ changed = {} => ToSet(ispcLights) \subseteq I!Existing
  /\ frame # None => frame = ispcLights

LEMMA ExistingIsLighted == I!Existing = {instances[s].light : s \in Lighted}
  BY DEF I!Existing, I!Slots, Lighted, IspcSlots, I!HasLight

LEMMA IspcLightInit == I!Init => IspcLightInv
<1>. SUFFICES ASSUME I!Init PROVE IspcLightInv
  OBVIOUS
<1>1. MaxIspcSlots \in Nat /\ \A s \in IspcSlots : instances[s] = None
  BY ScenesAssumption DEF I!Init, I!Slots, IspcSlots
<1>2. Lighted = {}
  BY <1>1 DEF Lighted, I!HasLight
<1>3. I!Existing = {} /\ Cardinality({}) = 0
  BY <1>2, ExistingIsLighted, FS_EmptySet
<1>4. ispcLights = <<>> /\ ispcEnvLights = <<>> /\ frame = None /\ numInstances = 0
  BY DEF I!Init
<1>5. ToSet(ispcLights) = {} /\ ToSet(ispcEnvLights) = {} /\ Len(ispcLights) = 0
  BY <1>4 DEF ToSet
<1>. QED
  BY <1>1, <1>2, <1>3, <1>4, <1>5 DEF IspcLightInv, IspcCounts, LightsAreOwn

\* What the loop of a commit collects.
LEMMA CollectedLights ==
  ASSUME IspcInv, IspcLightInv, NEW S \in SUBSET Lighted
  PROVE  LET l == I!Collected(S)
         IN  /\ Len(l) <= MaxIspcSlots /\ ToSet(l) = {instances[s].light : s \in S}
             /\ Len(l) = Cardinality(ToSet(l))
<1>1. numInstances \in Nat /\ numInstances <= MaxIspcSlots /\ MaxIspcSlots \in Nat
  BY ScenesAssumption DEF IspcLightInv, IspcCounts
<1>2. S \in SUBSET (0 .. numInstances-1)
  BY <1>1 DEF IspcLightInv, IspcCounts, Lighted, I!HasLight, IspcSlots
<1>3. \A s \in S : instances[s].light \in 1 .. MaxIspcSlots + 1
  BY DEF IspcInv, IspcTypes, Lighted, I!HasLight, Instances
<1>4. \A s, u \in S : instances[s].light = instances[u].light => s = u
  BY DEF IspcLightInv, LightsAreOwn
<1>5. PICK n, e, V : n = numInstances /\ e = instances /\ V = 1 .. MaxIspcSlots + 1
  OBVIOUS
<1>6. PICK f : f = Loop(n, S, e)
  OBVIOUS
<1>7. Rounds(f, n, S, e)
  BY <1>1, <1>5, <1>6, LoopIsRounds
<1>8. PICK q : Picks(f[n], q, S \cap (0 .. n-1), e, V)
  BY <1>1, <1>3, <1>5, <1>7, LoopPicks
<1>9. S \cap (0 .. n-1) = S
  BY <1>2, <1>5
<1>10. PICK l : l = f[n]
  OBVIOUS
<1>11. Picks(l, q, S, e, V)
  BY <1>8, <1>9, <1>10
<1>12. /\ l \in Seq(V) /\ Len(l) <= n /\ ToSet(l) = {e[k].light : k \in S}
       /\ Len(l) = Cardinality(ToSet(l))
  <2>1. /\ n \in Nat /\ S \in SUBSET (0 .. n-1)
        /\ \A s, u \in S : e[s].light = e[u].light => s = u
    BY <1>1, <1>2, <1>4, <1>5
  <2>. QED
    BY <1>11, <2>1, PicksOnce
<1>13. I!Collected(S) = l
  BY <1>5, <1>6, <1>10, CollectedIsLoop
<1>14. Len(l) <= MaxIspcSlots
  BY <1>1, <1>5, <1>12
<1>. QED
  BY <1>5, <1>12, <1>13, <1>14

\* A slot is given an instance without a light, or with a light of its own.
LEMMA SetKeepsLights ==
  ASSUME IspcInv, IspcLightInv, NEW s \in IspcSlots, NEW new,
         instances' = [instances EXCEPT ![s] = new],
         new # None => new.light \notin I!Existing \ {None},
         numInstances' = I!Grown(s), changed' = changed \cup {s},
         UNCHANGED <<ispcLights, ispcEnvLights, frame>>
  PROVE  IspcLightInv'
<1>1. /\ instances'[s] = new /\ \A u \in IspcSlots \ {s} : instances'[u] = instances[u]
  BY DEF IspcInv, IspcTypes
<1>2. IspcCounts'
  BY <1>1, ScenesAssumption DEF IspcLightInv, IspcCounts, I!Grown, IspcSlots
<1>3. LightsAreOwn'
  <2>1. \A u \in Lighted : instances[u].light \in I!Existing /\ instances[u].light # None
    BY ExistingIsLighted DEF Lighted, I!HasLight
  <2>2. \A u \in Lighted' : u = s \/ (u \in Lighted /\ instances'[u] = instances[u])
    BY <1>1 DEF Lighted, I!HasLight
  <2>3. s \in Lighted' => new # None /\ instances'[s] = new
    BY <1>1 DEF Lighted, I!HasLight
  <2>. QED
    BY <2>1, <2>2, <2>3 DEF IspcLightInv, LightsAreOwn
<1>4. \A u \in Lighted' \ changed' : instances'[u].light \in ToSet(ispcLights)
  <2>1. \A u \in Lighted' \ changed' : u \in Lighted \ changed /\ instances'[u] = instances[u]
    BY <1>1 DEF Lighted, I!HasLight
  <2>. QED
    BY <2>1 DEF IspcLightInv
<1>. QED
  BY <1>2, <1>3, <1>4 DEF IspcLightInv

LEMMA IspcLightStep == IspcInv /\ IspcLightInv /\ [I!Next]_ispcVars => IspcLightInv'
<1>. SUFFICES ASSUME IspcInv, IspcLightInv, [I!Next]_ispcVars PROVE IspcLightInv'
  OBVIOUS
<1>1. ASSUME NEW s \in I!Slots, I!SetNullPrimitive(s) PROVE IspcLightInv'
  <2>1. s \in IspcSlots
    BY DEF I!Slots, IspcSlots
  <2>2. /\ instances' = [instances EXCEPT ![s] = None]
        /\ numInstances' = I!Grown(s) /\ changed' = changed \cup {s}
        /\ UNCHANGED <<ispcLights, ispcEnvLights, frame>>
    BY <1>1 DEF I!SetNullPrimitive, I!lightVars
  <2>. QED
    BY <2>1, <2>2, SetKeepsLights
<1>2. ASSUME NEW s \in I!Slots, NEW k \in I!Kinds, I!SetPrimitive(s, k) PROVE IspcLightInv'
  <2>1. s \in IspcSlots
    BY DEF I!Slots, IspcSlots
  <2>2. PICK g \in IF I!HasShape(k) THEN I!Numbers(s) ELSE {None},
             a \in IF k = "shape" THEN {None} ELSE I!Addresses \ I!Existing : I!Set(s, k, g, a)
    BY <1>2 DEF I!SetPrimitive
  <2>3. a \notin I!Existing \ {None}
    BY <2>2
  <2>4. PICK new : new = [geometry |-> g, light |-> a, kind |-> k]
    OBVIOUS
  <2>5. new.light = a
    BY <2>4
  <2>6. /\ instances' = [instances EXCEPT ![s] = new]
        /\ numInstances' = I!Grown(s) /\ changed' = changed \cup {s}
    BY <2>2, <2>4 DEF I!Set
  <2>7. UNCHANGED <<ispcLights, ispcEnvLights, frame>>
    BY <1>2 DEF I!SetPrimitive, I!lightVars
  <2>. QED
    BY <2>1, <2>3, <2>5, <2>6, <2>7, SetKeepsLights
<1>3. CASE I!CommitScene
  <2>1. /\ ispcLights' = I!Collected(Lighted)
        /\ ispcEnvLights' = I!Collected({s \in Lighted : instances[s].kind = "environment"})
        /\ frame' = None /\ changed' = {} /\ UNCHANGED <<instances, numInstances>>
    <3>1. /\ Lighted = {s \in I!Slots : I!HasLight(s)}
          /\ {s \in Lighted : instances[s].kind = "environment"} =
               {s \in I!Slots : I!HasLight(s) /\ instances[s].kind = "environment"}
      BY DEF Lighted, I!Slots, IspcSlots
    <3>. QED
      BY <1>3, <3>1 DEF I!CommitScene
  <2>2. PICK E : E = {s \in Lighted : instances[s].kind = "environment"}
    OBVIOUS
  <2>3. /\ Len(ispcLights') <= MaxIspcSlots
        /\ ToSet(ispcLights') = {instances[s].light : s \in Lighted}
        /\ Len(ispcLights') = Cardinality(ToSet(ispcLights'))
    BY <2>1, CollectedLights
  <2>4. E \in SUBSET Lighted /\ ToSet(ispcEnvLights') = {instances[s].light : s \in E}
    BY <2>1, <2>2, CollectedLights
  <2>5. I!Existing' = {instances[s].light : s \in Lighted}
    BY <2>1, ExistingIsLighted DEF I!Existing
  <2>6. IspcCounts' /\ LightsAreOwn'
    BY <2>1 DEF IspcLightInv, IspcCounts, LightsAreOwn, Lighted, I!HasLight
  <2>7. \A s \in Lighted' \ changed' : instances'[s].light \in ToSet(ispcLights')
    <3>1. instances' = instances /\ Lighted' = Lighted
      BY <2>1 DEF Lighted, I!HasLight
    <3>. QED
      BY <2>3, <3>1
  <2>8. ToSet(ispcLights') \subseteq I!Existing' /\ ToSet(ispcEnvLights') \subseteq ToSet(ispcLights')
    BY <2>3, <2>4, <2>5
  <2>. QED
    BY <2>1, <2>3, <2>6, <2>7, <2>8 DEF IspcLightInv
<1>4. ASSUME UNCHANGED <<instances, numInstances, ispcLights, ispcEnvLights, changed>>,
             frame' # None => frame' = frame \/ frame' = ispcLights
      PROVE  IspcLightInv'
  BY <1>4 DEF IspcLightInv, IspcCounts, LightsAreOwn, Lighted, I!HasLight, I!Existing
<1>5. CASE I!RenderFrame
  BY <1>4, <1>5 DEF I!RenderFrame, I!lightVars
<1>6. CASE I!FinishFrame
  BY <1>4, <1>6 DEF I!FinishFrame, I!lightVars
<1>7. CASE UNCHANGED ispcVars
  BY <1>4, <1>7 DEF ispcVars
<1>. QED
  BY <1>1, <1>2, <1>3, <1>5, <1>6, <1>7 DEF I!Next, ispcVars

\* The operators of the library that the instance has are the same.
LEMMA SameToSet == \A l : I!ToSet(l) = ToSet(l)
  BY DEF ToSet, I!ToSet

LEMMA SameCardinality == \A S : I!Cardinality(S) = Cardinality(S)
  BY DEF Cardinality, I!Cardinality

LEMMA IspcLightsAreCurrent ==
  IspcInv /\ IspcLightInv => I!TypeOK /\ I!FrameLightsAreCurrent
<1>. SUFFICES ASSUME IspcInv, IspcLightInv PROVE I!TypeOK /\ I!FrameLightsAreCurrent
  OBVIOUS
<1>1. I!FrameLightsAreCurrent
  <2>1. \A s \in I!Slots \ changed : I!HasLight(s) => s \in Lighted \ changed
    BY DEF Lighted, I!Slots, IspcSlots
  <2>2. I!ToSet(ispcLights) = ToSet(ispcLights)
        /\ I!Cardinality(ToSet(ispcLights)) = Cardinality(ToSet(ispcLights))
    BY SameToSet, SameCardinality
  <2>3. frame # None => frame = ispcLights
    BY DEF IspcLightInv
  <2>. QED
    BY <2>1, <2>2, <2>3 DEF IspcLightInv, I!FrameLightsAreCurrent
<1>2. I!TypeOK
  BY SameToSet DEF IspcInv, IspcTypes, IspcLightInv, IspcCounts, I!TypeOK, Instances,
     IspcSlots, IspcIDs, I!Slots, I!IDs, I!Addresses
<1>. QED
  BY <1>1, <1>2

\* A frame samples no light twice and none is forgotten: the lights are those
\* of all slots when the scene of the single-ray device is built (SceneFlat,
\* BackendScene::add), and Scene__commit of the ISPC device collects those up to
\* the last slot that was ever set.  A frame of the ISPC device samples them all
\* but those of slots set since that commit.
THEOREM LightsAreFound == ScenesSpec => []LightsAreSampled
<1>1. ScenesInit => FlatLightInv /\ IspcLightInv
  BY FlatLightInit, IspcLightInit DEF ScenesInit
<1>2. ScenesInv /\ FlatLightInv /\ IspcLightInv /\ [ScenesNext]_<<device, vars, ispcVars>>
        => (FlatLightInv /\ IspcLightInv)'
  <2>. SUFFICES ASSUME ScenesInv, FlatLightInv, IspcLightInv,
                       [ScenesNext]_<<device, vars, ispcVars>>
                PROVE  FlatLightInv' /\ IspcLightInv'
    OBVIOUS
  <2>1. [Next]_vars /\ [I!Next]_ispcVars
    BY DEF ScenesNext
  <2>. QED
    BY <2>1, FlatLightStep, IspcLightStep DEF ScenesInv
<1>3. ScenesInv /\ FlatLightInv /\ IspcLightInv => LightsAreSampled
  BY FlatLightsAreComplete, IspcLightsAreCurrent DEF ScenesInv, LightsAreSampled
<1>. QED
  BY <1>1, <1>2, <1>3, Invariance, PTL DEF ScenesSpec
=============================================================================
