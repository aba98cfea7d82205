----------------------------- MODULE SceneFlat -----------------------------
(***************************************************************************)
(* Construction of the scene object of the single-ray device.  The         *)
(* primitives of the slots are given to the ray tracing kernel one after   *)
(* the other; the kernel numbers the geometries itself, so that slots      *)
(* without a shape make the numbers of kernel and slots differ.  A hit is  *)
(* then reported with the number of the kernel, and must lead back to the  *)
(* primitive; shadow rays pass through the geometries that have a filter.  *)
(***************************************************************************)
EXTENDS Integers, Sequences, SequencesExt

CONSTANTS
  MaxSlots,     (* bound: the number of slots                               *)
  None          (* an empty slot, an entry of the table not written         *)

ASSUME SceneFlatAssumption ==
  MaxSlots \in Nat /\ None \notin Int

VARIABLES
  prims,            (* what the slots hold                                  *)
  i,                (* the loop over the slots                              *)
  geometries,       (* kernel: the slot every geometry was made from        *)
  filters,          (* kernel: the geometries with an occlusion filter      *)
  id0_to_geomID,    (* the slot of every geometry                           *)
  allLights, envLights, (* the slots whose lights were added                *)
  pc

vars == <<prims, i, geometries, filters, id0_to_geomID, allLights, envLights, pc>>

\* A primitive: has it a shape, is its material transparent for shadow rays,
\* and has it a light.  Area lights have a shape, other lights have none.
Primitives ==
  [shape : {TRUE}, transparent : BOOLEAN, light : {"none", "area"}]
  \cup [shape : {FALSE}, transparent : {FALSE}, light : {"none", "point", "environment"}]

Slots == 0 .. Len(prims)-1
Prim(s) == prims[s + 1]

Init ==
  /\ prims \in BoundedSeq(Primitives \cup {None}, MaxSlots)
  /\ i = 0
  /\ geometries = <<>>
  /\ filters = {}
  /\ id0_to_geomID = [s \in Slots |-> None]
  /\ allLights = <<>> /\ envLights = <<>>
  /\ pc = "extract"

HasShape(s) == Prim(s) # None /\ Prim(s).shape

\* Kernel: a new geometry gets the next number.
ExtractedID == Len(geometries)

\* Mutant of SetOcclusionFilterFunction: the geometry before.
SetFilterBefore(id) == filters' = IF id > 0 THEN filters \cup {id - 1} ELSE filters

\* Kernel: the filter of a geometry that there is.
SetOcclusionFilterFunction(id) ==
  filters' = IF id \in 0 .. Len(geometries) THEN filters \cup {id} ELSE filters

TableEntry(id0) == [id0_to_geomID EXCEPT ![id0] = i]

Extract ==
  /\ pc = "extract"
  /\ i < Len(prims)
  /\ HasShape(i)
  /\ geometries' = Append(geometries, i)
  /\ id0_to_geomID' = TableEntry(ExtractedID)
  /\ IF Prim(i).transparent THEN SetOcclusionFilterFunction(i) ELSE UNCHANGED filters
  /\ i' = i + 1
  /\ UNCHANGED <<prims, allLights, envLights, pc>>

Skip ==
  /\ pc = "extract"
  /\ i < Len(prims)
  /\ ~HasShape(i)
  /\ i' = i + 1
  /\ UNCHANGED <<prims, geometries, filters, id0_to_geomID, allLights, envLights, pc>>

Commit ==
  /\ pc = "extract"
  /\ i = Len(prims)
  /\ pc' = "lights"
  /\ i' = 0
  /\ UNCHANGED <<prims, geometries, filters, id0_to_geomID, allLights, envLights>>

Lit(s) == Prim(s) # None /\ Prim(s).light # "none"

\* BackendScene::add
AddLight ==
  /\ pc = "lights"
  /\ i < Len(prims)
  /\ IF Lit(i)
     THEN /\ allLights' = Append(allLights, i)
          /\ envLights' = IF Prim(i).light = "environment" THEN Append(envLights, i) ELSE envLights
     ELSE UNCHANGED <<allLights, envLights>>
  /\ i' = i + 1
  /\ UNCHANGED <<prims, geometries, filters, id0_to_geomID, pc>>

Finish ==
  /\ pc = "lights"
  /\ i = Len(prims)
  /\ pc' = "done"
  /\ UNCHANGED <<prims, i, geometries, filters, id0_to_geomID, allLights, envLights>>

Done == pc = "done" /\ UNCHANGED vars

Next == Extract \/ Skip \/ Commit \/ AddLight \/ Finish \/ Done

Spec == Init /\ [][Next]_vars

(***************************************************************************)
(* Properties.                                                             *)
(***************************************************************************)
TypeOK ==
  /\ pc \in {"extract", "lights", "done"}
  /\ i \in 0 .. Len(prims)
  /\ DOMAIN id0_to_geomID = Slots
  /\ \A s \in Slots : id0_to_geomID[s] \in Slots \cup {None}
  /\ filters \subseteq Slots
  /\ \A k \in DOMAIN geometries : geometries[k] \in Slots
  /\ \A k \in DOMAIN allLights : allLights[k] \in Slots
  /\ \A k \in DOMAIN envLights : envLights[k] \in Slots

\* The primitive whose postIntersect a hit of geometry id0 calls.
HitPrimitive(id0) == id0_to_geomID[id0]

(* A ray that hits the geometry made from a slot is shaded with the shape  *)
(* and material of that slot (postIntersect), whatever slots are empty or  *)
(* hold lights without a shape.                                            *)
HitFindsPrimitive ==
  pc # "extract" =>
    \A id0 \in 0 .. Len(geometries)-1 : HitPrimitive(id0) = geometries[id0 + 1]

(* All that can emit light is sampled, and only that: the lights of the    *)
(* scene are those of all slots in their order, the environment lights     *)
(* among them in the same order, and a shape that emits is also a light.   *)
LightsAreComplete ==
  pc = "done" =>
    /\ ToSet(allLights) = {s \in Slots : Prim(s) # None /\ Prim(s).light # "none"}
    /\ ToSet(envLights) = {s \in ToSet(allLights) : Prim(s).light = "environment"}
    /\ \A j, k \in DOMAIN allLights : j < k => allLights[j] < allLights[k]
    /\ \A j, k \in DOMAIN envLights : j < k => envLights[j] < envLights[k]
    /\ \A k \in DOMAIN geometries :
         Prim(geometries[k]).light = "area" => geometries[k] \in ToSet(allLights)

Transparent == {id0 \in 0 .. Len(geometries)-1 : Prim(geometries[id0 + 1]).transparent}

(* In a scene whose first slots all have shapes, shadow rays pass exactly  *)
(* the geometries with a transparent material.  In others the filter, set  *)
(* by the number of the slot, is that of the wrong geometry or of none.    *)
FiltersOfDenseScenes ==
  pc # "extract" /\ (\A s \in 0 .. Len(geometries)-1 : HasShape(s)) => filters = Transparent
=============================================================================
