------------------------------ MODULE MCScenes ------------------------------
(* A scene of the single-ray device, which is built anew by every commit, or *)
(* one of the ISPC device, which is changed in place.  Both give geometries  *)
(* to the kernel, which numbers them, and both must lead a hit back to the   *)
(* primitive of the right slot and find all lights.                          *)
EXTENDS SceneFlat

CONSTANTS
  MaxIspcSlots,   (* bound: the number of slots of the ISPC scene           *)
  MaxGeometries   (* bound: how many numbers its kernel has for geometries  *)

(* A null pointer is not an instance, and no number of the kernel.           *)
ASSUME ScenesAssumption ==
  /\ MaxIspcSlots \in Nat /\ MaxGeometries \in Nat
  /\ None \notin [geometry : {None} \cup 0 .. MaxGeometries-1,
                  light : {None} \cup 1 .. MaxIspcSlots + 1,
                  kind : {"shape", "area", "point", "environment"}]

VARIABLES
  device,         (* the device of the scene                                *)
  instances, numInstances, ispcLights, ispcEnvLights, kernelGeometries,
  handle2id, id2handle, changed, lost, frame, crashed

ispcVars == <<instances, numInstances, ispcLights, ispcEnvLights, kernelGeometries,
              handle2id, id2handle, changed, lost, frame, crashed>>

I == INSTANCE IspcScene WITH
       MaxSlots <- MaxIspcSlots, allLights <- ispcLights, envLights <- ispcEnvLights,
       geometries <- kernelGeometries

ScenesInit ==
  /\ device \in {"singleray", "ispc"}
  /\ Init /\ (device = "ispc" => prims = <<>>)
  /\ I!Init

ScenesNext ==
  \/ device = "singleray" /\ Next /\ UNCHANGED <<device, ispcVars>>
  \/ device = "ispc" /\ I!Next /\ UNCHANGED <<device, vars>>

ScenesSpec == ScenesInit /\ [][ScenesNext]_<<device, vars, ispcVars>>

(* A hit of a geometry is shaded by the primitive it was made for, in the  *)
(* scenes of both devices.  No shape of an ISPC scene is missing, unless   *)
(* its geometry was deleted through the entry of another slot.             *)
HitsAreResolved == HitFindsPrimitive /\ I!HitFindsInstance

(* The lights a frame samples are those of the primitives in the scene,    *)
(* each of them once, on both devices; on the ISPC device, as far as the   *)
(* scene was committed.                                                    *)
LightsAreSampled ==
  TypeOK /\ I!TypeOK /\ LightsAreComplete /\ I!FrameLightsAreCurrent
=============================================================================
