----------------------------- MODULE IspcScene -----------------------------
(***************************************************************************)
(* The scene of the ISPC device, used by one thread of an application.     *)
(* Unlike the one of the single-ray device it is changed in place:         *)
(* rtSetPrimitive replaces the instance of a slot at once, and the         *)
(* instance takes its light with it; rtCommit collects the lights again,   *)
(* but nothing keeps the application from rendering before.                *)
(***************************************************************************)
EXTENDS Integers, Sequences, SequencesExt, FiniteSets

CONSTANTS
  MaxSlots,       (* bound: the number of slots                             *)
  MaxGeometries,  (* bound: how many numbers the kernel has for geometries  *)
  None            (* a null pointer, an unused entry                        *)

VARIABLES
  instances,            (* of the slots: geometry, light and what it shows   *)
  numInstances,
  allLights, envLights, (* the collected lights, by address                  *)
  geometries,           (* kernel: the geometries of the scene               *)
  handle2id, id2handle, (* geometry to slot, slot to geometry                *)
  changed,              (* ghost: the slots set since the last commit        *)
  lost,                 (* ghost: the slots whose geometry another one's     *)
                        (* entry of id2handle made the kernel delete         *)
  frame,                (* the lights the frame in progress samples          *)
  crashed               (* a null pointer was dereferenced                   *)

vars == <<instances, numInstances, allLights, envLights, geometries, handle2id,
          id2handle, changed, lost, frame, crashed>>
kernelVars == <<geometries, handle2id, id2handle, lost>>
lightVars == <<allLights, envLights>>

Slots == 0 .. MaxSlots-1
IDs == 0 .. MaxGeometries-1
Kinds == {"shape", "area", "point", "environment"}
Addresses == 1 .. MaxSlots + 1

\* The transformed lights that exist: those an instance counts.
Existing == {instances[s].light : s \in {u \in Slots : instances[u] # None}} \ {None}

Init ==
  /\ instances = [s \in Slots |-> None]
  /\ numInstances = 0
  /\ allLights = <<>> /\ envLights = <<>>
  /\ geometries = {}
  /\ handle2id = [g \in IDs |-> None] /\ id2handle = [s \in Slots |-> None]
  /\ changed = {} /\ lost = {}
  /\ frame = None
  /\ crashed = FALSE

\* Mutant of Removed: the geometry of the instance before stays.
RemovedNever(s) == geometries

\* rtcDeleteGeometry for the slot, if it had an instance: one without a shape
\* too, whose number is the one of an earlier instance, or none.
Removed(s) == IF instances[s] = None THEN geometries ELSE geometries \ {id2handle[s]}

\* The slot whose geometry Removed takes instead, when the kernel has given it
\* the number of an earlier geometry of s.
Robbed(s) ==
  {u \in Slots \ {s} : /\ instances[s] # None
                       /\ id2handle[s] \in geometries
                       /\ handle2id[id2handle[s]] = u}

\* Kernel: a new geometry gets a number that no other one has; that of a
\* deleted geometry may be given again.
Numbers(s) == IDs \ Removed(s)

\* Area lights have a shape, point and environment lights have none.
HasShape(k) == k \in {"shape", "area"}

\* The tables, for the slot s whose shape got the number g.
HandleTables(s, g) ==
  /\ handle2id' = [handle2id EXCEPT ![g] = s]
  /\ id2handle' = [id2handle EXCEPT ![s] = g]

\* The number of slots that were ever set.
Grown(s) == IF s + 1 > numInstances THEN s + 1 ELSE numInstances

\* Scene__set
Set(s, k, g, a) ==
  /\ instances' = [instances EXCEPT ![s] =
       [geometry |-> g, light |-> a, kind |-> k]]
  /\ geometries' = Removed(s) \cup ({g} \ {None})
  /\ lost' = (lost \ {s}) \cup Robbed(s)
  /\ IF g = None THEN UNCHANGED <<handle2id, id2handle>> ELSE HandleTables(s, g)
  /\ numInstances' = Grown(s)
  /\ changed' = changed \cup {s}

\* rtSetPrimitive; the transformed light is a new object, wherever there is
\* memory.  A primitive with neither shape nor light throws before any of this.
SetPrimitive(s, k) ==
  /\ ~crashed /\ frame = None
  /\ \E g \in IF HasShape(k) THEN Numbers(s) ELSE {None} :
       \E a \in IF k = "shape" THEN {None} ELSE Addresses \ Existing : Set(s, k, g, a)
  /\ UNCHANGED <<lightVars, frame, crashed>>

\* set(slot,NULL) empties the slot and goes on with the null primitive.
SetNullPrimitive(s) ==
  /\ ~crashed /\ frame = None
  /\ instances' = [instances EXCEPT ![s] = None]
  /\ geometries' = Removed(s)
  /\ lost' = (lost \ {s}) \cup Robbed(s)
  /\ numInstances' = Grown(s)
  /\ changed' = changed \cup {s}
  /\ crashed' = TRUE
  /\ UNCHANGED <<lightVars, handle2id, id2handle, frame>>

\* Mutant of Emptied: the arrays are not emptied first.
EmptiedNever == allLights

\* numAllLights = numEnvLights = 0
Emptied == <<>>

HasLight(s) == instances[s] # None /\ instances[s].light # None

\* The lights of those instances that are in S, as the loop collects them.
Collected(S) ==
  LET After[k \in 0 .. numInstances] ==
        IF k = 0 THEN Emptied
        ELSE IF k-1 \in S THEN Append(After[k-1], instances[k-1].light) ELSE After[k-1]
  IN After[numInstances]

\* Scene__commit
CommitScene ==
  /\ ~crashed /\ frame = None
  /\ allLights' = Collected({s \in Slots : HasLight(s)})
  /\ envLights' = Collected({s \in Slots : HasLight(s) /\ instances[s].kind = "environment"})
  /\ changed' = {}
  /\ UNCHANGED <<instances, numInstances, kernelVars, frame, crashed>>

\* rtRenderFrame, which returns when the frame is done; in a scene that was
\* changed since its commit allLights is that of the commit.
RenderFrame ==
  /\ ~crashed /\ frame = None
  /\ frame' = allLights
  /\ UNCHANGED <<instances, numInstances, lightVars, kernelVars, changed, crashed>>

FinishFrame ==
  /\ frame # None
  /\ frame' = None
  /\ UNCHANGED <<instances, numInstances, lightVars, kernelVars, changed, crashed>>

Next ==
  \/ \E s \in Slots : SetNullPrimitive(s) \/ \E k \in Kinds : SetPrimitive(s, k)
  \/ CommitScene
  \/ RenderFrame
  \/ FinishFrame

Spec == Init /\ [][Next]_vars

(***************************************************************************)
(* Properties.                                                             *)
(***************************************************************************)
(* Types; the number of instances bounds the slots in use, and the lights  *)
(* of the environment are among the collected ones.                        *)
TypeOK ==
  /\ \A s \in Slots : instances[s] # None =>
       /\ instances[s].geometry \in IDs \cup {None}
       /\ instances[s].light \in Addresses \cup {None}
       /\ s < numInstances
  /\ numInstances \in 0 .. MaxSlots
  /\ Len(allLights) <= MaxSlots
  /\ ToSet(envLights) \subseteq ToSet(allLights)
  /\ geometries \subseteq IDs
  /\ changed \subseteq Slots /\ lost \subseteq Slots

(* A ray that hits a geometry is shaded by the instance it was made for,   *)
(* committed or not: the tables that map geometries to slots and back, of  *)
(* which no entry is ever cleared, lead to the instance in use, although   *)
(* the kernel gives numbers again.  Every shape of the scene can be hit,   *)
(* but those of the slots whose geometry was deleted instead of the one    *)
(* of a slot that had no shape when it was set; no other slot is touched,  *)
(* and such a slot is as before when it is set again.                      *)
HitFindsInstance ==
  /\ \A g \in geometries :
       instances[handle2id[g]] # None /\ instances[handle2id[g]].geometry = g
  /\ \A s \in Slots \ lost : instances[s] # None /\ instances[s].geometry # None =>
       /\ instances[s].geometry \in geometries
       /\ handle2id[instances[s].geometry] = s

(* A frame samples no light twice, and those of all slots that were not    *)
(* set since the commit; after a commit, it samples no others.             *)
FrameLightsAreCurrent ==
  frame # None =>
    /\ Len(frame) = Cardinality(ToSet(frame))
    /\ \A s \in Slots \ changed : HasLight(s) => instances[s].light \in ToSet(frame)
    /\ changed = {} => ToSet(frame) \subseteq Existing

(* The objects a frame uses are those that were committed, whatever was    *)
(* set since then.  A light of the scene may have been deleted.            *)
FrameLightsExist == frame # None => ToSet(frame) \subseteq Existing
=============================================================================
