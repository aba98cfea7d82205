\* A texture, a material, a mesh and a primitive, a scene of two slots, five calls
\* that are not commits.
SPECIFICATION Spec
CONSTANTS
  Textures = {t1}
  Materials = {m1}
  Meshes = {s1}
  Prims = {p1}
  Values = {v1}
  Bad = Bad
  Turns = 2
  MaxSlots = 2
  MaxObjects = 6
  MaxCalls = 5
  None = None
INVARIANTS
  UnmodifiedIsCurrent
PROPERTIES
  ImplementsApi
\* A null primitive stops the device.
CHECK_DEADLOCK FALSE
