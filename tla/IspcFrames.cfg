\* Two slots, whose kernel has two numbers for geometries.
CONSTANTS
  MaxSlots = 2
  MaxGeometries = 2
  None = None
SPECIFICATION Spec
INVARIANT FrameLightsExist
CHECK_DEADLOCK FALSE
