\* Single-ray scenes of up to four slots; ISPC scenes of two slots, whose
\* kernel has three numbers for geometries.
CONSTANTS
  MaxSlots = 4
  MaxIspcSlots = 2
  MaxGeometries = 3
  None = None
SPECIFICATION ScenesSpec
INVARIANTS
  HitsAreResolved
  LightsAreSampled
  FiltersOfDenseScenes
\* The ISPC device stops when it is given a null primitive.
CHECK_DEADLOCK FALSE
