\* Two workers, two callers, two tiles, a swap chain of two buffers and up to
\* three frames.
CONSTANTS
  Workers = {w1, w2}
  Callers = {c1, c2}
  NumTiles = 2
  Depth = 2
  MaxFrames = 3
  Nobody = Nobody
  Unfinished = Unfinished
SPECIFICATION Spec
INVARIANTS
  NoTornFrame
  ExposureExact
  JobOutlivesWorkers
PROPERTIES
  ImplementsFrameService
  CallsReturn
