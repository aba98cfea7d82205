\* Two cards, two handles for objects, primitives, images, data of two chunks and
\* swap chains of two buffers, five calls.
CONSTANTS
  NumDevices = 2
  Depth = 2
  NumChunks = 2
  Kinds = {"object", "data", "image", "primitive", "framebuffer"}
  MaxHandles = 2
  MaxCalls = 5
  None = None
SPECIFICATION Spec
INVARIANTS
  ShowsLocalImage
  HandlesMeanTheSame
  DataArrives
PROPERTIES
  CallsReturn
