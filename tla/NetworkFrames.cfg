\* Two servers, one swap chain of three buffers, six calls; frames of up to 18
\* lines and 4 pixels, in every format and encoding, from up to three servers with
\* up to three cards each.
CONSTANTS
  NumServers = 2
  Kinds = {"framebuffer"}
  Depth = 3
  Width = 16
  CanPick = FALSE
  CanFail = FALSE
  MaxHandles = 1
  MaxCalls = 6
  None = None
  MaxHeight = 18
  MaxWidth = 4
  MaxServers = 3
  MaxDevices = 3
  Missing = Missing
SPECIFICATION FramesSpec
INVARIANTS
  PacketConsumed
  LinesAreShared
  FrameRestored
PROPERTIES
  ShowsLocalImage
  CallsReturn
