\* Two servers, two handles for objects and swap chains, five calls, picks among
\* them; commands may throw, after which the client waits for good, as it does
\* after a pick.
CONSTANTS
  NumServers = 2
  Kinds = {"object", "framebuffer"}
  Depth = 1
  Width = 16
  CanPick = TRUE
  CanFail = TRUE
  MaxHandles = 2
  MaxCalls = 5
  None = None
SPECIFICATION Spec
INVARIANTS
  HandlesMeanTheSame
  ServersMirrorClient
  DestructorReleasesAll
CHECK_DEADLOCK FALSE
