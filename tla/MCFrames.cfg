\* Three calls deep, so that C, B and A may hold a frame each.
SPECIFICATION Spec
CONSTANTS
  f = f
  Function = {f}
  Offset <- ZeroToOne
  FRAMES_MAX = 3
  MaxEpoch = 2
  MaxRing = 2
  None = None
  Wild = Wild
  ResizesWhileCondensing = FALSE
CHECK_DEADLOCK FALSE
INVARIANTS
  TypeOK
  CurrentFrameIsMutable
  CurrentPointersAreFresh
PROPERTIES
  CallStackSpec
