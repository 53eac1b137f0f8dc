\* The ring is resized while the GC thread condenses the frames in it.
SPECIFICATION Spec
CONSTANTS
  f = f
  Function = {f}
  Offset <- ZeroToOne
  FRAMES_MAX = 3
  MaxEpoch = 2
  MaxRing = 2
  None = None
  Wild = Wild
  ResizesWhileCondensing = TRUE
CHECK_DEADLOCK FALSE
INVARIANTS
  CondensedFramesHoldPointers
