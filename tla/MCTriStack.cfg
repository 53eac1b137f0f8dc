\* Two values to tell apart, in a stack of four with up to three frames.
SPECIFICATION Spec
CONSTANTS
  Value = {v1, v2}
  None = None
  MaxDepth = 4
  MaxFrames = 3
  FrozenUpvalues = FALSE
SYMMETRY Values
CHECK_DEADLOCK FALSE
INVARIANTS
  TypeOK
  StackWellFormed
  SlotsAreCurrent
  CondensedIsComplete
  CondensedIsCurrent
PROPERTIES
  StackSpec
