\* Upvalues open in a frozen region are assigned.
SPECIFICATION Spec
CONSTANTS
  Value = {v1, v2}
  None = None
  MaxDepth = 4
  MaxFrames = 3
  FrozenUpvalues = TRUE
CHECK_DEADLOCK FALSE
INVARIANTS
  CondensedIsCurrent
