\* Objects 1 and 2 refer to objects that are equal: a live object and the cell of one
\* that is not.
SPECIFICATION Spec
CONSTANTS
  N = 4
  Field = {f}
  Layered = {1, 2}
  Assigned <- Nested
  KlassOf <- TwoAndTwo
  ClosureKlass = {}
  EqualReferents = TRUE
  Inherits = {}
  InheritsLayers = FALSE
  HoldsInLocals = FALSE
  CollectsAroundLocals = FALSE
  None = None
  Absent = Absent
  Tomb = Tomb
  f = f
  g = g
  k1 = k1
  k2 = k2
  k3 = k3
CHECK_DEADLOCK FALSE
INVARIANTS
  AccessibleIsKept
