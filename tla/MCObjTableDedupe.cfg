\* Objects 1 and 2 are of one type and share cells when equal, and so are 3 and 4,
\* which they refer to; no collection starts while both are and 3 and 4 are equal.
SPECIFICATION TwoTreesSpec
CONSTANTS
  N = 4
  Field = {f}
  Layered = {1, 2}
  Assigned <- TreeAndLoop
  KlassOf <- TwoAndTwo
  ClosureKlass = {}
  EqualReferents = FALSE
  Inherits <- SubOfOther
  InheritsLayers = FALSE
  HoldsInLocals = TRUE
  CollectsAroundLocals = FALSE
  None = None
  Absent = Absent
  Tomb = Tomb
  f = f
  g = g
  k1 = k1
  k2 = k2
  k3 = k3
CHECK_DEADLOCK FALSE
INVARIANTS
  AccessibleIsKept
  ConsolidationPreservesReferences
PROPERTIES
  DroppedOnlyWhenWhiteTwice
