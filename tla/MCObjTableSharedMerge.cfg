\* Two instances of one class with two fields: merging C into a shared cell.
SPECIFICATION Spec
CONSTANTS
  N = 3
  Field = {f, g}
  Layered = {1, 2}
  Assigned <- FlatStores
  KlassOf <- TwoOfAKlass
  ClosureKlass = {}
  EqualReferents = TRUE
  Inherits = {}
  InheritsLayers = FALSE
  HoldsInLocals = FALSE
  CollectsAroundLocals = FALSE
  None = None
  Absent = Absent
  Tomb = Tomb
  f = f
  g = g
  k1 = k1
  k2 = k2
  k3 = k3
CHECK_DEADLOCK FALSE
INVARIANTS
  ConsolidationPreservesValues
