\* Cyclic references, and two fields: layers of one object that overlap, mask and
\* complete each other.
SPECIFICATION Spec
CONSTANTS
  N = 2
  Field = {f, g}
  Layered = {1}
  Assigned <- CyclicWithSecondField
  KlassOf <- DistinctKlasses
  ClosureKlass = {}
  EqualReferents = FALSE
  Inherits = {}
  InheritsLayers = FALSE
  HoldsInLocals = FALSE
  CollectsAroundLocals = FALSE
  None = None
  Absent = Absent
  Tomb = Tomb
  f = f
  g = g
  k1 = k1
  k2 = k2
  k3 = k3
CHECK_DEADLOCK FALSE
INVARIANTS
  TypeOK
  LayersWellFormed
  AccessibleIsKept
  GrayResolves
  ConsolidationPreservesValues
PROPERTIES
  HeapSpec
  CollectionCompletes
