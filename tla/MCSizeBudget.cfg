\* Keys of four bits, one at the first level and two at every other: the last
\* level has bits left over.  1 and 9 part at the last level only.
SPECIFICATION Spec
CONSTANTS
  FirstLevelBits = 1
  LevelBits = 2
  KeyBits = 4
  Key <- ThreeKeys
  MaxAddl = 3
  DropsWhileAdding = FALSE
CHECK_DEADLOCK FALSE
INVARIANTS
  TypeOK
  LayoutIsCanonical
  BudgetCoversMerge
  ModificationFits
  CompareIsAnOrder
