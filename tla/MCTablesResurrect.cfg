\* A string let go of is looked up again while a collection is under way.
SPECIFICATION Spec
CONSTANTS
  Text = {t1, t2}
  Variable = {t1}
  N = 4
  ResurrectsWhite = TRUE
  Tomb = Tomb
  NoText = NoText
  t1 = t1
  t2 = t2
CHECK_DEADLOCK FALSE
INVARIANTS
  SkippedAreUnreachable
