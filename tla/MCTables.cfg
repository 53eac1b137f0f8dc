\* Two texts, four strings: one text is interned, collected and interned again.
SPECIFICATION Spec
CONSTANTS
  Text = {t1, t2}
  Variable = {t1}
  N = 4
  ResurrectsWhite = FALSE
  Tomb = Tomb
  NoText = NoText
  t1 = t1
  t2 = t2
CHECK_DEADLOCK FALSE
INVARIANTS
  TypeOK
  KeysResolve
  InterningIsUnique
PROPERTIES
  NamesSpec
