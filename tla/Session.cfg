SPECIFICATION Spec
CONSTANTS
  Tabs = {t1, t2}
  Browsers = {b1, b2}
  MaxEvents = 3
  MaxCodeAttempts = 1
SYMMETRY Symmetry
CHECK_DEADLOCK FALSE
INVARIANTS
  TypeOK
  OneLivePerLogin
  CodeUsedOnce
