\* Two threads on two keys, three adds.
SPECIFICATION Spec
CHECK_DEADLOCK FALSE
CONSTANTS
  Threads = {t1, t2}
  Keys = {1, 2}
  MinKey = 0
  MaxKey = 3
  MaxNodes = 3
  None = None
INVARIANTS
  AssertHolds
