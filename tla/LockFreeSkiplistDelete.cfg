\* Two threads on two keys, three adds, one level.
SPECIFICATION Spec
CHECK_DEADLOCK FALSE
CONSTANTS
  Threads = {t1, t2}
  Keys = {1, 2}
  min = 0
  max = 3
  maxLevel = 1
  MaxNodes = 3
  None = None
PROPERTIES
  DeleteFindsItsKey
