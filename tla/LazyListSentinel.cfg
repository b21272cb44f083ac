\* One of the keys is INT_MAX.
SPECIFICATION Spec
CONSTANTS
  Threads = {t1, t2}
  Keys = {1, 3}
  IntMin = 0
  IntMax = 3
  MaxNodes = 2
  None = None
PROPERTIES
  FoundWasThere
