\* Two threads that call all operations.
SPECIFICATION Spec
CHECK_DEADLOCK FALSE
CONSTANTS
  Threads = {t1, t2}
  None = None
INVARIANTS
  SkipLevelsSorted
PROPERTIES
  SkipLinearizable
  SkipProgress
  
  
