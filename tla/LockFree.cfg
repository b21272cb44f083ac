\* Two threads that call the operations; three enqueues, two adds.
SPECIFICATION AllSpec
CHECK_DEADLOCK FALSE
CONSTANTS
  Threads = {t1, t2}
  Values = {v1, v2}
  None = None
  MaxNodes = 5
SYMMETRY Symmetry
INVARIANTS
  PointersAdjacent
  
  SkipLevelsSorted
  ListNodesAccounted
  
PROPERTIES
  Linearizable
