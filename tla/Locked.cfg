\* One structure at a time; a process that has read through a null pointer stops.
\* Two threads in the fine-grained list, a node of which may be reused as soon as
\* it is freed.
SPECIFICATION AllSpec
CHECK_DEADLOCK FALSE
CONSTANTS
  Threads = {t1, t2}
  Keys = {1, 2}
  Heap = {n1, n2}
  Head = head
  Tail = tail
  NULL = NULL
  None = None
INVARIANTS
  IInv
  NoUseAfterFree
  SkipLevelsNested
  
  OpenRoomLeft
  CuckooInPlace
PROPERTIES
  Linearizable
  EnteredReturns
  CoarseIsSet
  SkipIsSet
  
  OpenIsBag
  CuckooIsSet
