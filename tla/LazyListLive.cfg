\* Every interleaving of two threads, each of which may stop.
SPECIFICATION FairSpec
CONSTANTS
  Threads = {t1, t2}
  Keys = {1, 2}
  IntMin = 0
  IntMax = 3
  MaxNodes = 2
  None = None
PROPERTIES
  Progress
  FindIsWaitFree
