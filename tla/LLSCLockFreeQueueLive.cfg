\* Two threads, both kept running, one enqueue.
SPECIFICATION FairSpec
CONSTANTS
  Threads = {t1, t2}
  Values = {v1}
  None = None
  MaxNodes = 3
PROPERTIES
  LockFree
