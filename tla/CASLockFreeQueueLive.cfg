\* Thread r does both, and is sure to keep running; e and d may stop anywhere.
SPECIFICATION MCFairSpec
CONSTANTS
  Threads = {r, e, d}
  Enqueuers = {r, e}
  Dequeuers = {r, d}
  Runner = r
  Values = {v1}
  None = None
  MaxNodes = 3
PROPERTIES
  RunnerLockFree
