\* Two threads that call both operations, three enqueues.
SPECIFICATION MCSpec
CONSTANTS
  Threads = {t1, t2}
  Enqueuers = {t1, t2}
  Dequeuers = {t1, t2}
  Runner = t1
  Values = {v1, v2}
  None = None
  MaxNodes = 4
SYMMETRY MCSymmetry
INVARIANTS
  IInv
  HeadBehindTail
  NoNullDereference
PROPERTIES
  Linearizable
  EndsFollowLinks
