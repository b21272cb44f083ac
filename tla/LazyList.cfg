\* Three threads on two keys: neighbours are deleted while a third thread walks.
SPECIFICATION Spec
CONSTANTS
  Threads = {t1, t2, t3}
  Keys = {1, 2}
  IntMin = 0
  IntMax = 3
  MaxNodes = 2
  None = None
SYMMETRY Symmetry
INVARIANTS
  IInv
  AssertHolds
PROPERTIES
  Linearizable
