\* A worker alone with three items, two workers with three items each, three with one.
SPECIFICATION FairSpec
CONSTANTS
  Options <- MCOptions
  MaxEnqFailures = 2
  Garbage = {0, 2}
  None = None
INVARIANTS
  
  ErrorsBalance
  VerdictOK
  NoUseAfterFree
PROPERTIES
  Terminates
