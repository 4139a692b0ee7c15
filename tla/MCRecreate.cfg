SPECIFICATION Spec
CONSTANT MaxRuns = 4
INVARIANTS
  TypeOK
  NeverTwoUp
  OneThatWorksIsKept
PROPERTY DiesRestored
CHECK_DEADLOCK FALSE
