SPECIFICATION Spec
CONSTANT MaxRuns = 1
PROPERTY RollsBackOnFailure
CHECK_DEADLOCK FALSE
