SPECIFICATION Spec
CONSTANTS
  Environments <- MCEnvironments
  Tokens = {t1, t2}
  Items = {"item"}
  WarnInterval = 1
SYMMETRY TokenSymmetry
INVARIANTS
  LogIsCurrent
  NoTokenIsLogged
  WarnedOnce
  RunsAsConfigured
  DisabledOnlyWhenUnworkable
  NotRetried
