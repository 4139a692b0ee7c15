SPECIFICATION Spec
CONSTANTS
  Ids = {"enforce:s1", "dry-run:s1"}
  Window = 3
  Horizon = 8
INVARIANTS
  TypeOK
  RememberedWhileOpen
PROPERTIES
  GrantsAreSpaced
  ImplementsContract
