SPECIFICATION Spec
CONSTANTS
  Texts = {"first", "second"}
  MaxEdits = 2
INVARIANT TypeOK
PROPERTIES
  ServesTheFile
  LateFileIsKept
