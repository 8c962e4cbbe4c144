SPECIFICATION Spec
CONSTANTS
  Texts <- MCTexts
  Schemas <- MCSchemas
  Alike <- MCAlike
  Malformed <- MCMalformed
  Files <- DeclaredFiles
  Sessions <- MCSessions
INVARIANT DeclaredOnce
CHECK_DEADLOCK FALSE
