SPECIFICATION Spec
CONSTANTS
  Texts <- MCTexts
  Schemas <- MCSchemas
  Alike <- MCAlike
  Malformed <- MCMalformed
  Files <- MCFiles
  Sessions <- MCSessions
INVARIANTS
  ReferencesResolve
  BuiltIsAccepted
  RepeatsAnswerTheSame
  RefusedOnlyUnseen
  AcceptedIsDescribed
  AnswersFit
  SameRequest
PROPERTIES
  ExtensionHolds
  SchemaOrderFree
CHECK_DEADLOCK FALSE
