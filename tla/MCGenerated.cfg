SPECIFICATION Spec
CONSTANTS
  Languages = {"go", "ts", "rust"}
  Options <- MCOptions
  Requests <- MCRequests
  Sessions <- MCSessions
  Starts <- MCStarts
  Total = 3
  MaxState = 2
  MaxSessions = 1
  MaxWalks = 2
INVARIANTS SuccessIsWhole VerifyTells WalkCovers
CHECK_DEADLOCK FALSE
