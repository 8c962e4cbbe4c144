CONSTANTS
  Requests <- MCRequests
  Sessions <- MCSessions
  Records = {1, 2, 3}
  MaxChanges = 1
  MaxSessions = 1
SPECIFICATION Spec
INVARIANTS
  OneSnapshot
  EveryIdAnswered
  NeverTooLarge
CHECK_DEADLOCK FALSE
