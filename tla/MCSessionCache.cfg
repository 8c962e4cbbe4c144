CONSTANTS
  c1 = c1
  c2 = c2
  Callers = {c1, c2}
  MaxVersion = 3
  Stateless = {2}
  Refresh = TRUE
SPECIFICATION FairSpec
INVARIANTS
  OnlyOwnContextEnds
  NeverOlderThanHeld
PROPERTIES
  EveryCallReturns
  ComesUpToDate
