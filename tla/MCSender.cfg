CONSTANTS
  r1 = r1
  r2 = r2
  Requests = {r1, r2}
  Attempts = 2
  MaxToken = 3
  Faults = {"failed", "empty"}
SPECIFICATION FairSpec
INVARIANTS
  OneRevocationSurvived
  CarriedOutOnce
PROPERTIES
  EachTokenFetchedOnce
  EveryRequestEnds
