CONSTANTS
  PlainTexts = {TRUE, FALSE}
  Lifetimes <- MCLifetimes
  Longest = 10
  VerifyTimeout = 1
  CheckInterval = 1
  MaxPendingCodes = 1
  Strays = {stray}
  MaxTroubles = 2
SPECIFICATION FairSpec
INVARIANTS
  OneSubscription
  NoMissedCode
PROPERTIES
  OneFailureSurvived
  InForceAgain
CHECK_DEADLOCK FALSE
