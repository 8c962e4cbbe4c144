CONSTANTS
  Resyncs = {TRUE, FALSE}
  MaxState = 3
  MaxFailures = 2
  MaxOthers = 1
  MaxInbox = 2
SPECIFICATION FairSpec
INVARIANTS
  CaughtUp
PROPERTIES
  IsFollower
  FollowsServer
  EndsWithContext
CHECK_DEADLOCK FALSE
