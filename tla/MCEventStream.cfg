CONSTANTS
  Pings = {0, 1}
  Kinds = {"state", "late", "bare", "bad", "other", "keep"}
  Intervals = {0, 2}
  MaxInterval = 2
  MaxEvents = 3
  MaxPings = 1
  MaxStreams = 2
  MaxWire = 4
SPECIFICATION FairSpec
INVARIANTS
  NothingSkipped
  NoGap
PROPERTIES
  LostStreamNoticed
CHECK_DEADLOCK FALSE
