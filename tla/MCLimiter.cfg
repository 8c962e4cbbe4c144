CONSTANTS
  c1 = c1
  c2 = c2
  c3 = c3
  Callers = {c1, c2, c3}
  Limits = {0, 1, 2}
SPECIFICATION FairSpec
INVARIANTS
  SlotsAccounted
  NoIdleSlot
PROPERTIES
  IsSlotPool
  EveryWaiterAnswered
