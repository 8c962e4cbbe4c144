CONSTANTS
  r1 = r1
  r2 = r2
  Requests = {r1, r2}
  Attempts = 1
  MaxToken = 2
  Faults = {}
SPECIFICATION Spec
INVARIANTS
  EmptyOnlyWhereEmpty
