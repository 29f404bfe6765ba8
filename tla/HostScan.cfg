CONSTANTS
  Scan = {c1, c2}
  MaxScans = 1
  EventLimit = 1
  RetiredLimit = 1
  Batches = 2
SPECIFICATION LiveSpec
INVARIANT ScansExact
PROPERTY ScansEnd
CHECK_DEADLOCK FALSE
