SPECIFICATION FairSpec
CONSTANTS
  Limit = 1
  Lookback = 1
  Delays = {0, 1}
  MaxRows = 2
  MaxTime = 3
  MaxFaults = 1
INVARIANTS TypeOK NoDuplicateEvents CursorIsComplete
PROPERTY EventuallyEmitted
CHECK_DEADLOCK FALSE
