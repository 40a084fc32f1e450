SPECIFICATION FairSpec
CONSTANTS
  Limit = 2
  Resumes = {"header", "since"}
  Polls = {p1}
  Fraction = 2
  MaxWire = 2
  Delays = {0}
  InsertMax = 1
  MaxEvents = 2
  MaxTime = 3
  MaxDrops = 1
  MaxFaults = 1
  p1 = p1
PROPERTY Reconnects
CHECK_DEADLOCK FALSE
