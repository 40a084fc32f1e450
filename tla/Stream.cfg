SPECIFICATION FairSpec
CONSTANTS
  Limit = 2
  Resumes = {"header", "since"}
  Polls = {p1, p2}
  Fraction = 3
  MaxWire = 2
  Delays = {0, 1}
  InsertMax = 2
  MaxEvents = 3
  MaxTime = 4
  MaxDrops = 1
  MaxFaults = 1
  p1 = p1
  p2 = p2
INVARIANTS TypeOK ReceivedOnce ReceivedInOrder NoGapsInOrder
PROPERTY EventuallyReceived
CHECK_DEADLOCK FALSE
