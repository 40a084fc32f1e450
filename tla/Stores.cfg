SPECIFICATION MCSpec
CONSTANTS
  KeyIds = {k1, k2}
  Requests = {r1, r2}
  CliSecret = cli
  NoSecret = NoSecret
  Serialised = TRUE
  MaxFaults = 1
  Names = {a, b}
  Projects = {p}
  Cwd = p
  Slots = {q1, q2}
  NoFile = NoFile
  NoJob = NoJob
  MaxRequests = 3
  MaxEdits = 1
  MaxFailures = 1
  AdapterLimit = 1
  Lookback = 2
  CommitDelays = {0}
  MaxRows = 1
  AdapterFaults = 1
  StreamLimit = 2
  Resumes = {"header", "since"}
  Polls = {poll1}
  InsertDelays = {0, 1, 2}
  InsertMax = 1
  MaxEvents = 8
  MaxWire = 2
  MaxDrops = 1
  StreamFaults = 0
  MaxTime = 2
  q1 = q1
  q2 = q2
  a = a
  b = b
INVARIANTS TypeOK BoundIsRegistered RowShownOnce
PROPERTIES
  RegistrySpec
  CreatedTokenIsRegistered
  OnlyDeleteRemoves
  NoBindingLeftBehind
  EditsAreKept
  StreamSpec
SYMMETRY Alike
CHECK_DEADLOCK FALSE
