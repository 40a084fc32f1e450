SPECIFICATION MCSpec
CONSTANTS
  Procs = {p1, p2}
  NoProc = NoProc
  StartCalls = {a1, a2}
  StopCalls = {t1}
  RestartCalls = {r1}
  MaxEnds = 1
  p1 = p1
  p2 = p2
  a1 = a1
  a2 = a2
  t1 = t1
  r1 = r1
  Jobs = {"j1", "j2"}
  JOB_STORE_MAX = 1
  Slots = {1, 2}
  MaxSends = 3
  Provs = {"p1"}
  Reqs = {1, 2}
  MaxWrites = 2
  MaxTime = 2
  MAX_EVENTS_IN_DOM = 1
  MAX_PAUSE_BUFFER = 2
  MaxEvents = 3
  MaxModes = 1
  Count = 2
  MaxActions = 1
  MaxChanges = 1
  Insts = {"i1", "i2"}
  FirstInst = "i1"
  RoutedProvs = {"openai"}
  Claude = "claude"
  Legacy = "anthropic"
  NoProv = "none"
  Detected = "openai"
  Models = {"m"}
  EnvFiles <- OneFile
  EnvNames = {"openai", "claude", "anthropic", "none", "m", "x"}
  MaxSteps = 2
  MaxChain = 2
  FormNames = {"n1", "n2"}
  Similar = {{"n1", "n2"}}
  FirstName = "n1"
  StartPort = 3001
  FirstProvider = "null"
  FormPorts = {3002}
  FormProvs = {"claude", "mock"}
  Paths = {"p"}
  MaxSubmits = 2
  FormChanges = 1
  Tabs = {"t1"}
  MaxActs = 3
  ArchiveInsts = {"i1", "i2"}
  Bound = "i1"
  ArchiveMoves = 3
  Ids = {"a"}
  SessionTabs = {"all", "interrupted"}
  SessionChanges = 2
  AutoPorts = {1}
  OtherPort = 3
  NoPort = 0
  Srvs = {"s1", "s2"}
  Cmds = {"c1", "c2"}
  Nobody = "nobody"
  Commands = {"start", "stop"}
  Changing = {"pepper", "database"}
  SetupMoves = 2
  ShellTabs = {"t1", "t2"}
  FirstTab = "t1"
  Fields = {"theme", "landingPage"}
  MaxToasts = 2
  MaxPolls = 2
  MaxMoves = 3
  Escalations = {"e1", "e2"}
  MaxResolves = 1
  Documents <- SomeDocuments
  MaxEdits = 1
  MaxRepairs = 2
  ProbedInsts = {"i1", "i2"}
  MaxRuns = 2
  MaxSelects = 2
  Urls = {"url"}
  Remote = {"openai"}
  Ollama = "ollama"
  NoValue = "none"
  ScriptRuns = 2
  Navs <- SomeNavs
  Queries = {"he", "zz"}
  Hits <- SomeHits
  GoRoutes <- SomeRoutes
INVARIANTS
  TypeOK
  TrackedWasConfirmed
  StopSignalsAll
  AnswersFindTheirRequest
  ListsAreWhole
  PollsWhatItShows
  NothingLost
  HistoryIsTrue
  
  RepairsHelp
PROPERTIES
  ConflictMeansRunning
  NothingIsUndone
CHECK_DEADLOCK FALSE
