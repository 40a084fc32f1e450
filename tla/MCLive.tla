------------------------------- MODULE MCLive -------------------------------
(***************************************************************************)
(* What must happen in the end, on small instances: decisions about a fact *)
(* (FactReview), the mirror of the fleet's ledgers (FleetLedger), starts   *)
(* of instances (Lifecycle) and the requests of the pages of the web       *)
(* client and of the command line.  A behaviour works on one part, named   *)
(* by page; the others stay as they begin.  The pages share the slots s1,  *)
(* s2, ... for their variables; those a page does not use are zero.        *)
(***************************************************************************)
EXTENDS FactReview, Integers, Sequences

VARIABLES page,
          remote, mirror, watermark, cycle, running, ledgerFaults,
          windows, status, killed, signals, runtime, tracked, place, child,
          entry, found, ends,
          s1, s2, s3, s4, s5, s6, s7, s8, s9, s10, s11, s12, s13, s14, s15

fleet == <<remote, mirror, watermark, cycle, running, ledgerFaults>>
procs == <<windows, status, killed, signals, runtime, tracked, place, child, entry, found, ends>>
slots == <<s1, s2, s3, s4, s5, s6, s7, s8, s9, s10, s11, s12, s13, s14, s15>>
everything == <<page, vars, fleet, procs, slots>>

-----------------------------------------------------------------------------
Fleet == INSTANCE FleetLedger WITH
  Instances <- {1, 2}, Cycles <- {1, 2}, Limit <- 1, MaxEvents <- 1, Steps <- {1},
  MaxFaults <- 1, faults <- ledgerFaults

Cycle == INSTANCE Lifecycle WITH
  Procs <- {"p1", "p2"}, NoProc <- "none",
  StartCalls <- {1, 2}, StopCalls <- {3}, RestartCalls <- {}, MaxEnds <- 0, pc <- place

Upgrades == INSTANCE UpgradeJobs WITH
  Jobs <- {"j1", "j2"}, JOB_STORE_MAX <- 1, Slots <- {1},
  jobStore <- s1, status <- s2, phase <- s3, pollRef <- s4, timers <- s5,
  mounted <- s6, posts <- s7, polls <- s8

ChatPage == INSTANCE Chat WITH
  MaxSends <- 2,
  messages <- s1, asked <- s2, current <- s3, sessionId <- s4, req <- s5,
  inFlight <- s6, cancelling <- s7

Keys == INSTANCE Providers WITH
  Provs <- {"p1"}, Reqs <- {1, 2}, MaxWrites <- 1,
  keys <- s1, written <- s2, reach <- s3, quota <- s4, gets <- s5,
  shown <- s6, overtaken <- s7

Repairs == INSTANCE Repair WITH
  Documents <- {<<"text">>, <<"start", "text", "end">>}, MaxEdits <- 1, MaxRepairs <- 2,
  md <- s1, servers <- s2, edits <- s3, doctor <- s4, offered <- s5,
  loading <- s6, repairs <- s7, settled <- s8, scaffold <- s9

HealthPage == INSTANCE Health WITH
  MaxFaults <- 2, MaxChanges <- 1,
  faults <- s1, changes <- s2, run <- s3, data <- s4

Probes == INSTANCE Diagnostics WITH
  Insts <- {"i1", "i2"}, MaxRuns <- 2, MaxSelects <- 1,
  active <- s1, selects <- s2, captured <- s3, running <- s4, fetching <- s5,
  lastRun <- s6, result <- s7, runs <- s8, fact <- s9, last <- s10

SessionsPage == INSTANCE Sessions WITH
  Ids <- {"a"}, Tabs <- {"all", "interrupted"}, MaxChanges <- 1,
  state <- s1, changes <- s2, tab <- s3, lists <- s4, fetches <- s5,
  action <- s6, acted <- s7, actedOn <- s8

Launch == INSTANCE Launcher WITH
  AutoPorts <- {1}, OtherPort <- 3, NoPort <- 0, Srvs <- {1, 2}, Cmds <- {3, 4}, Tabs <- {5},
  Nobody <- 0, Commands <- {"start", "stop"},
  defaultPort <- s1, taken <- s2, srv <- s3, cmd <- s4, found <- s5,
  kept <- s6, child <- s7, launched <- s8, tab <- s9

Listed == INSTANCE InstancesPage WITH
  Count <- 1, MaxActions <- 1, MaxChanges <- 1,
  exists <- s1, up <- s2, own <- s3, others <- s4, acted <- s5, list <- s6,
  listReq <- s7, broken <- s8, route <- s9, local <- s10, question <- s11,
  typed <- s12, reqs <- s13, timers <- s14, due <- s15

Checklist == INSTANCE Onboarding WITH
  Changing <- {"pepper", "database"}, MaxMoves <- 2,
  facts <- s1, moves <- s2, repaired <- s3, get <- s4, posts <- s5,
  loading <- s6, shown <- s7, owed <- s8

-----------------------------------------------------------------------------
\* The slots from the n-th on are not used.
Unused11 == s11 = 0 /\ s12 = 0 /\ s13 = 0 /\ s14 = 0 /\ s15 = 0
Unused10 == s10 = 0 /\ Unused11
Unused9 == s9 = 0 /\ Unused10
Unused8 == s8 = 0 /\ Unused9
Unused5 == s5 = 0 /\ s6 = 0 /\ s7 = 0 /\ Unused8
Unused1 == s1 = 0 /\ s2 = 0 /\ s3 = 0 /\ s4 = 0 /\ Unused5
\* They stay so.
Kept11 == UNCHANGED <<s11, s12, s13, s14, s15>>
Kept10 == UNCHANGED <<s10, s11, s12, s13, s14, s15>>
Kept9 == UNCHANGED <<s9, s10, s11, s12, s13, s14, s15>>
Kept8 == UNCHANGED <<s8, s9, s10, s11, s12, s13, s14, s15>>
Kept5 == UNCHANGED <<s5, s6, s7, s8, s9, s10, s11, s12, s13, s14, s15>>

(* One initial state of a part that a behaviour leaves alone. *)
FactAtRest ==
  /\ Init /\ kb = Existing /\ flags = {} /\ tableKnown
  /\ resolution = [a \in Archived |-> "none"]
  /\ validUntil = [a \in Archived |-> "none"]
  /\ choice = [r \in Resolves |-> "custom"]
\* Only an acceptance reads the validUntil of the rows.
FactInit ==
  Init /\ (choice[3] # "accept_challenger" => validUntil = [a \in Archived |-> "none"])
ProcsAtRest == Cycle!Init /\ windows = FALSE

PageInit ==
  \/ page = "upgrade" /\ Upgrades!Init /\ Unused9
  \/ page = "chat" /\ ChatPage!Init /\ Unused8
  \/ page = "providers" /\ Keys!Init /\ Unused8
  \/ page = "repair" /\ Repairs!Init /\ Unused10
  \/ page = "health" /\ HealthPage!Init /\ Unused5
  \/ page = "diagnostics" /\ Probes!Init /\ Unused11
  \/ page = "sessions" /\ SessionsPage!Init /\ Unused9
  \/ page = "launcher" /\ Launch!Init /\ Unused10
  \/ page = "instances" /\ Listed!Init
  \/ page = "onboarding" /\ Checklist!Init /\ Unused9

\* A bound: the first command of the command line is a start, the second a stop.
OneEach == s4'[3].what # "stop" /\ s4'[4].what # "start"

PageNext ==
  \/ page = "upgrade" /\ Upgrades!Next /\ Kept9
  \/ page = "chat" /\ ChatPage!Next /\ Kept8
  \/ page = "providers" /\ Keys!Next /\ Kept8
  \/ page = "repair" /\ Repairs!Next /\ Kept10
  \/ page = "health" /\ HealthPage!Next /\ Kept5
  \/ page = "diagnostics" /\ Probes!Next /\ Kept11
  \/ page = "sessions" /\ SessionsPage!Next /\ Kept9
  \/ page = "launcher" /\ Launch!Next /\ OneEach /\ Kept10
  \/ page = "instances" /\ Listed!Next
  \/ page = "onboarding" /\ Checklist!Next /\ Kept9

MCInit ==
  \/ page = "fact" /\ FactInit /\ Fleet!Init /\ ProcsAtRest /\ Unused1
  \/ page = "fleet" /\ FactAtRest /\ Fleet!Init /\ ProcsAtRest /\ Unused1
  \/ page = "processes" /\ FactAtRest /\ Fleet!Init /\ Cycle!Init /\ Unused1
  \/ PageInit /\ FactAtRest /\ Fleet!Init /\ ProcsAtRest

\* A bound: one of the two instances records, and once.
OneEvent == Fleet!Events(1)' = {} \/ Fleet!Events(2)' = {}

\* A bound: Iranti writes the fact before the second restore or not at all.
WritesFirst == writes' = 0 \/ pc'[2] = "idle"

MCNext ==
  \/ page = "fact" /\ Next /\ WritesFirst /\ UNCHANGED <<page, fleet, procs, slots>>
  \/ page = "fleet" /\ Fleet!Next /\ OneEvent /\ UNCHANGED <<page, vars, procs, slots>>
  \/ page = "processes" /\ Cycle!Next /\ UNCHANGED <<page, vars, fleet, slots>>
  \/ PageNext /\ UNCHANGED <<page, vars, fleet, procs>>

(***************************************************************************)
(* The fairness each module states and justifies, for the part at work:    *)
(* PageWorker(n) is what process, request or timer n of a page does.       *)
(***************************************************************************)
PageWorker(n) ==
  \/ /\ page = "upgrade"
     /\ \/ n \in {1, 2} /\ Upgrades!ChildEnds(<<"j1", "j2">>[n])
        \/ n \in {3, 4} /\ Upgrades!Tick(<<"j1", "j2">>[n - 2])
        \/ n = 5 /\ Upgrades!Posting(1)
        \/ n = 6 /\ Upgrades!Polling(1)
     /\ Kept9
  \/ /\ page = "chat"
     /\ \/ n = 1 /\ ChatPage!Receive
        \/ n \in {2, 3} /\ ChatPage!Answering(n - 1)
     /\ Kept8
  \/ /\ page = "providers"
     /\ n \in {1, 2} /\ Keys!Answering(n)
     /\ Kept8
  \/ /\ page = "repair"
     /\ \/ n = 1 /\ Repairs!DoctorAnswers
        \/ n \in {2, 3} /\ Repairs!Repairing(n - 1)
     /\ Kept10
  \/ /\ page = "health"
     /\ n = 1 /\ (HealthPage!Refetch \/ HealthPage!Query \/ HealthPage!Answer)
     /\ Kept5
  \/ /\ page = "diagnostics"
     /\ \/ n = 1 /\ Probes!FetchLast
        \/ n = 2 /\ Probes!Receive
        \/ n \in {3, 4} /\ Probes!Probing(n - 2)
     /\ Kept11
  \/ /\ page = "sessions"
     /\ \/ n = 1 /\ SessionsPage!Acting
        \/ n = 2 /\ SessionsPage!Listing("all")
        \/ n = 3 /\ SessionsPage!Listing("interrupted")
     /\ Kept9
  \/ /\ page = "launcher"
     /\ \/ n \in {1, 2} /\ Launch!ServerStep(n)
        \/ n \in {3, 4} /\ Launch!CommandStep(n)
     /\ Kept10
  \/ /\ page = "instances"
     /\ \/ n = 1 /\ Listed!Answering
        \/ n = 2 /\ Listed!TimerFires
        \/ n = 3 /\ Listed!Load
        \/ n = 4 /\ Listed!Receive
  \/ /\ page = "onboarding"
     /\ \/ n = 1 /\ Checklist!Fetching
        \/ n = 2 /\ Checklist!Posting("button")
        \/ n = 3 /\ Checklist!Posting("pepper")
        \/ n = 4 /\ Checklist!Posting("mcp")
        \/ n = 5 /\ Checklist!Posting("claude")
     /\ Kept9

MCFairness ==
  /\ \A r \in Restores : WF_vars(page = "fact" /\ RestoreStep(r))
  /\ \A r \in Resolves : WF_vars(page = "fact" /\ ResolveStep(r))
  /\ \A c \in {1, 2} : WF_fleet(page = "fleet" /\ Fleet!Work(c))
  /\ WF_fleet(page = "fleet" /\ \E c \in {1, 2} : Fleet!Tick(c))
  /\ \A r \in {1, 2} : WF_procs(page = "processes" /\ place[r] # "idle" /\ Cycle!StartStep(r))
  /\ \A n \in 1..6 : WF_slots(PageWorker(n))

MCSpec == MCInit /\ [][MCNext]_everything /\ MCFairness

-----------------------------------------------------------------------------
(* What an instance has recorded is mirrored, once the poller keeps running. *)
EventuallyMirrored == Fleet!EventuallyMirrored

\* What the operator waits for, by page.
Waiting ==
  CASE page = "upgrade" -> Upgrades!Waits
    [] page = "chat" -> ChatPage!Waits
    [] page = "providers" -> Keys!Waits
    [] page = "repair" -> Repairs!Waits
    [] page = "health" -> HealthPage!Waits
    [] page = "diagnostics" -> Probes!Waits
    [] page = "sessions" -> SessionsPage!Waits
    [] page = "launcher" -> Launch!Waits
    [] page = "instances" -> Listed!Waits
    [] page = "onboarding" -> Checklist!Waits
    [] page = "fact" -> Waits
    [] page = "processes" -> Cycle!Waits
    [] OTHER -> {}

(***************************************************************************)
(* The operator is answered: nothing waits for ever.  A decision on a fact *)
(* and a start come to an answer though the pool is empty, a lock is held  *)
(* or the process neither comes up nor exits; a job that is polled for     *)
(* ends or is given up, a question comes back, a list under way comes in,  *)
(* a repair, a diagnosis, an action and a checklist settle, a command of   *)
(* the command line ends, and the dashboard follows the database both into *)
(* failure and out of it.                                                  *)
(***************************************************************************)
OperatorIsAnswered == \A w \in 1..3 : (w \in Waiting) ~> (w \notin Waiting)
=============================================================================
