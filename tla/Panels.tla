------------------------------- MODULE Panels -------------------------------
(***************************************************************************)
(* The panels of the web client that PagesProofs proves things about, with *)
(* their routes.  A behaviour stays on one page: what other pages, tabs    *)
(* and programs do to the state behind a page is in the page's own module. *)
(* So the pages share the slots s1, s2, ... for their variables; those a   *)
(* page does not use are zero.  MCPages puts the other pages beside these. *)
(***************************************************************************)
EXTENDS PageState

(* The constants of the pages, as their modules name and explain them;     *)
(* where two modules have one name, here with the page's before it.        *)
CONSTANTS
  Jobs, JOB_STORE_MAX, Slots,                                 \* upgrade
  MaxSends,                                                   \* chat
  Provs, Reqs, MaxWrites,                                     \* providers
  MaxTime,                                                    \* history
  MAX_EVENTS_IN_DOM, MAX_PAUSE_BUFFER, MaxEvents, MaxModes,   \* feed
  Insts, FirstInst, RoutedProvs, Claude, Legacy, NoProv, Detected, Models,
  EnvFiles, MaxSteps, MaxChain,                               \* routing
  EnvNames,    \* routing: what stands in an env file, as provider or model
  FormNames, Similar, FirstName, StartPort, FirstProvider, FormPorts, FormProvs, Paths, MaxSubmits, FormChanges   \* forms

\* The pause buffer holds 1000 events, the list 500; a port is 1024 or more.
ASSUME PagesAssumption ==
  /\ JOB_STORE_MAX \in Nat \ {0} /\ Slots # {} /\ "none" \notin Jobs
  /\ MaxSends \in Nat /\ MaxTime \in Nat /\ MaxWrites \in Nat
  /\ MAX_EVENTS_IN_DOM \in Nat \ {0} /\ MAX_PAUSE_BUFFER \in Nat /\ MAX_PAUSE_BUFFER >= MAX_EVENTS_IN_DOM
  /\ FirstInst \in Insts
  /\ Legacy \in EnvNames /\ RoutedProvs \cup {Claude, NoProv, Detected} \subseteq EnvNames \ {Legacy}
  /\ EnvFiles \subseteq [def : EnvNames, chain : Seq(EnvNames), routing : EnvNames]
  /\ IsFiniteSet(FormNames) /\ FirstName \in FormNames /\ StartPort \in Nat \ {0} /\ FormPorts \subseteq Nat

-----------------------------------------------------------------------------
Upgrades == INSTANCE UpgradeJobs WITH
  jobStore <- s1, status <- s2, phase <- s3, pollRef <- s4, timers <- s5,
  mounted <- s6, posts <- s7, polls <- s8

ChatPage == INSTANCE Chat WITH
  messages <- s1, asked <- s2, current <- s3, sessionId <- s4, req <- s5,
  inFlight <- s6, cancelling <- s7

Keys == INSTANCE Providers WITH
  keys <- s1, written <- s2, reach <- s3, quota <- s4, gets <- s5,
  shown <- s6, overtaken <- s7

History == INSTANCE FactHistory WITH
  now <- s1, kb <- s2, archive <- s3, hist <- s4, asOf <- s5, picked <- s6

Feed == INSTANCE ActivityFeed WITH
  stored <- s1, es <- s2, at <- s3, received <- s4, mode <- s5,
  manualPaused <- s6, hoverPaused <- s7, events <- s8, buffer <- s9,
  bufferDropped <- s10, drawn <- s11, pausedRef <- s12, tail <- s13,
  modes <- s14, tailed <- s15, raced <- s16

Routing == INSTANCE ProviderRouting WITH
  First <- FirstInst, Provs <- RoutedProvs, None <- NoProv, Files <- EnvFiles,
  file <- s1, data <- s2, req <- s3, inst <- s4, draft <- s5, jobs <- s6,
  saved <- s7, count <- s8

Forms == INSTANCE InstanceForms WITH
  Names <- FormNames, First <- FirstName, Ports <- FormPorts, Providers <- FormProvs, MaxChanges <- FormChanges,
  port <- s1, projects <- s2, keys <- s3, list <- s4, selected <- s5,
  form <- s6, reqs <- s7, submits <- s8, changes <- s9, provider <- s10, listed <- s11

-----------------------------------------------------------------------------
CoreInit ==
  \/ page = "upgrade" /\ Upgrades!Init /\ Unused9
  \/ page = "chat" /\ ChatPage!Init /\ Unused8
  \/ page = "providers" /\ Keys!Init /\ Unused8
  \/ page = "history" /\ History!Init /\ Unused7
  \/ page = "feed" /\ Feed!Init
  \/ page = "routing" /\ Routing!Init /\ Unused9
  \/ page = "forms" /\ Forms!Init /\ Unused12

CoreNext ==
  /\ UNCHANGED page
  /\ \/ page = "upgrade" /\ Upgrades!Next /\ Kept9
     \/ page = "chat" /\ ChatPage!Next /\ Kept8
     \/ page = "providers" /\ Keys!Next /\ Kept8
     \/ page = "history" /\ History!Next /\ Kept7
     \/ page = "feed" /\ Feed!Next
     \/ page = "routing" /\ Routing!Next /\ Kept9
     \/ page = "forms" /\ Forms!Next /\ Kept12

CoreSpec == CoreInit /\ [][CoreNext]_<<page, slots>>

-----------------------------------------------------------------------------
(* What these panels promise, by theme; each page states its part.         *)

(***************************************************************************)
(* An answer is taken for what was asked: requests overtake one another,   *)
(* what the page asked for is edited or left while they are under way, and *)
(* still no answer is shown, sent or kept under another question, key,     *)
(* name or draft than its own.                                            *)
(***************************************************************************)
AnswersFindTheirRequest ==
  /\ page = "chat" => ChatPage!TypeOK /\ ChatPage!AnswersFollowQuestions /\ ChatPage!AbortedIsNotAnswered
  /\ page = "providers" => Keys!CacheIsOfKey /\ Keys!ReachableHasKey
  /\ page = "routing" => Routing!SavedIsShown /\ Routing!NormalizeOnlyRenames
  /\ page = "forms" => Forms!CreatesWhatPassed /\ Forms!ConfigureRevertsNothing

(***************************************************************************)
(* The upgrade panel polls for the job it shows and for no other, and what *)
(* it says of an upgrade's end is what became of a job, though jobs are    *)
(* evicted from a store that is full, and panels close and open meanwhile. *)
(***************************************************************************)
PollsWhatItShows ==
  page = "upgrade" => Upgrades!TypeOK /\ Upgrades!PollsWhatItShows /\ Upgrades!OutcomeIsOfAJob

(***************************************************************************)
(* The live feed loses no event over pausing and resuming: whatever was    *)
(* received is listed or buffered, once, unless the list is full or the    *)
(* page says that events were dropped; until a tail is listed, or a        *)
(* handler runs that has seen an older drawing.                            *)
(***************************************************************************)
NothingLost == page = "feed" => Feed!NothingLost

(***************************************************************************)
(* The history of a fact is true though the two tables that hold it are    *)
(* read one after the other while rows move between them.                  *)
(***************************************************************************)
HistoryIsTrue ==
  page = "history" => History!AsOfFindsFact /\ History!HistoryIsWhole /\ History!MarkIsInForce
=============================================================================
