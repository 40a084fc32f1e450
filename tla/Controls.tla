------------------------------ MODULE Controls ------------------------------
(***************************************************************************)
(* The pages on which the operator acts, each with its routes, and the     *)
(* command line: what a page was told to do, and what it comes to show.    *)
(* ControlsProofs proves things about them.  A behaviour stays on one      *)
(* page, in the slots of PageState.                                        *)
(***************************************************************************)
EXTENDS PageState

(* The constants of the pages, as their modules name and explain them;     *)
(* where two modules have one name, here with the page's before it.        *)
CONSTANTS
  Count, MaxActions, MaxChanges,                                  \* instances
  Tabs, MaxActs,                                                  \* codex
  ArchiveInsts, Bound, ArchiveMoves,                              \* archive
  Ids, SessionTabs, SessionChanges,                               \* sessions
  AutoPorts, OtherPort, NoPort, Srvs, Cmds, Nobody, Commands,     \* launcher
  Changing, SetupMoves,                                           \* onboarding
  ShellTabs, FirstTab, Fields, MaxToasts, MaxPolls, MaxMoves,     \* shell
  Escalations, MaxResolves,                                       \* conflicts
  Documents, MaxEdits, MaxRepairs,                                \* repair
  ProbedInsts, MaxRuns, MaxSelects,                               \* diagnostics
  Urls, Remote, Ollama, NoValue, ScriptRuns,                      \* setup
  Navs, Queries, Hits, GoRoutes                                   \* palette

\* People write at most one block into a CLAUDE.md.
ASSUME ControlsAssumption ==
  /\ Count \in Nat \ {0}
  /\ Bound \in ArchiveInsts
  /\ "all" \in SessionTabs
  /\ Nobody \notin Srvs /\ Srvs \cap (Cmds \cup Tabs) = {}
  /\ FirstTab \in ShellTabs /\ MaxToasts \in Nat \ {0}
  /\ Documents \subseteq Seq({"text", "start", "end"})
  /\ \A d \in Documents : \A i, j \in 1..Len(d) : d[i] = "start" /\ d[j] = "start" => i = j
  /\ "none" \notin ProbedInsts /\ MaxRuns \in Nat
  /\ NoValue \notin Urls \cup Remote

-----------------------------------------------------------------------------
Listed == INSTANCE InstancesPage WITH
  exists <- s1, up <- s2, own <- s3, others <- s4, acted <- s5, list <- s6,
  listReq <- s7, broken <- s8, route <- s9, local <- s10, question <- s11,
  typed <- s12, reqs <- s13, timers <- s14, due <- s15

Codex == INSTANCE CodexIntegration WITH
  installed <- s1, registered <- s2, late <- s3, request <- s4, seen <- s5,
  fetch <- s6, data <- s7, failed <- s8, acts <- s9, told <- s10

Archive == INSTANCE ArchivePage WITH
  Insts <- ArchiveInsts, MaxMoves <- ArchiveMoves,
  flags <- s1, sel <- s2, remembered <- s3, queue <- s4, restored <- s5,
  row <- s6, item <- s7, modal <- s8, moves <- s9, slips <- s10

SessionsPage == INSTANCE Sessions WITH
  Tabs <- SessionTabs, MaxChanges <- SessionChanges,
  state <- s1, changes <- s2, tab <- s3, lists <- s4, fetches <- s5,
  action <- s6, acted <- s7, actedOn <- s8

Launch == INSTANCE Launcher WITH
  defaultPort <- s1, taken <- s2, srv <- s3, cmd <- s4, found <- s5,
  kept <- s6, child <- s7, launched <- s8, tab <- s9

Checklist == INSTANCE Onboarding WITH
  MaxMoves <- SetupMoves,
  facts <- s1, moves <- s2, repaired <- s3, get <- s4, posts <- s5,
  loading <- s6, shown <- s7, owed <- s8

Frame == INSTANCE Shell WITH
  Tabs <- ShellTabs, First <- FirstTab,
  overall <- s1, polls <- s2, prevOverall <- s3, toasts <- s4,
  dismissed <- s5, store <- s6, settings <- s7, draft <- s8, edited <- s9,
  moves <- s10

Conflicts == INSTANCE ConflictPage WITH
  pending <- s1, list <- s2, listReq <- s3, broken <- s4, tab <- s5,
  selectedId <- s6, choice <- s7, custom <- s8, resolving <- s9,
  failed <- s10, reqs <- s11, resolves <- s12, answered <- s13

Repairs == INSTANCE Repair WITH
  md <- s1, servers <- s2, edits <- s3, doctor <- s4, offered <- s5,
  loading <- s6, repairs <- s7, settled <- s8, scaffold <- s9

Probes == INSTANCE Diagnostics WITH
  Insts <- ProbedInsts,
  active <- s1, selects <- s2, captured <- s3, running <- s4, fetching <- s5,
  lastRun <- s6, result <- s7, runs <- s8, fact <- s9, last <- s10

Script == INSTANCE SetupScript WITH
  None <- NoValue, MaxRuns <- ScriptRuns,
  env <- s1, dbs <- s2, registry <- s3, mcp <- s4, pc <- s5, state <- s6,
  runs <- s7, before <- s8, told <- s9

Palette == INSTANCE CommandPalette WITH
  open <- s1, query <- s2, selected <- s3, focus <- s4, previous <- s5,
  hookFirst <- s6, route <- s7, listening <- s8, frame <- s9, signals <- s10,
  goMode <- s11

-----------------------------------------------------------------------------
ControlsInit ==
  \/ page = "instances" /\ Listed!Init /\ Unused16
  \/ page = "codex" /\ Codex!Init /\ Unused11
  \/ page = "archive" /\ Archive!Init /\ Unused11
  \/ page = "sessions" /\ SessionsPage!Init /\ Unused9
  \/ page = "launcher" /\ Launch!Init /\ Unused10
  \/ page = "onboarding" /\ Checklist!Init /\ Unused9
  \/ page = "shell" /\ Frame!Init /\ Unused11
  \/ page = "conflicts" /\ Conflicts!Init /\ Unused14
  \/ page = "repair" /\ Repairs!Init /\ Unused10
  \/ page = "diagnostics" /\ Probes!Init /\ Unused11
  \/ page = "setup" /\ Script!Init /\ Unused10
  \/ page = "palette" /\ Palette!Init /\ Unused12

ControlsNext ==
  /\ UNCHANGED page
  /\ \/ page = "instances" /\ Listed!Next /\ Kept16
     \/ page = "codex" /\ Codex!Next /\ Kept11
     \/ page = "archive" /\ Archive!Next /\ Kept11
     \/ page = "sessions" /\ SessionsPage!Next /\ Kept9
     \/ page = "launcher" /\ Launch!Next /\ Kept10
     \/ page = "onboarding" /\ Checklist!Next /\ Kept9
     \/ page = "shell" /\ Frame!Next /\ Kept11
     \/ page = "conflicts" /\ Conflicts!Next /\ Kept14
     \/ page = "repair" /\ Repairs!Next /\ Kept10
     \/ page = "diagnostics" /\ Probes!Next /\ Kept11
     \/ page = "setup" /\ Script!Next /\ Kept10
     \/ page = "palette" /\ Palette!Next /\ Kept12

ControlsSpec == ControlsInit /\ [][ControlsNext]_<<page, slots>>

-----------------------------------------------------------------------------
(* What these pages promise, by theme; each page states its part.          *)

(***************************************************************************)
(* What the operator did is what was asked for, and what the page comes to *)
(* show: a list that was asked for before an action and answered after it  *)
(* does not hide it, nor does a flag, a toast or a message outlive what it *)
(* tells of, and nothing is done to another name than the one typed.  What *)
(* a page makes exceptions for is said where it states its part.           *)
(***************************************************************************)
ActionsAreShown ==
  /\ page = "archive" => Archive!RememberedIsTrue /\ Archive!QueueFollowsFlags
  /\ page = "sessions" => SessionsPage!ActionIsShown
  /\ page = "launcher" => Launch!StopLeavesNone /\ Launch!ToldIsTrue
  /\ page = "instances" => Listed!ActionIsListed /\ Listed!DeletesWhatWasTyped
  /\ page = "onboarding" => Checklist!RepairIsShown
  /\ page = "shell" => Frame!BadHealthIsToasted
  /\ page = "conflicts" => Conflicts!DecidedIsNotOffered
  /\ page = "codex" => Codex!DoneIsShown /\ Codex!OkIsTrue

(***************************************************************************)
(* Repairs help: a repair makes its check pass and damages nothing, checks *)
(* do not fail each other and a setup that was declined or cancelled       *)
(* leaves a usable file.                                                   *)
(***************************************************************************)
RepairsHelp ==
  /\ page = "repair" => Repairs!RepairHelps /\ Repairs!OneBlock
  /\ page = "diagnostics" => Probes!ProbeReadsBack
  /\ page = "setup" => Script!DefaultHasKey

(***************************************************************************)
(* No step undoes what another actor did, or acts on what is no longer in  *)
(* view: text outside the block, settings changed elsewhere, keys of an    *)
(* earlier run, a session that ended, the instance selected since, the     *)
(* page a command opened.                                                  *)
(***************************************************************************)
NothingIsUndone ==
  [][/\ page = "repair" => Repairs!OutsideIsKept
     /\ page = "diagnostics" => Probes!FetchedIsOfSelected
     /\ page = "sessions" => SessionsPage!ClosedStaysClosed
     /\ page = "shell" => Frame!SaveUndoesNothing
     /\ page = "setup" => Script!SettingsAreKept
     /\ page = "palette" => Palette!AskedIsSignalled]_<<page, slots>>
=============================================================================
