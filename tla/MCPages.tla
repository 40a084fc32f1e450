------------------------------ MODULE MCPages -------------------------------
(***************************************************************************)
(* The pages of the web client with the routes they call, and the command  *)
(* line, on small instances, beside the start and stop of instances        *)
(* (Lifecycle).  A behaviour stays on one page, in the slots of PageState. *)
(* Panels and Controls have the pages that theorems are proved about; the  *)
(* others are here.                                                        *)
(***************************************************************************)
EXTENDS Lifecycle, Panels, Controls

-----------------------------------------------------------------------------
Memory == INSTANCE MemoryPage WITH
  Insts <- {"i1", "i2"}, Types <- {"t"}, NoType <- "none", Limits <- {1, 2},
  Facts <- {<<"i1", "t", 1, "f">>, <<"i1", "t", 2, "g">>, <<"i2", "t", 1, "f">>, <<"i2", "t", 1, "g">>},
  Hits <- {<<"i1", "t", 2, "g">>}, MaxChanges <- 1,
  kb <- s1, was <- s2, ui <- s3, req <- s4, data <- s5, walk <- s6

Graph == INSTANCE EntityGraph WITH
  Root <- "a", Limit <- 3, MaxWrites <- 1,
  Edges <- {<<"a", "b">>, <<"b", "a">>, <<"c", "a">>, <<"b", "c">>, <<"c", "d">>},
  related <- s1, depth <- s2, level <- s3, frontier <- s4, visited <- s5,
  edges <- s6, nodes <- s7, truncated <- s8, writes <- s9

HealthPage == INSTANCE Health WITH
  MaxFaults <- 2, MaxChanges <- 1,
  faults <- s1, changes <- s2, run <- s3, data <- s4

Found == INSTANCE Discovery WITH
  Dirs <- <<"d1", "d2">>, RootOf <- [d1 |-> 1, d2 |-> 2], Names <- {"a", "b"}, MaxEdits <- 1,
  env <- s1, runtime <- s2, edits <- s3, asked <- s4, found <- s5, list <- s6

Logs == INSTANCE StaffLogs WITH
  Components <- {"c1", "c2"}, Events <- {<<1, "c1">>, <<2, "c1">>, <<2, "c2">>}, Hits <- {<<2, "c2">>}, Routine <- {<<1, "c1">>},
  Limits <- {2, 3}, Default <- 2, EXPORT_MAX_ROWS <- 1, MaxNew <- 1,
  log <- s1, was <- s2, ui <- s3, req <- s4, data <- s5, export <- s6,
  file <- s7

Ledgers == INSTANCE SessionLedger WITH
  Events <- {<<1, "a", "s">>, <<2, "a", "t">>, <<2, "a", "s">>, <<3, "b", "s">>}, Agents <- {"a"}, Beats <- {2, 3},
  Session <- [id |-> "s", agent |-> "a", startedAt |-> 2], Limit <- 1, All <- "all",
  log <- s1, beat <- s2, ask <- s3, panel <- s4, mirror <- s5, filter <- s6,
  fleetReq <- s7, fleet <- s8

-----------------------------------------------------------------------------
PageInit ==
  \/ CoreInit
  \/ ControlsInit
  \/ page = "memory" /\ Memory!Init /\ Unused7
  \/ page = "graph" /\ Graph!Init /\ Unused10
  \/ page = "health" /\ HealthPage!Init /\ Unused5
  \/ page = "discovery" /\ Found!Init /\ Unused7
  \/ page = "logs" /\ Logs!Init /\ Unused8
  \/ page = "ledger" /\ Ledgers!Init /\ Unused9

PageNext ==
  \/ CoreNext
  \/ ControlsNext
  \/ page = "memory" /\ Memory!Next /\ Kept7
  \/ page = "graph" /\ Graph!Next /\ Kept10
  \/ page = "health" /\ HealthPage!Next /\ Kept5
  \/ page = "discovery" /\ Found!Next /\ Kept7
  \/ page = "logs" /\ Logs!Next /\ Kept8
  \/ page = "ledger" /\ Ledgers!Next /\ Kept9

(* Bounds: a knowledge base has three facts or four, the row is not flagged *)
(* at first in an instance the server is not bound to, an instance is      *)
(* changed behind the forms while the operator has a request left, and of  *)
(* two starts, which are alike, it is always the same that comes first.    *)
FewInits == /\ page = "memory" => Cardinality(s1) > 2
            /\ page = "archive" => ~s1["i2"]
FewSteps == page = "forms" /\ s9' # s9 => s8 < MaxSubmits
FirstStart == CHOOSE a \in StartCalls : TRUE
InTurn == \A a \in StartCalls : pc'[a] # "idle" => pc'[FirstStart] # "idle"

MCInit ==
  \/ page = "processes" /\ Init /\ Unused1
  \/ PageInit /\ Init /\ windows = FALSE /\ FewInits

MCNext ==
  \/ page = "processes" /\ Next /\ InTurn /\ UNCHANGED <<page, slots>>
  \/ PageNext /\ FewSteps /\ UNCHANGED <<page, vars>>

MCSpec == MCInit /\ [][MCNext]_<<page, slots, vars>>

(* Values of constants for Pages.cfg.                                      *)
OneFile == {[def |-> "anthropic", chain |-> <<"anthropic", "x">>, routing |-> "none"]}
SomeDocuments == {<<"text">>, <<"start", "text", "end", "text", "end">>, <<"start", "text">>}
SomeNavs == <<"/memory", "/health", "/conflicts">>
SomeHits == [q \in {"he", "zz"} |-> IF q = "he" THEN {"/health", "refresh-health"} ELSE {}]
SomeRoutes == [g |-> "/agents", d |-> "/health"]

-----------------------------------------------------------------------------
(* What the pages promise together, by theme; Panels and Controls have the *)
(* other themes.                                                           *)

(***************************************************************************)
(* A list has all it should have, once, and nothing else: pages, limits,   *)
(* filters, counts, buffers and merges neither lose an entry nor repeat    *)
(* one, nor show one the filters exclude; and what the health page ranks   *)
(* first is what is broken.                                                *)
(***************************************************************************)
ListsAreWhole ==
  /\ page = "memory" => Memory!RowsMatchQuery /\ Memory!WalkSeesEachOnce
  /\ page = "graph" => Graph!UntruncatedIsWhole /\ Graph!OuterHangsOnInner
  /\ page = "sessions" => SessionsPage!RowsMatchTab
  /\ page = "discovery" => Found!BestIsListed /\ Found!WhatRunsIsFound
  /\ page = "logs" => Logs!ExportIsWhole /\ Logs!AddressKeepsFilters /\ Logs!RowsMatchFilters
  /\ page = "ledger" => Ledgers!MergedIsNewest /\ Ledgers!FleetListsItsCount
  /\ page = "palette" => Palette!HighlightIsListed
  /\ page = "health" => HealthPage!CriticalIffError /\ HealthPage!PrioritiesAreFirstCards
=============================================================================
