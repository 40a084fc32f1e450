----------------------------- MODULE ArchivePage -----------------------------
(* The flags of one archived row seen through ArchiveExplorer.tsx: the flag   *)
(* control of the expanded row, the queue of flagged facts, and the flags the *)
(* page itself remembers.  GET /archive (routes/control-plane/kb.ts) reads    *)
(* the instance that is selected; the routes of archivist.ts write the        *)
(* database the control plane is bound to.  Its rows carry no flag, so the    *)
(* badge of a row is what the page remembers.  The queues are cached for each *)
(* instance.                                                                  *)
EXTENDS Naturals, FiniteSets

CONSTANTS Insts, Bound,   \* the instances, and the one the server is bound to
          MaxMoves        \* a bound, see Moves

VARIABLES flags,      \* archive_flags of each instance: whether the row is flagged
          sel,        \* the instance selected
          remembered, \* localFlagOverrides of the row
          queue,      \* the archive-flagged query of each instance, see Unasked
          restored,   \* successMessages of the row
          row, item,  \* the requests of FlagControl and of FlaggedQueueRow, see Idle
          modal,      \* showRestoreModal
          moves,      \* see Moves
          slips       \* of what went by the page: see Slips

vars == <<flags, sel, remembered, queue, restored, row, item, modal, moves, slips>>
Idle == [kind |-> "none", at |-> "idle", ok |-> FALSE, inst |-> Bound]
\* A request remembers the instance that was selected at the click.
Ask(k) == [kind |-> k, at |-> "sent", ok |-> FALSE, inst |-> sel]

\* A query: its data, whether it failed since, whether it is stale, and what
\* the fetch under way, if any, has read.
Unasked == [data |-> "none", failed |-> FALSE, stale |-> TRUE, fetch |-> "no"]
\* The flag changed elsewhere; two requests were under way at once; an effect went without its answer; a
\* write is not followed by a read of the bound instance's queue.
Slips == {"elsewhere", "crossed", "lost", "unread"}

Fetch(q) == IF q.fetch = "no" THEN [q EXCEPT !.fetch = "sent", !.failed = @ /\ q.data # "none"] ELSE q
\* A fetch under way is begun again, but not the one that brings the first data.
Restarted(q) == IF q.data = "none" THEN Fetch(q) ELSE [q EXCEPT !.fetch = "sent", !.stale = TRUE]
Invalidated(i) == [queue EXCEPT ![i] = IF i = sel THEN Restarted(@) ELSE [@ EXCEPT !.stale = TRUE]]

\* What the operator, others and failing fetches do is counted.
Moves == moves < MaxMoves /\ moves' = moves + 1

Init == /\ flags \in [Insts -> BOOLEAN] /\ sel \in Insts
        /\ remembered = "nothing" /\ restored = FALSE
        /\ queue = [i \in Insts |-> IF i = sel THEN Fetch(Unasked) ELSE Unasked]
        /\ row = Idle /\ item = Idle /\ modal = FALSE
        /\ moves = 0 /\ slips = {}
------------------------------------------------------------------------------
(* The page. *)

Badge == remembered = "flagged"
\* What the queue renders for the row, and what the row's own control offers.
Renders(q) == q.data = "flagged" /\ ~q.failed
QueueOffers == Renders(queue[sel]) /\ ~restored
Starts(other) == Moves /\ slips' = slips \cup IF other.at = "idle" THEN {} ELSE {"crossed"}

ShowNoteAndFlag == /\ ~Badge /\ row.at = "idle" /\ row' = Ask("flag") /\ Starts(item)
                   /\ UNCHANGED <<flags, sel, remembered, queue, restored, item, modal>>
handleUnflag == /\ Badge /\ row.at = "idle" /\ row' = Ask("unflag") /\ Starts(item)
                /\ UNCHANGED <<flags, sel, remembered, queue, restored, item, modal>>
handleClearFlag == /\ QueueOffers /\ item.at = "idle" /\ item' = Ask("unflag") /\ Starts(row)
                   /\ UNCHANGED <<flags, sel, remembered, queue, restored, row, modal>>
OpenRestore == /\ QueueOffers /\ ~modal /\ modal' = TRUE
               /\ UNCHANGED <<flags, sel, remembered, queue, restored, row, item, moves, slips>>
CancelRestore == /\ modal /\ item.at = "idle" /\ modal' = FALSE
                 /\ UNCHANGED <<flags, sel, remembered, queue, restored, row, item, moves, slips>>
handleRestore == /\ QueueOffers /\ modal /\ item.at = "idle" /\ item' = Ask("restore") /\ Starts(row)
                 /\ UNCHANGED <<flags, sel, remembered, queue, restored, row, modal>>

\* The queue of the instance is shown as it is cached, and asked for if it is stale.
SelectInstance(i) == /\ i # sel /\ Moves /\ sel' = i
                     /\ queue' = [queue EXCEPT ![i] = IF @.stale THEN Fetch(@) ELSE @]
                     /\ modal' = (modal /\ Renders(queue'[i]))
                     /\ UNCHANGED <<flags, remembered, restored, row, item, slips>>

\* The page remembers the flag, and the queue of the click's instance is asked again.
Remember(f, i) ==
  LET follows == i = Bound /\ (queue[i].fetch = "no" \/ (i = sel /\ queue[i].data # "none"))
  IN /\ remembered' = f /\ queue' = Invalidated(i)
     /\ slips' = (slips \ {"lost"}) \cup IF follows THEN {} ELSE {"unread"}
\* onFlagged.
handleFlagged(f) == Remember(f, row.inst)
RowAnswered == /\ row.at = "answered"
               /\ IF row.ok THEN handleFlagged(IF row.kind = "flag" THEN "flagged" ELSE "unflagged")
                            ELSE UNCHANGED <<remembered, queue, slips>>
               /\ row' = Idle
               /\ UNCHANGED <<flags, sel, restored, item, modal, moves>>

\* onUnflagged, of the queue.
handleQueueUnflagged == Remember("unflagged", item.inst)
ItemAnswered == /\ item.at = "answered"
                /\ item.ok
                /\ IF item.kind = "unflag"
                   THEN handleQueueUnflagged /\ UNCHANGED <<restored, modal>> /\ item' = Idle
                   ELSE /\ restored' = TRUE /\ modal' = FALSE
                        /\ item' = [item EXCEPT !.at = "waiting"]
                        /\ UNCHANGED <<remembered, queue, slips>>
                /\ UNCHANGED <<flags, sel, row, moves>>
ItemRefused == /\ item.at = "answered" /\ ~item.ok /\ item' = Idle
               /\ UNCHANGED <<flags, sel, remembered, queue, restored, row, modal, moves, slips>>
\* Two seconds after a restore.
RestoredTimeout == /\ item.at = "waiting" /\ item' = Idle /\ handleQueueUnflagged
                   /\ UNCHANGED <<flags, sel, restored, row, modal, moves>>
------------------------------------------------------------------------------
(* The queries, the routes, and others. *)

\* GET /archive?flagged=true of an instance reads its database, and is answered.
ListFlagged(i) == /\ queue[i].fetch = "sent"
                  /\ queue' = [queue EXCEPT ![i].fetch = IF flags[i] THEN "flagged" ELSE "empty"]
                  /\ slips' = slips \ IF i = Bound THEN {"unread"} ELSE {}
                  /\ UNCHANGED <<flags, sel, remembered, restored, row, item, modal, moves>>
\* What is no longer rendered loses its modal.
Loaded(i, q) == /\ queue' = [queue EXCEPT ![i] = q]
                /\ modal' = (modal /\ (i = sel => Renders(q)))
                /\ UNCHANGED <<flags, sel, remembered, restored, row, item, slips>>
QueueArrives(i) == /\ queue[i].fetch \in {"flagged", "empty"}
                   /\ Loaded(i, [data |-> queue[i].fetch, failed |-> FALSE, stale |-> FALSE, fetch |-> "no"])
                   /\ UNCHANGED moves
QueueFails(i) == /\ queue[i].fetch # "no" /\ Moves
                 /\ Loaded(i, [queue[i] EXCEPT !.failed = TRUE, !.fetch = "no"])
\* It has been tried twice before it fails.
QueueRetried(i) == queue[i].fetch # "no" /\ Loaded(i, [queue[i] EXCEPT !.fetch = "sent"]) /\ UNCHANGED moves
\* Ten seconds after it came, an answer is stale; an old one of another instance is dropped.
GoesStale(i) == ~queue[i].stale /\ Loaded(i, [queue[i] EXCEPT !.stale = TRUE]) /\ UNCHANGED moves
Dropped(i) == i # sel /\ queue[i].fetch = "no" /\ Loaded(i, Unasked) /\ UNCHANGED moves
\* The window gets the focus.
Refocus == queue[sel].stale /\ Loaded(sel, Fetch(queue[sel])) /\ UNCHANGED moves

\* POST and DELETE /archive/:id/flag, POST /archive/:id/restore: whatever the
\* instanceId of the request; a restore needs the flag and removes it.  What is
\* done may not be answered.
Effect(k) == flags' = [flags EXCEPT ![Bound] = k = "flag"]
Serves(k, ok) == /\ ok => (k = "restore" => flags[Bound])
                 /\ \/ Effect(k) /\ (k = "restore" => flags[Bound])
                       /\ slips' = slips \cup IF ok THEN {} ELSE {"lost", "unread"}
                    \/ ~ok /\ UNCHANGED <<flags, slips>>
ServeRow == /\ row.at = "sent"
            /\ \E ok \in BOOLEAN : row' = [row EXCEPT !.at = "answered", !.ok = ok] /\ Serves(row.kind, ok)
            /\ UNCHANGED <<sel, remembered, queue, restored, item, modal, moves>>
ServeItem == /\ item.at = "sent"
             /\ \E ok \in BOOLEAN : item' = [item EXCEPT !.at = "answered", !.ok = ok] /\ Serves(item.kind, ok)
             /\ UNCHANGED <<sel, remembered, queue, restored, row, modal, moves>>

\* Another operator, or another tab; or what a request did after it was given up.
OtherFlags(i) == /\ Moves /\ slips' = slips \cup {"elsewhere"}
                 /\ flags' = [flags EXCEPT ![i] = ~@]
                 /\ UNCHANGED <<sel, remembered, queue, restored, row, item, modal>>

Next == \/ ShowNoteAndFlag \/ handleUnflag \/ handleClearFlag \/ OpenRestore \/ CancelRestore \/ handleRestore
        \/ RowAnswered \/ ItemAnswered \/ ItemRefused \/ RestoredTimeout
        \/ ServeRow \/ ServeItem \/ Refocus
        \/ \E i \in Insts : \/ SelectInstance(i) \/ OtherFlags(i)
                            \/ ListFlagged(i) \/ QueueArrives(i) \/ QueueRetried(i)
                            \/ QueueFails(i) \/ GoesStale(i) \/ Dropped(i)
Spec == Init /\ [][Next]_vars
------------------------------------------------------------------------------
(* Properties. *)

Quiet == row.at = "idle" /\ item.at = "idle" /\ slips \cap {"elsewhere", "crossed"} = {}

\* What the page remembers of a flag is what the database has, once its own
\* requests, made one at a time from either place, are answered; but not after
\* one whose effect was not answered.
RememberedIsTrue ==
  Quiet /\ "lost" \notin slips /\ remembered # "nothing" => (remembered = "flagged") = flags[Bound]

\* After them the queue of the bound instance lists the row if it is flagged,
\* whatever was cached, fetched or failed meanwhile and whichever instances were
\* looked at; but not after a write from another instance's view, one that was
\* not answered, or one during a fetch that is not begun again, until the next read.
QueueFollowsFlags ==
  Quiet /\ sel = Bound /\ "unread" \notin slips =>
    LET q == queue[sel]
    IN q.fetch = "no" /\ ~q.failed => (q.data = "flagged") = flags[Bound]
===============================================================================
