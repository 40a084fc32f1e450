---------------------------- MODULE SessionLedger ----------------------------
(* The two views of audit events, of which one is open.  The ledger of one    *)
(* session (SessionLedgerPanel of SessionsView.tsx) asks Iranti twice, by the *)
(* session's name and by its agent and time, and merges the answers           *)
(* (routes/control-plane/sessions.ts).  The fleet ledger (FleetLedgerView.tsx)*)
(* lists the mirror the poller fills (routes/control-plane/session-ledger.ts, *)
(* queryFleetLedger of lib/fleet-ledger-repo.ts).                             *)
EXTENDS Integers, FiniteSets, SequencesExt

CONSTANTS Events,          \* <<timestamp, agent, session name>>
          Agents,
          Session,         \* [id, agent, startedAt]: the session of the panel
          Beats,           \* when its last heartbeat may be
          Limit,           \* of either list
          All              \* no filter by agent

VARIABLES log,     \* the events recorded so far
          beat,    \* lastHeartbeatAt of the session in the list
          ask,     \* the panel's request
          panel,   \* what the panel shows
          mirror,  \* mirrored_staff_events
          filter,  \* the agent the fleet ledger is filtered by
          fleetReq, fleet

panelVars == <<beat, ask, panel>>
fleetVars == <<mirror, filter, fleetReq, fleet>>
vars == <<log, panelVars, fleetVars>>

NoRead == [at |-> "unread", items |-> {}, of |-> {}]
NoAsk == [at |-> "idle", until |-> 0, byId |-> NoRead, byRange |-> NoRead]
NoRows == [items |-> {}, total |-> 0, of |-> {}]

\* What ORDER BY timestamp DESC LIMIT may select: the newest events, any of those
\* of one timestamp at the limit.
Newest(n, S) ==
    {P \in SUBSET S : /\ Cardinality(P) = IF Cardinality(S) < n THEN Cardinality(S) ELSE n
                      /\ \A e \in P, d \in S \ P : e[1] >= d[1]}

Init == /\ log \in {{e \in Events : e[1] <= b} : b \in Beats} /\ beat \in Beats
        /\ \/ ask = NoAsk /\ fleetReq = [at |-> "closed", total |-> 0]
           \/ ask = [NoAsk EXCEPT !.at = "closed"] /\ fleetReq = [at |-> "sent", total |-> 0]
        /\ panel = [NoRows EXCEPT !.total = -1]
        /\ mirror = {} /\ filter = All /\ fleet = NoRows
------------------------------------------------------------------------------
(* The ledger of the session. *)

\* The query is keyed by session and agent alone: a heartbeat that comes with
\* the list does not ask again, and the next request takes its time.
Ask == /\ ask.at = "idle" /\ ask' = [NoAsk EXCEPT !.at = "sent", !.until = beat]
       /\ UNCHANGED <<log, beat, panel, fleetVars>>
Heartbeat == /\ ask.at # "closed" /\ \E b \in Beats : b > beat /\ beat' = b
             /\ UNCHANGED <<log, ask, panel, fleetVars>>

ById == {e \in log : e[3] = Session.id /\ e[2] = Session.agent}
\* From ten minutes before the start to two after the last heartbeat.
ByRange == {e \in log : e[2] = Session.agent /\ e[1] >= Session.startedAt - 1 /\ e[1] <= ask.until + 1}
Answers(S) == {[at |-> "ok", items |-> P, of |-> S] : P \in Newest(Limit, S)}
Refused == [NoRead EXCEPT !.at = "failed"]

\* fetchLedgerByParams, twice at once: either answer may come first, or fail, or
\* be given up after four seconds.
ReadById == /\ ask.at = "sent" /\ ask.byId = NoRead
            /\ \E r \in Answers(ById) \union {Refused} : ask' = [ask EXCEPT !.byId = r]
            /\ UNCHANGED <<log, beat, panel, fleetVars>>
ReadByRange == /\ ask.at = "sent" /\ ask.byRange = NoRead
               /\ \E r \in Answers(ByRange) \union {Refused} : ask' = [ask EXCEPT !.byRange = r]
               /\ UNCHANGED <<log, beat, panel, fleetVars>>

\* Without duplicates, sorted, cut to the limit.
Merges(a, b) == Newest(Limit, a \union b)
\* fetchIrantiSessionLedger: an error only if the named query failed and the
\* other one has nothing.
Merged ==
    /\ ask.at = "sent" /\ NoRead \notin {ask.byId, ask.byRange} /\ ask' = NoAsk
    /\ IF ask.byId.at = "failed" /\ ask.byRange.items = {}
       THEN panel' = [NoRows EXCEPT !.total = -1]
       ELSE \E P \in Merges(ask.byId.items, ask.byRange.items) :
              panel' = [items |-> P, total |-> Cardinality(ask.byId.items \union ask.byRange.items),
                        of |-> ask.byId.of \union ask.byRange.of]
    /\ UNCHANGED <<log, beat, fleetVars>>
------------------------------------------------------------------------------
(* The fleet ledger. *)

Matching(f, S) == {e \in S : f = All \/ e[2] = f}
\* The id of the mirrored event, which decides between equal timestamps, is left
\* out here.
Lists(f, S) == {[items |-> P, total |-> Cardinality(Matching(f, S)), of |-> {}] : P \in Newest(Limit, Matching(f, S))}

\* Every thirty seconds, and by the button.
Refresh == /\ fleetReq.at = "idle" /\ fleetReq' = [at |-> "sent", total |-> 0]
           /\ UNCHANGED <<log, panelVars, mirror, filter, fleet>>
\* Another filter comes with what the cache has of it, from when the mirror had
\* fewer events.
handleFiltersChange(f) ==
    /\ f # filter /\ fleetReq.at # "closed" /\ filter' = f /\ fleetReq' = [at |-> "sent", total |-> 0]
    /\ fleet' \in {NoRows} \union UNION {Lists(f, M) : M \in SUBSET mirror}
    /\ UNCHANGED <<log, panelVars, mirror>>

\* queryFleetLedger: the count first, then the rows.
CountRows == /\ fleetReq.at = "sent"
             /\ fleetReq' = [at |-> "counted", total |-> Cardinality(Matching(filter, mirror))]
             /\ UNCHANGED <<log, panelVars, mirror, filter, fleet>>
SelectRowsFirst == \* mutant: the count is taken after the rows
    /\ fleetReq.at = "counted" /\ fleetReq' = [at |-> "idle", total |-> 0]
    /\ \E M \in SUBSET mirror : \E l \in Lists(filter, M) :
         fleet' = [l EXCEPT !.total = Cardinality(Matching(filter, mirror))]
    /\ UNCHANGED <<log, panelVars, mirror, filter>>
SelectRows == /\ fleetReq.at = "counted" /\ fleetReq' = [at |-> "idle", total |-> 0]
              /\ \E l \in Lists(filter, mirror) : fleet' = [l EXCEPT !.total = fleetReq.total]
              /\ UNCHANGED <<log, panelVars, mirror, filter>>
\* A failed query is answered as an empty ledger with a note that is not shown;
\* a request that failed leaves the rows.
QueryFails == /\ fleetReq.at \in {"sent", "counted"} /\ fleetReq' = [at |-> "idle", total |-> 0]
              /\ fleet' \in {NoRows, fleet}
              /\ UNCHANGED <<log, panelVars, mirror, filter>>

\* External: an event is recorded; the poller mirrors one.
Record(e) == /\ e \notin log /\ log' = log \union {e} /\ UNCHANGED <<panelVars, fleetVars>>
Ingest(e) == /\ fleetReq.at # "closed" /\ e \in log \ mirror /\ mirror' = mirror \union {e}
             /\ UNCHANGED <<log, panelVars, filter, fleetReq, fleet>>

Next == \/ Ask \/ Heartbeat \/ ReadById \/ ReadByRange \/ Merged
        \/ Refresh \/ (\E f \in Agents \union {All} : handleFiltersChange(f)) \/ CountRows \/ SelectRows \/ QueryFails
        \/ \E e \in Events : Record(e) \/ Ingest(e)
Spec == Init /\ [][Next]_vars
------------------------------------------------------------------------------
(* Properties. *)

\* The two limited lists, merged and limited again, are the newest events of
\* everything the two queries matched, recorded meanwhile or not.
MergedIsNewest == panel.items \in Newest(Limit, panel.of)

\* The fleet ledger never shows fewer rows than its count and the limit promise,
\* although the poller mirrors between the two statements, and none of an agent
\* filtered out.
FleetListsItsCount ==
    /\ fleet.items = Matching(filter, fleet.items)
    /\ Cardinality(fleet.items) >= IF fleet.total < Limit THEN fleet.total ELSE Limit
===============================================================================
