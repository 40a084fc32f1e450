------------------------- MODULE StaffEventAdapter -------------------------
(***************************************************************************)
(* The staff event adapter (lib/staff-event-adapter): every interval it    *)
(* polls the knowledge_base and archive tables of the Iranti database, in  *)
(* parallel and each with a cursor of its own, and inserts one synthetic   *)
(* staff event per new row.  The cursors live in memory; a restart takes   *)
(* both from the newest event it finds in staff_events.                    *)
(*                                                                         *)
(* A row of a table is its position in the order of commits; the value is  *)
(* its createdAt, which may lie before the commit.  What an event says     *)
(* about its row (its action type, agent, preview) is left out.            *)
(***************************************************************************)
EXTENDS Integers, Sequences, FiniteSets, SequencesExt

CONSTANTS Limit,       \* LIMIT of the two polling queries
          Lookback,    \* INITIAL_LOOKBACK_MS
          Delays,      \* how long before its commit a row may be stamped
          MaxRows,     \* bound: rows per table
          MaxTime,     \* bound: the clock
          MaxFaults    \* bound: failed queries and exits

ASSUME AdapterAssumption ==
  /\ Limit \in Nat \ {0}
  /\ Lookback \in Nat
  /\ Delays \subseteq Nat
  /\ MaxRows \in Nat /\ MaxTime \in Nat \ {0} /\ MaxFaults \in Nat

Tables == {"knowledge_base", "archive"}

VARIABLES now,      \* the clock
          source,   \* source[t]: createdAt of the rows of table t
          events,   \* staff_events: the row an event stands for, its timestamp
          process,  \* the control plane: "down", "up", "stopping"
          cursor,   \* cursor[t]: rows up to this time have been processed
          floor,    \* history: the cursors this process started with
          poll,     \* poll[t]: where the poll of table t is, and its rows
          faults,   \* failures so far, bounded by MaxFaults
          blind     \* history: an insert was not acknowledged, or the
                    \* cursor could not be read from a table with events

vars == <<now, source, events, process, cursor, floor, poll, faults, blind>>

Rows(t) == 1..Len(source[t])
Idle == [pc |-> "idle", rows |-> {}]
isPolling == \E t \in Tables : poll[t].pc # "idle"

(* ORDER BY createdAt ASC: rows of one stamp come in any order. *)
Ordered(t, S) ==
  {q \in Bijection(1..Cardinality(S), S) :
     \A m, n \in DOMAIN q : m < n => source[t][q[m]] <= source[t][q[n]]}

\* Mutant of Synthesize: a row becomes a creation and a replacement.
SynthesizeBoth(t, q) ==
  [n \in 1..2 * Len(q) |-> [table |-> t, row |-> q[(n + 1) \div 2],
                            timestamp |-> source[t][q[(n + 1) \div 2]]]]

(* The events one batch becomes: one for each row, in its order. *)
Synthesize(t, q) ==
  [n \in DOMAIN q |-> [table |-> t, row |-> q[n], timestamp |-> source[t][q[n]]]]

NewestEvent ==
  CHOOSE ts \in {events[e].timestamp : e \in DOMAIN events} :
    \A e \in DOMAIN events : events[e].timestamp <= ts

Init ==
  /\ now = 1
  /\ source = [t \in Tables |-> <<>>]
  /\ events = <<>>
  /\ process = "down"
  /\ cursor = [t \in Tables |-> 0]
  /\ floor = [t \in Tables |-> 0]
  /\ poll = [t \in Tables |-> Idle]
  /\ faults = 0
  /\ blind = FALSE

(* External: time passes; an agent's write adds a row, the Archivist one. *)
Tick ==
  /\ now < MaxTime
  /\ now' = now + 1
  /\ UNCHANGED <<source, events, process, cursor, floor, poll, faults, blind>>

Write(t) ==
  /\ Len(source[t]) < MaxRows
  /\ \E d \in Delays :
       /\ d < now
       /\ source' = [source EXCEPT ![t] = Append(@, now - d)]
  /\ UNCHANGED <<now, events, process, cursor, floor, poll, faults, blind>>

Fail == faults < MaxFaults /\ faults' = faults + 1

\* Mutant of StoredCursor: a restart always looks back, events or not.
LookbackCursor == now - Lookback

(* loadCursor: both cursors are the newest event's time; with no event yet *)
(* (or a query that fails) they lie a fixed time back.                     *)
StoredCursor == IF events # <<>> THEN NewestEvent ELSE now - Lookback

StartFrom(c) ==
  /\ process = "down"
  /\ process' = "up"
  /\ cursor' = [t \in Tables |-> c]
  /\ floor' = [t \in Tables |-> c]
  /\ UNCHANGED <<now, source, events, poll>>

startAdapter == StartFrom(StoredCursor) /\ UNCHANGED <<faults, blind>>

startAdapterBlind ==
  /\ Fail
  /\ StartFrom(now - Lookback)
  /\ blind' = (blind \/ events # <<>>)

(* A shutdown disarms the interval; a poll under way goes on until exit. *)
stopAdapter ==
  /\ process = "up"
  /\ process' = "stopping"
  /\ UNCHANGED <<now, source, events, cursor, floor, poll, faults, blind>>

Exit ==
  /\ process # "down"
  /\ Fail
  /\ process' = "down"
  /\ poll' = [t \in Tables |-> Idle]
  /\ UNCHANGED <<now, source, events, cursor, floor, blind>>

\* Mutant of pollOnce: the archive is not polled.
pollOnceFirst ==
  /\ process = "up"
  /\ ~isPolling
  /\ poll' = [poll EXCEPT !["knowledge_base"].pc = "select"]
  /\ UNCHANGED <<now, source, events, process, cursor, floor, faults, blind>>

(* The interval fires; it is skipped while a poll is under way. *)
pollOnce ==
  /\ process = "up"
  /\ ~isPolling
  /\ poll' = [t \in Tables |-> [pc |-> "select", rows |-> {}]]
  /\ UNCHANGED <<now, source, events, process, cursor, floor, faults, blind>>

(* WHERE createdAt > cursor ORDER BY createdAt ASC LIMIT n. *)
Answers(t) ==
  LET window == {k \in Rows(t) : source[t][k] > cursor[t]} IN
  {S \in SUBSET window :
     /\ Cardinality(S) <= Limit
     /\ Cardinality(S) < Limit => S = window
     /\ \A k \in S, m \in window \ S : source[t][k] <= source[t][m]}

\* Mutant of Select: an empty answer is inserted too.
SelectEvenEmpty(t) ==
  /\ poll[t].pc = "select"
  /\ \E S \in Answers(t) : poll' = [poll EXCEPT ![t] = [pc |-> "insert", rows |-> S]]
  /\ UNCHANGED <<now, source, events, process, cursor, floor, faults, blind>>

Select(t) ==
  /\ poll[t].pc = "select"
  /\ \E S \in Answers(t) :
       poll' = [poll EXCEPT ![t] = IF S = {} THEN Idle ELSE [pc |-> "insert", rows |-> S]]
  /\ UNCHANGED <<now, source, events, process, cursor, floor, faults, blind>>

\* Mutant of LastStamp: the cursor moves to the newest row there is.
NewestStamp(t, q) ==
  CHOOSE ts \in {source[t][k] : k \in Rows(t)} : \A k \in Rows(t) : source[t][k] <= ts

LastStamp(t, q) == source[t][Last(q)]

(* insertEvents: one statement for the batch; then the cursor moves. *)
Insert(t) ==
  /\ poll[t].pc = "insert"
  /\ \E q \in Ordered(t, poll[t].rows) :
       /\ events' = events \o Synthesize(t, q)
       /\ cursor' = [cursor EXCEPT ![t] = LastStamp(t, q)]
  /\ poll' = [poll EXCEPT ![t] = Idle]
  /\ UNCHANGED <<now, source, process, floor, faults, blind>>

(* A query rejects: the poll of this table ends and its cursor stays. *)
QueryFails(t) ==
  /\ poll[t].pc # "idle"
  /\ Fail
  /\ poll' = [poll EXCEPT ![t] = Idle]
  /\ UNCHANGED <<now, source, events, process, cursor, floor, blind>>

(* The insert is committed but its acknowledgement is lost. *)
InsertUnacknowledged(t) ==
  /\ poll[t].pc = "insert"
  /\ Fail
  /\ \E q \in Ordered(t, poll[t].rows) : events' = events \o Synthesize(t, q)
  /\ poll' = [poll EXCEPT ![t] = Idle]
  /\ blind' = TRUE
  /\ UNCHANGED <<now, source, process, cursor, floor>>

Next ==
  \/ Tick
  \/ \E t \in Tables : Write(t) \/ Select(t) \/ Insert(t)
  \/ \E t \in Tables : QueryFails(t) \/ InsertUnacknowledged(t)
  \/ startAdapter \/ startAdapterBlind \/ stopAdapter \/ Exit
  \/ pollOnce

Spec == Init /\ [][Next]_vars

(* The interval keeps firing and an awaited query settles; nothing makes   *)
(* time pass, rows appear or a control plane start.                        *)
Fairness ==
  /\ WF_vars(pollOnce)
  /\ \A t \in Tables : WF_vars(Select(t) \/ Insert(t))

FairSpec == Spec /\ Fairness

-----------------------------------------------------------------------------
Event == [table: Tables, row: Nat, timestamp: Nat]

TypeOK ==
  /\ now \in 1..MaxTime
  /\ source \in [Tables -> Seq(1..now)]
  /\ poll \in [Tables -> [pc: {"idle", "select", "insert"}, rows: SUBSET Nat]]
  /\ cursor \in [Tables -> Int] /\ floor \in [Tables -> Int]
  /\ \A t \in Tables :
       /\ Len(source[t]) <= MaxRows
       /\ poll[t].rows \subseteq Rows(t)
       /\ poll[t].rows # {} <=> poll[t].pc = "insert"
       /\ floor[t] <= cursor[t]
  /\ events \in Seq(Event)
  /\ \A e \in DOMAIN events :
       /\ events[e].row \in Rows(events[e].table)
       /\ events[e].timestamp = source[events[e].table][events[e].row]
  /\ process \in {"down", "up", "stopping"}
  /\ faults \in 0..MaxFaults
  /\ blind \in BOOLEAN

Emitted(t, k) == \E e \in DOMAIN events : events[e].table = t /\ events[e].row = k

(* The rows of a table become visible in the order of distinct stamps. *)
InOrder(t) == \A j, k \in Rows(t) : j < k => source[t][j] < source[t][k]

(***************************************************************************)
(* A row becomes at most one staff event, across failed inserts, restarts  *)
(* at any point and cursors of two tables that start from one newest       *)
(* event, although staff_events has no key to reject a second one; unless  *)
(* an acknowledgement was lost or a restart could not read its cursor.     *)
(***************************************************************************)
NoDuplicateEvents ==
  ~blind => \A d, e \in DOMAIN events :
              /\ events[d].table = events[e].table
              /\ events[d].row = events[e].row
              => d = e

(***************************************************************************)
(* While a control plane lives, no row between the cursor it started with  *)
(* and its present cursor is without its event: a failed insert does not   *)
(* move the cursor past its rows and LIMIT cuts off the newest rows.       *)
(***************************************************************************)
CursorIsComplete ==
  process # "down" =>
    \A t \in Tables : InOrder(t) =>
      \A k \in Rows(t) :
        floor[t] < source[t][k] /\ source[t][k] <= cursor[t] => Emitted(t, k)

(***************************************************************************)
(* While the adapter stays up, a row past its cursor gets its event in the *)
(* end: neither a failed query nor a poll under way stops the polling.     *)
(***************************************************************************)
EventuallyEmitted ==
  [](\A t \in Tables : InOrder(t)) =>
    \A t \in Tables, k \in 1..MaxRows :
      (process = "up" /\ k \in Rows(t) /\ source[t][k] > cursor[t])
        ~> (process # "up" \/ Emitted(t, k))
=============================================================================
