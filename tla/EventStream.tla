----------------------------- MODULE EventStream -----------------------------
(***************************************************************************)
(* The live event stream: GET /events/stream (routes/control-plane/events) *)
(* polls staff_events once a second from a cursor in memory and writes new *)
(* events to the response; a browser receives them and reconnects when the *)
(* connection ends.                                                        *)
(*                                                                         *)
(* Two kinds of client resume differently.  A plain EventSource sends the  *)
(* Last-Event-ID header ("header").  The hook of the ActivityStream        *)
(* component closes its EventSource at every error, opens a new one, which *)
(* sends no such header, and puts the id into the since parameter          *)
(* ("since").                                                              *)
(*                                                                         *)
(* An event is its position in staff_events in the order of insertion, the *)
(* value its timestamp, which is that of the operation and may lie before  *)
(* the insertion.  Events the stream's filters reject are left out.        *)
(* The column keeps stamps finer than a millisecond, the server's Date     *)
(* does not: a cursor is a stamp cut to its millisecond, so that an event  *)
(* within one is newer than its own cursor and is sent at every poll.      *)
(***************************************************************************)
EXTENDS Integers, Sequences, FiniteSets, SequencesExt, FiniteSetTheorems, SequenceTheorems, TLAPS

CONSTANTS Limit,       \* LIMIT of the stream's query
          Resumes,     \* kinds of client: a subset of {"header", "since"}
          Polls,       \* polls of a stream that could be in flight
          Fraction,    \* stamps the column can tell apart in a millisecond
          Delays,      \* how long before its insertion an event may be stamped
          InsertMax,   \* bound: events one statement inserts
          MaxEvents,   \* bound: events
          MaxTime,     \* bound: the clock
          MaxWire,     \* bound: events on the wire when a poll starts
          MaxDrops,    \* bound: connections that end
          MaxFaults    \* bound: failed queries

ASSUME StreamAssumption ==
  /\ Limit \in Nat \ {0} /\ Fraction \in Nat \ {0}
  /\ Resumes \subseteq {"header", "since"}
  /\ Delays \subseteq Nat
  /\ InsertMax \in Nat \ {0}
  /\ MaxEvents \in Nat /\ MaxTime \in Nat \ {0} /\ MaxWire \in Nat \ {0}
  /\ MaxDrops \in Nat /\ MaxFaults \in Nat

VARIABLES now,          \* the clock
          table,        \* staff_events: the timestamps
          resume,       \* the kind of this client
          es,           \* its EventSource: "waiting", "connecting", "open"
          lastEventId,  \* the id it resumes from
          received,     \* the events it received, as each first came
          again,        \* those of them it received more than once
          wire,         \* events written but not received yet
          open,         \* the server's side of the stream is open
          pollCursor,   \* the stream's cursor
          asked,        \* asked[p]: the cursor poll p asked with
          drops, faults,
          blind         \* history: a resume lookup failed

client == <<resume, es, lastEventId, received, again>>
server == <<open, pollCursor, asked>>
bounds == <<drops, faults, blind>>
vars == <<now, table, client, wire, server, bounds>>

Null == -1
Ids == 1..Len(table)
isPolling == \E p \in Polls : asked[p] # Null
NoPolls == [p \in Polls |-> Null]

Init ==
  /\ now = 1
  /\ table = <<>>
  /\ resume \in Resumes
  /\ es = "waiting" /\ lastEventId = Null /\ received = <<>> /\ again = {}
  /\ wire = <<>>
  /\ open = FALSE /\ pollCursor = 0 /\ asked = NoPolls
  /\ drops = 0 /\ faults = 0 /\ blind = FALSE

Fail == faults < MaxFaults /\ faults' = faults + 1

(* External: time passes; a statement inserts events. *)
Tick ==
  /\ now < MaxTime
  /\ now' = now + 1
  /\ UNCHANGED <<table, client, wire, server, bounds>>

Insert ==
  /\ \E n \in 1..InsertMax : \E batch \in [1..n -> {now - d : d \in Delays}] :
       /\ \A m \in 1..n : batch[m] > 0
       /\ table' = table \o batch
  /\ Len(table') <= MaxEvents
  /\ UNCHANGED <<now, client, wire, server, bounds>>

-----------------------------------------------------------------------------
\* Mutant of Connect: a client that received an event never connects again.
ConnectOnce ==
  /\ es = "waiting" /\ lastEventId = Null
  /\ es' = "connecting"
  /\ UNCHANGED <<now, table, resume, lastEventId, received, again, wire, server, bounds>>

(* The timer of the first connection or of a reconnection fires. *)
Connect ==
  /\ es = "waiting"
  /\ es' = "connecting"
  /\ UNCHANGED <<now, table, resume, lastEventId, received, again, wire, server, bounds>>

(* validateEventFilters: since must start like YYYY-MM-DD and parse as a   *)
(* date; an event id is a UUID, whose first hyphen comes after 8 digits.   *)
ValidSince == resume = "since" => lastEventId = Null

(* A Date keeps the millisecond of a stamp.                                *)
Millis(t) == t - (t % Fraction)

\* Mutant of FirstCursor: the stream ignores Last-Event-ID.
CursorIsNow == Millis(now)

(* The cursor of a new stream: the timestamp of the event to resume from,  *)
(* or the present.                                                         *)
FirstCursor ==
  Millis(IF resume = "header" /\ lastEventId # Null THEN table[lastEventId] ELSE now)

OpenStream(c) ==
  /\ es = "connecting"
  /\ ValidSince
  /\ es' = "open"
  /\ open' = TRUE
  /\ pollCursor' = c
  /\ asked' = NoPolls
  /\ UNCHANGED <<now, table, resume, lastEventId, received, again, wire, drops>>

Accept == OpenStream(FirstCursor) /\ UNCHANGED <<faults, blind>>

(* The lookup of the last event fails: the stream starts at the present. *)
AcceptBlind ==
  /\ resume = "header" /\ lastEventId # Null
  /\ Fail
  /\ OpenStream(Millis(now))
  /\ blind' = TRUE

(* A 400 answer makes the client wait and try again, with a backoff. *)
Reject ==
  /\ es = "connecting"
  /\ ~ValidSince
  /\ es' = "waiting"
  /\ UNCHANGED <<now, table, resume, lastEventId, received, again, wire, server, bounds>>

(* No server, or a 503 answer as staff_events cannot be found. *)
Unavailable ==
  /\ es = "connecting"
  /\ Fail
  /\ es' = "waiting"
  /\ UNCHANGED <<now, table, resume, lastEventId, received, again, wire, server, drops, blind>>

-----------------------------------------------------------------------------
\* Mutant of StartPoll: a poll starts whether or not one is under way.
StartPollAlways(p) ==
  /\ open /\ asked[p] = Null /\ Len(wire) < MaxWire
  /\ asked' = [asked EXCEPT ![p] = pollCursor]
  /\ UNCHANGED <<now, table, client, wire, open, pollCursor, bounds>>

(* The interval fires, or the first poll of a stream: the query is sent. *)
StartPoll(p) ==
  /\ open
  /\ ~isPolling
  /\ Len(wire) < MaxWire
  /\ asked' = [asked EXCEPT ![p] = pollCursor]
  /\ UNCHANGED <<now, table, client, wire, open, pollCursor, bounds>>

(* WHERE timestamp > cursor ORDER BY timestamp ASC LIMIT n. *)
Answers(cursor) ==
  LET window == {k \in Ids : table[k] > cursor} IN
  {S \in SUBSET window :
     /\ Cardinality(S) <= Limit
     /\ Cardinality(S) < Limit => S = window
     /\ \A k \in S, m \in window \ S : table[k] <= table[m]}

Orders(S) == Bijection(1..Cardinality(S), S)

\* Mutant of Sorted: the events are written in the order of insertion.
InsertionOrder(S) == {q \in Orders(S) : \A m, n \in DOMAIN q : m < n => q[m] < q[n]}

(* Events of one timestamp come in any order. *)
Sorted(S) == {q \in Orders(S) : \A m, n \in DOMAIN q : m < n => table[q[m]] <= table[q[n]]}

(* The rows arrive: each is written and the cursor moves with it. *)
AnswerPoll(p) ==
  /\ asked[p] # Null
  /\ asked' = [asked EXCEPT ![p] = Null]
  /\ \E S \in Answers(asked[p]) :
       \E q \in Sorted(S) :
         /\ wire' = wire \o q
         /\ pollCursor' = IF S = {} THEN pollCursor ELSE Millis(table[Last(q)])
  /\ UNCHANGED <<now, table, client, open, bounds>>

(* The query rejects: the stream writes an error event and ends. *)
PollFails(p) ==
  /\ asked[p] # Null
  /\ Fail
  /\ asked' = NoPolls
  /\ open' = FALSE
  /\ UNCHANGED <<now, table, client, wire, pollCursor, drops, blind>>

-----------------------------------------------------------------------------
Receive ==
  /\ es = "open" /\ wire # <<>>
  /\ IF Head(wire) \in Range(received)
     THEN again' = again \cup {Head(wire)} /\ UNCHANGED received
     ELSE received' = Append(received, Head(wire)) /\ UNCHANGED again
  /\ lastEventId' = Head(wire)
  /\ wire' = Tail(wire)
  /\ UNCHANGED <<now, table, resume, es, server, bounds>>

(* The client has read all there was of a stream the server ended. *)
SeeEnd ==
  /\ es = "open" /\ ~open /\ wire = <<>>
  /\ es' = "waiting"
  /\ UNCHANGED <<now, table, resume, lastEventId, received, again, wire, server, bounds>>

\* Mutant of Drop: the server does not notice that the client has gone.
DropUnnoticed ==
  /\ es = "open"
  /\ drops < MaxDrops
  /\ drops' = drops + 1
  /\ es' = "waiting"
  /\ wire' = <<>>
  /\ UNCHANGED <<now, table, resume, lastEventId, received, again, server, faults, blind>>

(* The connection is cut, the server restarts, or the user changes a      *)
(* filter: what was on the wire is lost, and the server stops polling.    *)
Drop ==
  /\ es = "open"
  /\ drops < MaxDrops
  /\ drops' = drops + 1
  /\ es' = "waiting"
  /\ wire' = <<>>
  /\ open' = FALSE
  /\ asked' = NoPolls
  /\ UNCHANGED <<now, table, resume, lastEventId, received, again, pollCursor, faults, blind>>

StreamNext ==
  \/ Connect \/ Accept \/ AcceptBlind \/ Reject \/ Unavailable
  \/ \E p \in Polls : StartPoll(p) \/ AnswerPoll(p) \/ PollFails(p)
  \/ Receive \/ SeeEnd \/ Drop

Next == Tick \/ Insert \/ StreamNext

Spec == Init /\ [][Next]_vars

(* The client's timer fires, a request is answered, the interval keeps     *)
(* firing, a query settles and a connection that is not cut delivers.      *)
Fairness ==
  /\ WF_vars(Connect)
  /\ WF_vars(Accept \/ Reject)
  /\ \A p \in Polls : WF_vars(StartPoll(p)) /\ WF_vars(AnswerPoll(p))
  /\ WF_vars(Receive)
  /\ WF_vars(SeeEnd)

FairSpec == Spec /\ Fairness

-----------------------------------------------------------------------------
TypeOK ==
  /\ now \in 1..MaxTime
  /\ table \in Seq(1..now)
  /\ resume \in Resumes
  /\ es \in {"waiting", "connecting", "open"}
  /\ lastEventId \in Ids \cup {Null}
  /\ received \in Seq(Ids) /\ again \subseteq Ids /\ wire \in Seq(Ids)
  /\ open \in BOOLEAN /\ (open => es = "open")
  /\ pollCursor \in 0..now
  /\ asked \in [Polls -> 0..now \cup {Null}]
  /\ drops \in 0..MaxDrops /\ faults \in 0..MaxFaults
  /\ blind \in BOOLEAN

(* The stamp an event carries, and whether it is the one in the table. *)
Stamp(k) == Millis(table[k])
IsWhole(k) == Stamp(k) = table[k]

(***************************************************************************)
(* A client receives no event twice that is stamped at a whole millisecond *)
(* across the polls of a stream and the streams it resumes, whatever was   *)
(* on the wire when one ended.  One stamped within a millisecond comes     *)
(* again at every poll.                                                    *)
(***************************************************************************)
ReceivedOnce == \A k \in again : ~IsWhole(k)

(***************************************************************************)
(* A client receives events in the order of the stamps they carry, which   *)
(* are milliseconds, also across streams and when they were inserted in    *)
(* another order: what it received last, were it again, is not older than  *)
(* anything it received.  So an event stops coming again once a later      *)
(* millisecond's has come.                                                 *)
(***************************************************************************)
ReceivedInOrder ==
  lastEventId # Null =>
    \A k \in Range(received) : Stamp(k) <= Stamp(lastEventId)

NoGaps ==
  received # <<>> =>
    \A k \in received[1]..Last(received) : k \in Range(received)

(* Events are inserted in the order of distinct timestamps. *)
InOrder == \A j, k \in Ids : j < k => table[j] < table[k]

(***************************************************************************)
(* As long as events are inserted in the order of distinct timestamps and  *)
(* no resume lookup failed, a client that received two events received     *)
(* every one inserted between them, whatever connections ended between.    *)
(***************************************************************************)
NoGapsInOrder == InOrder /\ ~blind => NoGaps

(* No millisecond has a full batch of events stamped within it, which      *)
(* would come again at every poll and let nothing after them through.      *)
Sparse ==
  \A k \in Ids :
    Cardinality({j \in Ids : Stamp(j) = Stamp(k) /\ ~IsWhole(j)}) < Limit

(***************************************************************************)
(* Once a client that resumes by the header has received an event, it      *)
(* receives every later one in the end, across the connections that end,   *)
(* as long as no millisecond has a full batch of events.                   *)
(***************************************************************************)
EventuallyReceived ==
  [](InOrder /\ Sparse /\ resume = "header") =>
    \A k \in 1..MaxEvents :
      (lastEventId # Null /\ lastEventId < k /\ k \in Ids)
        ~> (blind \/ k \in Range(received))

(***************************************************************************)
(* A client whose connection ended gets through again, as the server and   *)
(* the network fail only so often.                                         *)
(***************************************************************************)
Reconnects == (es = "waiting") ~> (es = "open")

-----------------------------------------------------------------------------
(***************************************************************************)
(* Proofs, for any batch limit, any number of events, polls and            *)
(* connections, and any delay between an event's stamp and its insertion.  *)
(***************************************************************************)

(* A stream that is closed has nothing in flight; one that is open has at  *)
(* most one poll in flight, and it asked from the present cursor.          *)
OnePoll ==
  /\ es # "open" => wire = <<>>
  /\ ~open => \A p \in Polls : asked[p] = Null
  /\ \A p \in Polls : asked[p] # Null => asked[p] = pollCursor
  /\ \A o, p \in Polls : asked[o] # Null /\ asked[p] # Null => o = p

(* The client resumes from an event it received, the last one.             *)
ResumesFromLast ==
  /\ received = <<>> => lastEventId = Null
  /\ received # <<>> => lastEventId \in Range(received)

(* What the client received or will receive on this connection.            *)
Seen == Range(received) \cup Range(wire)

(* The cursor of an open stream is a millisecond, and none of these events *)
(* carries a later one.                                                    *)
SeenBehindCursor ==
  es = "open" => Millis(pollCursor) = pollCursor /\ \A k \in Seen : Stamp(k) <= pollCursor

(* What comes or came again is stamped within a millisecond.               *)
SeenOnce ==
  /\ again \subseteq Range(received) /\ ReceivedOnce
  /\ \A i, j \in DOMAIN received : received[i] = received[j] => i = j
  /\ \A i, j \in DOMAIN wire : wire[i] = wire[j] => i = j \/ ~IsWhole(wire[i])
  /\ \A j \in DOMAIN wire : wire[j] \in Range(received) => ~IsWhole(wire[j])

(* What is on the wire is in order and not older than what was received.   *)
SeenInOrder ==
  /\ ReceivedInOrder
  /\ \A i, j \in DOMAIN wire : i < j => Stamp(wire[i]) <= Stamp(wire[j])
  /\ \A k \in Range(received), j \in DOMAIN wire : Stamp(k) <= Stamp(wire[j])

(* An event not among E but before one of them is no newer than the        *)
(* millisecond of the oldest: there is no gap in E.                        *)
NoGapIn(E) ==
  \A i, j \in E, k \in Ids : k < j /\ k \notin E => table[k] <= Stamp(i)

(* From the first event seen to the cursor there is no gap, the cursor is  *)
(* the stamp of an event seen, and an event comes before later ones.       *)
NoGapSeen ==
  es = "open" =>
    /\ NoGapIn(Seen)
    /\ Seen # {} => \E k \in Seen : Stamp(k) = pollCursor
    /\ \A j \in Seen, k \in Ids : j <= k /\ table[k] <= pollCursor => k \in Seen
    /\ \A j \in DOMAIN wire, k \in Range(wire) :
         k < wire[j] /\ k \notin Range(received) => \E i \in DOMAIN wire : i < j /\ wire[i] = k
    /\ \A j \in Range(received), k \in Range(wire) : k \notin Range(received) => j < k

NoGapReceived == NoGapIn(Range(received))

GapInv == InOrder /\ ~blind => NoGapSeen /\ NoGapReceived

StreamInv ==
  /\ TypeOK /\ OnePoll /\ ResumesFromLast
  /\ SeenBehindCursor /\ SeenOnce /\ SeenInOrder /\ GapInv
-----------------------------------------------------------------------------
(* Facts about the operators. *)

(* What is cut to a millisecond.                                           *)
LEMMA MillisFacts ==
  /\ \A t \in Nat : Millis(t) \in Nat /\ Millis(t) <= t /\ Millis(Millis(t)) = Millis(t)
  /\ \A t, u \in Nat : t <= u => Millis(t) <= Millis(u)
<1>0. Fraction \in Nat \ {0}
  BY StreamAssumption
<1>1. \A t \in Nat : Millis(t) \in Nat /\ Millis(t) <= t
  BY <1>0 DEF Millis
<1>2. \A t \in Nat : Millis(Millis(t)) = Millis(t)
  BY <1>0 DEF Millis
<1>3. \A t \in Nat, u \in Nat : t <= u => Millis(t) <= Millis(u)
  BY <1>0 DEF Millis
<1> QED
  BY <1>1, <1>2, <1>3

(* What TypeOK says of the table and the sequences, element by element.    *)
LEMMA Types ==
  ASSUME TypeOK
  PROVE  /\ now \in Nat \ {0}
         /\ Len(table) \in Nat /\ DOMAIN table = Ids
         /\ \A k \in Ids : k \in Nat /\ table[k] \in Nat /\ table[k] <= now
         /\ Len(received) \in Nat /\ DOMAIN received = 1..Len(received)
         /\ \A i \in DOMAIN received : received[i] \in Ids
         /\ Len(wire) \in Nat /\ DOMAIN wire = 1..Len(wire)
         /\ \A i \in DOMAIN wire : wire[i] \in Ids
         /\ Range(received) \subseteq Ids /\ Range(wire) \subseteq Ids
         /\ pollCursor \in Nat /\ pollCursor <= now
         /\ \A k \in Ids : Stamp(k) \in Nat /\ Stamp(k) <= table[k]
<1>1. now \in Nat \ {0} /\ pollCursor \in Nat /\ pollCursor <= now
  BY StreamAssumption DEF TypeOK
<1>2. Len(table) \in Nat /\ DOMAIN table = Ids /\ \A k \in Ids : table[k] \in 1..now
  <2>1. table \in Seq(1..now)
    BY DEF TypeOK
  <2> QED
    BY <2>1, LenProperties, ElementOfSeq DEF Ids
<1>3. /\ Len(received) \in Nat /\ DOMAIN received = 1..Len(received)
      /\ \A i \in DOMAIN received : received[i] \in Ids
  <2>1. received \in Seq(Ids)
    BY DEF TypeOK
  <2> QED
    BY <2>1, LenProperties, ElementOfSeq
<1>4. /\ Len(wire) \in Nat /\ DOMAIN wire = 1..Len(wire)
      /\ \A i \in DOMAIN wire : wire[i] \in Ids
  <2>1. wire \in Seq(Ids)
    BY DEF TypeOK
  <2> QED
    BY <2>1, LenProperties, ElementOfSeq
<1>5. \A k \in Ids : k \in Nat /\ table[k] \in Nat /\ table[k] <= now
  BY <1>1, <1>2 DEF Ids
<1>6. \A k \in Ids : Stamp(k) \in Nat /\ Stamp(k) <= table[k]
  BY <1>5, MillisFacts DEF Stamp
<1> QED
  BY <1>1, <1>2, <1>3, <1>4, <1>5, <1>6 DEF Range

(* The rows of an answer in the order of the query: each once, the last    *)
(* one newest.                                                             *)
LEMMA SortedAnswer ==
  ASSUME TypeOK, NEW S, S \subseteq Ids, NEW q \in Sorted(S)
  PROVE  /\ q \in Seq(Ids) /\ DOMAIN q = 1..Len(q) /\ Len(q) \in Nat
         /\ \A m \in DOMAIN q : q[m] \in S
         /\ \A m, n \in DOMAIN q : q[m] = q[n] => m = n
         /\ \A m, n \in DOMAIN q : m < n => table[q[m]] <= table[q[n]]
         /\ \A k \in S : \E n \in DOMAIN q : q[n] = k
         /\ S = {} => DOMAIN q = {}
         /\ S # {} => Last(q) \in S /\ \A k \in S : table[k] <= table[Last(q)]
<1> DEFINE n == Cardinality(S)
<1>1. IsFiniteSet(S)
  <2>1. IsFiniteSet(1..Len(table))
    BY Types, FS_Interval
  <2> QED
    BY <2>1, FS_Subset DEF Ids
<1>2. n \in Nat /\ (S = {} <=> n = 0)
  BY <1>1, FS_CardinalityType, FS_EmptySet
<1>3. /\ q \in [1..n -> S]
      /\ \A a, b \in 1..n : q[a] = q[b] => a = b
      /\ \A k \in S : \E a \in 1..n : q[a] = k
      /\ \A a, b \in 1..n : a < b => table[q[a]] <= table[q[b]]
  BY DEF Sorted, Orders, Bijection, Injection, Surjection, IsInjective
<1>4. q \in Seq(Ids) /\ Len(q) = n /\ DOMAIN q = 1..n
  BY <1>2, <1>3
<1>5. ASSUME S # {}
      PROVE  Last(q) \in S /\ \A k \in S : table[k] <= table[Last(q)]
  <2>1. Last(q) = q[n] /\ n \in 1..n
    BY <1>2, <1>4, <1>5 DEF Last
  <2>2. ASSUME NEW k \in S
        PROVE  table[k] <= table[q[n]]
    <3>1. PICK a \in 1..n : q[a] = k
      BY <1>3
    <3>2. table[k] \in Nat
      BY Types
    <3> QED
      BY <1>2, <1>3, <2>1, <3>1, <3>2
  <2> QED
    BY <1>3, <2>1, <2>2
<1> QED
  BY <1>2, <1>3, <1>4, <1>5

(* A batch of n elements is a sequence.                                    *)
LEMMA BatchIsSeq ==
  ASSUME NEW T, NEW n \in Nat, NEW f \in [1..n -> T]
  PROVE  f \in Seq(T) /\ Len(f) = n
  OBVIOUS

(* What a sequence is after another one has been put at its end.           *)
LEMMA Appended ==
  ASSUME NEW T, NEW s \in Seq(T), NEW b \in Seq(T)
  PROVE  /\ s \o b \in Seq(T)
         /\ DOMAIN (s \o b) = 1..(Len(s) + Len(b))
         /\ \A e \in 1..Len(s) : (s \o b)[e] = s[e]
         /\ \A e \in 1..(Len(s) + Len(b)) : e \notin 1..Len(s) =>
              e - Len(s) \in 1..Len(b) /\ (s \o b)[e] = b[e - Len(s)]
         /\ Range(s \o b) = Range(s) \cup Range(b)
<1>1. /\ s \o b \in Seq(T)
      /\ Len(s) \in Nat /\ DOMAIN s = 1..Len(s) /\ Len(b) \in Nat /\ DOMAIN b = 1..Len(b)
      /\ DOMAIN (s \o b) = 1..(Len(s) + Len(b))
      /\ \A e \in 1..Len(s) : (s \o b)[e] = s[e]
      /\ \A n \in 1..Len(b) : (s \o b)[Len(s) + n] = b[n]
  OBVIOUS
<1>2. ASSUME NEW e \in 1..(Len(s) + Len(b)), e \notin 1..Len(s)
      PROVE  e - Len(s) \in 1..Len(b) /\ (s \o b)[e] = b[e - Len(s)]
  <2>1. e - Len(s) \in 1..Len(b) /\ e = Len(s) + (e - Len(s))
    BY <1>1, <1>2
  <2> QED
    BY <1>1, <2>1
<1>3. Range(s \o b) \subseteq Range(s) \cup Range(b)
  BY <1>1, <1>2 DEF Range
<1>4. ASSUME NEW e \in 1..Len(s)
      PROVE  s[e] \in Range(s \o b)
  <2>1. e \in DOMAIN (s \o b) /\ (s \o b)[e] = s[e]
    BY <1>1
  <2> QED
    BY <2>1 DEF Range
<1>5. ASSUME NEW n \in 1..Len(b)
      PROVE  b[n] \in Range(s \o b)
  <2>1. Len(s) + n \in DOMAIN (s \o b) /\ (s \o b)[Len(s) + n] = b[n]
    BY <1>1
  <2> QED
    BY <2>1 DEF Range
<1>6. Range(s) \subseteq Range(s \o b) /\ Range(b) \subseteq Range(s \o b)
  BY <1>1, <1>4, <1>5 DEF Range
<1> QED
  BY <1>1, <1>2, <1>3, <1>6

(* What two sequences are after the head of one became the end of another. *)
LEMMA Moved ==
  ASSUME NEW T, NEW r \in Seq(T), NEW w \in Seq(T), w # <<>>
  PROVE  /\ Append(r, Head(w)) \in Seq(T) /\ Tail(w) \in Seq(T)
         /\ Head(w) = w[1] /\ 1 \in DOMAIN w /\ Append(r, Head(w)) # <<>>
         /\ Last(Append(r, Head(w))) = Head(w)
         /\ DOMAIN Append(r, Head(w)) = 1..(Len(r) + 1)
         /\ \A i \in 1..(Len(r) + 1) :
              \/ i \in DOMAIN r /\ i < Len(r) + 1 /\ Append(r, Head(w))[i] = r[i]
              \/ i = Len(r) + 1 /\ Append(r, Head(w))[i] = w[1]
         /\ \A i \in DOMAIN Tail(w) :
              i \in Nat /\ i + 1 \in DOMAIN w /\ i + 1 > 1 /\ Tail(w)[i] = w[i + 1]
         /\ Range(Append(r, Head(w))) = Range(r) \cup {w[1]}
         /\ Range(Tail(w)) \cup {w[1]} = Range(w)
<1>1. /\ Append(r, Head(w)) \in Seq(T) /\ Tail(w) \in Seq(T) /\ Head(w) = w[1]
      /\ Len(r) \in Nat /\ DOMAIN r = 1..Len(r)
      /\ Len(w) \in Nat \ {0} /\ DOMAIN w = 1..Len(w)
      /\ Len(Append(r, Head(w))) = Len(r) + 1
      /\ DOMAIN Append(r, Head(w)) = 1..(Len(r) + 1)
      /\ \A i \in 1..Len(r) : Append(r, Head(w))[i] = r[i]
      /\ Append(r, Head(w))[Len(r) + 1] = w[1]
      /\ DOMAIN Tail(w) = 1..(Len(w) - 1)
      /\ \A i \in 1..(Len(w) - 1) : Tail(w)[i] = w[i + 1]
  OBVIOUS
<1>2. Append(r, Head(w)) # <<>> /\ Last(Append(r, Head(w))) = Head(w)
  BY <1>1 DEF Last
<1>3. \A i \in 1..(Len(r) + 1) :
              \/ i \in DOMAIN r /\ i < Len(r) + 1 /\ Append(r, Head(w))[i] = r[i]
              \/ i = Len(r) + 1 /\ Append(r, Head(w))[i] = w[1]
  BY <1>1
<1>4. \A i \in DOMAIN Tail(w) :
              i \in Nat /\ i + 1 \in DOMAIN w /\ i + 1 > 1 /\ Tail(w)[i] = w[i + 1]
  BY <1>1
<1>5. Range(Append(r, Head(w))) = Range(r) \cup {w[1]}
  <2>1. Range(Append(r, Head(w))) \subseteq Range(r) \cup {w[1]}
    BY <1>1, <1>3 DEF Range
  <2>2. Len(r) + 1 \in 1..(Len(r) + 1) /\ \A i \in 1..Len(r) : i \in 1..(Len(r) + 1)
    BY <1>1
  <2>3. w[1] \in Range(Append(r, Head(w)))
    BY <1>1, <2>2 DEF Range
  <2>4. Range(r) \subseteq Range(Append(r, Head(w)))
    BY <1>1, <2>2 DEF Range
  <2> QED
    BY <2>1, <2>3, <2>4
<1>6. Range(Tail(w)) \cup {w[1]} = Range(w)
  <2>1. Range(Tail(w)) \cup {w[1]} \subseteq Range(w)
    BY <1>1, <1>4 DEF Range
  <2>2. ASSUME NEW i \in DOMAIN w
        PROVE  w[i] \in Range(Tail(w)) \cup {w[1]}
    <3>1. CASE i = 1
      BY <3>1
    <3>2. CASE i # 1
      <4>1. i - 1 \in 1..(Len(w) - 1) /\ i = (i - 1) + 1
        BY <1>1, <3>2
      <4>2. Tail(w)[i - 1] = w[i]
        BY <1>1, <4>1
      <4> QED
        BY <1>1, <4>1, <4>2 DEF Range
    <3> QED
      BY <3>1, <3>2
  <2> QED
    BY <2>1, <2>2 DEF Range
<1> QED
  BY <1>1, <1>2, <1>3, <1>4, <1>5, <1>6
-----------------------------------------------------------------------------
(* The steps. *)

(* Time passes and events are inserted, by a writer the stream knows       *)
(* nothing of but that no event is stamped in the future.                  *)
Environment ==
  /\ now' \in now..MaxTime
  /\ table' \in Seq(1..now')
  /\ Len(table) <= Len(table')
  /\ \A k \in Ids : table'[k] = table[k]
  /\ UNCHANGED <<client, wire, server, bounds>>

(* Events in the order of their stamps come after the cursor of a stream   *)
(* that has shown one.                                                     *)
LEMMA EnvironmentKeepsInv ==
  ASSUME StreamInv, Environment
  PROVE  StreamInv'
<1> USE DEF StreamInv
<1>1. UNCHANGED <<resume, es, lastEventId, received, again, wire, open, pollCursor, asked,
                  drops, faults, blind>>
  BY DEF Environment, client, server, bounds
<1>2. /\ now \in Nat \ {0} /\ now' \in now..MaxTime /\ MaxTime \in Nat
      /\ table' \in Seq(1..now') /\ Len(table') \in Nat /\ Len(table) \in Nat
      /\ Ids \subseteq Ids' /\ \A k \in Ids : table'[k] = table[k] /\ Stamp(k)' = Stamp(k)
  BY Types, StreamAssumption, LenProperties DEF Environment, Ids, Stamp
<1>3. TypeOK'
  <2>1. received \in Seq(Ids') /\ wire \in Seq(Ids') /\ again \subseteq Ids'
    BY <1>2, SeqMonotonic DEF TypeOK
  <2>2. now' \in 1..MaxTime /\ 0..now \subseteq 0..now'
    BY <1>2
  <2>3. pollCursor \in 0..now' /\ asked \in [Polls -> 0..now' \cup {Null}]
    BY <2>2 DEF TypeOK
  <2>4. lastEventId \in Ids' \cup {Null}
    BY <1>2 DEF TypeOK
  <2> QED
    BY <1>1, <1>2, <2>1, <2>2, <2>3, <2>4 DEF TypeOK
<1>4. OnePoll' /\ ResumesFromLast' /\ Seen' = Seen
  BY <1>1 DEF OnePoll, ResumesFromLast, Seen
<1>5. /\ \A i \in DOMAIN received : received[i] \in Ids
      /\ \A i \in DOMAIN wire : wire[i] \in Ids
      /\ Range(received) \subseteq Ids /\ Seen \subseteq Ids
      /\ lastEventId # Null => lastEventId \in Ids
  BY Types DEF Seen, TypeOK
<1>6. SeenBehindCursor'
  BY <1>1, <1>2, <1>4, <1>5 DEF SeenBehindCursor
<1>7. \A k \in Ids : IsWhole(k)' = IsWhole(k)
  BY <1>2 DEF IsWhole
<1>8. SeenOnce'
  <2>1. again \subseteq Ids
    BY DEF TypeOK
  <2> QED
    BY <1>1, <1>5, <1>7, <2>1 DEF SeenOnce, ReceivedOnce
<1>9. SeenInOrder'
  BY <1>1, <1>2, <1>5 DEF SeenInOrder, ReceivedInOrder
<1>10. GapInv'
  <2> SUFFICES ASSUME InOrder', ~blind
               PROVE  NoGapSeen' /\ NoGapReceived'
    BY <1>1 DEF GapInv
  <2>1. \A j, k \in Ids' : j < k => table'[j] < table'[k]
    BY DEF InOrder
  <2>2. InOrder /\ NoGapSeen /\ NoGapReceived
    BY <1>2, <2>1 DEF InOrder, GapInv
  <2>3. \A k \in Ids' : k \in Nat /\ (k \notin Ids => \A j \in Ids : j < k)
    BY <1>2 DEF Ids
  <2>4. ASSUME NEW E \in SUBSET Ids, NoGapIn(E)
        PROVE  NoGapIn(E)'
    <3> SUFFICES ASSUME NEW i \in E, NEW j \in E, NEW k \in Ids', k < j, k \notin E
                 PROVE  table'[k] <= Stamp(i)'
      BY DEF NoGapIn
    <3>1. k \in Ids
      <4>1. j \in Nat /\ k \in Nat /\ (k \notin Ids => j < k)
        BY <2>3, Types
      <4> QED
        BY <2>4, <4>1
    <3> QED
      BY <1>2, <2>4, <3>1 DEF NoGapIn
  <2>5. NoGapReceived'
    BY <1>1, <1>5, <2>2, <2>4 DEF NoGapReceived
  <2>6. NoGapSeen'
    <3> SUFFICES ASSUME es = "open"
                 PROVE  /\ NoGapIn(Seen)'
                        /\ Seen # {} => \E k \in Seen : Stamp(k)' = pollCursor
                        /\ \A j \in Seen, k \in Ids' :
                             j <= k /\ table'[k] <= pollCursor => k \in Seen
      BY <1>1, <1>4, <2>2 DEF NoGapSeen
    <3>1. NoGapIn(Seen)'
      BY <1>4, <1>5, <2>2, <2>4 DEF NoGapSeen
    <3>2. Seen # {} => \E k \in Seen : Stamp(k) = pollCursor
      BY <2>2 DEF NoGapSeen
    <3>3. ASSUME NEW j \in Seen, NEW k \in Ids', j <= k, table'[k] <= pollCursor
          PROVE  k \in Seen
      <4>1. PICK l \in Seen : Stamp(l) = pollCursor
        BY <3>2
      <4>2. k \in Ids
        <5> SUFFICES ASSUME k \notin Ids
                     PROVE  FALSE
          OBVIOUS
        <5>1. l \in Ids /\ l < k
          BY <1>5, <2>3
        <5>2. table'[l] < table'[k] /\ table'[l] = table[l]
          BY <1>2, <2>1, <5>1
        <5>3. table[l] \in Nat /\ Stamp(l) \in Nat /\ Stamp(l) <= table[l]
          BY <5>1, Types
        <5>4. table'[k] \in Nat
          BY <1>2, ElementOfSeq, SMTT(40) DEF Ids
        <5> QED
          BY <3>3, <4>1, <5>2, <5>3, <5>4
      <4> QED
        BY <1>2, <2>2, <3>3, <4>2 DEF NoGapSeen
    <3>4. Seen # {} => \E k \in Seen : Stamp(k)' = pollCursor
      BY <1>2, <1>5, <3>2
    <3> QED
      BY <3>1, <3>3, <3>4
  <2> QED
    BY <2>5, <2>6
<1> QED
  BY <1>3, <1>4, <1>6, <1>8, <1>9, <1>10

(* Tick and Insert are steps of that writer.                               *)
LEMMA OutsideIsEnvironment ==
  ASSUME TypeOK, Tick \/ Insert
  PROVE  Environment
<1>1. now \in Nat \ {0} /\ now \in now..MaxTime /\ MaxTime \in Nat
  BY Types, StreamAssumption DEF TypeOK
<1>2. table \in Seq(1..now) /\ Len(table) \in Nat
  BY Types DEF TypeOK
<1>3. CASE Tick
  <2>1. now' \in now..MaxTime /\ 1..now \subseteq 1..now' /\ table' = table
    BY <1>1, <1>3 DEF Tick
  <2>2. table' \in Seq(1..now')
    BY <1>2, <2>1, SeqMonotonic
  <2> QED
    BY <1>2, <1>3, <2>1, <2>2 DEF Tick, Environment
<1>4. CASE Insert
  <2>1. PICK n \in 1..InsertMax : \E batch \in [1..n -> {now - d : d \in Delays}] :
          (\A m \in 1..n : batch[m] > 0) /\ table' = table \o batch
    BY <1>4 DEF Insert
  <2>2. PICK batch \in [1..n -> {now - d : d \in Delays}] :
          (\A m \in 1..n : batch[m] > 0) /\ table' = table \o batch
    BY <2>1
  <2>3. n \in Nat
    BY StreamAssumption
  <2>4. ASSUME NEW m \in 1..n
        PROVE  batch[m] \in 1..now
    <3>1. PICK d \in Delays : batch[m] = now - d
      BY <2>2
    <3>2. batch[m] > 0 /\ d \in Nat
      BY <2>2, StreamAssumption
    <3> QED
      BY <1>1, <3>1, <3>2
  <2>5. batch \in Seq(1..now) /\ Len(batch) = n
    <3>1. batch \in [1..n -> 1..now]
      BY <2>2, <2>4
    <3> QED
      BY <2>3, <3>1, BatchIsSeq
  <2>6. /\ table' \in Seq(1..now)
        /\ DOMAIN table' = 1..(Len(table) + n)
        /\ \A e \in 1..Len(table) : table'[e] = table[e]
    BY <1>2, <2>2, <2>5, Appended
  <2>7. Len(table') \in Nat /\ DOMAIN table' = 1..Len(table')
    BY <2>6, LenProperties
  <2>8. Len(table) <= Len(table')
    BY <1>2, <2>3, <2>6, <2>7
  <2> QED
    BY <1>1, <1>4, <2>6, <2>8 DEF Insert, Environment, Ids
<1> QED
  BY <1>3, <1>4
(* The connection is not open: nothing is on the wire or in flight.        *)
LEMMA ClosedKeepsInv ==
  ASSUME StreamInv, es' \in {"waiting", "connecting"}, wire' = <<>>, open' = FALSE,
         asked' = NoPolls, drops' \in 0..MaxDrops, faults' \in 0..MaxFaults,
         UNCHANGED <<now, table, resume, lastEventId, received, again, pollCursor, blind>>
  PROVE  StreamInv'
<1> USE DEF StreamInv
<1>1. /\ Ids' = Ids /\ (InOrder' <=> InOrder)
      /\ \A k : Stamp(k)' = Stamp(k) /\ IsWhole(k)' = IsWhole(k)
  BY DEF Ids, InOrder, Stamp, IsWhole
<1>2. TypeOK'
  BY <1>1, EmptySeq DEF TypeOK, NoPolls
<1>3. OnePoll' /\ ResumesFromLast' /\ SeenBehindCursor'
  BY DEF OnePoll, ResumesFromLast, SeenBehindCursor, NoPolls
<1>4. DOMAIN wire' = {}
  OBVIOUS
<1>5. SeenOnce' /\ SeenInOrder'
  BY <1>1, <1>4 DEF SeenOnce, SeenInOrder, ReceivedOnce, ReceivedInOrder
<1>6. GapInv'
  BY <1>1 DEF GapInv, NoGapSeen, NoGapReceived, NoGapIn
<1> QED
  BY <1>2, <1>3, <1>5, <1>6

(* A connection ends, is tried again or is refused.                        *)
LEMMA ConnectionKeepsInv ==
  ASSUME StreamInv, Connect \/ Reject \/ Unavailable \/ SeeEnd \/ Drop
  PROVE  StreamInv'
<1>0. TypeOK /\ OnePoll
  BY DEF StreamInv
<1>1. open \in BOOLEAN /\ (open => es = "open") /\ asked \in [Polls -> 0..now \cup {Null}]
  BY <1>0 DEF TypeOK
<1>2. ~open => asked = NoPolls
  <2>1. ASSUME ~open
        PROVE  \A p \in Polls : asked[p] = Null
    BY <1>0, <2>1 DEF OnePoll
  <2> QED
    BY <1>1, <2>1 DEF NoPolls
<1>3. drops \in 0..MaxDrops /\ faults \in 0..MaxFaults /\ MaxDrops \in Nat /\ MaxFaults \in Nat
  BY <1>0, StreamAssumption DEF TypeOK
<1>4. CASE Drop
  <2>1. drops' \in 0..MaxDrops
    BY <1>3, <1>4 DEF Drop
  <2> QED
    BY <1>3, <1>4, <2>1, ClosedKeepsInv DEF Drop
<1>5. CASE Connect \/ Reject \/ Unavailable \/ SeeEnd
  <2>1. /\ es' \in {"waiting", "connecting"} /\ wire = <<>> /\ open = FALSE
        /\ UNCHANGED <<now, table, resume, lastEventId, received, again, wire, pollCursor,
                       open, asked, drops, blind>>
    BY <1>0, <1>1, <1>5 DEF Connect, Reject, Unavailable, SeeEnd, OnePoll, server, bounds
  <2>2. faults' \in 0..MaxFaults
    BY <1>3, <1>5 DEF Connect, Reject, Unavailable, SeeEnd, Fail, bounds
  <2> QED
    BY <1>2, <1>3, <2>1, <2>2, ClosedKeepsInv
<1> QED
  BY <1>4, <1>5

(* A stream opens: at the last event received or at the present, and       *)
(* nothing received lies past either.                                      *)
LEMMA AcceptKeepsInv ==
  ASSUME StreamInv, Accept \/ AcceptBlind
  PROVE  StreamInv'
<1> USE DEF StreamInv
<1>0. TypeOK
  OBVIOUS
<1>1. PICK c \in {Millis(now), FirstCursor} :
        /\ OpenStream(c)
        /\ blind' \in BOOLEAN /\ faults' \in 0..MaxFaults
        /\ ~blind' => ~blind /\ c = FirstCursor
  <2>1. CASE Accept
    BY <2>1 DEF Accept, TypeOK
  <2>2. CASE AcceptBlind
    BY <2>2, StreamAssumption DEF AcceptBlind, Fail, TypeOK
  <2> QED
    BY <2>1, <2>2
<1>2. /\ es = "connecting" /\ ValidSince /\ es' = "open" /\ open' = TRUE
      /\ pollCursor' = c /\ asked' = NoPolls
      /\ UNCHANGED <<now, table, resume, lastEventId, received, again, wire, drops>>
  BY <1>1 DEF OpenStream
<1>3. /\ wire = <<>> /\ DOMAIN wire = {} /\ Seen' = Range(received) /\ Range(wire) = {}
      /\ \A k : Stamp(k)' = Stamp(k) /\ IsWhole(k)' = IsWhole(k)
  BY <1>2 DEF OnePoll, Seen, Range, Stamp, IsWhole
<1>4. /\ now \in Nat
      /\ \A k \in Ids : k \in Nat /\ table[k] \in Nat /\ table[k] <= now
      /\ \A k \in Ids : Stamp(k) \in Nat /\ Stamp(k) <= table[k]
      /\ Range(received) \subseteq Ids
  BY Types DEF TypeOK
<1>5. ASSUME received # <<>>
      PROVE  /\ lastEventId \in Range(received)
             /\ \A k \in Range(received) : Stamp(k) <= Stamp(lastEventId)
             /\ c # Millis(now) => c = Stamp(lastEventId)
             /\ resume = "header" => FirstCursor = Stamp(lastEventId)
             /\ resume # "since"
  <2>1. lastEventId \in Range(received) /\ lastEventId # Null
    BY <1>4, <1>5 DEF ResumesFromLast, Null
  <2>2. resume # "since"
    BY <1>2, <2>1 DEF ValidSince
  <2> QED
    BY <1>1, <2>1, <2>2 DEF FirstCursor, Stamp, SeenInOrder, ReceivedInOrder
<1>6. received = <<>> => Range(received) = {}
  BY DEF Range
<1>7. /\ c \in Nat /\ c <= now /\ Millis(c) = c
      /\ \A k \in Range(received) : Stamp(k) <= c
  <2>1. CASE c = Millis(now)
    BY <1>4, <2>1, MillisFacts DEF Stamp
  <2>2. CASE c # Millis(now) /\ received # <<>>
    <3>1. c = Stamp(lastEventId) /\ lastEventId \in Ids
      BY <1>4, <1>5, <2>2
    <3>2. Millis(c) = c
      BY <1>4, <3>1, MillisFacts DEF Stamp
    <3> QED
      BY <1>4, <1>5, <2>2, <3>1, <3>2
  <2>3. CASE c # Millis(now) /\ received = <<>>
    <3>1. lastEventId = Null
      BY <2>3 DEF ResumesFromLast
    <3> QED
      BY <1>1, <2>3, <3>1 DEF FirstCursor
  <2> QED
    BY <2>1, <2>2, <2>3
<1>8. TypeOK'
  <2>1. c \in 0..now /\ NoPolls \in [Polls -> 0..now \cup {Null}]
    BY <1>4, <1>7 DEF NoPolls
  <2> QED
    BY <1>1, <1>2, <2>1 DEF TypeOK, Ids
<1>9. OnePoll' /\ ResumesFromLast'
  BY <1>2 DEF OnePoll, ResumesFromLast, NoPolls
<1>10. SeenBehindCursor'
  BY <1>2, <1>3, <1>7 DEF SeenBehindCursor
<1>11. SeenOnce' /\ SeenInOrder'
  BY <1>2, <1>3 DEF SeenOnce, SeenInOrder, ReceivedOnce, ReceivedInOrder
<1>12. GapInv'
  <2> SUFFICES ASSUME InOrder, ~blind, c = FirstCursor
               PROVE  NoGapSeen' /\ NoGapReceived'
    BY <1>1, <1>2 DEF GapInv, InOrder, Ids
  <2>1. NoGapReceived
    BY DEF GapInv
  <2>2. NoGapReceived'
    BY <1>2, <1>3, <2>1 DEF NoGapReceived, NoGapIn, Ids
  <2>3. NoGapSeen'
    <3>1. CASE received = <<>>
      BY <1>2, <1>3, <1>6, <3>1 DEF NoGapSeen, NoGapIn
    <3>2. CASE received # <<>>
      <4>1. resume = "header"
        <5>1. resume \in {"header", "since"}
          BY StreamAssumption DEF TypeOK
        <5> QED
          BY <1>5, <3>2, <5>1
      <4>2. c = Stamp(lastEventId) /\ lastEventId \in Range(received) /\ lastEventId \in Ids
        BY <1>4, <1>5, <3>2, <4>1
      <4>3. ASSUME NEW j \in Range(received), NEW k \in Ids, j <= k, table[k] <= c
            PROVE  k \in Range(received)
        <5> SUFFICES ASSUME k \notin Range(received)
                     PROVE  FALSE
          OBVIOUS
        <5>1. table[k] <= table[lastEventId]
          BY <1>4, <4>2, <4>3
        <5>2. k < lastEventId
          <6> SUFFICES ASSUME lastEventId < k
                       PROVE  FALSE
            BY <1>4, <4>2
          <6>1. table[lastEventId] < table[k]
            BY <4>2 DEF InOrder
          <6> QED
            BY <1>4, <4>2, <5>1, <6>1
        <5>3. table[k] <= Stamp(j)
          BY <2>1, <4>2, <5>2 DEF NoGapReceived, NoGapIn
        <5>4. j < k /\ j \in Ids
          BY <1>4, <4>3
        <5>5. table[j] < table[k]
          BY <5>4 DEF InOrder
        <5> QED
          BY <1>4, <5>3, <5>4, <5>5
      <4>4. NoGapIn(Range(received))'
        BY <2>2, <1>2 DEF NoGapReceived
      <4>5. NoGapIn(Seen)'
        BY <1>2, <1>3, <4>4 DEF NoGapIn
      <4>6. \E k \in Range(received) : Stamp(k)' = c
        BY <1>3, <4>2
      <4> QED
        BY <1>2, <1>3, <4>3, <4>5, <4>6 DEF NoGapSeen, Ids
    <3> QED
      BY <3>1, <3>2
  <2> QED
    BY <2>2, <2>3
<1> QED
  BY <1>8, <1>9, <1>10, <1>11, <1>12

(* A poll starts when none is under way; a query that fails ends its       *)
(* stream with what is on the wire.                                        *)
LEMMA PollKeepsInv ==
  ASSUME StreamInv, NEW p \in Polls, StartPoll(p) \/ PollFails(p)
  PROVE  StreamInv'
<1> USE DEF StreamInv
<1>1. /\ UNCHANGED <<now, table, resume, es, lastEventId, received, again, wire, pollCursor,
                     drops, blind>>
      /\ faults' \in 0..MaxFaults
      /\ open' \in BOOLEAN /\ (open' => open)
  <2>1. CASE StartPoll(p)
    BY <2>1 DEF StartPoll, client, bounds, TypeOK
  <2>2. CASE PollFails(p)
    <3>1. faults' \in 0..MaxFaults
      BY <2>2, StreamAssumption DEF PollFails, Fail, TypeOK
    <3> QED
      BY <2>2, <3>1 DEF PollFails, client
  <2> QED
    BY <2>1, <2>2
<1>2. /\ asked' \in [Polls -> 0..now \cup {Null}]
      /\ ~open' => \A o \in Polls : asked'[o] = Null
      /\ \A o \in Polls : asked'[o] # Null => asked'[o] = pollCursor
      /\ \A o, r \in Polls : asked'[o] # Null /\ asked'[r] # Null => o = r
  <2>1. CASE StartPoll(p)
    <3>1. /\ asked' = [asked EXCEPT ![p] = pollCursor] /\ open' = open /\ open
          /\ \A o \in Polls : asked[o] = Null
      BY <2>1 DEF StartPoll, isPolling
    <3> QED
      BY <3>1 DEF TypeOK
  <2>2. CASE PollFails(p)
    BY <2>2 DEF PollFails, NoPolls
  <2> QED
    BY <2>1, <2>2
<1>3. /\ Ids' = Ids /\ (InOrder' <=> InOrder) /\ Seen' = Seen
      /\ \A k : Stamp(k)' = Stamp(k) /\ IsWhole(k)' = IsWhole(k)
  BY <1>1 DEF Ids, InOrder, Seen, Stamp, IsWhole
<1>4. TypeOK'
  BY <1>1, <1>2, <1>3 DEF TypeOK
<1>5. OnePoll' /\ ResumesFromLast' /\ SeenBehindCursor' /\ SeenOnce' /\ SeenInOrder'
  BY <1>1, <1>2, <1>3 DEF OnePoll, ResumesFromLast, SeenBehindCursor, SeenOnce, SeenInOrder,
                          ReceivedOnce, ReceivedInOrder
<1>6. GapInv'
  BY <1>1, <1>3 DEF GapInv, NoGapSeen, NoGapReceived, NoGapIn
<1> QED
  BY <1>4, <1>5, <1>6

(* An answer holds only events past the cursor that the poll asked from,   *)
(* which is the present one; the cursor moves to the last of them.         *)
LEMMA AnswerKeepsInv ==
  ASSUME StreamInv, NEW p \in Polls, AnswerPoll(p)
  PROVE  StreamInv'
<1> USE DEF StreamInv
<1>0. TypeOK
  OBVIOUS
<1>1. PICK S \in Answers(asked[p]) : \E q \in Sorted(S) :
        /\ asked[p] # Null
        /\ asked' = [asked EXCEPT ![p] = Null]
        /\ wire' = wire \o q
        /\ pollCursor' = IF S = {} THEN pollCursor ELSE Millis(table[Last(q)])
        /\ UNCHANGED <<now, table, resume, es, lastEventId, received, again, open, drops,
                       faults, blind>>
  BY DEF AnswerPoll, client, bounds
<1>2. PICK q \in Sorted(S) :
        /\ asked[p] # Null
        /\ asked' = [asked EXCEPT ![p] = Null]
        /\ wire' = wire \o q
        /\ pollCursor' = IF S = {} THEN pollCursor ELSE Millis(table[Last(q)])
        /\ UNCHANGED <<now, table, resume, es, lastEventId, received, again, open, drops,
                       faults, blind>>
  BY <1>1
<1>3. asked[p] = pollCursor /\ open /\ es = "open"
  BY <1>2 DEF OnePoll, TypeOK
<1>4. /\ S \subseteq Ids
      /\ \A k \in S : table[k] > pollCursor
      /\ \A k \in S, m \in Ids : table[m] > pollCursor /\ m \notin S => table[k] <= table[m]
  BY <1>3 DEF Answers
<1>5. /\ q \in Seq(Ids) /\ DOMAIN q = 1..Len(q) /\ Len(q) \in Nat
      /\ \A m \in DOMAIN q : q[m] \in S
      /\ \A m, n \in DOMAIN q : q[m] = q[n] => m = n
      /\ \A m, n \in DOMAIN q : m < n => table[q[m]] <= table[q[n]]
      /\ \A k \in S : \E n \in DOMAIN q : q[n] = k
      /\ S = {} => DOMAIN q = {}
      /\ S # {} => Last(q) \in S /\ \A k \in S : table[k] <= table[Last(q)]
  BY <1>0, <1>4, SortedAnswer
<1>6. /\ \A k \in Ids : k \in Nat /\ table[k] \in Nat /\ table[k] <= now
      /\ \A k \in Ids : Stamp(k) \in Nat /\ Stamp(k) <= table[k]
      /\ now \in Nat /\ pollCursor \in Nat /\ pollCursor <= now
      /\ Len(wire) \in Nat /\ DOMAIN wire = 1..Len(wire) /\ wire \in Seq(Ids)
      /\ \A i \in DOMAIN wire : wire[i] \in Ids
      /\ Range(received) \subseteq Ids /\ Range(wire) \subseteq Ids
  BY Types DEF TypeOK
<1>7. /\ wire' \in Seq(Ids)
      /\ \A i \in DOMAIN wire' : i \in Nat
      /\ \A i \in DOMAIN wire : i \in DOMAIN wire' /\ wire'[i] = wire[i]
      /\ \A i \in DOMAIN wire, j \in DOMAIN wire' : j \notin DOMAIN wire => i < j
      /\ \A i \in DOMAIN wire' : i \notin DOMAIN wire =>
           i - Len(wire) \in DOMAIN q /\ wire'[i] = q[i - Len(wire)]
      /\ \A n \in DOMAIN q :
           n + Len(wire) \in DOMAIN wire' /\ n + Len(wire) \notin DOMAIN wire
           /\ wire'[n + Len(wire)] = q[n]
      /\ Range(wire') = Range(wire) \cup Range(q)
  <2>1. /\ wire' \in Seq(Ids)
        /\ DOMAIN wire' = 1..(Len(wire) + Len(q))
        /\ \A e \in 1..Len(wire) : wire'[e] = wire[e]
        /\ \A e \in 1..(Len(wire) + Len(q)) : e \notin 1..Len(wire) =>
             e - Len(wire) \in 1..Len(q) /\ wire'[e] = q[e - Len(wire)]
        /\ Range(wire') = Range(wire) \cup Range(q)
    BY <1>2, <1>5, <1>6, Appended
  <2>2. \A i \in DOMAIN wire' : i \in Nat
    BY <1>5, <1>6, <2>1
  <2>3. \A i \in DOMAIN wire, j \in DOMAIN wire' : j \notin DOMAIN wire => i < j
    BY <1>5, <1>6, <2>1
  <2>4. ASSUME NEW n \in DOMAIN q
        PROVE  n + Len(wire) \in DOMAIN wire' /\ n + Len(wire) \notin DOMAIN wire
               /\ wire'[n + Len(wire)] = q[n]
    <3>1. n + Len(wire) \in 1..(Len(wire) + Len(q)) /\ n + Len(wire) \notin 1..Len(wire)
      BY <1>5, <1>6
    <3>2. (n + Len(wire)) - Len(wire) = n
      BY <1>5, <1>6
    <3> QED
      BY <1>6, <2>1, <3>1, <3>2
  <2>5. \A i \in DOMAIN wire : i \in DOMAIN wire'
    BY <1>5, <1>6, <2>1
  <2> QED
    BY <1>5, <1>6, <2>1, <2>2, <2>3, <2>4, <2>5
<1>8. Range(q) = S
  BY <1>5 DEF Range
<1>9. Seen' = Seen \cup S /\ Seen \subseteq Ids
  BY <1>2, <1>6, <1>7, <1>8 DEF Seen
<1>10. /\ \A k : Stamp(k)' = Stamp(k) /\ IsWhole(k)' = IsWhole(k)
       /\ Ids' = Ids /\ (InOrder' <=> InOrder)
  BY <1>2 DEF Stamp, IsWhole, Ids, InOrder
<1>11. /\ Millis(pollCursor) = pollCursor
       /\ \A k \in Seen : k \in Ids /\ Stamp(k) <= pollCursor
  BY <1>3, <1>9 DEF SeenBehindCursor
<1>12. /\ \A k \in S : k \in Ids /\ pollCursor <= Stamp(k)
       /\ \A k \in S : k \in Seen => ~IsWhole(k)
  <2>1. \A k \in S : k \in Ids /\ pollCursor <= Stamp(k)
    BY <1>4, <1>6, <1>11, MillisFacts DEF Stamp
  <2>2. \A k \in S : k \in Seen => ~IsWhole(k)
    BY <1>4, <1>6, <1>11 DEF IsWhole
  <2> QED
    BY <2>1, <2>2
<1>13. /\ pollCursor' \in Nat /\ pollCursor' <= now /\ pollCursor <= pollCursor'
       /\ Millis(pollCursor') = pollCursor'
       /\ \A k \in S : Stamp(k) <= pollCursor'
       /\ S # {} => Last(q) \in S /\ pollCursor' = Stamp(Last(q))
       /\ S = {} => pollCursor' = pollCursor
  <2>1. CASE S = {}
    BY <1>2, <1>6, <1>11, <2>1
  <2>2. CASE S # {}
    <3>1. pollCursor' = Stamp(Last(q)) /\ Last(q) \in S
      BY <1>2, <1>5, <2>2 DEF Stamp
    <3>2. Last(q) \in Ids /\ Stamp(Last(q)) \in Nat /\ Stamp(Last(q)) <= now
          /\ pollCursor <= Stamp(Last(q))
      BY <1>6, <1>12, <3>1
    <3>3. Millis(Stamp(Last(q))) = Stamp(Last(q))
      BY <1>6, <3>2, MillisFacts DEF Stamp
    <3>4. \A k \in S : Stamp(k) <= Stamp(Last(q))
      BY <1>5, <1>6, <1>12, <3>2, MillisFacts DEF Stamp
    <3> QED
      BY <2>2, <3>1, <3>2, <3>3, <3>4
  <2> QED
    BY <2>1, <2>2
<1>14. \A o \in Polls : asked'[o] = Null
  BY <1>2 DEF OnePoll, TypeOK
<1>15. TypeOK'
  <2>1. asked' \in [Polls -> 0..now \cup {Null}] /\ pollCursor' \in 0..now
    BY <1>2, <1>6, <1>13 DEF TypeOK
  <2> QED
    BY <1>2, <1>7, <1>10, <2>1 DEF TypeOK
<1>16. OnePoll' /\ ResumesFromLast'
  BY <1>2, <1>3, <1>14 DEF OnePoll, ResumesFromLast
<1>17. SeenBehindCursor'
  <2>1. \A k \in Seen \cup S : Stamp(k) <= pollCursor'
    BY <1>6, <1>11, <1>13
  <2> QED
    BY <1>2, <1>9, <1>10, <1>13, <2>1 DEF SeenBehindCursor
<1>18. /\ \A i \in DOMAIN wire : wire[i] \in Range(wire) /\ wire[i] \in Seen
       /\ Range(received) \subseteq Seen
       /\ \A i \in DOMAIN wire' : i \notin DOMAIN wire => wire'[i] \in S
  BY <1>5, <1>7 DEF Seen, Range
<1>19. \A j \in Seen, k \in S : Stamp(j) <= Stamp(k)
  BY <1>6, <1>11, <1>12
<1>20. SeenOnce'
  <2>1. ASSUME NEW i \in DOMAIN wire', NEW j \in DOMAIN wire', wire'[i] = wire'[j]
        PROVE  i = j \/ ~IsWhole(wire'[i])
    <3>1. CASE i \in DOMAIN wire /\ j \in DOMAIN wire
      BY <1>7, <2>1, <3>1 DEF SeenOnce
    <3>2. CASE i \in DOMAIN wire /\ j \notin DOMAIN wire
      BY <1>7, <1>12, <1>18, <2>1, <3>2
    <3>3. CASE i \notin DOMAIN wire /\ j \in DOMAIN wire
      BY <1>7, <1>12, <1>18, <2>1, <3>3
    <3>4. CASE i \notin DOMAIN wire /\ j \notin DOMAIN wire
      <4>1. i - Len(wire) = j - Len(wire)
        BY <1>5, <1>7, <2>1, <3>4
      <4> QED
        BY <1>6, <1>7, <4>1
    <3> QED
      BY <3>1, <3>2, <3>3, <3>4
  <2>2. ASSUME NEW j \in DOMAIN wire', wire'[j] \in Range(received)
        PROVE  ~IsWhole(wire'[j])
    <3>1. CASE j \in DOMAIN wire
      BY <1>7, <2>2, <3>1 DEF SeenOnce
    <3>2. CASE j \notin DOMAIN wire
      BY <1>12, <1>18, <2>2, <3>2
    <3> QED
      BY <3>1, <3>2
  <2> QED
    BY <1>2, <1>10, <2>1, <2>2 DEF SeenOnce, ReceivedOnce
<1>21. SeenInOrder'
  <2>1. ASSUME NEW i \in DOMAIN wire', NEW j \in DOMAIN wire', i < j
        PROVE  Stamp(wire'[i]) <= Stamp(wire'[j])
    <3>1. CASE i \in DOMAIN wire /\ j \in DOMAIN wire
      BY <1>7, <2>1, <3>1 DEF SeenInOrder
    <3>2. CASE i \in DOMAIN wire /\ j \notin DOMAIN wire
      BY <1>7, <1>18, <1>19, <3>2
    <3>3. CASE i \notin DOMAIN wire /\ j \in DOMAIN wire
      <4>1. j < i /\ i \in Nat /\ j \in Nat
        BY <1>7, <3>3
      <4> QED
        BY <2>1, <4>1
    <3>4. CASE i \notin DOMAIN wire /\ j \notin DOMAIN wire
      <4>1. /\ i - Len(wire) \in DOMAIN q /\ j - Len(wire) \in DOMAIN q
            /\ i - Len(wire) < j - Len(wire)
            /\ wire'[i] = q[i - Len(wire)] /\ wire'[j] = q[j - Len(wire)]
        BY <1>6, <1>7, <2>1, <3>4
      <4>2. table[wire'[i]] <= table[wire'[j]] /\ wire'[i] \in Ids /\ wire'[j] \in Ids
        BY <1>4, <1>5, <4>1
      <4> QED
        BY <1>6, <4>2, MillisFacts DEF Stamp
    <3> QED
      BY <3>1, <3>2, <3>3, <3>4
  <2>2. ASSUME NEW k \in Range(received), NEW j \in DOMAIN wire'
        PROVE  Stamp(k) <= Stamp(wire'[j])
    <3>1. CASE j \in DOMAIN wire
      BY <1>7, <2>2, <3>1 DEF SeenInOrder
    <3>2. CASE j \notin DOMAIN wire
      BY <1>18, <1>19, <2>2, <3>2
    <3> QED
      BY <3>1, <3>2
  <2> QED
    BY <1>2, <1>10, <2>1, <2>2 DEF SeenInOrder, ReceivedInOrder
<1>22. GapInv'
  <2> SUFFICES ASSUME InOrder, ~blind
               PROVE  NoGapSeen' /\ NoGapReceived'
    BY <1>2, <1>10 DEF GapInv
  <2>1. NoGapSeen /\ NoGapReceived
    BY DEF GapInv
  <2>2. /\ NoGapIn(Seen)
        /\ Seen # {} => \E k \in Seen : Stamp(k) = pollCursor
        /\ \A j \in Seen, k \in Ids : j <= k /\ table[k] <= pollCursor => k \in Seen
        /\ \A j \in DOMAIN wire, k \in Range(wire) :
             k < wire[j] /\ k \notin Range(received) => \E i \in DOMAIN wire : i < j /\ wire[i] = k
        /\ \A j \in Range(received), k \in Range(wire) : k \notin Range(received) => j < k
    BY <1>3, <2>1 DEF NoGapSeen
  <2>3. NoGapReceived'
    BY <1>2, <1>10, <2>1 DEF NoGapReceived, NoGapIn
  <2>4. \A j, k \in Ids : table[j] <= table[k] => j <= k
    BY <1>6, SMTT(40) DEF InOrder
  <2>5. \A j, k \in Ids : j < k => table[j] < table[k]
    BY DEF InOrder
  <2>6. ASSUME NEW j \in Seen, NEW k \in S, k \notin Seen
        PROVE  j < k
    <3> SUFFICES ASSUME k < j
                 PROVE  FALSE
      BY <1>6, <1>11, <1>12, <2>6
    <3>1. table[k] <= Stamp(j)
      BY <1>12, <2>2, <2>6 DEF NoGapIn
    <3> QED
      BY <1>4, <1>6, <1>11, <1>12, <3>1
  <2>7. ASSUME NEW i \in Seen \cup S, NEW j \in Seen \cup S, NEW k \in Ids,
               k < j, k \notin Seen \cup S
        PROVE  table[k] <= Stamp(i)
    <3>1. CASE j \in Seen /\ i \in Seen
      BY <2>2, <2>7, <3>1 DEF NoGapIn
    <3>2. CASE j \in Seen /\ i \in S
      <4>1. table[k] <= Stamp(j)
        BY <2>2, <2>7, <3>2 DEF NoGapIn
      <4> QED
        BY <1>6, <1>11, <1>12, <3>2, <4>1
    <3>3. CASE j \in S
      <4>1. table[k] <= pollCursor
        <5>1. table[k] < table[j]
          BY <1>12, <2>5, <2>7, <3>3
        <5>2. table[k] \in Nat /\ table[j] \in Nat
          BY <1>6, <1>12, <2>7, <3>3
        <5>3. ~(table[k] > pollCursor)
          BY <1>4, <2>7, <3>3, <5>1, <5>2
        <5> QED
          BY <1>6, <5>2, <5>3
      <4>2. CASE i \in S
        BY <1>6, <1>12, <4>1, <4>2
      <4>3. CASE i \in Seen
        <5>1. k < i
          BY <1>6, <1>11, <2>2, <2>7, <4>1, <4>3
        <5> QED
          BY <2>2, <2>7, <4>3, <5>1 DEF NoGapIn
      <4> QED
        BY <2>7, <4>2, <4>3
    <3> QED
      BY <2>7, <3>1, <3>2, <3>3
  <2>8. NoGapIn(Seen)'
    BY <1>9, <1>10, <1>2, <2>7 DEF NoGapIn
  <2>9. Seen \cup S # {} => \E k \in Seen \cup S : Stamp(k) = pollCursor'
    BY <1>13, <2>2
  <2>10. ASSUME NEW j \in Seen \cup S, NEW k \in Ids, j <= k, table[k] <= pollCursor'
         PROVE  k \in Seen \cup S
    <3>1. CASE table[k] > pollCursor
      <4> SUFFICES ASSUME k \notin S
                   PROVE  FALSE
        OBVIOUS
      <4>1. S # {}
        BY <1>6, <1>13, <2>10, <3>1
      <4>2. Last(q) \in S /\ pollCursor' = Stamp(Last(q)) /\ Last(q) \in Ids
        BY <1>4, <1>13, <4>1
      <4>3. table[k] = table[Last(q)]
        BY <1>4, <1>6, <2>10, <3>1, <4>2
      <4>4. k = Last(q)
        BY <1>6, <2>4, <4>2, <4>3
      <4> QED
        BY <4>2, <4>4
    <3>2. CASE table[k] <= pollCursor
      <4>1. CASE j \in Seen
        BY <2>2, <2>10, <3>2, <4>1
      <4>2. CASE j \in S
        <5>1. table[j] > pollCursor /\ j \in Ids
          BY <1>4, <4>2
        <5>2. j # k /\ j < k
          BY <1>6, <2>10, <3>2, <5>1
        <5>3. table[j] < table[k]
          BY <2>5, <5>1, <5>2
        <5> QED
          BY <1>6, <3>2, <5>1, <5>3
      <4> QED
        BY <2>10, <4>1, <4>2
    <3> QED
      BY <1>6, <3>1, <3>2
  <2>11. ASSUME NEW j \in DOMAIN wire', NEW k \in Range(wire) \cup S,
                k < wire'[j], k \notin Range(received)
         PROVE  \E i \in DOMAIN wire' : i < j /\ wire'[i] = k
    <3>1. CASE j \in DOMAIN wire /\ k \in Range(wire)
      <4>1. PICK i \in DOMAIN wire : i < j /\ wire[i] = k
        BY <1>7, <2>2, <2>11, <3>1
      <4> QED
        BY <1>7, <4>1
    <3>2. CASE j \in DOMAIN wire /\ k \notin Range(wire)
      <4>1. k \in S /\ k \notin Seen /\ wire'[j] \in Seen /\ wire'[j] = wire[j]
        BY <1>7, <1>18, <2>11, <3>2 DEF Seen
      <4>2. wire[j] < k
        BY <2>6, <4>1
      <4> QED
        BY <1>6, <1>12, <2>11, <3>2, <4>1, <4>2
    <3>3. CASE j \notin DOMAIN wire /\ k \in Range(wire)
      <4>1. PICK i \in DOMAIN wire : wire[i] = k
        BY <3>3 DEF Range
      <4> QED
        BY <1>7, <3>3, <4>1
    <3>4. CASE j \notin DOMAIN wire /\ k \in S
      <4>1. PICK n \in DOMAIN q : q[n] = k
        BY <1>5, <3>4
      <4> DEFINE i == n + Len(wire)
      <4>2. i \in DOMAIN wire' /\ i \notin DOMAIN wire /\ wire'[i] = k
        BY <1>7, <4>1
      <4>3. wire'[j] \in Ids /\ k \in Ids /\ table[k] < table[wire'[j]]
        BY <1>12, <1>18, <2>5, <2>11, <3>4
      <4>4. j - Len(wire) \in DOMAIN q /\ wire'[j] = q[j - Len(wire)] /\ j \in Nat
        BY <1>7, <3>4
      <4>5. n < j - Len(wire)
        <5> SUFFICES ASSUME ~(n < j - Len(wire))
                     PROVE  FALSE
          OBVIOUS
        <5>1. j - Len(wire) \in Nat /\ n \in Nat
          BY <1>5, <4>4
        <5>2. j - Len(wire) = n \/ j - Len(wire) < n
          BY <5>1
        <5>3. table[q[j - Len(wire)]] <= table[k]
          <6>1. table[k] \in Nat
            BY <1>6, <4>3
          <6>2. CASE j - Len(wire) = n
            BY <4>1, <6>1, <6>2
          <6>3. CASE j - Len(wire) < n
            BY <1>5, <4>1, <4>4, <6>3
          <6> QED
            BY <5>2, <6>2, <6>3
        <5> QED
          BY <1>6, <4>3, <4>4, <5>3
      <4>6. i < j
        BY <1>5, <1>6, <4>4, <4>5
      <4> QED
        BY <4>2, <4>6
    <3> QED
      BY <2>11, <3>1, <3>2, <3>3, <3>4
  <2>12. ASSUME NEW j \in Range(received), NEW k \in Range(wire) \cup S,
                k \notin Range(received)
         PROVE  j < k
    BY <1>18, <2>2, <2>6, <2>12 DEF Seen
  <2>13. NoGapSeen'
    <3>1. Range(wire') = Range(wire) \cup S
      BY <1>7, <1>8
    <3>2. \A j \in DOMAIN wire', k \in Range(wire') :
            k < wire'[j] /\ k \notin Range(received)
              => \E i \in DOMAIN wire' : i < j /\ wire'[i] = k
      BY <2>11, <3>1
    <3>3. \A j \in Range(received), k \in Range(wire') : k \notin Range(received) => j < k
      BY <2>12, <3>1
    <3>4. /\ Seen' # {} => \E k \in Seen' : Stamp(k)' = pollCursor'
          /\ \A j \in Seen', k \in Ids' : j <= k /\ table'[k] <= pollCursor' => k \in Seen'
      BY <1>2, <1>9, <1>10, <2>9, <2>10
    <3> QED
      BY <1>2, <2>8, <3>2, <3>3, <3>4 DEF NoGapSeen
  <2> QED
    BY <2>3, <2>13
<1> QED
  BY <1>15, <1>16, <1>17, <1>20, <1>21, <1>22
(* The client receives what is at the head of the wire: the next event in  *)
(* order, and the next one without a gap.                                  *)
LEMMA ReceiveKeepsInv ==
  ASSUME StreamInv, Receive
  PROVE  StreamInv'
<1> USE DEF StreamInv
<1>1. /\ es = "open" /\ wire # <<>>
      /\ \/ /\ Head(wire) \in Range(received)
            /\ again' = again \cup {Head(wire)} /\ received' = received
         \/ /\ Head(wire) \notin Range(received)
            /\ received' = Append(received, Head(wire)) /\ again' = again
      /\ lastEventId' = Head(wire) /\ wire' = Tail(wire)
      /\ UNCHANGED <<now, table, resume, es, open, pollCursor, asked, drops, faults, blind>>
  BY DEF Receive, server, bounds
<1>2. /\ \A k \in Ids : k \in Nat /\ table[k] \in Nat /\ table[k] <= now
      /\ \A k \in Ids : Stamp(k) \in Nat /\ Stamp(k) <= table[k]
      /\ now \in Nat /\ pollCursor \in Nat
      /\ Len(received) \in Nat /\ DOMAIN received = 1..Len(received)
      /\ Range(received) \subseteq Ids /\ Range(wire) \subseteq Ids
      /\ received \in Seq(Ids) /\ wire \in Seq(Ids) /\ again \subseteq Ids
  BY Types DEF TypeOK
<1> DEFINE h == wire[1]
<1>3. /\ wire' \in Seq(Ids) /\ lastEventId' = h /\ 1 \in DOMAIN wire /\ h = Head(wire)
      /\ \A i \in DOMAIN wire' :
           i \in Nat /\ i + 1 \in DOMAIN wire /\ i + 1 > 1 /\ wire'[i] = wire[i + 1]
      /\ Range(wire') \cup {h} = Range(wire)
  BY <1>1, <1>2, Moved
<1>4. /\ Ids' = Ids /\ (InOrder' <=> InOrder)
      /\ \A k : Stamp(k)' = Stamp(k) /\ IsWhole(k)' = IsWhole(k)
      /\ h \in Ids /\ h \in Range(wire)
  BY <1>1, <1>2, <1>3 DEF Ids, InOrder, Stamp, IsWhole
<1>5. /\ received' \in Seq(Ids) /\ received' # <<>>
      /\ Range(received') = Range(received) \cup {h}
      /\ \A i, j \in DOMAIN received' : received'[i] = received'[j] => i = j
  <2>1. CASE h \in Range(received)
    <3>1. received' = received
      BY <1>1, <1>3, <2>1
    <3>2. received # <<>>
      BY <2>1 DEF Range
    <3> QED
      BY <1>2, <2>1, <3>1, <3>2 DEF SeenOnce
  <2>2. CASE h \notin Range(received)
    <3>1. received' = Append(received, Head(wire))
      BY <1>1, <1>3, <2>2
    <3>2. /\ received' \in Seq(Ids) /\ received' # <<>>
          /\ DOMAIN received' = 1..(Len(received) + 1)
          /\ \A i \in 1..(Len(received) + 1) :
               \/ i \in DOMAIN received /\ received'[i] = received[i]
               \/ i = Len(received) + 1 /\ received'[i] = h
          /\ Range(received') = Range(received) \cup {h}
      <4> DEFINE r == Append(received, Head(wire))
      <4>1. /\ r \in Seq(Ids) /\ r # <<>>
            /\ DOMAIN r = 1..(Len(received) + 1)
            /\ \A i \in 1..(Len(received) + 1) :
                 \/ i \in DOMAIN received /\ r[i] = received[i]
                 \/ i = Len(received) + 1 /\ r[i] = wire[1]
            /\ Range(r) = Range(received) \cup {wire[1]}
        <5>0. Len(received) \in Nat /\ DOMAIN received = 1..Len(received)
          BY <1>2
        <5>1. received \in Seq(Ids) /\ wire[1] \in Ids /\ Head(wire) = wire[1]
          BY <1>2, <1>3, <1>4
        <5>2. /\ r \in Seq(Ids) /\ DOMAIN r = 1..(Len(received) + 1)
              /\ \A i \in 1..Len(received) : r[i] = received[i]
              /\ r[Len(received) + 1] = wire[1]
          BY <5>1
        <5> HIDE DEF r
        <5>3. ASSUME NEW i \in 1..(Len(received) + 1)
              PROVE  \/ i \in DOMAIN received /\ r[i] = received[i]
                     \/ i = Len(received) + 1 /\ r[i] = wire[1]
          <6>1. CASE i = Len(received) + 1
            BY <5>2, <6>1
          <6>2. CASE i # Len(received) + 1
            <7>1. i \in 1..Len(received)
              BY <5>0, <6>2
            <7> QED
              BY <5>0, <5>2, <7>1
          <6> QED
            BY <6>1, <6>2
        <5>4. Len(received) + 1 \in DOMAIN r /\ \A i \in DOMAIN received : i \in DOMAIN r
          BY <1>2, <5>2
        <5>5. Range(r) \subseteq Range(received) \cup {wire[1]}
          BY <5>2, <5>3 DEF Range
        <5>6. Range(received) \subseteq Range(r)
          BY <5>0, <5>2, <5>4 DEF Range
        <5>7. wire[1] \in Range(r) /\ r # <<>>
          BY <5>2, <5>4 DEF Range
        <5> QED
          BY <5>2, <5>3, <5>5, <5>6, <5>7
      <4> HIDE DEF r
      <4>2. received' = r
        BY <3>1 DEF r
      <4> QED
        BY <4>1, <4>2
    <3>3. \A i \in DOMAIN received : received[i] # h
      BY <2>2 DEF Range
    <3>4. \A i, j \in DOMAIN received' : received'[i] = received'[j] => i = j
      BY <3>2, <3>3 DEF SeenOnce
    <3> QED
      BY <3>2, <3>4
  <2> QED
    BY <2>1, <2>2
<1>6. Seen' = Seen /\ h \in Seen /\ Seen \subseteq Ids
  BY <1>2, <1>3, <1>4, <1>5 DEF Seen
<1>7. /\ again' \subseteq again \cup {h}
      /\ h \in again' => h \in again \/ h \in Range(received)
  BY <1>1, <1>3
<1>8. TypeOK'
  BY <1>1, <1>2, <1>3, <1>4, <1>5, <1>7 DEF TypeOK
<1>9. OnePoll' /\ ResumesFromLast' /\ SeenBehindCursor'
  BY <1>1, <1>3, <1>4, <1>5, <1>6 DEF OnePoll, ResumesFromLast, SeenBehindCursor
<1>10. SeenOnce'
  <2>1. \A k \in again' : ~IsWhole(k)
    BY <1>3, <1>7 DEF SeenOnce, ReceivedOnce
  <2>2. again' \subseteq Range(received')
    BY <1>5, <1>7 DEF SeenOnce
  <2>3. ASSUME NEW i \in DOMAIN wire', NEW j \in DOMAIN wire', wire'[i] = wire'[j]
        PROVE  i = j \/ ~IsWhole(wire'[i])
    <3>1. i + 1 = j + 1 \/ ~IsWhole(wire[i + 1])
      BY <1>3, <2>3 DEF SeenOnce
    <3> QED
      BY <1>3, <3>1
  <2>4. ASSUME NEW j \in DOMAIN wire', wire'[j] \in Range(received) \cup {h}
        PROVE  ~IsWhole(wire'[j])
    <3>1. CASE wire'[j] \in Range(received)
      BY <1>3, <3>1 DEF SeenOnce
    <3>2. CASE wire'[j] = wire[1]
      <4>1. wire[j + 1] = wire[1] /\ j + 1 # 1 /\ j + 1 \in DOMAIN wire
        BY <1>3, <3>2
      <4> QED
        BY <1>3, <4>1 DEF SeenOnce
    <3> QED
      BY <2>4, <3>1, <3>2
  <2> QED
    BY <1>4, <1>5, <2>1, <2>2, <2>3, <2>4 DEF SeenOnce, ReceivedOnce
<1>11. SeenInOrder'
  <2>1. \A k \in Range(received) \cup {h} : Stamp(k) <= Stamp(h)
    BY <1>2, <1>3, <1>4 DEF SeenInOrder
  <2>2. ASSUME NEW i \in DOMAIN wire', NEW j \in DOMAIN wire', i < j
        PROVE  Stamp(wire'[i]) <= Stamp(wire'[j])
    <3>1. i + 1 < j + 1
      BY <1>3, <2>2
    <3> QED
      BY <1>3, <3>1 DEF SeenInOrder
  <2>3. ASSUME NEW k \in Range(received) \cup {h}, NEW j \in DOMAIN wire'
        PROVE  Stamp(k) <= Stamp(wire'[j])
    <3>1. CASE k \in Range(received)
      BY <1>3, <3>1 DEF SeenInOrder
    <3>2. CASE k = wire[1]
      <4>1. 1 < j + 1 /\ j + 1 \in DOMAIN wire /\ wire'[j] = wire[j + 1]
        BY <1>3
      <4> QED
        BY <1>3, <3>2, <4>1 DEF SeenInOrder
    <3> QED
      BY <2>3, <3>1, <3>2
  <2> QED
    BY <1>3, <1>4, <1>5, <2>1, <2>2, <2>3 DEF SeenInOrder, ReceivedInOrder
<1>12. GapInv'
  <2> SUFFICES ASSUME InOrder, ~blind
               PROVE  NoGapSeen' /\ NoGapReceived'
    BY <1>1, <1>4 DEF GapInv
  <2>1. /\ NoGapIn(Seen)
        /\ Seen # {} => \E k \in Seen : Stamp(k) = pollCursor
        /\ \A j \in Seen, k \in Ids : j <= k /\ table[k] <= pollCursor => k \in Seen
        /\ \A j \in DOMAIN wire, k \in Range(wire) :
             k < wire[j] /\ k \notin Range(received) => \E i \in DOMAIN wire : i < j /\ wire[i] = k
        /\ \A j \in Range(received), k \in Range(wire) : k \notin Range(received) => j < k
    BY <1>1 DEF GapInv, NoGapSeen
  <2>2. ASSUME NEW k \in Range(wire), k \notin Range(received), k # h
        PROVE  h < k
    <3> SUFFICES ASSUME k < h
                 PROVE  FALSE
      BY <1>2, <1>4, <2>2
    <3>1. PICK i \in DOMAIN wire : i < 1 /\ wire[i] = k
      BY <1>3, <2>1, <2>2
    <3> QED
      BY <1>2, <3>1, Types
  <2>3. \A j \in Range(received'), k \in Range(wire') : k \notin Range(received') => j < k
    BY <1>3, <1>5, <2>1, <2>2
  <2>4. ASSUME NEW j \in DOMAIN wire', NEW k \in Range(wire'),
               k < wire'[j], k \notin Range(received')
        PROVE  \E i \in DOMAIN wire' : i < j /\ wire'[i] = k
    <3>1. k \in Range(wire) /\ k \notin Range(received) /\ k # wire[1]
      BY <1>3, <1>5, <2>4
    <3>2. PICK i \in DOMAIN wire : i < j + 1 /\ wire[i] = k
      BY <1>3, <2>1, <2>4, <3>1
    <3>3. i # 1 /\ i \in 1..Len(wire) /\ Len(wire) \in Nat
      BY <1>2, <3>1, <3>2
    <3>4. i - 1 \in 1..(Len(wire) - 1) /\ i - 1 < j /\ i = (i - 1) + 1
      BY <1>3, <3>2, <3>3
    <3>5. wire' = Tail(wire) /\ DOMAIN wire' = 1..(Len(wire) - 1)
      BY <1>1, <1>2
    <3>6. i - 1 \in DOMAIN wire' /\ wire'[i - 1] = wire[i]
      BY <1>3, <3>4, <3>5
    <3> QED
      BY <3>2, <3>4, <3>6
  <2>5. NoGapIn(Seen)'
    BY <1>1, <1>4, <1>6, <2>1 DEF NoGapIn
  <2>6. NoGapSeen'
    BY <1>1, <1>4, <1>6, <2>1, <2>3, <2>4, <2>5 DEF NoGapSeen
  <2>7. ASSUME NEW i \in Range(received) \cup {h}, NEW j \in Range(received) \cup {h},
               NEW k \in Ids, k < j, k \notin Range(received) \cup {h}
        PROVE  table[k] <= Stamp(i)
    <3>1. i \in Seen /\ j \in Seen /\ j \in Ids
      BY <1>2, <1>6 DEF Seen
    <3>2. k \notin Range(wire)
      <4> SUFFICES ASSUME k \in Range(wire)
                   PROVE  FALSE
        OBVIOUS
      <4>1. j < k
        BY <2>1, <2>2, <2>7
      <4> QED
        BY <1>2, <2>7, <3>1, <4>1
    <3>3. k \notin Seen
      BY <2>7, <3>2 DEF Seen
    <3> QED
      BY <2>1, <2>7, <3>1, <3>3 DEF NoGapIn
  <2>8. NoGapReceived'
    BY <1>1, <1>4, <1>5, <2>7 DEF NoGapReceived, NoGapIn
  <2> QED
    BY <2>6, <2>8
<1> QED
  BY <1>8, <1>9, <1>10, <1>11, <1>12

-----------------------------------------------------------------------------
LEMMA InitHasInv ==
  Init => StreamInv
<1> SUFFICES ASSUME Init
             PROVE  StreamInv
  OBVIOUS
<1> USE DEF Init
<1>1. /\ Ids = {} /\ DOMAIN received = {} /\ DOMAIN wire = {}
      /\ Range(received) = {} /\ Range(wire) = {}
  BY DEF Ids, Range
<1>2. TypeOK
  <2>1. now \in 1..MaxTime /\ drops \in 0..MaxDrops /\ faults \in 0..MaxFaults
    BY StreamAssumption
  <2>2. table \in Seq(1..now) /\ received \in Seq(Ids) /\ wire \in Seq(Ids)
    BY EmptySeq
  <2>3. asked \in [Polls -> 0..now \cup {Null}] /\ pollCursor \in 0..now
    BY DEF NoPolls
  <2> QED
    BY <2>1, <2>2, <2>3 DEF TypeOK
<1>3. OnePoll /\ ResumesFromLast /\ SeenBehindCursor
  BY DEF OnePoll, ResumesFromLast, SeenBehindCursor, NoPolls
<1>4. SeenOnce /\ SeenInOrder /\ GapInv
  BY <1>1 DEF SeenOnce, SeenInOrder, ReceivedOnce, ReceivedInOrder, GapInv, NoGapSeen,
              NoGapReceived, NoGapIn
<1> QED
  BY <1>2, <1>3, <1>4 DEF StreamInv

LEMMA StreamStepKeepsInv ==
  StreamInv /\ StreamNext => StreamInv'
<1> SUFFICES ASSUME StreamInv, StreamNext
             PROVE  StreamInv'
  OBVIOUS
<1>1. CASE Connect \/ Reject \/ Unavailable \/ SeeEnd \/ Drop
  BY <1>1, ConnectionKeepsInv
<1>2. CASE Accept \/ AcceptBlind
  BY <1>2, AcceptKeepsInv
<1>3. ASSUME NEW p \in Polls, StartPoll(p) \/ PollFails(p)
      PROVE  StreamInv'
  BY <1>3, PollKeepsInv
<1>4. ASSUME NEW p \in Polls, AnswerPoll(p)
      PROVE  StreamInv'
  BY <1>4, AnswerKeepsInv
<1>5. CASE Receive
  BY <1>5, ReceiveKeepsInv
<1> QED
  BY <1>1, <1>2, <1>3, <1>4, <1>5 DEF StreamNext

LEMMA StutterKeepsInv ==
  StreamInv /\ UNCHANGED vars => StreamInv'
<1> SUFFICES ASSUME StreamInv, UNCHANGED vars
             PROVE  StreamInv'
  OBVIOUS
<1> USE DEF StreamInv, vars, client, server, bounds
<1>1. /\ Ids' = Ids /\ (InOrder' <=> InOrder) /\ Seen' = Seen
      /\ \A k : Stamp(k)' = Stamp(k) /\ IsWhole(k)' = IsWhole(k)
  BY DEF Ids, InOrder, Seen, Stamp, IsWhole
<1>2. TypeOK'
  BY <1>1 DEF TypeOK
<1>3. OnePoll' /\ ResumesFromLast' /\ SeenBehindCursor' /\ SeenOnce' /\ SeenInOrder'
  BY <1>1 DEF OnePoll, ResumesFromLast, SeenBehindCursor, SeenOnce, SeenInOrder,
              ReceivedOnce, ReceivedInOrder
<1>4. GapInv'
  BY <1>1 DEF GapInv, NoGapSeen, NoGapReceived, NoGapIn
<1> QED
  BY <1>2, <1>3, <1>4

LEMMA StreamInvAlways == Spec => []StreamInv
<1>1. StreamInv /\ [Next]_vars => StreamInv'
  <2> SUFFICES ASSUME StreamInv, [Next]_vars
               PROVE  StreamInv'
    OBVIOUS
  <2>1. CASE Tick \/ Insert
    <3>1. TypeOK
      BY DEF StreamInv
    <3> QED
      BY <2>1, <3>1, OutsideIsEnvironment, EnvironmentKeepsInv
  <2> QED
    BY <2>1, StreamStepKeepsInv, StutterKeepsInv DEF Next
<1> QED
  BY <1>1, InitHasInv, PTL DEF Spec

(* The variables keep their types; a stream that is open has its client.   *)
THEOREM TypeCorrect == Spec => []TypeOK
<1>1. StreamInv => TypeOK
  BY DEF StreamInv
<1> QED
  BY <1>1, StreamInvAlways, PTL

(* An event a client receives again is stamped within a millisecond, for   *)
(* any resolution of the stamps: one stamped at a whole millisecond comes  *)
(* once, whatever number of connections end and whatever was on the wire.  *)
THEOREM NoWholeEventReceivedTwice == Spec => []ReceivedOnce
<1>1. StreamInv => ReceivedOnce
  BY DEF StreamInv, SeenOnce
<1> QED
  BY <1>1, StreamInvAlways, PTL

(* A client receives events in the order of the stamps they carry, those   *)
(* that come again too, also across connections and whatever order they    *)
(* were inserted in.                                                       *)
THEOREM OldEventsComeFirst == Spec => []ReceivedInOrder
<1>1. StreamInv => ReceivedInOrder
  BY DEF StreamInv, SeenInOrder
<1> QED
  BY <1>1, StreamInvAlways, PTL

(* Between two events a client received there is none it did not receive,  *)
(* whatever LIMIT cut off and whichever connections ended between, when    *)
(* events are inserted in the order of distinct stamps.                    *)
THEOREM NothingMissedBetween == Spec => []NoGapsInOrder
<1>1. StreamInv => NoGapsInOrder
  <2> SUFFICES ASSUME StreamInv, InOrder, ~blind, received # <<>>,
                      NEW k \in received[1]..Last(received)
               PROVE  k \in Range(received)
    BY DEF NoGapsInOrder, NoGaps
  <2>1. TypeOK /\ NoGapReceived
    BY DEF StreamInv, GapInv
  <2>2. /\ received \in Seq(Ids) /\ Len(received) \in Nat
        /\ DOMAIN received = 1..Len(received)
        /\ \A i \in DOMAIN received : received[i] \in Ids
        /\ Len(table) \in Nat
    BY <2>1, Types DEF TypeOK
  <2>3. 1 \in DOMAIN received /\ Len(received) \in DOMAIN received
    BY <2>2, EmptySeq
  <2>4. Last(received) = received[Len(received)]
    BY DEF Last
  <2>5. k \in Ids /\ received[1] \in Range(received) /\ Last(received) \in Range(received)
        /\ Range(received) \subseteq Ids
    BY <2>2, <2>3, <2>4 DEF Ids, Range
  <2>6. ASSUME k \notin Range(received)
        PROVE  FALSE
    <3>1. k < Last(received) /\ received[1] < k
      BY <2>2, <2>5, <2>6 DEF Ids
    <3>2. table[k] <= Stamp(received[1])
      BY <2>1, <2>5, <2>6, <3>1 DEF NoGapReceived, NoGapIn
    <3>3. table[received[1]] < table[k]
      BY <2>5, <3>1 DEF InOrder
    <3>4. /\ table[received[1]] \in Nat /\ table[k] \in Nat
          /\ Stamp(received[1]) \in Nat /\ Stamp(received[1]) <= table[received[1]]
      BY <2>1, <2>5, Types
    <3> QED
      BY <3>2, <3>3, <3>4
  <2> QED
    BY <2>6
<1> QED
  BY <1>1, StreamInvAlways, PTL
=============================================================================
