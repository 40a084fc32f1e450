--------------------------- MODULE StaffActivity ---------------------------
(***************************************************************************)
(* The staff event adapter and the live event stream on one staff_events   *)
(* table: what the adapter inserts is what a stream polls.  Each component *)
(* keeps its own state; they share the clock and the table.  What holds of *)
(* both together is proved from what is proved of each.  The adapter's     *)
(* rows have been Dates, so that each of its events is stamped at a whole  *)
(* millisecond, the unit of time here.                                     *)
(***************************************************************************)
EXTENDS Integers, Sequences, TLAPS

CONSTANTS AdapterLimit, Lookback, CommitDelays, MaxRows, AdapterFaults,
          StreamLimit, Resumes, Polls, InsertDelays, InsertMax, MaxEvents,
          MaxWire, MaxDrops, StreamFaults, MaxTime

VARIABLES now,
          source, events, process, cursor, floor, poll, adapterFaults, adapterBlind,
          resume, es, lastEventId, received, again, wire, open, pollCursor, asked,
          drops, streamFaults, streamBlind

(* What a stream sees of the table. *)
timestamps == [e \in DOMAIN events |-> events[e].timestamp]

\* StaffEventAdapter and EventStream, with what is proved of them.
Adapter == INSTANCE StaffEventAdapterProofs WITH
  Limit <- AdapterLimit, Delays <- CommitDelays, MaxFaults <- AdapterFaults,
  faults <- adapterFaults, blind <- adapterBlind

Stream == INSTANCE EventStream WITH
  Limit <- StreamLimit, Fraction <- 1, Delays <- InsertDelays, MaxFaults <- StreamFaults,
  table <- timestamps, faults <- streamFaults, blind <- streamBlind

adapterVars ==
  <<source, events, process, cursor, floor, poll, adapterFaults, adapterBlind>>
streamVars ==
  <<resume, es, lastEventId, received, again, wire, open, pollCursor, asked,
    drops, streamFaults, streamBlind>>
activityVars == <<now, adapterVars, streamVars>>

ActivityInit == Adapter!Init /\ Stream!Init

AdapterStep == Adapter!Next /\ UNCHANGED streamVars
StreamStep == UNCHANGED adapterVars /\ Stream!StreamNext

ActivityNext == AdapterStep \/ StreamStep

ActivitySpec == ActivityInit /\ [][ActivityNext]_activityVars

-----------------------------------------------------------------------------
(***************************************************************************)
(* The composition is a behaviour of the stream on its own: the adapter    *)
(* inserts only what EventStream expects of a writer of staff_events, at   *)
(* most a batch per statement, each event stamped at or before its insert. *)
(***************************************************************************)
StreamSpec == Stream!Init /\ [][Stream!Next]_(Stream!vars)

(***************************************************************************)
(* An event the client received is that of a row, and no row is shown to   *)
(* it twice, across restarts of the adapter and connections that end,      *)
(* unless an insert's acknowledgement or a cursor was lost.                *)
(***************************************************************************)
RowShownOnce ==
  ~adapterBlind =>
    /\ again = {}
    /\ \A i, j \in DOMAIN received :
         /\ events[received[i]].table = events[received[j]].table
         /\ events[received[i]].row = events[received[j]].row
         => i = j
-----------------------------------------------------------------------------
(***************************************************************************)
(* Theorems, from what is proved of the adapter and of the stream on their *)
(* own: the adapter is a writer the stream can live with, and a step of    *)
(* the one leaves the invariant of the other alone.                        *)
(***************************************************************************)
ActivityInv == Adapter!AdapterInv /\ Adapter!BatchIsLimited /\ Stream!StreamInv

(* A stream writes to its own variables only.                               *)
LEMMA StreamLeavesTheClock ==
  StreamStep => UNCHANGED <<now, adapterVars>>
BY DEF StreamStep, Stream!StreamNext, Stream!Connect, Stream!Accept, Stream!AcceptBlind,
       Stream!OpenStream, Stream!Reject, Stream!Unavailable, Stream!StartPoll,
       Stream!AnswerPoll, Stream!PollFails, Stream!Receive, Stream!SeeEnd, Stream!Drop

(* What the adapter does to the clock and the table is what the proofs     *)
(* about the stream allow its surroundings.                                *)
LEMMA AdapterIsEnvironment ==
  ASSUME Adapter!AdapterAssumption, Stream!StreamAssumption, ActivityInv, AdapterStep
  PROVE  Stream!Environment
<1>1. Adapter!Next /\ Adapter!AdapterInv /\ Adapter!BatchIsLimited
  BY DEF AdapterStep, ActivityInv
<1>2. Adapter!Stamps = timestamps /\ Adapter!Stamps' = timestamps'
  BY DEF Adapter!Stamps, timestamps
<1>3. \/ now < MaxTime /\ now' = now + 1 /\ timestamps' = timestamps
      \/ now' = now /\ timestamps' = timestamps
      \/ /\ now' = now
         /\ \E n \in 1..AdapterLimit : \E b \in [1..n -> 1..now] :
              timestamps' = timestamps \o b
  <2>1. \/ now < MaxTime /\ now' = now + 1 /\ Adapter!Stamps' = Adapter!Stamps
        \/ now' = now /\ Adapter!Stamps' = Adapter!Stamps
        \/ /\ now' = now
           /\ \E n \in 1..AdapterLimit : \E b \in [1..n -> 1..now] :
                Adapter!Stamps' = Adapter!Stamps \o b
    BY <1>1, Adapter!OneBatchPerStep
  <2> QED
    BY <1>2, <2>1
<1>4. /\ now \in 1..MaxTime /\ MaxTime \in Nat \ {0} /\ timestamps \in Seq(1..now)
      /\ Len(timestamps) \in Nat /\ DOMAIN timestamps = 1..Len(timestamps)
      /\ AdapterLimit \in Nat
  <2>1. now \in 1..MaxTime /\ timestamps \in Seq(1..now)
    BY DEF ActivityInv, Stream!StreamInv, Stream!TypeOK
  <2>2. MaxTime \in Nat \ {0} /\ AdapterLimit \in Nat
    BY DEF Adapter!AdapterAssumption
  <2> QED
    BY <2>1, <2>2
<1>5. Stream!Ids = 1..Len(timestamps)
  BY DEF Stream!Ids
<1>6. UNCHANGED <<Stream!client, wire, Stream!server, Stream!bounds>>
  BY DEF AdapterStep, streamVars, Stream!client, Stream!server,
         Stream!bounds
<1>7. /\ now' \in now..MaxTime
      /\ timestamps' \in Seq(1..now')
      /\ Len(timestamps) <= Len(timestamps')
      /\ \A k \in 1..Len(timestamps) : timestamps'[k] = timestamps[k]
  <2>1. CASE timestamps' = timestamps
    <3>1. now' \in now..MaxTime /\ 1..now \subseteq 1..now'
      <4>1. CASE now' = now
        BY <1>4, <4>1
      <4>2. CASE now < MaxTime /\ now' = now + 1
        BY <1>4, <4>2
      <4> QED
        BY <1>3, <4>1, <4>2
    <3>2. timestamps \in Seq(1..now')
      BY <1>4, <3>1, Stream!SeqMonotonic
    <3> QED
      BY <1>4, <2>1, <3>1, <3>2
  <2>2. ASSUME NEW n \in 1..AdapterLimit, NEW b \in [1..n -> 1..now],
               timestamps' = timestamps \o b, now' = now
        PROVE  <1>7!:
    <3>1. n \in Nat
      BY <1>4
    <3>2. b \in Seq(1..now) /\ Len(b) = n
      BY <3>1, Stream!BatchIsSeq
    <3>3. /\ timestamps' \in Seq(1..now)
          /\ DOMAIN timestamps' = 1..(Len(timestamps) + Len(b))
          /\ \A e \in 1..Len(timestamps) : timestamps'[e] = timestamps[e]
      <4>1. timestamps \in Seq(1..now) /\ b \in Seq(1..now)
        BY <1>4, <3>2
      <4>2. /\ timestamps \o b \in Seq(1..now)
            /\ DOMAIN (timestamps \o b) = 1..(Len(timestamps) + Len(b))
            /\ \A e \in 1..Len(timestamps) : (timestamps \o b)[e] = timestamps[e]
        BY <4>1, Stream!Appended, SMT
      <4> QED
        BY <2>2, <4>2
    <3>4. Len(timestamps') \in Nat /\ DOMAIN timestamps' = 1..Len(timestamps')
      BY <3>3
    <3>5. Len(timestamps) <= Len(timestamps')
      BY <1>4, <3>1, <3>2, <3>3, <3>4
    <3> QED
      BY <1>4, <2>2, <3>3, <3>5
  <2> QED
    BY <1>3, <2>1, <2>2
<1> QED
  BY <1>5, <1>6, <1>7 DEF Stream!Environment

LEMMA InitHasInv ==
  ASSUME Adapter!AdapterAssumption, Stream!StreamAssumption, ActivityInit
  PROVE  ActivityInv
<1>1. Adapter!Init /\ Stream!Init
  BY DEF ActivityInit
<1>2. Adapter!AdapterInv
  BY <1>1, Adapter!InitHasInv
<1>3. Adapter!BatchIsLimited
  BY <1>1, Adapter!BatchStaysLimited
<1>4. Stream!StreamInv
  BY <1>1, Stream!InitHasInv
<1> QED
  BY <1>2, <1>3, <1>4 DEF ActivityInv

LEMMA StepKeepsInv ==
  ASSUME Adapter!AdapterAssumption, Stream!StreamAssumption, ActivityInv, [ActivityNext]_activityVars
  PROVE  ActivityInv'
<1>1. Adapter!AdapterInv' /\ Adapter!BatchIsLimited'
  <2>1. Adapter!Next \/ UNCHANGED Adapter!vars
    <3>1. CASE AdapterStep
      BY <3>1 DEF AdapterStep
    <3>2. CASE StreamStep \/ UNCHANGED activityVars
      BY <3>2, StreamLeavesTheClock DEF activityVars, adapterVars, Adapter!vars
    <3> QED
      BY <3>1, <3>2 DEF ActivityNext
  <2>2. Adapter!AdapterInv'
    BY <2>1, Adapter!StepKeepsInv DEF ActivityInv
  <2>3. Adapter!BatchIsLimited'
    BY <2>1, Adapter!BatchStaysLimited DEF ActivityInv
  <2> QED
    BY <2>2, <2>3
<1>2. Stream!StreamInv'
  <2>1. CASE AdapterStep
    BY <2>1, AdapterIsEnvironment, Stream!EnvironmentKeepsInv DEF ActivityInv
  <2>2. CASE StreamStep
    BY <2>2, Stream!StreamStepKeepsInv DEF ActivityInv, StreamStep
  <2>3. CASE UNCHANGED activityVars
    <3>1. UNCHANGED timestamps
      BY <2>3 DEF activityVars, adapterVars, timestamps
    <3>2. UNCHANGED Stream!vars
      BY <2>3, <3>1 DEF activityVars, streamVars, Stream!vars, Stream!client,
                        Stream!server, Stream!bounds
    <3> QED
      BY <3>2, Stream!StutterKeepsInv DEF ActivityInv
  <2> QED
    BY <2>1, <2>2, <2>3 DEF ActivityNext
<1> QED
  BY <1>1, <1>2 DEF ActivityInv
-----------------------------------------------------------------------------
(* Adapter and stream together: a row of the two polled tables is shown to *)
(* a client at most once, for any batch limits, any number of rows, polls, *)
(* connections, failures and restarts, unless an insert's acknowledgement  *)
(* or a stored cursor was lost.                                            *)
THEOREM EveryRowIsShownOnce ==
  ASSUME Adapter!AdapterAssumption, Stream!StreamAssumption
  PROVE  ActivitySpec => []RowShownOnce
<1>1. ActivityInit => ActivityInv
  BY InitHasInv
<1>2. ActivityInv /\ [ActivityNext]_activityVars => ActivityInv'
  BY StepKeepsInv
<1>3. ActivityInv => again = {}
  <2> SUFFICES ASSUME ActivityInv, NEW k \in again
               PROVE  FALSE
    OBVIOUS
  <2>1. Stream!TypeOK /\ ~Stream!IsWhole(k)
    BY DEF ActivityInv, Stream!StreamInv, Stream!SeenOnce, Stream!ReceivedOnce
  <2>2. k \in Stream!Ids
    BY <2>1 DEF Stream!TypeOK
  <2>3. timestamps[k] \in Nat
    BY <2>1, <2>2, Stream!Types
  <2>4. timestamps[k] - (timestamps[k] % 1) = timestamps[k]
    BY <2>3
  <2> QED
    BY <2>1, <2>4 DEF Stream!IsWhole, Stream!Stamp, Stream!Millis
<1>4. ActivityInv => RowShownOnce
  <2> SUFFICES ASSUME ActivityInv, ~adapterBlind,
                      NEW i \in DOMAIN received, NEW j \in DOMAIN received,
                      events[received[i]].table = events[received[j]].table,
                      events[received[i]].row = events[received[j]].row
               PROVE  i = j
    BY <1>3 DEF RowShownOnce
  <2>1. \A d, e \in DOMAIN events : /\ events[d].table = events[e].table
                                    /\ events[d].row = events[e].row
                                    => d = e
    BY DEF ActivityInv, Adapter!AdapterInv, Adapter!OnceInv,
           Adapter!NoDuplicateEvents
  <2>2. /\ timestamps \in Seq(1..now)
        /\ received \in Seq(1..Len(timestamps))
    BY DEF ActivityInv, Stream!StreamInv, Stream!TypeOK, Stream!Ids
  <2>3. DOMAIN timestamps = DOMAIN events /\ DOMAIN timestamps = 1..Len(timestamps)
    BY <2>2 DEF timestamps
  <2>4. received[i] \in DOMAIN events /\ received[j] \in DOMAIN events
    BY <2>2, <2>3
  <2>5. received[i] = received[j]
    BY <2>1, <2>4
  <2> QED
    BY <2>5 DEF ActivityInv, Stream!StreamInv, Stream!SeenOnce
<1> QED
  BY <1>1, <1>2, <1>4, PTL DEF ActivitySpec

(* A statement of the adapter is one that EventStream allows a writer.     *)
LEMMA BatchIsInsert ==
  ASSUME Adapter!AdapterAssumption, Stream!StreamAssumption, AdapterLimit <= InsertMax,
         0..MaxTime \subseteq InsertDelays, now \in 1..MaxTime,
         Len(timestamps') <= MaxEvents,
         NEW n \in 1..AdapterLimit, NEW b \in [1..n -> 1..now],
         timestamps' = timestamps \o b,
         UNCHANGED <<now, Stream!client, wire, Stream!server, Stream!bounds>>
  PROVE  Stream!Insert
<1>1. n \in 1..InsertMax
  BY DEF Adapter!AdapterAssumption, Stream!StreamAssumption
<1>2. MaxTime \in Nat
  BY DEF Adapter!AdapterAssumption
<1>3. ASSUME NEW m \in 1..n
      PROVE  b[m] > 0 /\ b[m] \in {now - d : d \in InsertDelays}
  <2>1. b[m] \in 1..now /\ now \in Nat
    BY <1>2
  <2>2. now - b[m] \in 0..MaxTime /\ b[m] = now - (now - b[m])
    BY <1>2, <2>1
  <2>3. now - b[m] \in InsertDelays
    BY <2>2
  <2> QED
    BY <2>1, <2>2, <2>3
<1>4. b \in [1..n -> {now - d : d \in InsertDelays}] /\ \A m \in 1..n : b[m] > 0
  BY <1>3
<1> QED
  BY <1>1, <1>4 DEF Stream!Insert

(* A step of the composition is one of the stream and its surroundings.    *)
LEMMA StepIsStreamStep ==
  ASSUME Adapter!AdapterAssumption, Stream!StreamAssumption, AdapterLimit <= InsertMax,
         0..MaxTime \subseteq InsertDelays,
         ActivityInv, ActivityInv', Len(events') <= MaxEvents, [ActivityNext]_activityVars
  PROVE  [Stream!Next]_(Stream!vars)
<1>1. CASE AdapterStep
  <2>1. Adapter!Next /\ Adapter!AdapterInv /\ Adapter!BatchIsLimited
    BY <1>1 DEF AdapterStep, ActivityInv
  <2>2. Adapter!Stamps = timestamps /\ Adapter!Stamps' = timestamps'
    BY DEF Adapter!Stamps, timestamps
  <2>3. \/ now < MaxTime /\ now' = now + 1 /\ Adapter!Stamps' = Adapter!Stamps
        \/ now' = now /\ Adapter!Stamps' = Adapter!Stamps
        \/ /\ now' = now
           /\ \E n \in 1..AdapterLimit : \E b \in [1..n -> 1..now] :
                Adapter!Stamps' = Adapter!Stamps \o b
    BY <2>1, Adapter!OneBatchPerStep
  <2>4. UNCHANGED <<Stream!client, wire, Stream!server, Stream!bounds>>
    BY <1>1 DEF AdapterStep, streamVars, Stream!client, Stream!server, Stream!bounds
  <2>5. now \in 1..MaxTime
    BY DEF ActivityInv, Stream!StreamInv, Stream!TypeOK
  <2>6. Len(timestamps') <= MaxEvents
    <3>1. timestamps' \in Seq(1..now')
      BY DEF ActivityInv, Stream!StreamInv, Stream!TypeOK
    <3>2. events' \in Seq(Adapter!Event)
      BY DEF ActivityInv, Adapter!AdapterInv, Adapter!OnceInv,
             Adapter!TypeOK
    <3>3. DOMAIN timestamps' = 1..Len(timestamps') /\ Len(timestamps') \in Nat
      BY <3>1
    <3>4. DOMAIN events' = 1..Len(events') /\ Len(events') \in Nat
      BY <3>2
    <3>5. DOMAIN timestamps' = DOMAIN events'
      BY DEF timestamps
    <3>6. Len(timestamps') = Len(events')
      <4>1. ASSUME NEW m \in Nat, NEW n \in Nat, 1..m = 1..n
            PROVE  m = n
        <5>1. (m # 0 => m \in 1..n) /\ (n # 0 => n \in 1..m)
          BY <4>1
        <5> QED
          BY <4>1, <5>1
      <4> QED
        BY <3>3, <3>4, <3>5, <4>1
    <3> QED
      BY <3>6
  <2>7. CASE now < MaxTime /\ now' = now + 1 /\ timestamps' = timestamps
    BY <2>4, <2>7 DEF Stream!Next, Stream!Tick
  <2>8. CASE now' = now /\ timestamps' = timestamps
    BY <2>4, <2>8 DEF Stream!vars
  <2>9. ASSUME NEW n \in 1..AdapterLimit, NEW b \in [1..n -> 1..now], now' = now,
               timestamps' = timestamps \o b
        PROVE  Stream!Insert
    BY <2>4, <2>5, <2>6, <2>9, BatchIsInsert
  <2> QED
    BY <2>2, <2>3, <2>7, <2>8, <2>9 DEF Stream!Next
<1>2. CASE StreamStep
  BY <1>2 DEF StreamStep, Stream!Next
<1>3. CASE UNCHANGED activityVars
  BY <1>3 DEF activityVars, adapterVars, streamVars, timestamps, Stream!vars, Stream!client,
              Stream!server, Stream!bounds
<1> QED
  BY <1>1, <1>2, <1>3 DEF ActivityNext

(* StaffActivity implements EventStream: what the adapter does to the      *)
(* table is what the stream's own specification allows a writer, when that *)
(* writer may insert a batch as large as the adapter's, stamped as early,  *)
(* and as long as the table holds no more events than its bound.           *)
THEOREM AdapterIsAWriter ==
  ASSUME Adapter!AdapterAssumption, Stream!StreamAssumption, AdapterLimit <= InsertMax,
         0..MaxTime \subseteq InsertDelays
  PROVE  ActivitySpec /\ [](Len(events) <= MaxEvents) => StreamSpec
<1>1. ActivityInit => ActivityInv
  BY InitHasInv
<1>2. ActivityInv /\ [ActivityNext]_activityVars => ActivityInv'
  BY StepKeepsInv
<1>3. ActivityInit => Stream!Init
  BY DEF ActivityInit
<1>4. ActivityInv /\ ActivityInv' /\ (Len(events) <= MaxEvents)' /\ [ActivityNext]_activityVars
      => [Stream!Next]_(Stream!vars)
  BY StepIsStreamStep
<1> QED
  BY <1>1, <1>2, <1>3, <1>4, PTL DEF ActivitySpec, StreamSpec
=============================================================================
