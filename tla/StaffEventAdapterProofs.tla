----------------------- MODULE StaffEventAdapterProofs -----------------------
(***************************************************************************)
(* Proofs about StaffEventAdapter, for any batch limit, lookback, delay    *)
(* between a row's stamp and its commit, and any number of rows, failures  *)
(* and restarts.                                                           *)
(***************************************************************************)
EXTENDS StaffEventAdapter, FiniteSetTheorems, SequenceTheorems, TLAPS

(* The rows a poll is about to insert lie past its cursor, and a control   *)
(* plane that is down polls nothing.                                       *)
PollsPastCursor ==
  /\ \A t \in Tables : \A k \in poll[t].rows : source[t][k] > cursor[t]
  /\ process = "down" => \A t \in Tables : poll[t] = Idle

(* No event of a table lies past the cursor, so that none of the rows that *)
(* a poll may still find has an event.                                     *)
EventsBehindCursor ==
  process # "down" /\ ~blind =>
    \A e \in DOMAIN events : events[e].timestamp <= cursor[events[e].table]

(* What MAX(timestamp) finds in a table that is not empty.                 *)
NewestIsThere ==
  events # <<>> =>
    \E e \in DOMAIN events : \A d \in DOMAIN events :
      events[d].timestamp <= events[e].timestamp

OnceInv == TypeOK /\ PollsPastCursor /\ EventsBehindCursor /\ NewestIsThere
           /\ NoDuplicateEvents

(* Where a cursor is, and what a poll found past it: with rows that appear *)
(* in the order of their stamps, a batch has no gaps.                      *)
CursorAtRow(t) == cursor[t] = floor[t] \/ \E k \in Rows(t) : source[t][k] = cursor[t]

BatchHasNoGap(t) ==
  \A k \in Rows(t), j \in poll[t].rows :
    cursor[t] < source[t][k] /\ source[t][k] <= source[t][j] => k \in poll[t].rows

CompleteInv ==
  process # "down" =>
    \A t \in Tables : CursorAtRow(t) /\ (InOrder(t) => BatchHasNoGap(t))

AdapterInv == OnceInv /\ CompleteInv /\ CursorIsComplete
-----------------------------------------------------------------------------
(* Facts about the operators. *)

(* What TypeOK says of the rows and of the events, element by element.     *)
LEMMA Types ==
  ASSUME TypeOK
  PROVE  /\ now \in Nat \ {0}
         /\ \A t \in Tables :
              /\ Len(source[t]) \in Nat /\ DOMAIN source[t] = Rows(t)
              /\ \A k \in Rows(t) : k \in Nat /\ source[t][k] \in 1..now
              /\ cursor[t] \in Int /\ floor[t] \in Int
              /\ poll[t].rows \subseteq Rows(t)
              /\ \A k \in poll[t].rows : k \in Nat /\ source[t][k] \in 1..now
         /\ Len(events) \in Nat /\ DOMAIN events = 1..Len(events)
         /\ \A e \in DOMAIN events :
              /\ events[e] \in Event
              /\ events[e].table \in Tables /\ events[e].row \in Nat
              /\ events[e].timestamp \in Nat
<1>1. now \in Nat \ {0}
  BY AdapterAssumption DEF TypeOK
<1>2. ASSUME NEW t \in Tables
      PROVE  /\ Len(source[t]) \in Nat /\ DOMAIN source[t] = Rows(t)
             /\ \A k \in Rows(t) : k \in Nat /\ source[t][k] \in 1..now
  <2>1. source[t] \in Seq(1..now)
    BY DEF TypeOK
  <2>2. /\ Len(source[t]) \in Nat /\ DOMAIN source[t] = 1..Len(source[t])
        /\ \A k \in 1..Len(source[t]) : source[t][k] \in 1..now
    BY <2>1, LenProperties, ElementOfSeq
  <2> QED
    BY <2>2 DEF Rows
<1>3. /\ Len(events) \in Nat /\ DOMAIN events = 1..Len(events)
      /\ \A e \in DOMAIN events : events[e] \in Event
  BY DEF TypeOK
<1>4. \A e \in DOMAIN events : /\ events[e].table \in Tables /\ events[e].row \in Nat
                               /\ events[e].timestamp \in Nat
  BY <1>3 DEF Event
<1>5. \A t \in Tables : /\ cursor[t] \in Int /\ floor[t] \in Int
                        /\ poll[t].rows \subseteq Rows(t)
  BY DEF TypeOK
<1> QED
  BY <1>1, <1>2, <1>3, <1>4, <1>5

(* A batch in the order of the query: every row once, the last one newest. *)
LEMMA OrderedBatch ==
  ASSUME TypeOK, NEW t \in Tables, poll[t].pc = "insert",
         NEW q \in Ordered(t, poll[t].rows)
  PROVE  /\ q \in Seq(Rows(t)) /\ Len(q) > 0 /\ DOMAIN q = 1..Len(q)
         /\ \A m \in DOMAIN q : q[m] \in poll[t].rows
         /\ \A m, n \in DOMAIN q : q[m] = q[n] => m = n
         /\ \A k \in poll[t].rows : \E n \in DOMAIN q : q[n] = k
         /\ Last(q) \in poll[t].rows
         /\ \A k \in poll[t].rows : source[t][k] <= LastStamp(t, q)
<1> DEFINE S == poll[t].rows
           n == Cardinality(S)
<1>1. S \subseteq 1..Len(source[t]) /\ S # {} /\ Len(source[t]) \in Nat
  BY DEF TypeOK, Rows
<1>2. IsFiniteSet(S)
  <2>1. IsFiniteSet(1..Len(source[t]))
    BY <1>1, FS_Interval
  <2> QED
    BY <1>1, <2>1, FS_Subset
<1>3. n \in Nat /\ n # 0
  BY <1>1, <1>2, FS_CardinalityType, FS_EmptySet
<1>4. /\ q \in [1..n -> S]
      /\ \A a, b \in 1..n : q[a] = q[b] => a = b
      /\ \A k \in S : \E a \in 1..n : q[a] = k
      /\ \A a, b \in 1..n : a < b => source[t][q[a]] <= source[t][q[b]]
  BY DEF Ordered, Bijection, Injection, Surjection, IsInjective
<1>5. q \in Seq(Rows(t)) /\ Len(q) = n /\ DOMAIN q = 1..n
  BY <1>1, <1>3, <1>4 DEF Rows
<1>6. Last(q) = q[n] /\ n \in 1..n
  BY <1>3, <1>5 DEF Last
<1>7. ASSUME NEW k \in S
      PROVE  source[t][k] <= source[t][q[n]]
  <2>1. PICK a \in 1..n : q[a] = k
    BY <1>4
  <2>2. source[t][k] \in Nat
    BY Types
  <2> QED
    BY <1>3, <1>4, <1>6, <2>1, <2>2
<1> QED
  BY <1>3, <1>4, <1>5, <1>6, <1>7 DEF LastStamp

(* What a sequence is after another one has been put at its end.           *)
LEMMA Appended ==
  ASSUME NEW T, NEW s \in Seq(T), NEW b \in Seq(T)
  PROVE  /\ s \o b \in Seq(T) /\ Len(s \o b) = Len(s) + Len(b)
         /\ DOMAIN s \subseteq DOMAIN (s \o b)
         /\ \A e \in DOMAIN s : (s \o b)[e] = s[e]
         /\ \A n \in DOMAIN b : /\ Len(s) + n \in DOMAIN (s \o b) \ DOMAIN s
                                /\ (s \o b)[Len(s) + n] = b[n]
         /\ \A e \in DOMAIN (s \o b) \ DOMAIN s : \E n \in DOMAIN b :
              e = Len(s) + n /\ (s \o b)[e] = b[n]
<1>1. /\ s \o b \in Seq(T)
      /\ Len(s) \in Nat /\ DOMAIN s = 1..Len(s) /\ Len(b) \in Nat /\ DOMAIN b = 1..Len(b)
      /\ DOMAIN (s \o b) = 1..(Len(s) + Len(b)) /\ Len(s \o b) = Len(s) + Len(b)
      /\ \A n \in 1..Len(s) : (s \o b)[n] = s[n]
      /\ \A n \in 1..Len(b) : (s \o b)[Len(s) + n] = b[n]
  OBVIOUS
<1>2. ASSUME NEW e \in DOMAIN (s \o b) \ DOMAIN s
      PROVE  \E n \in DOMAIN b : e = Len(s) + n /\ (s \o b)[e] = b[n]
  <2>1. e - Len(s) \in 1..Len(b) /\ e = Len(s) + (e - Len(s))
    BY <1>1
  <2> QED
    BY <1>1, <2>1
<1> QED
  BY <1>1, <1>2

(* u is staff_events with the batch q of table t added at its end.         *)
Grown(u, t, q) ==
  /\ u \in Seq(Event)
  /\ DOMAIN events \subseteq DOMAIN u
  /\ \A e \in DOMAIN events : u[e] = events[e]
  /\ \A e \in DOMAIN u \ DOMAIN events : \E n \in DOMAIN q :
       /\ e = Len(events) + n
       /\ u[e].table = t /\ u[e].row = q[n] /\ u[e].timestamp = source[t][q[n]]
  /\ \A n \in DOMAIN q :
       /\ Len(events) + n \in DOMAIN u \ DOMAIN events
       /\ u[Len(events) + n].table = t
       /\ u[Len(events) + n].row = q[n]
       /\ u[Len(events) + n].timestamp = source[t][q[n]]

(* What inserting a batch adds to staff_events.                            *)
LEMMA InsertAdds ==
  ASSUME TypeOK, NEW t \in Tables, poll[t].pc = "insert",
         NEW q \in Ordered(t, poll[t].rows), NEW u, u = events \o Synthesize(t, q)
  PROVE  Grown(u, t, q)
<1>0. PICK b : b = Synthesize(t, q)
  OBVIOUS
<1>1. /\ q \in Seq(Rows(t)) /\ DOMAIN q = 1..Len(q) /\ Len(q) \in Nat
      /\ \A m \in DOMAIN q : q[m] \in Nat /\ source[t][q[m]] \in Nat
  <2>1. /\ q \in Seq(Rows(t)) /\ DOMAIN q = 1..Len(q)
        /\ \A m \in DOMAIN q : q[m] \in poll[t].rows
    BY OrderedBatch
  <2> QED
    BY <2>1, Types, SMTT(40)
<1>2. /\ b \in Seq(Event) /\ DOMAIN b = DOMAIN q
      /\ \A n \in DOMAIN q :
           b[n].table = t /\ b[n].row = q[n] /\ b[n].timestamp = source[t][q[n]]
  <2>1. b \in [1..Len(q) -> Event]
    BY <1>0, <1>1 DEF Synthesize, Event
  <2> QED
    BY <1>0, <1>1, <2>1 DEF Synthesize
<1>3. events \in Seq(Event)
  BY DEF TypeOK
<1>4. u = events \o b
  BY <1>0
<1>5. /\ u \in Seq(Event)
      /\ DOMAIN events \subseteq DOMAIN u
      /\ \A e \in DOMAIN events : u[e] = events[e]
      /\ \A n \in DOMAIN b : /\ Len(events) + n \in DOMAIN u \ DOMAIN events
                             /\ u[Len(events) + n] = b[n]
      /\ \A e \in DOMAIN u \ DOMAIN events : \E n \in DOMAIN b :
           e = Len(events) + n /\ u[e] = b[n]
  BY <1>2, <1>3, <1>4, Appended, SMT
<1>6. ASSUME NEW e \in DOMAIN u \ DOMAIN events
      PROVE  \E n \in DOMAIN q :
              /\ e = Len(events) + n
              /\ u[e].table = t /\ u[e].row = q[n] /\ u[e].timestamp = source[t][q[n]]
  <2>1. PICK n \in DOMAIN b : e = Len(events) + n /\ u[e] = b[n]
    BY <1>5
  <2> QED
    BY <1>2, <2>1
<1>7. ASSUME NEW n \in DOMAIN q
      PROVE  /\ Len(events) + n \in DOMAIN u \ DOMAIN events
              /\ u[Len(events) + n].table = t
              /\ u[Len(events) + n].row = q[n]
              /\ u[Len(events) + n].timestamp = source[t][q[n]]
  BY <1>2, <1>5
<1> QED
  BY <1>5, <1>6, <1>7 DEF Grown

(* The cursor a restart takes from staff_events is behind no event.        *)
LEMMA StoredCursorIsNewest ==
  ASSUME TypeOK, NewestIsThere
  PROVE  /\ StoredCursor \in Int
         /\ \A e \in DOMAIN events : events[e].timestamp <= StoredCursor
<1>1. CASE events = <<>>
  BY <1>1, Types, AdapterAssumption DEF StoredCursor
<1>2. CASE events # <<>>
  <2> DEFINE Stamps == {events[e].timestamp : e \in DOMAIN events}
  <2>1. PICK e \in DOMAIN events :
          \A d \in DOMAIN events : events[d].timestamp <= events[e].timestamp
    BY <1>2 DEF NewestIsThere
  <2>2. \E ts \in Stamps : \A d \in DOMAIN events : events[d].timestamp <= ts
    BY <2>1
  <2>3. NewestEvent \in Stamps /\ \A d \in DOMAIN events : events[d].timestamp <= NewestEvent
    BY <2>2 DEF NewestEvent
  <2>4. \A d \in DOMAIN events : events[d].timestamp \in Nat
    BY Types
  <2> QED
    BY <1>2, <2>3, <2>4 DEF StoredCursor
<1> QED
  BY <1>1, <1>2
-----------------------------------------------------------------------------
(* The steps. *)

(* Time passes: nothing the invariant speaks about moves.                  *)
LEMMA TickKeepsInv ==
  ASSUME AdapterInv, Tick
  PROVE  AdapterInv'
<1> USE DEF Tick
<1>1. TypeOK'
  <2>1. now' \in 1..MaxTime /\ 1..now \subseteq 1..now'
    BY AdapterAssumption DEF AdapterInv, OnceInv, TypeOK
  <2>2. \A t \in Tables : source'[t] \in Seq(1..now')
    <3> SUFFICES ASSUME NEW t \in Tables
                 PROVE  source[t] \in Seq(1..now')
      OBVIOUS
    <3>1. source[t] \in Seq(1..now)
      BY DEF AdapterInv, OnceInv, TypeOK
    <3> QED
      BY <2>1, <3>1, SeqMonotonic
  <2>3. source' \in [Tables -> Seq(1..now')]
    BY <2>2 DEF AdapterInv, OnceInv, TypeOK
  <2> QED
    BY <2>1, <2>3 DEF AdapterInv, OnceInv, TypeOK, Rows
<1>2. PollsPastCursor' /\ EventsBehindCursor' /\ NewestIsThere' /\ NoDuplicateEvents'
  BY DEF AdapterInv, OnceInv, PollsPastCursor, EventsBehindCursor, NewestIsThere,
         NoDuplicateEvents
<1>3. CompleteInv' /\ CursorIsComplete'
  BY DEF AdapterInv, CompleteInv, CursorIsComplete, CursorAtRow, BatchHasNoGap, InOrder,
         Rows, Emitted
<1> QED
  BY <1>1, <1>2, <1>3 DEF AdapterInv, OnceInv

(* A new row comes last and leaves the others where they are; if the rows  *)
(* are in order after it, they were before and its stamp is the newest.    *)
LEMMA WriteAdds ==
  ASSUME TypeOK, NEW t \in Tables, Write(t)
  PROVE  /\ source' \in [Tables -> Seq(1..now)]
         /\ \A s \in Tables :
              /\ Len(source'[s]) <= MaxRows
              /\ Rows(s) \subseteq Rows(s)'
              /\ \A k \in Rows(s) : source'[s][k] = source[s][k]
              /\ InOrder(s)' => InOrder(s)
              /\ InOrder(s)' => \A j \in Rows(s), k \in Rows(s)' \ Rows(s) :
                                  source'[s][j] < source'[s][k]
<1>1. PICK d \in Delays : d < now /\ source' = [source EXCEPT ![t] = Append(@, now - d)]
  BY DEF Write
<1>2. now - d \in 1..now
  BY <1>1, Types, AdapterAssumption
<1>3. \A s \in Tables : source[s] \in Seq(1..now) /\ Len(source[s]) \in Nat
  BY Types DEF TypeOK
<1>4. /\ source'[t] = Append(source[t], now - d)
      /\ \A s \in Tables : s # t => source'[s] = source[s]
  BY <1>1 DEF TypeOK
<1>5. /\ source'[t] \in Seq(1..now) /\ Len(source'[t]) = Len(source[t]) + 1
      /\ \A k \in 1..Len(source[t]) : source'[t][k] = source[t][k]
  BY <1>2, <1>3, <1>4, AppendProperties
<1>6. \A s \in Tables : source'[s] \in Seq(1..now)
  BY <1>3, <1>4, <1>5
<1>7. source' \in [Tables -> Seq(1..now)]
  BY <1>1, <1>6 DEF TypeOK
<1>8. ASSUME NEW s \in Tables
      PROVE  /\ Len(source'[s]) <= MaxRows
             /\ Rows(s) \subseteq Rows(s)'
             /\ \A k \in Rows(s) : source'[s][k] = source[s][k]
             /\ \A j \in Rows(s), k \in Rows(s)' \ Rows(s) : j < k
  <2>1. CASE s = t
    <3>1. Len(source'[s]) <= MaxRows
      BY <1>3, <1>5, <2>1, AdapterAssumption DEF Write
    <3> QED
      BY <1>3, <1>5, <2>1, <3>1 DEF Rows
  <2>2. CASE s # t
    BY <1>3, <1>4, <2>2 DEF Rows, TypeOK
  <2> QED
    BY <2>1, <2>2
<1>9. ASSUME NEW s \in Tables, InOrder(s)'
      PROVE  /\ InOrder(s)
             /\ \A j \in Rows(s), k \in Rows(s)' \ Rows(s) : source'[s][j] < source'[s][k]
  <2>1. \A j, k \in Rows(s)' : j < k => source'[s][j] < source'[s][k]
    BY <1>9 DEF InOrder
  <2>2. \A j, k \in Rows(s) : j < k => source[s][j] < source[s][k]
    BY <1>8, <2>1
  <2> QED
    BY <1>8, <2>1, <2>2 DEF InOrder
<1> QED
  BY <1>7, <1>8, <1>9

(* A new row past the cursor waits for the next poll; one behind it cannot *)
(* come in the order of the stamps.                                        *)
LEMMA WriteKeepsInv ==
  ASSUME AdapterInv, NEW t \in Tables, Write(t)
  PROVE  AdapterInv'
<1> USE DEF AdapterInv, OnceInv
<1>0. /\ UNCHANGED <<now, events, process, cursor, floor, poll, faults, blind>>
      /\ source' \in [Tables -> Seq(1..now)]
      /\ \A s \in Tables :
              /\ Len(source'[s]) <= MaxRows
              /\ Rows(s) \subseteq Rows(s)'
              /\ \A k \in Rows(s) : source'[s][k] = source[s][k]
              /\ InOrder(s)' => InOrder(s)
              /\ InOrder(s)' => \A j \in Rows(s), k \in Rows(s)' \ Rows(s) :
                                  source'[s][j] < source'[s][k]
  BY WriteAdds DEF Write
<1>1. TypeOK'
  <2>1. \A s \in Tables : poll'[s].rows \subseteq Rows(s)'
    BY <1>0, Types
  <2>2. ASSUME NEW e \in DOMAIN events
        PROVE  /\ events[e].row \in 1..Len(source'[events[e].table])
               /\ events[e].timestamp = source'[events[e].table][events[e].row]
    <3>1. events[e].table \in Tables
      BY Types
    <3>2. /\ events[e].row \in Rows(events[e].table)
          /\ events[e].timestamp = source[events[e].table][events[e].row]
      BY DEF TypeOK
    <3>3. /\ \A k \in Rows(events[e].table) : source'[events[e].table][k] = source[events[e].table][k]
          /\ 1..Len(source[events[e].table]) \subseteq 1..Len(source'[events[e].table])
      BY <1>0, <3>1 DEF Rows
    <3> QED
      BY <1>0, <3>2, <3>3 DEF Rows
  <2> QED
    BY <1>0, <2>1, <2>2 DEF TypeOK, Rows
<1>2. PollsPastCursor'
  <2>1. \A s \in Tables : \A k \in poll[s].rows : k \in Rows(s)
    BY Types
  <2> QED
    BY <1>0, <2>1 DEF PollsPastCursor
<1>3. EventsBehindCursor' /\ NewestIsThere' /\ NoDuplicateEvents'
  BY <1>0 DEF EventsBehindCursor, NewestIsThere, NoDuplicateEvents
<1>4. ASSUME process' # "down", NEW s \in Tables
      PROVE  /\ CursorAtRow(s)'
             /\ InOrder(s)' => BatchHasNoGap(s)'
             /\ InOrder(s)' => \A k \in Rows(s)' :
                  floor'[s] < source'[s][k] /\ source'[s][k] <= cursor'[s] => Emitted(s, k)'
  <2>1. process # "down" /\ CursorAtRow(s) /\ (InOrder(s) => BatchHasNoGap(s))
    BY <1>0, <1>4 DEF CompleteInv
  <2>2. CursorAtRow(s)'
    BY <1>0, <2>1 DEF CursorAtRow
  <2>3. \A k \in Rows(s) : source[s][k] \in Nat
    BY Types
  <2>4. \A k \in Rows(s)' : source'[s][k] \in Nat
    <3>1. source'[s] \in Seq(1..now)
      BY <1>0
    <3> QED
      BY <3>1, Types, ElementOfSeq DEF Rows
  <2>5. cursor[s] \in Int /\ floor[s] \in Int /\ poll[s].rows \subseteq Rows(s)
    BY Types
  <2>6. ASSUME InOrder(s)'
        PROVE  BatchHasNoGap(s)'
    <3> SUFFICES ASSUME NEW k \in Rows(s)', NEW j \in poll[s].rows,
                        cursor[s] < source'[s][k], source'[s][k] <= source'[s][j]
                 PROVE  k \in poll[s].rows
      BY <1>0 DEF BatchHasNoGap
    <3>1. k \in Rows(s)
      BY <1>0, <2>4, <2>5, <2>6
    <3> QED
      BY <1>0, <2>1, <2>5, <2>6, <3>1 DEF BatchHasNoGap
  <2>7. ASSUME InOrder(s)', NEW k \in Rows(s)', floor[s] < source'[s][k],
               source'[s][k] <= cursor[s]
        PROVE  Emitted(s, k)'
    <3>1. k \in Rows(s)
      <4> SUFFICES ASSUME k \notin Rows(s)
                   PROVE  FALSE
        OBVIOUS
      <4>1. CASE cursor[s] = floor[s]
        BY <2>4, <2>5, <2>7, <4>1
      <4>2. CASE \E j \in Rows(s) : source[s][j] = cursor[s]
        <5>1. PICK j \in Rows(s) : source[s][j] = cursor[s]
          BY <4>2
        <5>2. source'[s][j] < source'[s][k] /\ source'[s][j] = cursor[s]
          BY <1>0, <2>7, <5>1
        <5> QED
          BY <2>4, <2>5, <2>7, <5>2
      <4> QED
        BY <2>1, <4>1, <4>2 DEF CursorAtRow
    <3>2. Emitted(s, k)
      BY <1>0, <2>1, <2>7, <3>1 DEF CursorIsComplete
    <3> QED
      BY <1>0, <3>2 DEF Emitted
  <2> QED
    BY <1>0, <2>2, <2>6, <2>7
<1>5. CompleteInv' /\ CursorIsComplete'
  BY <1>4 DEF CompleteInv, CursorIsComplete
<1> QED
  BY <1>1, <1>2, <1>3, <1>5
(* A start: no poll is under way yet, and no event lies past the cursor    *)
(* that was found, or the start was blind to the events there are.         *)
LEMMA StartKeepsInv ==
  ASSUME AdapterInv, startAdapter \/ startAdapterBlind
  PROVE  AdapterInv'
<1> USE DEF AdapterInv, OnceInv
<1>1. PICK c \in Int :
        /\ StartFrom(c)
        /\ blind' \in BOOLEAN /\ (blind => blind') /\ faults' \in 0..MaxFaults
        /\ ~blind' => \A e \in DOMAIN events : events[e].timestamp <= c
  <2>1. CASE startAdapter
    BY <2>1, StoredCursorIsNewest DEF startAdapter, TypeOK
  <2>2. CASE startAdapterBlind
    <3>1. now - Lookback \in Int
      BY Types, AdapterAssumption
    <3>2. faults' \in 0..MaxFaults
      BY <2>2, AdapterAssumption DEF startAdapterBlind, Fail, TypeOK
    <3>3. ~blind' => events = <<>>
      BY <2>2, Zenon DEF startAdapterBlind
    <3>4. events = <<>> => DOMAIN events = {}
      OBVIOUS
    <3> QED
      BY <2>2, <3>1, <3>2, <3>3, <3>4 DEF startAdapterBlind, TypeOK
  <2> QED
    BY <2>1, <2>2
<1>2. /\ process = "down" /\ process' = "up"
      /\ cursor' = [t \in Tables |-> c] /\ floor' = [t \in Tables |-> c]
      /\ UNCHANGED <<now, source, events, poll>>
  BY <1>1 DEF StartFrom
<1>3. \A t \in Tables : poll[t] = Idle
  BY <1>2 DEF PollsPastCursor
<1>4. TypeOK'
  BY <1>1, <1>2 DEF TypeOK, Rows
<1>5. PollsPastCursor'
  BY <1>2, <1>3 DEF PollsPastCursor, Idle
<1>6. EventsBehindCursor'
  <2>1. \A e \in DOMAIN events : events[e].table \in Tables
    BY Types
  <2> QED
    BY <1>1, <1>2, <2>1 DEF EventsBehindCursor
<1>7. NewestIsThere' /\ NoDuplicateEvents'
  BY <1>1, <1>2 DEF NewestIsThere, NoDuplicateEvents
<1>8. CompleteInv'
  BY <1>2, <1>3 DEF CompleteInv, CursorAtRow, BatchHasNoGap, Idle
<1>9. CursorIsComplete'
  <2> SUFFICES ASSUME NEW t \in Tables, NEW k \in Rows(t), c < source[t][k],
                      source[t][k] <= c
               PROVE  FALSE
    BY <1>2 DEF CursorIsComplete, Rows
  <2> QED
    BY Types
<1> QED
  BY <1>4, <1>5, <1>6, <1>7, <1>8, <1>9

(* Steps that start or end a poll without an answer, and a shutdown.       *)
LEMMA PollingKeepsInv ==
  ASSUME AdapterInv,
         stopAdapter \/ Exit \/ pollOnce \/ \E t \in Tables : QueryFails(t)
  PROVE  AdapterInv'
<1> USE DEF AdapterInv, OnceInv
<1>1. /\ UNCHANGED <<now, source, events, cursor, floor, blind>>
      /\ faults' \in 0..MaxFaults
      /\ process' \in {"down", "up", "stopping"}
      /\ process' # "down" => process # "down"
  BY AdapterAssumption DEF stopAdapter, Exit, pollOnce, QueryFails, Fail, TypeOK
<1>2. /\ poll' \in [Tables -> [pc: {"idle", "select", "insert"}, rows: SUBSET Nat]]
      /\ \A t \in Tables : \/ poll'[t] = poll[t]
                           \/ poll'[t].rows = {} /\ poll'[t].pc # "insert"
      /\ process' = "down" => \A t \in Tables : poll'[t] = Idle
  <2>1. CASE stopAdapter
    BY <2>1 DEF stopAdapter, TypeOK
  <2>2. CASE Exit
    BY <2>2 DEF Exit, Idle
  <2>3. CASE pollOnce
    BY <2>3 DEF pollOnce
  <2>4. CASE \E t \in Tables : QueryFails(t)
    <3>1. PICK t \in Tables : QueryFails(t)
      BY <2>4
    <3>2. poll' = [poll EXCEPT ![t] = Idle] /\ process' = process /\ poll[t].pc # "idle"
      BY <3>1 DEF QueryFails
    <3>3. process # "down"
      BY <3>2 DEF PollsPastCursor, Idle
    <3> QED
      BY <3>2, <3>3 DEF TypeOK, Idle
  <2> QED
    BY <2>1, <2>2, <2>3, <2>4
<1>3. \A t \in Tables : poll'[t].rows \subseteq poll[t].rows
  BY <1>2
<1>4. TypeOK'
  <2>1. \A t \in Tables : /\ poll'[t].rows \subseteq Rows(t)
                          /\ poll'[t].rows # {} <=> poll'[t].pc = "insert"
    BY <1>2 DEF TypeOK
  <2> QED
    BY <1>1, <1>2, <2>1 DEF TypeOK, Rows
<1>5. PollsPastCursor'
  BY <1>1, <1>2, <1>3 DEF PollsPastCursor
<1>6. EventsBehindCursor' /\ NewestIsThere' /\ NoDuplicateEvents'
  BY <1>1 DEF EventsBehindCursor, NewestIsThere, NoDuplicateEvents
<1>7. CompleteInv'
  <2> SUFFICES ASSUME process' # "down", NEW t \in Tables
               PROVE  CursorAtRow(t)' /\ (InOrder(t) => BatchHasNoGap(t))'
    BY DEF CompleteInv
  <2>1. CursorAtRow(t) /\ (InOrder(t) => BatchHasNoGap(t))
    BY <1>1 DEF CompleteInv
  <2>2. poll'[t] = poll[t] \/ poll'[t].rows = {}
    BY <1>2
  <2> QED
    BY <1>1, <2>1, <2>2 DEF CursorAtRow, BatchHasNoGap, InOrder, Rows
<1>8. CursorIsComplete'
  BY <1>1 DEF CursorIsComplete, InOrder, Rows, Emitted
<1> QED
  BY <1>4, <1>5, <1>6, <1>7, <1>8

(* An answer: only rows past the cursor, the oldest ones.                  *)
LEMMA SelectKeepsInv ==
  ASSUME AdapterInv, NEW t \in Tables, Select(t)
  PROVE  AdapterInv'
<1> USE DEF AdapterInv, OnceInv
<1>1. PICK S \in Answers(t) :
        /\ poll[t].pc = "select"
        /\ poll' = [poll EXCEPT ![t] = IF S = {} THEN Idle ELSE [pc |-> "insert", rows |-> S]]
        /\ UNCHANGED <<now, source, events, process, cursor, floor, faults, blind>>
  BY DEF Select
<1>2. /\ S \subseteq Rows(t)
      /\ \A k \in S : source[t][k] > cursor[t]
      /\ \A k \in S, m \in Rows(t) :
           source[t][m] > cursor[t] /\ m \notin S => source[t][k] <= source[t][m]
  BY DEF Answers
<1>3. S \subseteq Nat
  BY <1>2, Types
<1>4. /\ poll'[t].rows = S /\ poll'[t].pc \in {"idle", "insert"}
      /\ S # {} <=> poll'[t].pc = "insert"
      /\ poll'[t] \in [pc: {"idle", "select", "insert"}, rows: SUBSET Nat]
      /\ \A s \in Tables : s # t => poll'[s] = poll[s]
  BY <1>1, <1>3 DEF TypeOK, Idle
<1>5. TypeOK'
  <2>1. poll' \in [Tables -> [pc: {"idle", "select", "insert"}, rows: SUBSET Nat]]
    BY <1>1, <1>4 DEF TypeOK
  <2>2. \A s \in Tables : /\ poll'[s].rows \subseteq Rows(s)
                          /\ poll'[s].rows # {} <=> poll'[s].pc = "insert"
    BY <1>2, <1>4 DEF TypeOK
  <2> QED
    BY <1>1, <2>1, <2>2 DEF TypeOK, Rows
<1>6. process # "down"
  BY <1>1 DEF PollsPastCursor, Idle
<1>7. PollsPastCursor'
  <2>1. \A s \in Tables : \A k \in poll'[s].rows : source[s][k] > cursor[s]
    BY <1>2, <1>4 DEF PollsPastCursor
  <2> QED
    BY <1>1, <1>6, <2>1 DEF PollsPastCursor
<1>8. EventsBehindCursor' /\ NewestIsThere' /\ NoDuplicateEvents'
  BY <1>1 DEF EventsBehindCursor, NewestIsThere, NoDuplicateEvents
<1>9. CompleteInv'
  <2> SUFFICES ASSUME NEW s \in Tables
               PROVE  CursorAtRow(s)' /\ (InOrder(s) => BatchHasNoGap(s))'
    BY DEF CompleteInv
  <2>1. CursorAtRow(s) /\ (InOrder(s) => BatchHasNoGap(s))
    BY <1>6 DEF CompleteInv
  <2>2. CursorAtRow(s)'
    BY <1>1, <2>1 DEF CursorAtRow, Rows
  <2>3. CASE s # t
    BY <1>1, <1>4, <2>1, <2>2, <2>3 DEF BatchHasNoGap, InOrder, Rows
  <2>4. CASE s = t
    <3> SUFFICES ASSUME InOrder(t), NEW k \in Rows(t), NEW j \in S,
                        cursor[t] < source[t][k], source[t][k] <= source[t][j],
                        k \notin S
                 PROVE  FALSE
      BY <1>1, <1>4, <2>2, <2>4 DEF BatchHasNoGap, InOrder, Rows
    <3>1. source[t][k] \in Nat /\ source[t][j] \in Nat /\ k \in Nat /\ j \in Nat
          /\ cursor[t] \in Int /\ j \in Rows(t)
      BY <1>2, Types
    <3>2. source[t][j] = source[t][k]
      BY <1>2, <3>1
    <3>3. j = k
      BY <3>1, <3>2 DEF InOrder
    <3> QED
      BY <3>3
  <2> QED
    BY <2>3, <2>4
<1>10. CursorIsComplete'
  BY <1>1 DEF CursorIsComplete, InOrder, Rows, Emitted
<1> QED
  BY <1>5, <1>7, <1>8, <1>9, <1>10
(* Stamps are ordered like the numbers they are.                           *)
LEMMA NotAfter ==
  /\ \A a, b, c \in Nat : a <= b /\ b <= c => a <= c
  /\ \A a, b \in Nat : a <= b \/ b <= a
  OBVIOUS

(* After an insert every event still stands for its row, and a newest one  *)
(* exists.                                                                 *)
LEMMA InsertKeepsEvents ==
  ASSUME AdapterInv, NEW t \in Tables, poll[t].pc = "insert",
         NEW q \in Ordered(t, poll[t].rows), NEW u, u = events \o Synthesize(t, q)
  PROVE  /\ u \in Seq(Event)
         /\ \A e \in DOMAIN u :
              /\ u[e].row \in Rows(u[e].table)
              /\ u[e].timestamp = source[u[e].table][u[e].row]
         /\ \E e \in DOMAIN u : \A d \in DOMAIN u : u[d].timestamp <= u[e].timestamp
<1>0. TypeOK /\ NewestIsThere
  BY DEF AdapterInv, OnceInv
<1>1. Grown(u, t, q)
  BY <1>0, InsertAdds
<1>2. /\ \A n \in DOMAIN q : q[n] \in poll[t].rows
      /\ \A k \in poll[t].rows : \E n \in DOMAIN q : q[n] = k
      /\ Last(q) \in poll[t].rows
      /\ \A k \in poll[t].rows : source[t][k] <= source[t][Last(q)]
  BY <1>0, OrderedBatch DEF LastStamp
<1>3. /\ \A k \in poll[t].rows : k \in Rows(t) /\ source[t][k] \in Nat
      /\ \A e \in DOMAIN events : events[e].timestamp \in Nat
  BY <1>0, Types
<1>4. /\ DOMAIN events \subseteq DOMAIN u
      /\ \A e \in DOMAIN events : u[e] = events[e]
  BY <1>1 DEF Grown
<1>5. ASSUME NEW e \in DOMAIN u \ DOMAIN events
      PROVE  \E k \in poll[t].rows : /\ u[e].table = t /\ u[e].row = k
                                     /\ u[e].timestamp = source[t][k]
  BY <1>1, <1>2 DEF Grown
<1>6. ASSUME NEW e \in DOMAIN u
      PROVE  u[e].row \in Rows(u[e].table) /\ u[e].timestamp = source[u[e].table][u[e].row]
  <2>1. CASE e \in DOMAIN events
    BY <1>0, <1>4, <2>1 DEF TypeOK
  <2>2. CASE e \notin DOMAIN events
    BY <1>3, <1>5, <2>2
  <2> QED
    BY <2>1, <2>2
<1>7. \E e \in DOMAIN u : \A d \in DOMAIN u : u[d].timestamp <= u[e].timestamp
  <2>1. PICK n \in DOMAIN q : q[n] = Last(q)
    BY <1>2
  <2>2. PICK l : l = Len(events) + n
    OBVIOUS
  <2>3. l \in DOMAIN u /\ u[l].timestamp = source[t][Last(q)] /\ u[l].timestamp \in Nat
    BY <1>1, <1>2, <1>3, <2>1, <2>2 DEF Grown
  <2>4. \A d \in DOMAIN u \ DOMAIN events :
          u[d].timestamp \in Nat /\ u[d].timestamp <= u[l].timestamp
    BY <1>2, <1>3, <1>5, <2>3
  <2>5. CASE events = <<>>
    <3>1. DOMAIN events = {}
      BY <2>5
    <3> QED
      BY <2>3, <2>4, <3>1
  <2>6. CASE events # <<>>
    <3>1. PICK o \in DOMAIN events :
            \A d \in DOMAIN events : events[d].timestamp <= events[o].timestamp
      BY <1>0, <2>6 DEF NewestIsThere
    <3>2. /\ o \in DOMAIN u /\ u[o].timestamp \in Nat
          /\ \A d \in DOMAIN events :
               u[d].timestamp \in Nat /\ u[d].timestamp <= u[o].timestamp
      BY <1>3, <1>4, <3>1
    <3>3. CASE u[o].timestamp <= u[l].timestamp
      <4>1. \A d \in DOMAIN u : u[d].timestamp <= u[l].timestamp
        BY <2>3, <2>4, <3>2, <3>3, NotAfter
      <4> QED
        BY <2>3, <4>1
    <3>4. CASE u[l].timestamp <= u[o].timestamp
      <4>1. \A d \in DOMAIN u : u[d].timestamp <= u[o].timestamp
        BY <2>3, <2>4, <3>2, <3>4, NotAfter
      <4> QED
        BY <3>2, <4>1
    <3> QED
      BY <2>3, <3>2, <3>3, <3>4, NotAfter
  <2> QED
    BY <2>5, <2>6
<1>8. u \in Seq(Event)
  BY <1>1 DEF Grown
<1> QED
  BY <1>6, <1>7, <1>8

(* The insert of a batch: its rows had no event, each gets one, and the    *)
(* cursor moves to the last of them and past no other row.                 *)
LEMMA InsertKeepsInv ==
  ASSUME AdapterInv, NEW t \in Tables, Insert(t)
  PROVE  AdapterInv'
<1> USE DEF AdapterInv, OnceInv
<1>1. PICK q \in Ordered(t, poll[t].rows) :
        /\ poll[t].pc = "insert"
        /\ events' = events \o Synthesize(t, q)
        /\ cursor' = [cursor EXCEPT ![t] = LastStamp(t, q)]
        /\ poll' = [poll EXCEPT ![t] = Idle]
        /\ UNCHANGED <<now, source, process, floor, faults, blind>>
  BY DEF Insert
<1> DEFINE L == LastStamp(t, q)
<1>2. /\ \A n \in DOMAIN q : q[n] \in poll[t].rows
      /\ \A m, n \in DOMAIN q : q[m] = q[n] => m = n
      /\ \A k \in poll[t].rows : \E n \in DOMAIN q : q[n] = k
      /\ Last(q) \in poll[t].rows
      /\ \A k \in poll[t].rows : source[t][k] <= L
  BY <1>1, OrderedBatch
<1>3. /\ DOMAIN events \subseteq DOMAIN events'
      /\ \A e \in DOMAIN events : events'[e] = events[e]
      /\ \A e \in DOMAIN events' \ DOMAIN events : \E n \in DOMAIN q :
           /\ e = Len(events) + n
           /\ events'[e].table = t /\ events'[e].row = q[n]
           /\ events'[e].timestamp = source[t][q[n]]
      /\ \A n \in DOMAIN q :
           /\ Len(events) + n \in DOMAIN events'
           /\ events'[Len(events) + n].table = t
           /\ events'[Len(events) + n].row = q[n]
  <2>1. TypeOK
    OBVIOUS
  <2>2. Grown(events', t, q)
    BY <1>1, <2>1, InsertAdds
  <2> QED
    BY <2>2 DEF Grown
<1>4. /\ events' \in Seq(Event)
      /\ \A e \in DOMAIN events' :
           /\ events'[e].row \in Rows(events'[e].table)
           /\ events'[e].timestamp = source[events'[e].table][events'[e].row]
      /\ \E e \in DOMAIN events' : \A d \in DOMAIN events' :
           events'[d].timestamp <= events'[e].timestamp
  BY <1>1, InsertKeepsEvents
<1>5. /\ \A s \in Tables : cursor[s] \in Int /\ floor[s] \in Int /\ floor[s] <= cursor[s]
      /\ \A s \in Tables : \A k \in Rows(s) : source[s][k] \in Nat
      /\ poll[t].rows \subseteq Rows(t)
      /\ \A e \in DOMAIN events : events[e].table \in Tables /\ events[e].timestamp \in Nat
  BY Types DEF TypeOK
<1>6. L = source[t][Last(q)] /\ L \in Nat /\ cursor[t] < L
  BY <1>2, <1>5 DEF LastStamp, PollsPastCursor
<1>7. /\ cursor'[t] = L /\ poll'[t] = Idle
      /\ \A s \in Tables : s # t => cursor'[s] = cursor[s] /\ poll'[s] = poll[s]
      /\ \A s \in Tables : cursor[s] <= cursor'[s] /\ cursor'[s] \in Int
  BY <1>1, <1>5, <1>6, SMTT(40) DEF TypeOK
<1>8. process # "down"
  BY <1>1 DEF PollsPastCursor, Idle
<1>9. TypeOK'
  <2>1. poll' \in [Tables -> [pc: {"idle", "select", "insert"}, rows: SUBSET Nat]]
    BY <1>1 DEF TypeOK, Idle
  <2>2. cursor' \in [Tables -> Int] /\ \A s \in Tables : floor[s] <= cursor'[s]
    BY <1>1, <1>5, <1>6, <1>7 DEF TypeOK
  <2>3. ASSUME NEW s \in Tables
        PROVE  /\ poll'[s].rows \subseteq Rows(s)
               /\ poll'[s].rows # {} <=> poll'[s].pc = "insert"
    <3>1. CASE s = t
      BY <1>7, <3>1 DEF Idle
    <3>2. CASE s # t
      BY <1>7, <3>2 DEF TypeOK
    <3> QED
      BY <3>1, <3>2
  <2> QED
    BY <1>1, <1>4, <2>1, <2>2, <2>3 DEF TypeOK, Rows
<1>10. PollsPastCursor'
  <2>1. \A s \in Tables : \A k \in poll'[s].rows : source[s][k] > cursor'[s]
    BY <1>7 DEF PollsPastCursor, Idle
  <2> QED
    BY <1>1, <1>8, <2>1 DEF PollsPastCursor
<1>11. EventsBehindCursor'
  <2> SUFFICES ASSUME ~blind, NEW e \in DOMAIN events'
               PROVE  events'[e].timestamp <= cursor'[events'[e].table]
    BY <1>1 DEF EventsBehindCursor
  <2>1. CASE e \in DOMAIN events
    <3>1. events[e].timestamp <= cursor[events[e].table]
      BY <1>8, <2>1 DEF EventsBehindCursor
    <3> QED
      BY <1>3, <1>5, <1>7, <2>1, <3>1
  <2>2. CASE e \notin DOMAIN events
    BY <1>2, <1>3, <1>7, <2>2
  <2> QED
    BY <2>1, <2>2
<1>12. NewestIsThere'
  BY <1>4 DEF NewestIsThere
<1>13. NoDuplicateEvents'
  <2> SUFFICES ASSUME ~blind
               PROVE  \A d, e \in DOMAIN events' :
                        /\ events'[d].table = events'[e].table
                        /\ events'[d].row = events'[e].row
                        => d = e
    BY <1>1 DEF NoDuplicateEvents
  <2>1. ASSUME NEW d \in DOMAIN events, NEW e \in DOMAIN events' \ DOMAIN events,
               events'[d].table = events'[e].table, events'[d].row = events'[e].row
        PROVE  FALSE
    <3>1. PICK n \in DOMAIN q : events'[e].table = t /\ events'[e].row = q[n]
      BY <1>3
    <3>2. events[d].table = t /\ events[d].row = q[n] /\ q[n] \in poll[t].rows
      BY <1>2, <1>3, <2>1, <3>1
    <3>3. events[d].timestamp = source[t][q[n]] /\ events[d].timestamp <= cursor[t]
      BY <1>8, <3>2 DEF TypeOK, EventsBehindCursor
    <3>4. source[t][q[n]] > cursor[t]
      BY <3>2 DEF PollsPastCursor
    <3> QED
      BY <1>5, <3>2, <3>3, <3>4
  <2>2. \A d, e \in DOMAIN events : /\ events'[d].table = events'[e].table
                                    /\ events'[d].row = events'[e].row
                                    => d = e
    BY <1>3 DEF NoDuplicateEvents
  <2>3. ASSUME NEW d \in DOMAIN events' \ DOMAIN events,
               NEW e \in DOMAIN events' \ DOMAIN events,
               events'[d].row = events'[e].row
        PROVE  d = e
    <3>1. PICK m \in DOMAIN q : d = Len(events) + m /\ events'[d].row = q[m]
      BY <1>3
    <3>2. PICK n \in DOMAIN q : e = Len(events) + n /\ events'[e].row = q[n]
      BY <1>3
    <3> QED
      BY <1>2, <2>3, <3>1, <3>2
  <2> QED
    BY <2>1, <2>2, <2>3
<1>14. \A s \in Tables : \A k \in Rows(s) : Emitted(s, k) => Emitted(s, k)'
  BY <1>3 DEF Emitted
<1>15. CompleteInv'
  <2> SUFFICES ASSUME NEW s \in Tables
               PROVE  CursorAtRow(s)' /\ (InOrder(s) => BatchHasNoGap(s))'
    BY DEF CompleteInv
  <2>1. CASE s # t
    <3>1. CursorAtRow(s) /\ (InOrder(s) => BatchHasNoGap(s))
      BY <1>8 DEF CompleteInv
    <3> QED
      BY <1>1, <1>7, <2>1, <3>1 DEF CursorAtRow, BatchHasNoGap, InOrder, Rows
  <2>2. CASE s = t
    <3>1. \E k \in Rows(t) : source[t][k] = L
      BY <1>2, <1>5, <1>6
    <3> QED
      BY <1>1, <1>7, <2>2, <3>1 DEF CursorAtRow, BatchHasNoGap, Rows, Idle
  <2> QED
    BY <2>1, <2>2
<1>16. CursorIsComplete'
  <2> SUFFICES ASSUME NEW s \in Tables, InOrder(s), NEW k \in Rows(s),
                      floor[s] < source[s][k], source[s][k] <= cursor'[s]
               PROVE  Emitted(s, k)'
    BY <1>1 DEF CursorIsComplete, InOrder, Rows
  <2>1. CASE source[s][k] <= cursor[s]
    BY <1>8, <1>14, <2>1 DEF CursorIsComplete
  <2>2. CASE cursor[s] < source[s][k]
    <3>1. s = t
      BY <1>5, <1>7, <2>2
    <3>2. BatchHasNoGap(t)
      BY <1>8, <3>1 DEF CompleteInv
    <3>3. k \in poll[t].rows
      BY <1>2, <1>6, <1>7, <2>2, <3>1, <3>2 DEF BatchHasNoGap
    <3>4. PICK n \in DOMAIN q : q[n] = k
      BY <1>2, <3>3
    <3> QED
      BY <1>3, <3>1, <3>4 DEF Emitted
  <2> QED
    BY <1>5, <2>1, <2>2
<1> QED
  BY <1>9, <1>10, <1>11, <1>12, <1>13, <1>15, <1>16

(* A lost acknowledgement: the events are there, the cursor is not.        *)
LEMMA UnacknowledgedKeepsInv ==
  ASSUME AdapterInv, NEW t \in Tables, InsertUnacknowledged(t)
  PROVE  AdapterInv'
<1> USE DEF AdapterInv, OnceInv
<1>1. PICK q \in Ordered(t, poll[t].rows) :
        /\ poll[t].pc = "insert"
        /\ events' = events \o Synthesize(t, q)
        /\ poll' = [poll EXCEPT ![t] = Idle] /\ blind' = TRUE
        /\ UNCHANGED <<now, source, process, cursor, floor>>
  BY DEF InsertUnacknowledged
<1>2. /\ DOMAIN events \subseteq DOMAIN events'
      /\ \A e \in DOMAIN events : events'[e] = events[e]
  <2>1. TypeOK
    OBVIOUS
  <2>2. Grown(events', t, q)
    BY <1>1, <2>1, InsertAdds
  <2> QED
    BY <2>2 DEF Grown
<1>3. /\ events' \in Seq(Event)
      /\ \A e \in DOMAIN events' :
           /\ events'[e].row \in Rows(events'[e].table)
           /\ events'[e].timestamp = source[events'[e].table][events'[e].row]
      /\ \E e \in DOMAIN events' : \A d \in DOMAIN events' :
           events'[d].timestamp <= events'[e].timestamp
  BY <1>1, InsertKeepsEvents
<1>4. process # "down"
  BY <1>1 DEF PollsPastCursor, Idle
<1>5. /\ poll' \in [Tables -> [pc: {"idle", "select", "insert"}, rows: SUBSET Nat]]
      /\ \A s \in Tables : poll'[s] = poll[s] \/ (s = t /\ poll'[s] = Idle)
  BY <1>1 DEF TypeOK, Idle
<1>6. TypeOK'
  <2>1. ASSUME NEW s \in Tables
        PROVE  /\ poll'[s].rows \subseteq Rows(s)
               /\ poll'[s].rows # {} <=> poll'[s].pc = "insert"
    <3>1. CASE poll'[s] = Idle
      BY <3>1 DEF Idle
    <3>2. CASE poll'[s] = poll[s]
      BY <3>2 DEF TypeOK
    <3> QED
      BY <1>5, <3>1, <3>2
  <2>2. faults' \in 0..MaxFaults
    BY AdapterAssumption DEF InsertUnacknowledged, Fail, TypeOK
  <2> QED
    BY <1>1, <1>3, <1>5, <2>1, <2>2 DEF TypeOK, Rows
<1>7. PollsPastCursor'
  BY <1>1, <1>4, <1>5 DEF PollsPastCursor, Idle
<1>8. EventsBehindCursor' /\ NewestIsThere' /\ NoDuplicateEvents'
  BY <1>1, <1>3 DEF EventsBehindCursor, NewestIsThere, NoDuplicateEvents
<1>9. CompleteInv'
  BY <1>1, <1>4, <1>5 DEF CompleteInv, CursorAtRow, BatchHasNoGap, InOrder, Rows, Idle
<1>10. CursorIsComplete'
  <2>1. \A s \in Tables : \A k \in Rows(s) : Emitted(s, k) => Emitted(s, k)'
    BY <1>2 DEF Emitted
  <2> QED
    BY <1>1, <1>4, <2>1 DEF CursorIsComplete, InOrder, Rows
<1> QED
  BY <1>6, <1>7, <1>8, <1>9, <1>10
-----------------------------------------------------------------------------
LEMMA InitHasInv ==
  Init => AdapterInv
<1> SUFFICES ASSUME Init
             PROVE  AdapterInv
  OBVIOUS
<1> USE DEF Init
<1>1. \A t \in Tables : source[t] = <<>> /\ Len(source[t]) = 0 /\ Rows(t) = {}
  BY DEF Rows
<1>2. DOMAIN events = {}
  OBVIOUS
<1>3. TypeOK
  <2>1. source \in [Tables -> Seq(1..now)] /\ events \in Seq(Event)
    BY EmptySeq
  <2>2. now \in 1..MaxTime /\ faults \in 0..MaxFaults
    BY AdapterAssumption
  <2>3. \A t \in Tables :
          /\ Len(source[t]) <= MaxRows
          /\ poll[t].rows \subseteq Rows(t)
          /\ poll[t].rows # {} <=> poll[t].pc = "insert"
          /\ floor[t] <= cursor[t]
    BY <1>1, AdapterAssumption DEF Idle
  <2>4. poll \in [Tables -> [pc: {"idle", "select", "insert"}, rows: SUBSET Nat]]
    BY DEF Idle
  <2>5. cursor \in [Tables -> Int] /\ floor \in [Tables -> Int]
    OBVIOUS
  <2> QED
    BY <1>2, <2>1, <2>2, <2>3, <2>4, <2>5 DEF TypeOK
<1>4. PollsPastCursor /\ EventsBehindCursor /\ NewestIsThere /\ NoDuplicateEvents
  BY <1>2 DEF PollsPastCursor, EventsBehindCursor, NewestIsThere, NoDuplicateEvents, Idle
<1>5. CompleteInv /\ CursorIsComplete
  BY DEF CompleteInv, CursorIsComplete
<1> QED
  BY <1>3, <1>4, <1>5 DEF AdapterInv, OnceInv

LEMMA StepKeepsInv ==
  AdapterInv /\ [Next]_vars => AdapterInv'
<1> SUFFICES ASSUME AdapterInv, [Next]_vars
             PROVE  AdapterInv'
  OBVIOUS
<1>1. CASE Tick
  BY <1>1, TickKeepsInv
<1>2. ASSUME NEW t \in Tables, Write(t)
      PROVE  AdapterInv'
  BY <1>2, WriteKeepsInv
<1>3. ASSUME NEW t \in Tables, Select(t)
      PROVE  AdapterInv'
  BY <1>3, SelectKeepsInv
<1>4. ASSUME NEW t \in Tables, Insert(t)
      PROVE  AdapterInv'
  BY <1>4, InsertKeepsInv
<1>5. ASSUME NEW t \in Tables, InsertUnacknowledged(t)
      PROVE  AdapterInv'
  BY <1>5, UnacknowledgedKeepsInv
<1>6. CASE startAdapter \/ startAdapterBlind
  BY <1>6, StartKeepsInv
<1>7. CASE stopAdapter \/ Exit \/ pollOnce \/ \E t \in Tables : QueryFails(t)
  BY <1>7, PollingKeepsInv
<1>8. CASE UNCHANGED vars
  BY <1>8 DEF vars, AdapterInv, OnceInv, TypeOK, PollsPastCursor, EventsBehindCursor,
              NewestIsThere, NoDuplicateEvents, CompleteInv, CursorIsComplete,
              CursorAtRow, BatchHasNoGap, InOrder, Rows, Emitted
<1> QED
  BY <1>1, <1>2, <1>3, <1>4, <1>5, <1>6, <1>7, <1>8 DEF Next

LEMMA AdapterInvAlways == Spec => []AdapterInv
  BY InitHasInv, StepKeepsInv, PTL DEF Spec

(* The variables keep their types; every event of staff_events stands for  *)
(* a row of its table and carries its stamp.                               *)
THEOREM TypeCorrect == Spec => []TypeOK
<1>1. AdapterInv => TypeOK
  BY DEF AdapterInv, OnceInv
<1> QED
  BY <1>1, AdapterInvAlways, PTL

(* pollOnce and loadCursor: a row becomes at most one staff event, for any *)
(* batch limit, any delay between a row's stamp and its commit and any     *)
(* number of failures and restarts.                                        *)
THEOREM NoRowIsEmittedTwice == Spec => []NoDuplicateEvents
<1>1. AdapterInv => NoDuplicateEvents
  BY DEF AdapterInv, OnceInv
<1> QED
  BY <1>1, AdapterInvAlways, PTL

(* pollTable: the cursor never passes a row without inserting its event,   *)
(* whatever LIMIT cuts off and whichever inserts fail, as long as rows     *)
(* become visible in the order of their stamps.                            *)
THEOREM CursorLeavesNothingBehind == Spec => []CursorIsComplete
<1>1. AdapterInv => CursorIsComplete
  BY DEF AdapterInv
<1> QED
  BY <1>1, AdapterInvAlways, PTL
-----------------------------------------------------------------------------
(* What a reader of staff_events may rely on. *)

Stamps == [e \in DOMAIN events |-> events[e].timestamp]

(* A batch has at most Limit rows.                                         *)
BatchIsLimited == \A t \in Tables : Cardinality(poll[t].rows) <= Limit

LEMMA BatchStaysLimited ==
  /\ Init => BatchIsLimited
  /\ AdapterInv /\ BatchIsLimited /\ [Next]_vars => BatchIsLimited'
<1>0. Cardinality({}) <= Limit
  <2>1. Cardinality({}) = 0
    BY FS_EmptySet
  <2> QED
    BY <2>1, AdapterAssumption
<1>1. Init => BatchIsLimited
  <2>1. Init => \A t \in Tables : poll[t].rows = {}
    BY DEF Init, Idle
  <2> QED
    BY <1>0, <2>1 DEF BatchIsLimited
<1>2. ASSUME AdapterInv, BatchIsLimited, [Next]_vars
      PROVE  BatchIsLimited'
  <2>0. poll \in [Tables -> [pc: {"idle", "select", "insert"}, rows: SUBSET Nat]]
    BY <1>2 DEF AdapterInv, OnceInv, TypeOK
  <2>1. CASE \/ UNCHANGED vars \/ Tick \/ startAdapter \/ startAdapterBlind \/ stopAdapter
             \/ \E t \in Tables : Write(t)
    BY <1>2, <2>1 DEF vars, Tick, startAdapter, startAdapterBlind, StartFrom, stopAdapter,
                      Write, BatchIsLimited
  <2>2. CASE Exit \/ pollOnce
    BY <1>0, <2>2 DEF Exit, pollOnce, BatchIsLimited, Idle
  <2>3. ASSUME NEW t \in Tables, QueryFails(t) \/ InsertUnacknowledged(t) \/ Insert(t)
        PROVE  BatchIsLimited'
    <3>1. poll' = [poll EXCEPT ![t] = Idle]
      BY <2>3 DEF QueryFails, InsertUnacknowledged, Insert
    <3>2. \A s \in Tables : poll'[s].rows = poll[s].rows \/ poll'[s].rows = {}
      BY <2>0, <3>1 DEF Idle
    <3> QED
      BY <1>0, <1>2, <3>2 DEF BatchIsLimited
  <2>4. ASSUME NEW t \in Tables, Select(t)
        PROVE  BatchIsLimited'
    <3>1. PICK S \in Answers(t) :
            poll' = [poll EXCEPT ![t] = IF S = {} THEN Idle ELSE [pc |-> "insert", rows |-> S]]
      BY <2>4 DEF Select
    <3>2. Cardinality(S) <= Limit
      BY DEF Answers
    <3>3. \A s \in Tables : poll'[s].rows = poll[s].rows \/ poll'[s].rows = S
      BY <2>0, <3>1 DEF Idle
    <3> QED
      BY <1>2, <3>2, <3>3 DEF BatchIsLimited
  <2> QED
    BY <1>2, <2>1, <2>2, <2>3, <2>4 DEF Next
<1> QED
  BY <1>1, <1>2

(* One step of the adapter or of its surroundings: time passes, one batch  *)
(* of at most Limit events is added at the end, none stamped in the        *)
(* future, or neither the clock nor the stamps change.                     *)
LEMMA OneBatchPerStep ==
  ASSUME AdapterInv, BatchIsLimited, [Next]_vars
  PROVE  \/ now < MaxTime /\ now' = now + 1 /\ Stamps' = Stamps
         \/ now' = now /\ Stamps' = Stamps
         \/ /\ now' = now
            /\ \E n \in 1..Limit : \E b \in [1..n -> 1..now] : Stamps' = Stamps \o b
<1>0. TypeOK
  BY DEF AdapterInv, OnceInv
<1>1. \/ now < MaxTime /\ now' = now + 1 /\ events' = events
      \/ now' = now /\ events' = events
      \/ /\ now' = now
         /\ \E t \in Tables : Insert(t) \/ InsertUnacknowledged(t)
  BY DEF Next, vars, Tick, Write, startAdapter, startAdapterBlind, StartFrom, stopAdapter,
         Exit, pollOnce, Select, Insert, InsertUnacknowledged, QueryFails
<1>2. ASSUME NEW t \in Tables, Insert(t) \/ InsertUnacknowledged(t)
      PROVE  \E n \in 1..Limit : \E b \in [1..n -> 1..now] : Stamps' = Stamps \o b
  <2>1. PICK q \in Ordered(t, poll[t].rows) :
          poll[t].pc = "insert" /\ events' = events \o Synthesize(t, q)
    BY <1>2 DEF Insert, InsertUnacknowledged
  <2>2. /\ DOMAIN q = 1..Len(q) /\ Len(q) > 0
        /\ \A m \in DOMAIN q : q[m] \in poll[t].rows
    BY <1>0, <2>1, OrderedBatch
  <2>3. Len(q) \in 1..Limit
    <3>1. Cardinality(poll[t].rows) \in Nat /\ Cardinality(poll[t].rows) <= Limit
      <4>0. Len(source[t]) \in Nat /\ poll[t].rows \subseteq 1..Len(source[t])
        BY <1>0, Types DEF Rows
      <4>1. IsFiniteSet(1..Len(source[t]))
        BY <4>0, FS_Interval
      <4>2. IsFiniteSet(poll[t].rows)
        BY <4>0, <4>1, FS_Subset
      <4>3. Cardinality(poll[t].rows) \in Nat
        BY <4>2, FS_CardinalityType
      <4> QED
        BY <4>3 DEF BatchIsLimited
    <3>2. Len(q) = Cardinality(poll[t].rows)
      BY <2>1, <3>1 DEF Ordered, Bijection, Injection
    <3> QED
      BY <2>2, <3>1, <3>2, AdapterAssumption
  <2> DEFINE batch == [m \in 1..Len(q) |-> source[t][q[m]]]
  <2>4. batch \in [1..Len(q) -> 1..now]
    BY <1>0, <2>2, Types
  <2>5. Grown(events', t, q)
    BY <1>0, <2>1, InsertAdds
  <2>6. /\ Stamps \in Seq(Nat) /\ DOMAIN Stamps = 1..Len(events) /\ Len(Stamps) = Len(events)
        /\ Len(events) \in Nat
    <3>1. /\ Len(events) \in Nat /\ DOMAIN events = 1..Len(events)
          /\ \A e \in DOMAIN events : events[e].timestamp \in Nat
      BY <1>0, Types
    <3>2. Stamps \in [1..Len(events) -> Nat]
      BY <3>1 DEF Stamps
    <3> QED
      BY <3>1, <3>2
  <2>7. Stamps' = Stamps \o batch
    <3>1. batch \in Seq(Nat) /\ Len(batch) = Len(q) /\ DOMAIN batch = 1..Len(q)
      <4>1. batch \in [1..Len(q) -> Nat] /\ Len(q) \in Nat
        BY <2>3, <2>4, <1>0, Types
      <4> QED
        BY <4>1
    <3>2. /\ Stamps \o batch \in Seq(Nat)
          /\ DOMAIN (Stamps \o batch) = 1..(Len(events) + Len(q))
          /\ \A e \in 1..Len(events) : (Stamps \o batch)[e] = Stamps[e]
          /\ \A n \in 1..Len(q) : (Stamps \o batch)[Len(events) + n] = batch[n]
      <4>1. PICK c : c = batch
        OBVIOUS
      <4>0. Stamps \in Seq(Nat) /\ c \in Seq(Nat)
        BY <2>6, <3>1, <4>1
      <4>2. /\ Stamps \o c \in Seq(Nat) /\ Len(Stamps \o c) = Len(Stamps) + Len(c)
            /\ \A e \in DOMAIN Stamps : (Stamps \o c)[e] = Stamps[e]
            /\ \A n \in DOMAIN c : (Stamps \o c)[Len(Stamps) + n] = c[n]
        BY <4>0, Appended, SMT
      <4>3. DOMAIN (Stamps \o c) = 1..Len(Stamps \o c)
        BY <4>2, LenProperties
      <4> QED
        BY <2>6, <3>1, <4>1, <4>2, <4>3
    <3>3. /\ DOMAIN events' = 1..(Len(events) + Len(q))
          /\ DOMAIN Stamps' = DOMAIN events'
      <4>1. Synthesize(t, q) \in Seq(Event) /\ Len(Synthesize(t, q)) = Len(q)
        <5>1. /\ DOMAIN Synthesize(t, q) = 1..Len(q) /\ Len(q) \in Nat
              /\ \A n \in 1..Len(q) : Synthesize(t, q)[n] \in Event
          BY <1>0, <2>2, <2>3, Types DEF Synthesize, Event
        <5>2. Synthesize(t, q) \in [1..Len(q) -> Event]
          BY <2>2, <5>1 DEF Synthesize
        <5> QED
          BY <5>1, <5>2
      <4>2. events \in Seq(Event)
        BY <1>0 DEF TypeOK
      <4>3. PICK c : c = Synthesize(t, q)
        OBVIOUS
      <4>4. events \o c \in Seq(Event) /\ Len(events \o c) = Len(events) + Len(c)
        BY <4>1, <4>2, <4>3, Appended, SMT
      <4>5. DOMAIN (events \o c) = 1..Len(events \o c)
        BY <4>4, LenProperties
      <4> QED
        BY <2>1, <4>1, <4>3, <4>4, <4>5 DEF Stamps
    <3>4. ASSUME NEW e \in 1..(Len(events) + Len(q))
          PROVE  Stamps'[e] = (Stamps \o batch)[e]
      <4>1. e \in DOMAIN events' /\ Stamps'[e] = events'[e].timestamp
        BY <3>3 DEF Stamps
      <4>2. CASE e \in 1..Len(events)
        <5>1. e \in DOMAIN events /\ events'[e] = events[e] /\ Stamps[e] = events[e].timestamp
          BY <1>0, <2>5, <4>2, Types DEF Grown, Stamps
        <5> QED
          BY <3>2, <4>1, <4>2, <5>1
      <4>3. CASE e \notin 1..Len(events)
        <5>1. e \in DOMAIN events' \ DOMAIN events
          BY <1>0, <4>1, <4>3, Types
        <5>2. PICK n \in DOMAIN q : /\ e = Len(events) + n
                                    /\ events'[e].timestamp = source[t][q[n]]
          BY <2>5, <5>1 DEF Grown
        <5>3. batch[n] = source[t][q[n]] /\ (Stamps \o batch)[Len(events) + n] = batch[n]
          BY <2>2, <3>2, <5>2
        <5> QED
          BY <4>1, <5>2, <5>3
      <4> QED
        BY <4>2, <4>3
    <3>5. /\ Stamps' = [e \in DOMAIN Stamps' |-> Stamps'[e]]
          /\ Stamps \o batch = [e \in DOMAIN (Stamps \o batch) |-> (Stamps \o batch)[e]]
      BY <3>2 DEF Stamps
    <3> QED
      BY <3>2, <3>3, <3>4, <3>5
  <2> QED
    BY <2>3, <2>4, <2>7
<1>3. events' = events => Stamps' = Stamps
  BY DEF Stamps
<1> QED
  BY <1>1, <1>2, <1>3
=============================================================================
