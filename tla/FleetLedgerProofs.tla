-------------------------- MODULE FleetLedgerProofs --------------------------
(***************************************************************************)
(* Proofs about FleetLedger, for any instances, any number of overlapping  *)
(* cycles, any batch limit and any number of faults: first what holds of   *)
(* all behaviours, then what holds of a drain in which no call fails.      *)
(***************************************************************************)
EXTENDS FleetLedger, FiniteSetTheorems, TLAPS

-----------------------------------------------------------------------------
(* Facts about the operators. *)

(* A batch lies inside the ledger. *)
LEMMA AnswersInLedger ==
  ASSUME NEW i, NEW since, NEW until, NEW S \in Answers(i, since, until)
  PROVE  S \subseteq Events(i)
BY DEF Answers, InWindow

(* Stepping a timestamp back keeps it an integer, and Null stays Null. *)
LEMMA DecrementType ==
  ASSUME NEW t \in Int
  PROVE  Decrement(t) \in Int
BY DEF Decrement, Null

LEMMA IdleType ==
  /\ Idle \in CycleRecord
  /\ Idle.pc = "idle"
BY DEF Idle, CycleRecord, Phases, Polling, Null

LEMMA SelectType ==
  ASSUME NEW found \in SUBSET Instances
  PROVE  /\ [Idle EXCEPT !.pc = "select", !.todo = found] \in CycleRecord
         /\ [Idle EXCEPT !.pc = "select", !.todo = found].pc = "select"
<1>1. "select" \in Phases
  BY DEF Phases
<1> QED
  BY <1>1, IdleType DEF CycleRecord

(* A step that gives one cycle new locals keeps the type of all. *)
LEMMA CycleUpdate ==
  ASSUME TypeOK, NEW c \in Cycles, NEW q \in CycleRecord,
         q.pc \in Polling => q.inst \in Instances,
         cycle' = [cycle EXCEPT ![c] = q]
  PROVE  /\ cycle' \in [Cycles -> CycleRecord]
         /\ \A d \in Cycles : cycle'[d].pc \in Polling => cycle'[d].inst \in Instances
BY DEF TypeOK

LEMMA NextInstanceType ==
  ASSUME TypeOK, NEW c \in Cycles, NEW todo \in SUBSET Instances,
         NextInstance(c, todo)
  PROVE  /\ cycle' \in [Cycles -> CycleRecord]
         /\ \A d \in Cycles : cycle'[d].pc \in Polling => cycle'[d].inst \in Instances
<1>1. CASE todo = {}
  BY <1>1, IdleType, CycleUpdate DEF NextInstance, Polling
<1>2. CASE todo # {}
  BY <1>2, SelectType, CycleUpdate DEF NextInstance, Polling
<1> QED
  BY <1>1, <1>2

(* Sets of rows are finite: they lie inside a ledger. *)
LEMMA MirrorFinite ==
  ASSUME TypeOK, MirrorInLedger, NEW i \in Instances, NEW S \in SUBSET mirror[i]
  PROVE  /\ IsFiniteSet(S)
         /\ IsFiniteSet(mirror[i])
         /\ Cardinality(S) \in Nat
         /\ Cardinality(S) <= Cardinality(mirror[i])
<1>1. mirror[i] \subseteq 1..Len(remote[i]) /\ Len(remote[i]) \in Int
  BY DEF MirrorInLedger, Events, TypeOK
<1>0. IsFiniteSet(1..Len(remote[i]))
  BY <1>1, FS_Interval
<1>2. IsFiniteSet(mirror[i])
  BY <1>0, <1>1, FS_Subset
<1> QED
  BY <1>2, FS_Subset, FS_CardinalityType

LEMMA FreshFinite ==
  ASSUME TypeOK, MirrorInLedger, BatchesOK, NEW c \in Cycles
  PROVE  IsFiniteSet(cycle[c].fresh) /\ Cardinality(cycle[c].fresh) \in Nat
<1>1. CASE cycle[c].pc \in Polling
  BY <1>1, MirrorFinite DEF TypeOK, BatchesOK, BatchOK
<1>2. CASE cycle[c].pc \notin Polling
  BY <1>2, FS_EmptySet DEF BatchesOK, BatchOK, Polling
<1> QED
  BY <1>1, <1>2

-----------------------------------------------------------------------------
(***************************************************************************)
(* Type correctness: every step of the poller keeps the tables and the     *)
(* cycles' locals well formed.                                             *)
(***************************************************************************)
LEMMA TypeInit == Init => TypeOK
<1> SUFFICES ASSUME Init PROVE TypeOK
  OBVIOUS
<1>1. remote \in [Instances -> Seq(Nat)] /\ mirror \in [Instances -> SUBSET Nat]
  BY DEF Init
<1>2. NoRow \in WatermarkRow
  BY DEF NoRow, WatermarkRow, Null
<1>3. watermark \in [Instances -> WatermarkRow]
  BY <1>2 DEF Init
<1>4. /\ cycle \in [Cycles -> CycleRecord]
      /\ \A c \in Cycles : cycle[c].pc \notin Polling
  BY IdleType DEF Init, Polling
<1>5. running \in BOOLEAN
  BY DEF Init
<1>6. faults \in 0..MaxFaults
  BY FleetLedgerAssumption DEF Init
<1> QED
  BY <1>1, <1>3, <1>4, <1>5, <1>6 DEF TypeOK

LEMMA TypeStep ==
  ASSUME TypeOK, MirrorInLedger, BatchesOK, [Next]_vars
  PROVE  TypeOK'
<1> USE FleetLedgerAssumption
<1>1. ASSUME NEW i \in Instances, Record(i) PROVE TypeOK'
  <2>1. PICK d \in Steps : remote' = [remote EXCEPT ![i] =
          Append(@, IF @ = <<>> THEN 1 ELSE @[Len(@)] + d)]
    BY <1>1 DEF Record
  <2>2. (IF remote[i] = <<>> THEN 1 ELSE remote[i][Len(remote[i])] + d) \in Nat
    BY DEF TypeOK
  <2>3. remote' \in [Instances -> Seq(Nat)]
    BY <2>1, <2>2 DEF TypeOK
  <2> QED
    BY <1>1, <2>3 DEF Record, TypeOK
<1>2. ASSUME NEW c \in Cycles, Start(c) \/ Tick(c) \/ TickPartial(c) PROVE TypeOK'
  <2>1. /\ cycle' \in [Cycles -> CycleRecord]
        /\ \A d \in Cycles : cycle'[d].pc \in Polling => cycle'[d].inst \in Instances
    <3>1. CASE Begin(c)
      BY <3>1, SelectType, CycleUpdate DEF Begin, Polling
    <3>2. CASE \E found \in SUBSET Instances : NextInstance(c, found)
      BY <3>2, NextInstanceType
    <3> QED
      BY <1>2, <3>1, <3>2 DEF Start, Tick, TickPartial
  <2>2. UNCHANGED <<remote, mirror, watermark>>
    BY <1>2 DEF Start, Tick, TickPartial
  <2>3. running' \in BOOLEAN
    BY <1>2 DEF Start, Tick, TickPartial, TypeOK
  <2>4. faults' \in 0..MaxFaults
    <3>1. faults' = faults \/ (faults < MaxFaults /\ faults' = faults + 1)
      BY <1>2 DEF Start, Tick, TickPartial
    <3> QED
      BY <3>1 DEF TypeOK
  <2> QED
    BY <2>1, <2>2, <2>3, <2>4 DEF TypeOK
<1>3. ASSUME NEW c \in Cycles, ReadWatermark(c) PROVE TypeOK'
  <2>1. PICK i \in cycle[c].todo : cycle' = [cycle EXCEPT ![c] =
         [Idle EXCEPT !.pc    = "fetch",
                      !.todo  = cycle[c].todo \ {i},
                      !.inst  = i,
                      !.since = Decrement(watermark[i].ts),
                      !.ts    = watermark[i].ts,
                      !.id    = watermark[i].id]]
    BY <1>3 DEF ReadWatermark
  <2> DEFINE q == [Idle EXCEPT !.pc = "fetch", !.todo = cycle[c].todo \ {i}, !.inst = i,
                               !.since = Decrement(watermark[i].ts),
                               !.ts = watermark[i].ts, !.id = watermark[i].id]
  <2>2. i \in Instances /\ cycle[c].todo \in SUBSET Instances
    BY DEF TypeOK, CycleRecord
  <2>3. watermark[i].ts \in Int /\ watermark[i].id \in Int
    BY <2>2 DEF TypeOK, WatermarkRow
  <2>4. Decrement(watermark[i].ts) \in Int
    BY <2>3, DecrementType
  <2>5. "fetch" \in Phases
    BY DEF Phases, Polling
  <2>6. q \in CycleRecord /\ q.inst = i
    BY <2>2, <2>3, <2>4, <2>5, IdleType DEF CycleRecord
  <2> QED
    BY <1>3, <2>1, <2>2, <2>6, CycleUpdate DEF ReadWatermark, TypeOK
<1>4. ASSUME NEW c \in Cycles, Fetch(c) PROVE TypeOK'
  <2> DEFINE p == cycle[c]
  <2>1. p \in CycleRecord /\ p.inst \in Instances
    BY <1>4 DEF TypeOK, Fetch, Polling
  <2>2. CASE EmptyAnswer(c)
    <3>1. [p EXCEPT !.pc = "advance"] \in CycleRecord
      BY <2>1 DEF CycleRecord, Phases, Polling
    <3> QED
      BY <1>4, <2>1, <2>2, <3>1, CycleUpdate DEF EmptyAnswer, Fetch, TypeOK, CycleRecord
  <2>3. CASE \E S \in Answers(p.inst, p.since, p.until) : Batch(c, S)
    <3>1. PICK S \in Answers(p.inst, p.since, p.until) : Batch(c, S)
      BY <2>3
    <3>2. PICK first \in Newest(p.inst, S), last \in Oldest(p.inst, S) :
            cycle' = [cycle EXCEPT
              ![c].pc = "upsert",
              ![c].items = S,
              ![c].oldest = remote[p.inst][last],
              ![c].captured = TRUE,
              ![c].ts = IF p.captured THEN p.ts ELSE remote[p.inst][first],
              ![c].id = IF p.captured THEN p.id ELSE first]
      BY <3>1 DEF Batch
    <3> DEFINE q == [p EXCEPT !.pc = "upsert", !.items = S,
              !.oldest = remote[p.inst][last], !.captured = TRUE,
              !.ts = IF p.captured THEN p.ts ELSE remote[p.inst][first],
              !.id = IF p.captured THEN p.id ELSE first]
    <3>3. S \subseteq Events(p.inst) /\ first \in S /\ last \in S
      BY <3>1, <3>2, AnswersInLedger DEF Newest, Oldest
    <3>4. S \in SUBSET Nat /\ first \in Int
      BY <3>3 DEF Events
    <3>5. remote[p.inst][first] \in Int /\ remote[p.inst][last] \in Int
      BY <2>1, <3>3 DEF TypeOK, Events
    <3>6. q \in CycleRecord /\ q.inst = p.inst
      BY <2>1, <3>4, <3>5 DEF CycleRecord, Phases, Polling
    <3>7. cycle' = [cycle EXCEPT ![c] = q]
      BY <2>1, <3>2 DEF TypeOK, CycleRecord
    <3> QED
      BY <1>4, <2>1, <3>6, <3>7, CycleUpdate DEF Fetch, TypeOK
  <2> QED
    BY <1>4, <2>2, <2>3 DEF Fetch
<1>5. ASSUME NEW c \in Cycles, FetchFails(c) \/ BodyStalls(c) PROVE TypeOK'
  <2>1. PICK pc \in {"fail", "hung"} : cycle' = [cycle EXCEPT ![c].pc = pc]
    BY <1>5 DEF FetchFails, BodyStalls
  <2>2. cycle[c] \in CycleRecord /\ cycle[c].inst \in Instances
    BY <1>5 DEF TypeOK, FetchFails, BodyStalls, Polling
  <2>3. [cycle[c] EXCEPT !.pc = pc] \in CycleRecord
    BY <2>2 DEF CycleRecord, Phases, Polling
  <2>4. cycle' = [cycle EXCEPT ![c] = [cycle[c] EXCEPT !.pc = pc]]
    BY <2>1 DEF TypeOK
  <2>5. /\ cycle' \in [Cycles -> CycleRecord]
        /\ \A d \in Cycles : cycle'[d].pc \in Polling => cycle'[d].inst \in Instances
    BY <2>2, <2>3, <2>4, CycleUpdate DEF CycleRecord
  <2>6. UNCHANGED <<remote, mirror, watermark, running>> /\ faults' \in 0..MaxFaults
    BY <1>5 DEF FetchFails, BodyStalls, TypeOK
  <2> QED
    BY <2>5, <2>6 DEF TypeOK
<1>6. ASSUME NEW c \in Cycles, Upsert(c) PROVE TypeOK'
  <2>1. cycle[c] \in CycleRecord /\ cycle[c].inst \in Instances
    BY <1>6 DEF TypeOK, Upsert, Polling
  <2> DEFINE q == [cycle[c] EXCEPT !.pc = "advance",
                     !.fresh = cycle[c].items \ mirror[cycle[c].inst]]
  <2>2. q \in CycleRecord /\ q.inst = cycle[c].inst
    BY <2>1 DEF CycleRecord, Phases, Polling
  <2>3. cycle' = [cycle EXCEPT ![c] = q]
    BY <1>6 DEF Upsert, TypeOK
  <2>4. mirror' \in [Instances -> SUBSET Nat]
    BY <1>6, <2>1 DEF Upsert, TypeOK, CycleRecord
  <2> QED
    BY <1>6, <2>1, <2>2, <2>3, <2>4, CycleUpdate DEF Upsert, TypeOK
<1>7. ASSUME NEW c \in Cycles, Advance(c) PROVE TypeOK'
  <2> DEFINE p == cycle[c]
             i == p.inst
             row == [polled |-> TRUE, ts |-> p.ts, id |-> p.id, succeeded |-> TRUE,
                     failures |-> 0,
                     total |-> watermark[i].total + Cardinality(p.fresh)]
  <2>1. p \in CycleRecord /\ i \in Instances /\ p.todo \in SUBSET Instances
    BY <1>7 DEF TypeOK, Advance, Polling, CycleRecord
  <2>2. watermark' = [watermark EXCEPT ![i] = row]
    BY <1>7 DEF Advance, AdvanceWatermark
  <2>3. Cardinality(p.fresh) \in Nat
    BY FreshFinite
  <2>4. row \in WatermarkRow
    BY <2>1, <2>3 DEF TypeOK, WatermarkRow, CycleRecord
  <2>5. watermark' \in [Instances -> WatermarkRow]
    BY <2>1, <2>2, <2>4 DEF TypeOK
  <2>6. CASE MoreToDrain(p)
    <3> DEFINE q == [p EXCEPT !.pc = "fetch", !.until = NextUntil(p),
                              !.items = {}, !.oldest = Null, !.fresh = {}]
    <3>1. "fetch" \in Phases /\ NextUntil(p) \in Int /\ Null \in Int
      BY <2>1, DecrementType DEF Phases, Polling, NextUntil, CycleRecord, Null
    <3>2. q \in CycleRecord /\ q.inst = i
      BY <2>1, <3>1 DEF CycleRecord
    <3>3. cycle' = [cycle EXCEPT ![c] = q]
      BY <1>7, <2>6 DEF Advance, TypeOK
    <3> QED
      BY <1>7, <2>1, <2>5, <3>2, <3>3, CycleUpdate DEF Advance, TypeOK
  <2>7. CASE ~MoreToDrain(p)
    BY <1>7, <2>1, <2>5, <2>7, NextInstanceType DEF Advance, TypeOK
  <2> QED
    BY <2>6, <2>7
<1>8. ASSUME NEW c \in Cycles, RecordFailure(c) PROVE TypeOK'
  <2>1. cycle[c] \in CycleRecord /\ cycle[c].inst \in Instances
    BY <1>8 DEF TypeOK, RecordFailure, Polling
  <2> DEFINE i == cycle[c].inst
             row == [watermark[i] EXCEPT !.polled = TRUE, !.succeeded = FALSE,
                                         !.failures = watermark[i].failures + 1]
  <2>2. watermark' = [watermark EXCEPT ![i] = row]
    BY <1>8 DEF RecordFailure
  <2>3. watermark[i] \in WatermarkRow
    BY <2>1 DEF TypeOK
  <2>4. row \in WatermarkRow
    <3>1. watermark[i].failures + 1 \in Nat
      BY <2>3 DEF WatermarkRow
    <3> QED
      BY <2>3, <3>1 DEF WatermarkRow
  <2>5. watermark' \in [Instances -> WatermarkRow]
    BY <2>1, <2>2, <2>4 DEF TypeOK
  <2>6. cycle[c].todo \in SUBSET Instances
    BY <2>1 DEF CycleRecord
  <2> QED
    BY <1>8, <2>5, <2>6, NextInstanceType DEF RecordFailure, TypeOK
<1>9. ASSUME NEW c \in Cycles, QueryFails(c) PROVE TypeOK'
  <2>1. cycle[c].todo \in SUBSET Instances
    BY DEF TypeOK, CycleRecord
  <2>2. PICK todo \in SUBSET Instances : NextInstance(c, todo)
    BY <1>9, <2>1 DEF QueryFails
  <2> QED
    BY <1>9, <2>2, NextInstanceType DEF QueryFails, TypeOK
<1>10. ASSUME Stop PROVE TypeOK'
  BY <1>10 DEF Stop, TypeOK
<1>11. ASSUME Crash PROVE TypeOK'
  <2>1. /\ cycle' \in [Cycles -> CycleRecord]
        /\ \A d \in Cycles : cycle'[d].pc \notin Polling
    BY <1>11, IdleType DEF Crash, Polling
  <2>2. UNCHANGED <<remote, mirror, watermark>> /\ faults' \in 0..MaxFaults
    BY <1>11 DEF Crash, TypeOK
  <2>3. running' \in BOOLEAN
    BY <1>11 DEF Crash
  <2> QED
    BY <2>1, <2>2, <2>3 DEF TypeOK
<1>12. ASSUME UNCHANGED vars PROVE TypeOK'
  BY <1>12 DEF vars, TypeOK
<1> QED
  BY <1>1, <1>2, <1>3, <1>4, <1>5, <1>6, <1>7, <1>8, <1>9, <1>10, <1>11, <1>12
     DEF Next, Work

-----------------------------------------------------------------------------
(***************************************************************************)
(* How a step moves the ledger, the mirror and the cycles.                 *)
(***************************************************************************)

(* Ledgers only grow, at the end, and stay in timestamp order. *)
LEMMA LedgerStep ==
  ASSUME TypeOK, LedgerOrdered, [Next]_vars
  PROVE  /\ LedgerOrdered'
         /\ \A i \in Instances :
              /\ Events(i) \subseteq Events(i)'
              /\ \A k \in Events(i) : remote'[i][k] = remote[i][k]
<1>1. CASE \E i \in Instances : Record(i)
  <2>1. PICK i \in Instances : Record(i)
    BY <1>1
  <2>2. PICK d \in Steps : remote' = [remote EXCEPT ![i] =
          Append(@, IF @ = <<>> THEN 1 ELSE @[Len(@)] + d)]
    BY <2>1 DEF Record
  <2> DEFINE s == remote[i]
             t == IF s = <<>> THEN 1 ELSE s[Len(s)] + d
  <2>3. s \in Seq(Nat) /\ d \in Nat /\ Len(s) \in Nat
    BY FleetLedgerAssumption DEF TypeOK
  <2>4. \A k \in 1..Len(s) : s[k] \in Nat /\ s[k] > 0 /\ s[k] <= t
    BY <2>3 DEF LedgerOrdered, Events
  <2>5. t \in Nat /\ t > 0
    BY <2>3, <2>4
  <2>6. remote'[i] = Append(s, t)
    BY <2>2 DEF TypeOK
  <2>7. /\ Len(remote'[i]) = Len(s) + 1
        /\ \A k \in 1..Len(s) : remote'[i][k] = s[k]
        /\ remote'[i][Len(s) + 1] = t
    BY <2>3, <2>5, <2>6
  <2>8. \A j \in Instances \ {i} : remote'[j] = remote[j]
    BY <2>2 DEF TypeOK
  <2>9. \A j, k \in 1..(Len(s) + 1) :
          remote'[i][j] > 0 /\ (j <= k => remote'[i][j] <= remote'[i][k])
    <3>1. \A j, k \in 1..Len(s) : s[j] > 0 /\ (j <= k => s[j] <= s[k])
      BY DEF LedgerOrdered, Events
    <3> HIDE DEF t, s
    <3>2. TAKE j, k \in 1..(Len(s) + 1)
    <3>3. CASE j = Len(s) + 1
      BY <2>3, <2>5, <2>7, <3>3
    <3>4. CASE j \in 1..Len(s) /\ k \in 1..Len(s)
      BY <2>7, <3>1, <3>4
    <3>5. CASE j \in 1..Len(s) /\ k = Len(s) + 1
      BY <2>4, <2>7, <3>5
    <3> QED
      BY <2>3, <3>3, <3>4, <3>5
  <2>10. LedgerOrdered'
    BY <2>7, <2>8, <2>9 DEF LedgerOrdered, Events
  <2>11. /\ Events(i) \subseteq Events(i)'
         /\ \A k \in Events(i) : remote'[i][k] = remote[i][k]
    BY <2>3, <2>7 DEF Events
  <2>12. \A j \in Instances \ {i} :
           /\ Events(j) \subseteq Events(j)'
           /\ \A k \in Events(j) : remote'[j][k] = remote[j][k]
    BY <2>8 DEF Events
  <2> QED
    BY <2>10, <2>11, <2>12
<1>2. CASE remote' = remote
  BY <1>2 DEF LedgerOrdered, Events
<1> QED
  BY <1>1, <1>2
     DEF Next, vars, Start, Tick, TickPartial, Work, ReadWatermark, Fetch, Upsert,
         Advance, RecordFailure, FetchFails, BodyStalls, QueryFails, Stop, Crash

(* Rows are only added to the mirror, and only from the instance's ledger. *)
LEMMA MirrorStep ==
  ASSUME TypeOK, MirrorInLedger, BatchesOK, LedgerOrdered, [Next]_vars
  PROVE  /\ \A i \in Instances : mirror[i] \subseteq mirror'[i]
         /\ MirrorInLedger'
<1>1. CASE \E c \in Cycles : Upsert(c)
  <2>1. PICK c \in Cycles : Upsert(c)
    BY <1>1
  <2>2. cycle[c].inst \in Instances /\ cycle[c].items \subseteq Events(cycle[c].inst)
    BY <2>1 DEF Upsert, TypeOK, BatchesOK, BatchOK, Polling
  <2> QED
    BY <2>1, <2>2 DEF Upsert, TypeOK, MirrorInLedger, Events
<1>2. CASE mirror' = mirror
  BY <1>2, LedgerStep DEF MirrorInLedger
<1> QED
  BY <1>1, <1>2
     DEF Next, vars, Record, Start, Tick, TickPartial, Work, ReadWatermark, Fetch,
         Advance, RecordFailure, FetchFails, BodyStalls, QueryFails, Stop, Crash

(* A cycle that a step leaves alone keeps what held of it. *)
LEMMA OthersKeep ==
  ASSUME TypeOK, LedgerOrdered, MirrorInLedger, BatchesOK, [Next]_vars,
         NEW d \in Cycles, cycle'[d] = cycle[d]
  PROVE  /\ BatchOK(cycle[d])'
         /\ PositionOK(cycle[d]) => PositionOK(cycle[d])'
<1>1. CASE cycle[d].pc \notin Polling
  BY <1>1 DEF BatchesOK, BatchOK, PositionOK, Polling
<1>2. CASE cycle[d].pc \in Polling
  <2> DEFINE i == cycle[d].inst
  <2>1. i \in Instances
    BY <1>2 DEF TypeOK
  <2>2. mirror[i] \subseteq mirror'[i] /\ Events(i) \subseteq Events(i)'
        /\ \A k \in Events(i) : remote'[i][k] = remote[i][k]
    BY <2>1, LedgerStep, MirrorStep
  <2>3. BatchOK(cycle[d])'
    BY <1>2, <2>2 DEF BatchesOK, BatchOK
  <2>4. PositionOK(cycle[d]) => PositionOK(cycle[d])'
    BY <1>2, <2>2 DEF PositionOK, IsPosition
  <2> QED
    BY <2>3, <2>4
<1> QED
  BY <1>1, <1>2

(* What a step may do to one cycle: leave it alone, end its poll of an     *)
(* instance, or take it one call further.                                  *)
CallOf(c) ==
  \/ ReadWatermark(c) \/ Fetch(c) \/ Upsert(c)
  \/ Advance(c) /\ MoreToDrain(cycle[c])
  \/ FetchFails(c) \/ BodyStalls(c)

LEMMA NextInstanceOutcome ==
  ASSUME TypeOK, NEW c \in Cycles, NEW todo, NextInstance(c, todo)
  PROVE  /\ \A d \in Cycles \ {c} : cycle'[d] = cycle[d]
         /\ cycle'[c].pc \in {"idle", "select"}
         /\ cycle'[c].items = {} /\ cycle'[c].fresh = {}
BY DEF NextInstance, Idle, TypeOK

LEMMA StepOutcome ==
  ASSUME TypeOK, [Next]_vars, NEW d \in Cycles
  PROVE  \/ cycle'[d] = cycle[d]
         \/ /\ cycle'[d].pc \in {"idle", "select"}
            /\ cycle'[d].items = {} /\ cycle'[d].fresh = {}
         \/ CallOf(d)
<1>1. CASE \E i \in Instances : Record(i)
  BY <1>1 DEF Record
<1>2. CASE \E c \in Cycles : Start(c) \/ Tick(c)
  BY <1>2 DEF Start, Tick, Begin, Idle, TypeOK
<1>3. ASSUME NEW c \in Cycles, ReadWatermark(c) \/ Fetch(c) \/ Upsert(c)
                               \/ FetchFails(c) \/ BodyStalls(c)
      PROVE  cycle'[d] = cycle[d] \/ CallOf(d)
  <2>1. c # d => cycle'[d] = cycle[d]
    BY <1>3, ZenonT(60) DEF ReadWatermark, Fetch, EmptyAnswer, Batch, Upsert, FetchFails, BodyStalls, TypeOK
  <2> QED
    BY <1>3, <2>1 DEF CallOf
<1>4. ASSUME NEW c \in Cycles, Advance(c), MoreToDrain(cycle[c])
      PROVE  cycle'[d] = cycle[d] \/ CallOf(d)
  <2>1. c # d => cycle'[d] = cycle[d]
    BY <1>4 DEF Advance, TypeOK
  <2> QED
    BY <1>4, <2>1 DEF CallOf
<1>5. CASE \E c \in Cycles : \/ Advance(c) /\ ~MoreToDrain(cycle[c])
                             \/ RecordFailure(c) \/ QueryFails(c) \/ TickPartial(c)
  <2>1. PICK c \in Cycles : \E todo : NextInstance(c, todo)
    BY <1>5 DEF Advance, RecordFailure, QueryFails, TickPartial
  <2>2. PICK todo : NextInstance(c, todo)
    BY <2>1
  <2> QED
    BY <2>2, NextInstanceOutcome
<1>6. CASE Stop \/ UNCHANGED vars
  BY <1>6 DEF Stop, vars
<1>7. CASE Crash
  BY <1>7 DEF Crash, Idle
<1> QED
  BY <1>1, <1>2, <1>3, <1>4, <1>5, <1>6, <1>7 DEF Next, Work

-----------------------------------------------------------------------------
(* A poll that is over holds no batch and no position. *)
LEMMA OverOK ==
  ASSUME NEW p, p.pc \in {"idle", "select"}, p.items = {}, p.fresh = {}
  PROVE  BatchOK(p) /\ PositionOK(p)
BY DEF BatchOK, PositionOK, Polling

(* Batches and positions are consistent with the tables after every call. *)
LEMMA CallKeeps ==
  ASSUME SafetyInv, [Next]_vars, NEW c \in Cycles, CallOf(c)
  PROVE  BatchOK(cycle[c])' /\ PositionOK(cycle[c])'
<1> DEFINE p == cycle[c]
           q == cycle'[c]
           i == p.inst
<1>1. p \in CycleRecord /\ BatchOK(p) /\ PositionOK(p)
  BY DEF SafetyInv, TypeOK, BatchesOK, PositionsOK
<1>2. CASE ReadWatermark(c)
  <2>1. PICK j \in p.todo : cycle' = [cycle EXCEPT ![c] =
         [Idle EXCEPT !.pc = "fetch", !.todo = cycle[c].todo \ {j}, !.inst = j,
                      !.since = Decrement(watermark[j].ts),
                      !.ts = watermark[j].ts, !.id = watermark[j].id]]
    BY <1>2 DEF ReadWatermark
  <2>2. j \in Instances /\ WatermarkOK(j)
    BY <1>1 DEF CycleRecord, SafetyInv, PositionsOK
  <2>3. /\ q.pc = "fetch" /\ q.inst = j /\ q.items = {} /\ q.fresh = {}
        /\ q.ts = watermark[j].ts /\ q.id = watermark[j].id
    BY <2>1 DEF Idle, SafetyInv, TypeOK
  <2>4. mirror' = mirror /\ remote' = remote
    BY <1>2 DEF ReadWatermark
  <2> QED
    BY <2>2, <2>3, <2>4 DEF BatchOK, PositionOK, WatermarkOK, IsPosition, Events
<1>3. CASE Fetch(c)
  <2>1. mirror' = mirror /\ remote' = remote /\ p.pc = "fetch" /\ i \in Instances
    BY <1>3 DEF Fetch, SafetyInv, TypeOK, Polling
  <2>2. CASE EmptyAnswer(c)
    <3>1. q = [p EXCEPT !.pc = "advance"]
      BY <2>2 DEF EmptyAnswer, SafetyInv, TypeOK
    <3>2. /\ q.pc = "advance" /\ q.inst = i /\ q.items = {} /\ q.fresh = {}
          /\ q.ts = p.ts /\ q.id = p.id
      BY <1>1, <2>1, <3>1 DEF BatchOK, CycleRecord
    <3> QED
      BY <1>1, <2>1, <3>2 DEF BatchOK, PositionOK, IsPosition, Events, Polling
  <2>3. CASE \E S \in Answers(p.inst, p.since, p.until) : Batch(c, S)
    <3>1. PICK S \in Answers(p.inst, p.since, p.until) : Batch(c, S)
      BY <2>3
    <3>2. PICK first \in Newest(p.inst, S), last \in Oldest(p.inst, S) :
            cycle' = [cycle EXCEPT
              ![c].pc = "upsert",
              ![c].items = S,
              ![c].oldest = remote[p.inst][last],
              ![c].captured = TRUE,
              ![c].ts = IF p.captured THEN p.ts ELSE remote[p.inst][first],
              ![c].id = IF p.captured THEN p.id ELSE first]
      BY <3>1 DEF Batch
    <3>3. S \subseteq Events(i) /\ first \in S
      BY <3>1, <3>2, AnswersInLedger DEF Newest
    <3>4. /\ q.pc = "upsert" /\ q.inst = i /\ q.items = S /\ q.fresh = {}
          /\ q.ts = IF p.captured THEN p.ts ELSE remote[p.inst][first]
          /\ q.id = IF p.captured THEN p.id ELSE first
      BY <1>1, <2>1, <3>2 DEF SafetyInv, TypeOK, BatchOK, CycleRecord
    <3> QED
      BY <1>1, <2>1, <3>3, <3>4 DEF BatchOK, PositionOK, IsPosition, Events, Polling
  <2> QED
    BY <1>3, <2>2, <2>3 DEF Fetch
<1>4. CASE Upsert(c)
  <2>1. i \in Instances /\ p.pc = "upsert" /\ remote' = remote
        /\ mirror'[i] = mirror[i] \cup p.items
    BY <1>4 DEF Upsert, SafetyInv, TypeOK, Polling
  <2>2. /\ q.pc = "advance" /\ q.inst = i /\ q.items = p.items
        /\ q.fresh = p.items \ mirror[i] /\ q.ts = p.ts /\ q.id = p.id
    BY <1>1, <1>4 DEF Upsert, SafetyInv, TypeOK, CycleRecord
  <2> QED
    BY <1>1, <2>1, <2>2 DEF BatchOK, PositionOK, IsPosition, Events, Polling
<1>5. CASE Advance(c) /\ MoreToDrain(p)
  <2>1. remote' = remote /\ mirror' = mirror /\ p.pc = "advance"
    BY <1>5 DEF Advance
  <2>2. /\ q.pc = "fetch" /\ q.inst = i /\ q.items = {} /\ q.fresh = {}
        /\ q.ts = p.ts /\ q.id = p.id
    BY <1>1, <1>5 DEF Advance, SafetyInv, TypeOK, CycleRecord
  <2> QED
    BY <1>1, <2>1, <2>2 DEF BatchOK, PositionOK, IsPosition, Events, Polling
<1>6. CASE FetchFails(c) \/ BodyStalls(c)
  <2>1. remote' = remote /\ mirror' = mirror /\ p.pc = "fetch"
    BY <1>6 DEF FetchFails, BodyStalls
  <2>2. /\ q.pc \in {"fail", "hung"} /\ q.inst = i /\ q.items = p.items
        /\ q.fresh = p.fresh /\ q.ts = p.ts /\ q.id = p.id
    BY <1>1, <1>6 DEF FetchFails, BodyStalls, SafetyInv, TypeOK, CycleRecord
  <2> QED
    BY <1>1, <2>1, <2>2 DEF BatchOK, PositionOK, IsPosition, Events, Polling
<1> QED
  BY <1>2, <1>3, <1>4, <1>5, <1>6 DEF CallOf

LEMMA CyclesKeep ==
  ASSUME SafetyInv, [Next]_vars
  PROVE  BatchesOK' /\ \A c \in Cycles : PositionOK(cycle[c])'
<1> SUFFICES ASSUME NEW c \in Cycles
             PROVE  BatchOK(cycle[c])' /\ PositionOK(cycle[c])'
  BY DEF BatchesOK
<1>1. CASE cycle'[c] = cycle[c]
  BY <1>1, OthersKeep DEF SafetyInv, PositionsOK
<1>2. CASE /\ cycle'[c].pc \in {"idle", "select"}
           /\ cycle'[c].items = {} /\ cycle'[c].fresh = {}
  BY <1>2 DEF BatchOK, PositionOK, Polling
<1>3. CASE CallOf(c)
  BY <1>3, CallKeeps
<1> QED
  BY <1>1, <1>2, <1>3, StepOutcome DEF SafetyInv

(* How the watermark rows move: not at all, or by one advance or failure. *)
LEMMA WatermarkOutcome ==
  ASSUME TypeOK, [Next]_vars
  PROVE  \/ watermark' = watermark
         \/ \E c \in Cycles : Advance(c) \/ RecordFailure(c)
BY DEF Next, vars, Record, Start, Tick, TickPartial, Work, ReadWatermark, Fetch, Upsert,
       FetchFails, BodyStalls, QueryFails, Stop, Crash

LEMMA WatermarksKeep ==
  ASSUME SafetyInv, [Next]_vars
  PROVE  \A i \in Instances : WatermarkOK(i)'
<1> SUFFICES ASSUME NEW i \in Instances PROVE WatermarkOK(i)'
  OBVIOUS
<1>1. /\ mirror[i] \subseteq mirror'[i] /\ Events(i) \subseteq Events(i)'
      /\ \A k \in Events(i) : remote'[i][k] = remote[i][k]
  BY LedgerStep, MirrorStep DEF SafetyInv
<1>2. WatermarkOK(i)
  BY DEF SafetyInv, PositionsOK
<1>3. CASE watermark'[i].ts = watermark[i].ts /\ watermark'[i].id = watermark[i].id
  BY <1>1, <1>2, <1>3 DEF WatermarkOK, IsPosition
<1>4. ASSUME NEW c \in Cycles, Advance(c), cycle[c].inst = i
      PROVE  WatermarkOK(i)'
  <2>1. watermark'[i].ts = cycle[c].ts /\ watermark'[i].id = cycle[c].id
    BY <1>4 DEF Advance, AdvanceWatermark, SafetyInv, TypeOK
  <2>2. /\ IsPosition(i, cycle[c].ts, cycle[c].id)
        /\ cycle[c].id # Null => cycle[c].id \in mirror[i]
    BY <1>4 DEF Advance, SafetyInv, PositionsOK, PositionOK, Polling
  <2> QED
    BY <1>1, <2>1, <2>2 DEF WatermarkOK, IsPosition
<1>5. ASSUME NEW c \in Cycles, Advance(c), cycle[c].inst # i
      PROVE  watermark'[i] = watermark[i]
  BY <1>5 DEF Advance, AdvanceWatermark, SafetyInv, TypeOK
<1>6. ASSUME NEW c \in Cycles, RecordFailure(c)
      PROVE  watermark'[i].ts = watermark[i].ts /\ watermark'[i].id = watermark[i].id
  <2>1. cycle[c].inst \in Instances /\ watermark[i] \in WatermarkRow
    BY <1>6 DEF RecordFailure, SafetyInv, TypeOK, Polling
  <2> QED
    BY <1>6, <2>1 DEF RecordFailure, SafetyInv, TypeOK, WatermarkRow
<1>7. \/ watermark' = watermark
      \/ \E c \in Cycles : Advance(c) \/ RecordFailure(c)
  BY WatermarkOutcome DEF SafetyInv
<1> QED
  BY <1>3, <1>4, <1>5, <1>6, <1>7

-----------------------------------------------------------------------------
(***************************************************************************)
(* Counting.                                                               *)
(***************************************************************************)

(* The rows cycle c still has to count for instance i, after a step. *)
LEMMA FreshOutcome ==
  ASSUME SafetyInv, [Next]_vars, NEW c \in Cycles, NEW i \in Instances,
         PollsInstance(c, i)'
  PROVE  \/ cycle'[c].fresh = {}
         \/ PollsInstance(c, i) /\ cycle'[c].fresh = cycle[c].fresh
         \/ /\ Upsert(c) /\ PollsInstance(c, i)
            /\ cycle'[c].fresh = cycle[c].items \ mirror[i]
<1>1. CASE cycle'[c] = cycle[c]
  BY <1>1 DEF PollsInstance
<1>2. CASE cycle'[c].pc \in {"idle", "select"}
  BY <1>2 DEF PollsInstance, Polling
<1>3. CASE Upsert(c)
  BY <1>3 DEF Upsert, PollsInstance, SafetyInv, TypeOK, CycleRecord, Polling
<1>4. CASE CallOf(c) /\ ~Upsert(c)
  <2>1. BatchOK(cycle[c]) /\ BatchOK(cycle[c])'
    BY <1>4, CallKeeps DEF SafetyInv, BatchesOK
  <2>2. CASE cycle'[c].pc # "advance"
    BY <2>1, <2>2 DEF BatchOK
  <2>3. CASE cycle'[c].pc = "advance"
    <3>1. ReadWatermark(c) => cycle'[c].pc = "fetch"
      BY DEF ReadWatermark, Idle, SafetyInv, TypeOK
    <3>2. FetchFails(c) \/ BodyStalls(c) => cycle'[c].pc # "advance"
      BY DEF FetchFails, BodyStalls, SafetyInv, TypeOK, CycleRecord
    <3>3. Advance(c) /\ MoreToDrain(cycle[c]) => cycle'[c].pc = "fetch"
      BY DEF Advance, SafetyInv, TypeOK, CycleRecord
    <3>4. (\E S : Batch(c, S)) => cycle'[c].pc = "upsert"
      BY DEF Batch, SafetyInv, TypeOK, CycleRecord
    <3>5. EmptyAnswer(c) /\ cycle[c].pc = "fetch"
      BY <1>4, <2>3, <3>1, <3>2, <3>3, <3>4 DEF CallOf, Fetch
    <3>6. cycle'[c].fresh = cycle[c].fresh
      BY <3>5 DEF EmptyAnswer, SafetyInv, TypeOK, CycleRecord
    <3> QED
      BY <2>1, <3>5, <3>6 DEF BatchOK
  <2> QED
    BY <2>2, <2>3
<1> QED
  BY <1>1, <1>2, <1>3, <1>4, StepOutcome DEF SafetyInv

(* No row is counted twice: a row freshly inserted was in no cycle's hands *)
(* and in no count, and an advance moves exactly its cycle's rows over.    *)
LEMMA CountsStep ==
  ASSUME SafetyInv, [Next]_vars
  PROVE  CountsOK'
<1> USE DEF SafetyInv
<1>1. ASSUME NEW i \in Instances, NEW c \in Cycles, NEW d \in Cycles, c # d,
             PollsInstance(c, i)', PollsInstance(d, i)'
      PROVE  cycle'[c].fresh \cap cycle'[d].fresh = {}
  <2>1. Upsert(c) => ~Upsert(d)
    BY <1>1 DEF Upsert, TypeOK, CycleRecord
  <2>2. PollsInstance(c, i) => cycle[c].fresh \subseteq mirror[i]
    BY DEF PollsInstance, BatchesOK, BatchOK
  <2>3. PollsInstance(d, i) => cycle[d].fresh \subseteq mirror[i]
    BY DEF PollsInstance, BatchesOK, BatchOK
  <2>4. PollsInstance(c, i) /\ PollsInstance(d, i) => cycle[c].fresh \cap cycle[d].fresh = {}
    BY <1>1 DEF CountsOK
  <2> QED
    BY <1>1, <2>1, <2>2, <2>3, <2>4, FreshOutcome
<1>2. ASSUME NEW i \in Instances
      PROVE  \E C \in SUBSET mirror'[i] : Counted(i, C)'
  <2>1. PICK C \in SUBSET mirror[i] : Counted(i, C)
    BY DEF CountsOK
  <2>2. C \subseteq mirror'[i]
    BY <2>1, MirrorStep
  <2>3. ASSUME NEW c \in Cycles, PollsInstance(c, i)'
        PROVE  C \cap cycle'[c].fresh = {}
    BY <2>1, <2>3, FreshOutcome DEF Counted
  <2>4. CASE watermark'[i].total = watermark[i].total
    BY <2>1, <2>2, <2>3, <2>4 DEF Counted
  <2>5. ASSUME NEW c \in Cycles, Advance(c), cycle[c].inst = i
        PROVE  \E D \in SUBSET mirror'[i] : Counted(i, D)'
    <3> DEFINE F == cycle[c].fresh
    <3>1. PollsInstance(c, i) /\ mirror' = mirror /\ F \subseteq mirror[i]
      BY <2>5 DEF PollsInstance, Polling, Advance, BatchesOK, BatchOK
    <3>2. watermark'[i].total = watermark[i].total + Cardinality(F)
      BY <2>5 DEF Advance, AdvanceWatermark, TypeOK
    <3>3. C \cap F = {}
      BY <2>1, <3>1 DEF Counted
    <3>4. IsFiniteSet(C) /\ IsFiniteSet(F) /\ Cardinality(C) \in Nat /\ Cardinality(F) \in Nat
      BY <2>1, <3>1, MirrorFinite
    <3>5. Cardinality(C \cup F) = Cardinality(C) + Cardinality(F)
      <4>1. Cardinality(C \cup F) = Cardinality(C) + Cardinality(F) - Cardinality(C \cap F)
        BY <3>4, FS_Union
      <4>2. Cardinality(C \cap F) = 0
        BY <3>3, FS_EmptySet
      <4> QED
        BY <3>4, <4>1, <4>2
    <3>6. ASSUME NEW d \in Cycles, PollsInstance(d, i)'
          PROVE  (C \cup F) \cap cycle'[d].fresh = {}
      <4>1. CASE d = c
        <5>1. cycle'[c].fresh = {}
          BY <2>5, <1>2, NextInstanceOutcome, SMTT(40) DEF Advance, TypeOK, CycleRecord
        <5> QED
          BY <4>1, <5>1
      <4>2. CASE d # c
        <5>1. cycle'[d] = cycle[d]
          BY <2>5, <4>2, NextInstanceOutcome DEF Advance, TypeOK
        <5> QED
          BY <2>3, <3>1, <3>6, <4>2, <5>1 DEF CountsOK, PollsInstance
      <4> QED
        BY <4>1, <4>2
    <3>7. watermark'[i].total = Cardinality(C \cup F)
      BY <2>1, <3>2, <3>5 DEF Counted
    <3> PICK D : D = C \cup F
      OBVIOUS
    <3>8. D \in SUBSET mirror'[i]
      BY <2>1, <3>1
    <3>9. /\ watermark'[i].total = Cardinality(D)
          /\ \A d \in Cycles : PollsInstance(d, i)' => D \cap cycle'[d].fresh = {}
      BY <3>6, <3>7
    <3>10. Counted(i, D)'
      BY <3>9 DEF Counted
    <3> QED
      BY <3>8, <3>10
  <2>6. ASSUME NEW c \in Cycles, Advance(c), cycle[c].inst # i
        PROVE  watermark'[i].total = watermark[i].total
    BY <2>6 DEF Advance, AdvanceWatermark, TypeOK
  <2>7. ASSUME NEW c \in Cycles, RecordFailure(c)
        PROVE  watermark'[i].total = watermark[i].total
    <3>1. cycle[c].inst \in Instances /\ watermark[i] \in WatermarkRow
      BY <2>7 DEF RecordFailure, TypeOK, Polling
    <3> QED
      BY <2>7, <3>1 DEF RecordFailure, TypeOK, WatermarkRow
  <2> QED
    BY <2>4, <2>5, <2>6, <2>7, WatermarkOutcome
<1> QED
  BY <1>1, <1>2 DEF CountsOK

-----------------------------------------------------------------------------
(***************************************************************************)
(* The theorems.                                                           *)
(***************************************************************************)

LEMMA SafetyInit == Init => SafetyInv
<1> SUFFICES ASSUME Init PROVE SafetyInv
  OBVIOUS
<1>1. /\ \A c \in Cycles : cycle[c].pc = "idle" /\ cycle[c].items = {} /\ cycle[c].fresh = {}
      /\ \A i \in Instances : /\ remote[i] = <<>> /\ mirror[i] = {}
                              /\ watermark[i].ts = Null /\ watermark[i].id = Null
                              /\ watermark[i].total = 0
  BY DEF Init, Idle, NoRow
<1>2. LedgerOrdered /\ MirrorInLedger
  BY <1>1 DEF LedgerOrdered, MirrorInLedger, Events
<1>3. BatchesOK /\ PositionsOK
  BY <1>1 DEF BatchesOK, BatchOK, PositionsOK, PositionOK, WatermarkOK, IsPosition, Polling
<1>4. \A i \in Instances : Counted(i, {})
  BY <1>1, FS_EmptySet DEF Counted
<1>5. CountsOK
  BY <1>1, <1>4 DEF CountsOK
<1> QED
  BY <1>2, <1>3, <1>5, TypeInit DEF SafetyInv

THEOREM SafetyInvariant == Spec => []SafetyInv
<1>1. SafetyInv /\ [Next]_vars => SafetyInv'
  <2> SUFFICES ASSUME SafetyInv, [Next]_vars PROVE SafetyInv'
    OBVIOUS
  <2>1. TypeOK' /\ LedgerOrdered' /\ MirrorInLedger'
    BY TypeStep, LedgerStep, MirrorStep DEF SafetyInv
  <2>2. BatchesOK' /\ PositionsOK'
    BY CyclesKeep, WatermarksKeep DEF PositionsOK
  <2> QED
    BY <2>1, <2>2, CountsStep DEF SafetyInv
<1> QED
  BY SafetyInit, <1>1, PTL DEF Spec

(***************************************************************************)
(* Type correctness of the poller, for every instance set and batch limit. *)
(***************************************************************************)
THEOREM TypeCorrect == Spec => []TypeOK
BY SafetyInvariant, PTL DEF SafetyInv

(***************************************************************************)
(* total_events_ingested never exceeds the rows mirrored from the          *)
(* instance, whatever polls overlap, fail or die half way.                 *)
(***************************************************************************)
THEOREM TotalIsNeverOver == Spec => []TotalNeverOvercounts
<1>1. SafetyInv => TotalNeverOvercounts
  <2> SUFFICES ASSUME SafetyInv, NEW i \in Instances
               PROVE  watermark[i].total <= Cardinality(mirror[i])
    BY DEF TotalNeverOvercounts
  <2>1. PICK C \in SUBSET mirror[i] : watermark[i].total = Cardinality(C)
    BY DEF SafetyInv, CountsOK, Counted
  <2> QED
    BY <2>1, MirrorFinite DEF SafetyInv
<1> QED
  BY SafetyInvariant, <1>1, PTL

(***************************************************************************)
(* The watermark names an event already in the mirror, with the timestamp  *)
(* that event has in the instance's own ledger.                            *)
(***************************************************************************)
THEOREM WatermarkNamesIngestedEvent == Spec => []WatermarkIsIngested
<1>1. SafetyInv => WatermarkIsIngested
  BY DEF SafetyInv, PositionsOK, WatermarkOK, IsPosition, WatermarkIsIngested, Events, Null
<1> QED
  BY SafetyInvariant, <1>1, PTL

-----------------------------------------------------------------------------
(***************************************************************************)
(* While no call fails and no two events share a millisecond, a poll that  *)
(* has ended leaves nothing below the watermark unmirrored, although the   *)
(* watermark moves before the older batches are fetched and although       *)
(* cycles overlap and overwrite each other's position.                     *)
(***************************************************************************)
(* Types of the values the bounds compare. *)
LEMMA Types ==
  ASSUME SafetyInv, NEW c \in Cycles
  PROVE  /\ cycle[c] \in CycleRecord
         /\ cycle[c].pc \in Polling => cycle[c].inst \in Instances
         /\ \A i \in Instances :
              /\ watermark[i].ts \in Int
              /\ \A k \in Events(i) : remote[i][k] \in Nat /\ remote[i][k] > 0
BY DEF SafetyInv, TypeOK, LedgerOrdered, Events, WatermarkRow

(* A ledger only grows, so stamps that are distinct now always were. *)
LEMMA DistinctBefore ==
  ASSUME SafetyInv, [Next]_vars, StampsDistinct'
  PROVE  StampsDistinct
<1>1. CASE \E i \in Instances : Record(i)
  <2>1. PICK i \in Instances : Record(i)
    BY <1>1
  <2>2. PICK t \in Int : remote' = [remote EXCEPT ![i] = Append(@, t)]
    <3>1. PICK d \in Steps : remote' = [remote EXCEPT ![i] =
            Append(@, IF @ = <<>> THEN 1 ELSE @[Len(@)] + d)]
      BY <2>1 DEF Record
    <3>2. remote[i] \in Seq(Nat) /\ d \in Nat
      BY FleetLedgerAssumption DEF SafetyInv, TypeOK
    <3>3. (IF remote[i] = <<>> THEN 1 ELSE remote[i][Len(remote[i])] + d) \in Int
      BY <3>2
    <3> QED
      BY <3>1, <3>3 DEF SafetyInv, TypeOK
  <2>3. \A j \in Instances : remote[j] \in Seq(Nat)
    BY DEF SafetyInv, TypeOK
  <2>4. \A j \in Instances : \A k \in Events(j) :
          k \in Events(j)' /\ remote'[j][k] = remote[j][k]
    BY <2>2, <2>3 DEF SafetyInv, TypeOK, Events
  <2> QED
    BY <2>4 DEF StampsDistinct
<1>2. CASE remote' = remote
  BY <1>2 DEF StampsDistinct, Events
<1> QED
  BY <1>1, <1>2
     DEF Next, vars, Start, Tick, TickPartial, Work, ReadWatermark, Fetch, Upsert,
         Advance, RecordFailure, FetchFails, BodyStalls, QueryFails, Stop, Crash

(* A step after which no call has failed is none of the failures. *)
Quiet ==
  \/ \E i \in Instances : Record(i)
  \/ \E c \in Cycles : Start(c) \/ Tick(c)
  \/ \E c \in Cycles : ReadWatermark(c) \/ Fetch(c) \/ Upsert(c) \/ Advance(c)
  \/ Stop
  \/ UNCHANGED vars

LEMMA QuietStep ==
  ASSUME SafetyInv, DrainInv, [Next]_vars, faults' = 0
  PROVE  faults = 0 /\ Quiet
<1>1. faults \in Nat
  BY FleetLedgerAssumption DEF SafetyInv, TypeOK
<1>2. ~ (\E c \in Cycles : TickPartial(c) \/ FetchFails(c) \/ BodyStalls(c) \/ QueryFails(c))
  <2>1. \A c \in Cycles : TickPartial(c) \/ FetchFails(c) \/ BodyStalls(c) \/ QueryFails(c)
          => faults' = faults + 1
    BY DEF TickPartial, FetchFails, BodyStalls, QueryFails
  <2> QED
    BY <1>1, <2>1
<1>3. ~ Crash
  BY <1>1 DEF Crash
<1>4. faults = 0
  BY <1>1, <1>2, <1>3
     DEF Next, vars, Record, Start, Tick, Work, ReadWatermark, Fetch, Upsert,
         Advance, RecordFailure, Stop
<1>5. ~ \E c \in Cycles : RecordFailure(c)
  BY <1>4 DEF DrainInv, RecordFailure
<1> QED
  BY <1>2, <1>3, <1>4, <1>5 DEF Next, Work, Quiet

(* An event of the window that a batch leaves out is older than the batch, *)
(* and the batch is full.                                                  *)
LEMMA LeftOut ==
  ASSUME SafetyInv, StampsDistinct, NEW i \in Instances, NEW since \in Int, NEW until \in Int,
         NEW S \in Answers(i, since, until), NEW k \in InWindow(i, since, until) \ S,
         NEW last \in S
  PROVE  Cardinality(S) = Limit /\ remote[i][k] < remote[i][last]
<1>1. k \in Events(i) /\ last \in Events(i) /\ k # last
  BY AnswersInLedger DEF InWindow
<1>2. remote[i][k] <= remote[i][last] /\ remote[i][k] # remote[i][last]
  BY <1>1 DEF Answers, StampsDistinct
<1>3. remote[i][k] \in Int /\ remote[i][last] \in Int
  BY <1>1 DEF SafetyInv, TypeOK, Events
<1>4. IsFiniteSet(S)
  <2>1. Len(remote[i]) \in Int
    BY DEF SafetyInv, TypeOK
  <2>2. IsFiniteSet(1..Len(remote[i]))
    BY <2>1, FS_Interval
  <2> QED
    BY <2>2, FS_Subset, AnswersInLedger DEF Events
<1>5. Cardinality(S) \in Nat /\ Cardinality(S) <= Limit /\ ~(Cardinality(S) < Limit)
  BY <1>4, FS_CardinalityType DEF Answers
<1> QED
  BY <1>2, <1>3, <1>5, FleetLedgerAssumption

-----------------------------------------------------------------------------
(***************************************************************************)
(* What a cycle holds it goes on holding until the event is mirrored.      *)
(***************************************************************************)
LEMMA HoldsKeep ==
  ASSUME SafetyInv, StampsDistinct, DrainInv, [Next]_vars, faults' = 0,
         NEW i \in Instances, NEW k \in Events(i), k \notin mirror'[i],
         NEW c \in Cycles, PollsInstance(c, i), Holds(cycle[c], k)
  PROVE  PollsInstance(c, i)' /\ Holds(cycle[c], k)'
<1> DEFINE p == cycle[c]
           q == cycle'[c]
           t == remote[i][k]
<1>1. /\ p \in CycleRecord /\ p.inst = i /\ p.pc \in Polling
      /\ t \in Nat /\ t > 0 /\ Limit \in Nat \ {0}
  BY Types, FleetLedgerAssumption DEF PollsInstance
<1>2. remote'[i][k] = t
  BY LedgerStep DEF SafetyInv
<1>3. BoundsOK(p) /\ faults = 0
  BY QuietStep DEF DrainInv
<1>4. CASE q = p
  BY <1>1, <1>2, <1>4 DEF PollsInstance, Holds
<1>5. CASE Fetch(c)
  <2>1. p.pc = "fetch" /\ k \in InWindow(i, p.since, p.until)
    BY <1>1, <1>5 DEF Fetch, Holds, After, InWindow, CycleRecord
  <2>2. ~EmptyAnswer(c)
    <3>1. Cardinality({}) = 0
      BY FS_EmptySet
    <3> QED
      BY <1>1, <2>1, <3>1 DEF EmptyAnswer, Answers
  <2>3. PICK S \in Answers(p.inst, p.since, p.until) : Batch(c, S)
    BY <1>5, <2>2 DEF Fetch
  <2>4. PICK first \in Newest(p.inst, S), last \in Oldest(p.inst, S) :
            cycle' = [cycle EXCEPT
              ![c].pc = "upsert",
              ![c].items = S,
              ![c].oldest = remote[p.inst][last],
              ![c].captured = TRUE,
              ![c].ts = IF p.captured THEN p.ts ELSE remote[p.inst][first],
              ![c].id = IF p.captured THEN p.id ELSE first]
    BY <2>3 DEF Batch
  <2>5. /\ q.pc = "upsert" /\ q.inst = i /\ q.items = S /\ q.since = p.since
        /\ q.oldest = remote[i][last]
    BY <1>1, <2>4 DEF SafetyInv, TypeOK, CycleRecord
  <2>6. k \in S \/ (Cardinality(S) = Limit /\ t < remote[i][last])
    BY <1>1, <2>1, <2>3, <2>4, LeftOut DEF Oldest, CycleRecord
  <2> QED
    BY <1>1, <1>2, <2>1, <2>5, <2>6 DEF PollsInstance, Holds, Polling
<1>6. CASE Upsert(c)
  <2>1. p.pc = "upsert" /\ k \notin p.items
    BY <1>1, <1>6 DEF Upsert, SafetyInv, TypeOK
  <2>2. /\ q.pc = "advance" /\ q.inst = i /\ q.items = p.items /\ q.since = p.since
        /\ q.oldest = p.oldest
    BY <1>1, <1>6 DEF Upsert, SafetyInv, TypeOK, CycleRecord
  <2> QED
    BY <1>1, <1>2, <2>1, <2>2 DEF PollsInstance, Holds, Polling
<1>7. CASE Advance(c)
  <2>1. p.pc = "advance" /\ Cardinality(p.items) = Limit /\ t < p.oldest /\ After(p.since, t)
    BY <1>1, <1>7 DEF Advance, Holds
  <2>2. NextUntil(p) = p.oldest - 1 /\ NextUntil(p) # Null /\ t <= NextUntil(p)
    BY <1>1, <2>1 DEF NextUntil, Decrement, Null, CycleRecord
  <2>3. MoreToDrain(p)
    BY <1>1, <2>1, <2>2 DEF MoreToDrain, After, CycleRecord, Null
  <2>4. q.pc = "fetch" /\ q.inst = i /\ q.since = p.since /\ q.until = NextUntil(p)
    BY <1>1, <1>7, <2>3 DEF Advance, SafetyInv, TypeOK, CycleRecord
  <2> QED
    BY <1>1, <1>2, <2>1, <2>2, <2>4 DEF PollsInstance, Holds, Polling
<1>8. q = p \/ Fetch(c) \/ Upsert(c) \/ Advance(c)
  <2>1. ASSUME NEW d \in Cycles, Start(d) \/ Tick(d) \/ ReadWatermark(d)
        PROVE  q = p
    <3>1. cycle[d].pc \in {"idle", "select"}
      BY <2>1 DEF Start, Tick, ReadWatermark
    <3>2. d # c
      BY <1>1, <3>1 DEF Polling
    <3> QED
      BY <2>1, <3>2 DEF Start, Tick, Begin, ReadWatermark, SafetyInv, TypeOK
  <2>2. ASSUME NEW d \in Cycles, Fetch(d) \/ Upsert(d) \/ Advance(d), d # c
        PROVE  q = p
    <3> cycle \in [Cycles -> CycleRecord]
      BY DEF SafetyInv, TypeOK
    <3>1. CASE Fetch(d)
      <4>1. CASE EmptyAnswer(d)
        BY <2>2, <4>1 DEF EmptyAnswer
      <4>2. ASSUME NEW S, Batch(d, S)  PROVE q = p
        BY <2>2, <4>2 DEF Batch
      <4> QED
        BY <3>1, <4>1, <4>2 DEF Fetch
    <3>4. CASE Upsert(d)
      BY <2>2, <3>4 DEF Upsert
    <3>2. CASE Advance(d) /\ MoreToDrain(cycle[d])
      BY <2>2, <3>2 DEF Advance, SafetyInv, TypeOK
    <3>3. CASE Advance(d) /\ ~MoreToDrain(cycle[d])
      <4>1. NextInstance(d, cycle[d].todo)
        BY <3>3 DEF Advance
      <4> QED
        BY <2>2, <4>1, NextInstanceOutcome DEF SafetyInv
    <3> QED
      BY <2>2, <3>1, <3>2, <3>3, <3>4
  <2>3. (\E j \in Instances : Record(j)) \/ Stop \/ UNCHANGED vars => q = p
    BY DEF Record, Stop, vars
  <2> QED
    BY <2>1, <2>2, <2>3, QuietStep DEF Quiet
<1> QED
  BY <1>4, <1>5, <1>6, <1>7, <1>8

LEMMA CoveredKeep ==
  ASSUME SafetyInv, StampsDistinct, DrainInv, [Next]_vars, faults' = 0,
         NEW i \in Instances, NEW k \in Events(i), k \notin mirror'[i], Covered(i, k)
  PROVE  Covered(i, k)'
BY HoldsKeep DEF Covered

-----------------------------------------------------------------------------
(***************************************************************************)
(* The bounds a cycle works with.                                          *)
(***************************************************************************)
LEMMA BoundsKeep ==
  ASSUME SafetyInv, DrainInv, [Next]_vars, faults' = 0, NEW c \in Cycles
  PROVE  cycle'[c].pc \notin {"fail", "hung"} /\ BoundsOK(cycle[c])'
<1> DEFINE p == cycle[c]
           q == cycle'[c]
           i == p.inst
<1>1. /\ p \in CycleRecord /\ p.pc \notin {"fail", "hung"} /\ BoundsOK(p)
      /\ p.pc \in Polling => i \in Instances
      /\ BatchOK(p)
  BY Types, QuietStep DEF DrainInv, SafetyInv, BatchesOK
<1>2. \A j \in Instances : /\ Events(j) \subseteq Events(j)'
                           /\ \A k \in Events(j) : remote'[j][k] = remote[j][k]
  BY LedgerStep DEF SafetyInv
<1>3. CASE q = p
  BY <1>1, <1>2, <1>3 DEF BoundsOK, BatchOK
<1>4. CASE q.pc \in {"idle", "select"}
  BY <1>4 DEF BoundsOK, Polling
<1>5. CASE ReadWatermark(c)
  <2>1. PICK j \in p.todo : cycle' = [cycle EXCEPT ![c] =
         [Idle EXCEPT !.pc = "fetch", !.todo = cycle[c].todo \ {j}, !.inst = j,
                      !.since = Decrement(watermark[j].ts),
                      !.ts = watermark[j].ts, !.id = watermark[j].id]]
    BY <1>5 DEF ReadWatermark
  <2>2. j \in Instances /\ WatermarkOK(j) /\ watermark[j].ts \in Int
    BY <1>1, Types DEF CycleRecord, SafetyInv, PositionsOK
  <2>3. /\ q.pc = "fetch" /\ q.inst = j /\ q.items = {} /\ q.until = Null
        /\ q.ts = watermark[j].ts /\ q.since = Decrement(watermark[j].ts) /\ ~q.captured
    BY <2>1 DEF Idle, SafetyInv, TypeOK
  <2>4. remote' = remote
    BY <1>5 DEF ReadWatermark
  <2>5. q.since # Null => \E e \in Events(j) : q.since < remote[j][e]
    BY <2>2, <2>3 DEF WatermarkOK, IsPosition, Decrement, Null
  <2> QED
    BY <2>3, <2>4, <2>5 DEF BoundsOK, Events
<1>6. CASE Fetch(c)
  <2>1. p.pc = "fetch" /\ i \in Instances /\ remote' = remote
    BY <1>1, <1>6 DEF Fetch, Polling
  <2>2. CASE EmptyAnswer(c)
    <3>1. /\ q.pc = "advance" /\ q.inst = i /\ q.items = p.items /\ q.items = {}
          /\ q.until = p.until /\ q.since = p.since /\ q.ts = p.ts /\ q.captured = p.captured
      BY <1>1, <2>1, <2>2 DEF EmptyAnswer, BatchOK, SafetyInv, TypeOK, CycleRecord
    <3>2. ~p.captured => p.ts = Null
      <4> SUFFICES ASSUME ~p.captured, p.ts # Null PROVE FALSE
        OBVIOUS
      <4>1. p.until = Null /\ p.since = Decrement(p.ts)
        BY <1>1, <2>1 DEF BoundsOK, Polling
      <4>2. p.id \in Events(i) /\ p.ts = remote[i][p.id]
        BY <2>1 DEF SafetyInv, PositionsOK, PositionOK, IsPosition, Polling
      <4>3. p.id \in InWindow(i, p.since, p.until)
        BY <1>1, <2>1, <4>1, <4>2, Types DEF InWindow, Decrement
      <4>4. Cardinality({}) = 0
        BY FS_EmptySet
      <4>5. InWindow(i, p.since, p.until) = {}
        BY <2>2, <4>4, FleetLedgerAssumption DEF EmptyAnswer, Answers
      <4> QED
        BY <4>3, <4>5
    <3> QED
      BY <1>1, <2>1, <3>1, <3>2 DEF BoundsOK, Events, Polling
  <2>3. CASE \E S \in Answers(p.inst, p.since, p.until) : Batch(c, S)
    <3>1. PICK S \in Answers(p.inst, p.since, p.until) : Batch(c, S)
      BY <2>3
    <3>2. PICK first \in Newest(p.inst, S), last \in Oldest(p.inst, S) :
            cycle' = [cycle EXCEPT
              ![c].pc = "upsert",
              ![c].items = S,
              ![c].oldest = remote[p.inst][last],
              ![c].captured = TRUE,
              ![c].ts = IF p.captured THEN p.ts ELSE remote[p.inst][first],
              ![c].id = IF p.captured THEN p.id ELSE first]
      BY <3>1 DEF Batch
    <3>3. /\ q.pc = "upsert" /\ q.inst = i /\ q.items = S /\ q.captured
          /\ q.since = p.since /\ q.oldest = remote[i][last]
      BY <1>1, <3>2 DEF SafetyInv, TypeOK, CycleRecord
    <3>4. last \in S /\ \A m \in S : remote[i][last] <= remote[i][m]
      BY <3>2 DEF Oldest
    <3> QED
      BY <1>1, <2>1, <3>3, <3>4 DEF BoundsOK, Events, Polling
  <2> QED
    BY <1>6, <2>2, <2>3 DEF Fetch
<1>7. CASE Upsert(c)
  <2>1. p.pc = "upsert" /\ i \in Instances /\ remote' = remote /\ p.captured
    BY <1>1, <1>7 DEF Upsert, BoundsOK, Polling
  <2>2. /\ q.pc = "advance" /\ q.inst = i /\ q.items = p.items /\ q.since = p.since
        /\ q.oldest = p.oldest /\ q.captured = p.captured
    BY <1>1, <1>7 DEF Upsert, SafetyInv, TypeOK, CycleRecord
  <2> QED
    BY <1>1, <2>1, <2>2 DEF BoundsOK, Events, Polling
<1>8. CASE Advance(c) /\ MoreToDrain(p)
  <2>1. p.pc = "advance" /\ i \in Instances /\ remote' = remote
    BY <1>1, <1>8 DEF Advance, Polling
  <2>2. p.captured
    <3>1. Cardinality(p.items) >= Limit /\ Cardinality({}) = 0
      BY <1>8, FS_EmptySet DEF MoreToDrain
    <3>2. p.items # {}
      BY <3>1, FleetLedgerAssumption
    <3> QED
      BY <1>1, <2>1, <3>2 DEF BoundsOK, Polling
  <2>3. q.pc = "fetch" /\ q.inst = i /\ q.since = p.since /\ q.items = {} /\ q.captured = p.captured
    BY <1>1, <1>8 DEF Advance, SafetyInv, TypeOK, CycleRecord
  <2> QED
    BY <1>1, <2>1, <2>2, <2>3 DEF BoundsOK, Events, Polling
<1>9. ~ (FetchFails(c) \/ BodyStalls(c))
  BY QuietStep, FleetLedgerAssumption DEF FetchFails, BodyStalls, SafetyInv, TypeOK
<1> QED
  BY <1>3, <1>4, <1>5, <1>6, <1>7, <1>8, <1>9, StepOutcome DEF CallOf, SafetyInv

-----------------------------------------------------------------------------
(***************************************************************************)
(* An event recorded after a position was taken is not below it.           *)
(***************************************************************************)
LEMMA NewEventIsLate ==
  ASSUME SafetyInv, [Next]_vars, NEW i \in Instances,
         NEW k \in Events(i)' \ Events(i), NEW e \in Events(i)
  PROVE  remote[i][e] <= remote'[i][k]
<1>1. LedgerOrdered' /\ e \in Events(i)' /\ remote'[i][e] = remote[i][e]
  BY LedgerStep DEF SafetyInv
<1>2. e <= k
  BY DEF Events, SafetyInv, TypeOK
<1> QED
  BY <1>1, <1>2 DEF LedgerOrdered

(* Where the locals of a poll come from: its row, or the call before. *)
LEMMA PollOrigin ==
  ASSUME SafetyInv, DrainInv, [Next]_vars, faults' = 0,
         NEW i \in Instances, NEW c \in Cycles, PollsInstance(c, i)'
  PROVE  \/ cycle'[c].since = Decrement(watermark[i].ts) /\ ~cycle'[c].captured
         \/ /\ PollsInstance(c, i)
            /\ cycle'[c].since = cycle[c].since
            /\ cycle[c].captured => cycle'[c].captured /\ cycle'[c].ts = cycle[c].ts
            /\ ~cycle[c].captured /\ cycle'[c].captured => cycle[c].pc = "fetch"
<1> DEFINE p == cycle[c]
           q == cycle'[c]
<1> USE DEF SafetyInv, TypeOK
<1>1. CASE q = p
  BY <1>1 DEF PollsInstance
<1>2. CASE q.pc \in {"idle", "select"}
  BY <1>2 DEF PollsInstance, Polling
<1>3. CASE ReadWatermark(c)
  BY <1>3 DEF ReadWatermark, Idle, PollsInstance
<1>4. CASE Fetch(c)
  <2>1. p.pc = "fetch" /\ p \in CycleRecord
    BY <1>4 DEF Fetch
  <2>2. q.since = p.since /\ q.inst = p.inst /\ (p.captured => q.captured /\ q.ts = p.ts)
    <3>1. CASE EmptyAnswer(c)
      BY <2>1, <3>1 DEF EmptyAnswer, CycleRecord
    <3>2. CASE \E S : Batch(c, S)
      BY <2>1, <3>2 DEF Batch, CycleRecord
    <3> QED
      BY <1>4, <3>1, <3>2 DEF Fetch
  <2> QED
    BY <2>1, <2>2 DEF PollsInstance, Polling
<1>5. CASE Upsert(c)
  BY <1>5 DEF Upsert, CycleRecord, PollsInstance, Polling
<1>6. CASE Advance(c) /\ MoreToDrain(p)
  BY <1>6 DEF Advance, CycleRecord, PollsInstance, Polling
<1>7. ~ (FetchFails(c) \/ BodyStalls(c))
  BY QuietStep, FleetLedgerAssumption DEF FetchFails, BodyStalls
<1> QED
  BY <1>1, <1>2, <1>3, <1>4, <1>5, <1>6, <1>7, StepOutcome DEF CallOf

(* The watermark part: what lies below it is mirrored or covered. *)
LEMMA BelowWatermark ==
  ASSUME SafetyInv, StampsDistinct, DrainInv, [Next]_vars, faults' = 0,
         NEW i \in Instances, NEW k \in Events(i)', k \notin mirror'[i],
         remote'[i][k] < watermark'[i].ts
  PROVE  Covered(i, k)'
<1>1. CASE k \in Events(i)
  <2>1. remote'[i][k] = remote[i][k] /\ k \notin mirror[i]
    BY <1>1, LedgerStep, MirrorStep DEF SafetyInv
  <2>2. CASE watermark'[i].ts = watermark[i].ts
    <3>1. Covered(i, k)
      BY <1>1, <2>1, <2>2, QuietStep DEF DrainInv
    <3> QED
      BY <1>1, <3>1, CoveredKeep
  <2>3. CASE watermark'[i].ts # watermark[i].ts
    <3>1. PICK c \in Cycles : Advance(c)
      BY <2>3, QuietStep
         DEF Quiet, Record, Start, Tick, ReadWatermark, Fetch, Upsert, Stop, vars
    <3>2. cycle[c].inst = i /\ watermark'[i].ts = cycle[c].ts
      BY <2>3, <3>1 DEF Advance, AdvanceWatermark, SafetyInv, TypeOK
    <3>3. PollsInstance(c, i) /\ cycle[c].pc = "advance"
      BY <3>1, <3>2 DEF Advance, PollsInstance, Polling
    <3>4. cycle[c].captured
      <4>1. cycle[c].ts # Null
        BY <1>1, <2>1, <3>2, Types DEF Null
      <4> QED
        BY <3>3, <4>1, QuietStep DEF DrainInv, BoundsOK, PollsInstance
    <3>5. Covered(i, k)
      BY <1>1, <2>1, <3>2, <3>3, <3>4, QuietStep DEF DrainInv, Covered
    <3> QED
      BY <1>1, <3>5, CoveredKeep
  <2> QED
    BY <2>2, <2>3
<1>2. CASE k \notin Events(i)
  <2>1. (\E j \in Instances : Record(j)) \/ remote' = remote
    BY QuietStep DEF Quiet, Start, Tick, ReadWatermark, Fetch, Upsert, Advance, Stop, vars
  <2>2. watermark' = watermark
    BY <1>2, <2>1 DEF Record, Events
  <2>3. watermark[i].ts = Null \/ \E e \in Events(i) : watermark[i].ts = remote[i][e]
    BY DEF SafetyInv, PositionsOK, WatermarkOK, IsPosition
  <2>4. remote'[i][k] \in Nat
    BY TypeStep DEF SafetyInv, TypeOK, Events
  <2>5. CASE watermark[i].ts = Null
    BY <2>2, <2>4, <2>5 DEF Null
  <2>6. ASSUME NEW e \in Events(i), watermark[i].ts = remote[i][e]
        PROVE  FALSE
    <3>1. remote[i][e] <= remote'[i][k]
      BY <1>2, NewEventIsLate
    <3>2. remote'[i][k] < remote[i][e]
      BY <2>2, <2>6
    <3>3. remote[i][e] \in Nat
      BY DEF SafetyInv, TypeOK, Events
    <3> QED
      BY <2>4, <3>1, <3>2, <3>3
  <2> QED
    BY <2>3, <2>5, <2>6
<1> QED
  BY <1>1, <1>2

(* The lower bound: what a cycle will not ask for is mirrored or covered. *)
LEMMA BelowSince ==
  ASSUME SafetyInv, StampsDistinct, DrainInv, [Next]_vars, faults' = 0,
         NEW i \in Instances, NEW k \in Events(i)', k \notin mirror'[i],
         NEW c \in Cycles, PollsInstance(c, i)', ~After(cycle'[c].since, remote'[i][k])
  PROVE  Covered(i, k)'
<1>1. cycle'[c].since # Null /\ remote'[i][k] \in Nat /\ cycle'[c].since \in Int
      /\ remote'[i][k] <= cycle'[c].since
  <2>1. TypeOK'
    BY TypeStep DEF SafetyInv
  <2> QED
    BY <2>1 DEF After, TypeOK, CycleRecord, Events
<1>2. CASE k \in Events(i)
  <2>1. remote'[i][k] = remote[i][k] /\ k \notin mirror[i]
    BY <1>2, LedgerStep, MirrorStep DEF SafetyInv
  <2>2. CASE PollsInstance(c, i) /\ cycle'[c].since = cycle[c].since
    <3>1. Covered(i, k)
      BY <1>2, <2>1, <2>2, QuietStep DEF DrainInv
    <3> QED
      BY <1>2, <3>1, CoveredKeep
  <2>3. CASE cycle'[c].since = Decrement(watermark[i].ts)
    <3>1. remote[i][k] < watermark[i].ts
      BY <1>1, <2>1, <2>3, Types DEF Decrement, Null
    <3>2. Covered(i, k)
      BY <1>2, <2>1, <3>1, QuietStep DEF DrainInv
    <3> QED
      BY <1>2, <3>2, CoveredKeep
  <2> QED
    BY <2>2, <2>3, PollOrigin
<1>3. CASE k \notin Events(i)
  <2>1. (\E j \in Instances : Record(j)) \/ remote' = remote
    BY QuietStep DEF Quiet, Start, Tick, ReadWatermark, Fetch, Upsert, Advance, Stop, vars
  <2>2. cycle' = cycle
    BY <1>3, <2>1 DEF Record, Events
  <2>3. PICK e \in Events(i) : cycle[c].since < remote[i][e]
    BY <1>1, <2>2, QuietStep DEF DrainInv, BoundsOK, PollsInstance
  <2> QED
    BY <1>1, <1>3, <2>2, <2>3, NewEventIsLate, Types
<1> QED
  BY <1>2, <1>3

(* What lies between a cycle's lower bound and the newest event it saw is  *)
(* mirrored or held by that very cycle.                                    *)
LEMMA WithinPoll ==
  ASSUME SafetyInv, StampsDistinct, DrainInv, [Next]_vars, faults' = 0,
         NEW i \in Instances, NEW k \in Events(i)', k \notin mirror'[i],
         NEW c \in Cycles, PollsInstance(c, i)', cycle'[c].captured,
         After(cycle'[c].since, remote'[i][k]), remote'[i][k] < cycle'[c].ts
  PROVE  Holds(cycle[c], k)'
<1>1. CASE k \in Events(i)
  <2>1. remote'[i][k] = remote[i][k] /\ k \notin mirror[i] /\ remote[i][k] \in Nat
    BY <1>1, LedgerStep, MirrorStep, Types DEF SafetyInv
  <2>2. PollsInstance(c, i) /\ cycle'[c].since = cycle[c].since
    BY PollOrigin
  <2>3. CASE cycle[c].captured
    <3>1. cycle'[c].ts = cycle[c].ts
      BY <2>3, PollOrigin
    <3>2. Holds(cycle[c], k)
      BY <1>1, <2>1, <2>2, <2>3, <3>1, QuietStep DEF DrainInv
    <3> QED
      BY <1>1, <2>2, <3>2, HoldsKeep
  <2>4. CASE ~cycle[c].captured
    <3>1. cycle[c].pc = "fetch" /\ cycle[c].until = Null
      BY <2>2, <2>4, PollOrigin, QuietStep DEF DrainInv, BoundsOK, PollsInstance
    <3>2. Holds(cycle[c], k)
      BY <2>1, <2>2, <3>1 DEF Holds, PollsInstance
    <3> QED
      BY <1>1, <2>2, <3>2, HoldsKeep
  <2> QED
    BY <2>3, <2>4
<1>2. CASE k \notin Events(i)
  <2>1. (\E j \in Instances : Record(j)) \/ remote' = remote
    BY QuietStep DEF Quiet, Start, Tick, ReadWatermark, Fetch, Upsert, Advance, Stop, vars
  <2>2. cycle' = cycle
    BY <1>2, <2>1 DEF Record, Events
  <2>3. IsPosition(i, cycle[c].ts, cycle[c].id)
    BY <2>2 DEF SafetyInv, PositionsOK, PositionOK, PollsInstance
  <2>4. remote'[i][k] \in Nat
    BY TypeStep DEF SafetyInv, TypeOK, Events
  <2>5. CASE cycle[c].ts = Null
    BY <2>2, <2>4, <2>5 DEF Null
  <2>6. ASSUME NEW e \in Events(i), cycle[c].ts = remote[i][e]
        PROVE  FALSE
    BY <1>2, <2>2, <2>4, <2>6, NewEventIsLate, Types
  <2> QED
    BY <2>3, <2>5, <2>6 DEF IsPosition
<1> QED
  BY <1>1, <1>2

-----------------------------------------------------------------------------
LEMMA DrainStep ==
  ASSUME SafetyInv, StampsDistinct, DrainInv, [Next]_vars
  PROVE  DrainInv'
<1> SUFFICES ASSUME faults' = 0
             PROVE  /\ \A c \in Cycles : cycle'[c].pc \notin {"fail", "hung"} /\ BoundsOK(cycle[c])'
                    /\ \A i \in Instances : \A k \in Events(i)' \ mirror'[i] :
                         /\ remote'[i][k] < watermark'[i].ts => Covered(i, k)'
                         /\ \A c \in Cycles : PollsInstance(c, i)' =>
                              /\ ~After(cycle'[c].since, remote'[i][k]) => Covered(i, k)'
                              /\ /\ cycle'[c].captured
                                 /\ After(cycle'[c].since, remote'[i][k])
                                 /\ remote'[i][k] < cycle'[c].ts
                                 => Holds(cycle[c], k)'
  BY DEF DrainInv, After
<1>1. \A c \in Cycles : cycle'[c].pc \notin {"fail", "hung"} /\ BoundsOK(cycle[c])'
  BY BoundsKeep
<1>2. ASSUME NEW i \in Instances, NEW k \in Events(i)' \ mirror'[i]
      PROVE  remote'[i][k] < watermark'[i].ts => Covered(i, k)'
  BY BelowWatermark
<1>3. ASSUME NEW i \in Instances, NEW k \in Events(i)' \ mirror'[i],
             NEW c \in Cycles, PollsInstance(c, i)'
      PROVE  ~After(cycle'[c].since, remote'[i][k]) => Covered(i, k)'
  BY <1>3, BelowSince
<1>4. ASSUME NEW i \in Instances, NEW k \in Events(i)' \ mirror'[i],
             NEW c \in Cycles, PollsInstance(c, i)', cycle'[c].captured,
             After(cycle'[c].since, remote'[i][k]), remote'[i][k] < cycle'[c].ts
      PROVE  Holds(cycle[c], k)'
  BY <1>4, WithinPoll
<1> QED
  BY <1>1, <1>2, <1>3, <1>4

LEMMA DrainInit == Init => DrainInv
BY DEF Init, DrainInv, BoundsOK, Idle, Polling, Events

(***************************************************************************)
(* No event below the watermark of an instance is missing once no cycle is *)
(* polling it, as long as no call has failed and its timestamps are        *)
(* distinct: for any batch limit, any number of overlapping cycles and any *)
(* ledger.                                                                 *)
(***************************************************************************)
THEOREM NothingSkippedWhileQuiet == Spec => []QuietDrainIsComplete
<1>1. Init => (StampsDistinct => DrainInv)
  BY DrainInit
<1>2. SafetyInv /\ (StampsDistinct => DrainInv) /\ [Next]_vars
        => (StampsDistinct => DrainInv)'
  BY DistinctBefore, DrainStep
<1>3. SafetyInv /\ (StampsDistinct => DrainInv) => QuietDrainIsComplete
  <2> SUFFICES ASSUME SafetyInv, StampsDistinct, DrainInv, faults = 0,
                      NEW i \in Instances, Settled(i)
               PROVE  Missing(i) = {}
    BY DEF QuietDrainIsComplete
  <2>1. \A k \in Events(i) \ mirror[i] : ~Covered(i, k)
    BY DEF Settled, Covered
  <2>2. \A k \in Events(i) \ mirror[i] : ~(remote[i][k] < watermark[i].ts)
    BY <2>1 DEF DrainInv
  <2> QED
    BY <2>2 DEF Missing, Below
<1> QED
  BY SafetyInvariant, <1>1, <1>2, <1>3, PTL DEF Spec

-----------------------------------------------------------------------------
(***************************************************************************)
(* A ledger that fits one batch.                                           *)
(***************************************************************************)

(* What a step leaves missing below a position was missing there before:   *)
(* rows are never deleted, and what is recorded later is not below it.     *)
LEMMA BelowShrinks ==
  ASSUME SafetyInv, [Next]_vars, NEW i \in Instances, NEW t,
         t = Null \/ \E e \in Events(i) : t = remote[i][e],
         NEW k \in Events(i)' \ mirror'[i], remote'[i][k] < t
  PROVE  k \in Below(i, t)
<1>1. mirror[i] \subseteq mirror'[i]
  BY MirrorStep DEF SafetyInv
<1>2. CASE k \in Events(i)
  BY <1>1, <1>2, LedgerStep DEF Below, SafetyInv
<1>3. CASE k \notin Events(i)
  <2>1. TypeOK' /\ LedgerOrdered'
    BY TypeStep, LedgerStep DEF SafetyInv
  <2>2. remote'[i][k] \in Nat
    BY <2>1 DEF TypeOK, Events
  <2>3. PICK e \in Events(i) : t = remote[i][e]
    BY <2>2 DEF Null
  <2>4. remote[i][e] <= remote'[i][k] /\ remote[i][e] \in Nat
    BY <1>3, NewEventIsLate DEF SafetyInv, TypeOK, Events
  <2> QED
    BY <2>2, <2>3, <2>4
<1> QED
  BY <1>2, <1>3

(* The answer to a request for a ledger that fits one batch is all of it   *)
(* between the bounds.                                                     *)
LEMMA AnswerIsWhole ==
  ASSUME SafetyInv, NEW i \in Instances, Len(remote[i]) <= Limit,
         NEW since, NEW until, NEW S \in Answers(i, since, until)
  PROVE  S = InWindow(i, since, until)
<1> DEFINE window == InWindow(i, since, until)
<1>1. Len(remote[i]) \in Nat /\ Limit \in Nat /\ window \subseteq 1..Len(remote[i])
  BY FleetLedgerAssumption DEF SafetyInv, TypeOK, InWindow, Events
<1>2. /\ IsFiniteSet(1..Len(remote[i]))
      /\ Cardinality(1..Len(remote[i])) <= Limit
  <2>1. ASSUME NEW n \in Nat
        PROVE  IsFiniteSet(1..n) /\ Cardinality(1..n) = n
    BY FS_Interval
  <2> QED
    BY <1>1, <2>1
<1>3. IsFiniteSet(window) /\ Cardinality(window) <= Cardinality(1..Len(remote[i]))
  BY <1>1, <1>2, FS_Subset
<1>4. /\ S \in SUBSET window /\ Cardinality(S) <= Limit
      /\ Cardinality(S) < Limit => S = window
  BY DEF Answers
<1>5. Cardinality(S) <= Cardinality(window) /\ (Cardinality(window) = Cardinality(S) => S = window)
  BY <1>3, <1>4, FS_Subset
<1>6. Cardinality(S) \in Nat /\ Cardinality(window) \in Nat
      /\ Cardinality(1..Len(remote[i])) \in Nat
  BY <1>2, <1>3, <1>4, FS_Subset, FS_CardinalityType
<1> QED
  BY <1>1, <1>2, <1>3, <1>4, <1>5, <1>6

(* No row is missing below a position that any call of a poll takes.       *)
LEMMA OneBatchCall ==
  ASSUME SafetyInv, [Next]_vars, NEW i \in Instances, OneBatchOK(i),
         Len(remote[i]) <= Limit, NEW c \in Cycles, CallOf(c), PollsInstance(c, i)'
  PROVE  /\ \A k \in Below(i, cycle[c].ts)' :
              cycle'[c].pc = "upsert" /\ k \in cycle'[c].items
         /\ ~cycle'[c].captured =>
              /\ cycle'[c].pc # "upsert" /\ cycle'[c].items = {}
              /\ cycle'[c].until = Null
              /\ cycle'[c].since = Decrement(cycle'[c].ts)
<1> DEFINE p == cycle[c]
           q == cycle'[c]
<1>1. /\ p \in CycleRecord /\ p.pc \in Polling => p.inst \in Instances
      /\ cycle \in [Cycles -> CycleRecord]
      /\ \A e \in Events(i) : remote[i][e] \in Nat /\ remote[i][e] > 0
      /\ watermark[i].ts \in Int /\ q.inst = i
  BY Types DEF SafetyInv, TypeOK, PollsInstance
<1>2. PollsInstance(c, i) =>
        (p.ts = Null /\ p.id = Null) \/ (p.id \in Events(i) /\ p.ts = remote[i][p.id])
  BY DEF SafetyInv, PositionsOK, PositionOK, IsPosition, PollsInstance
<1>3. (watermark[i].ts = Null) \/ \E e \in Events(i) : watermark[i].ts = remote[i][e]
  BY DEF SafetyInv, PositionsOK, WatermarkOK, IsPosition
<1>4. CASE ReadWatermark(c)
  <2>1. /\ q.pc = "fetch" /\ q.ts = watermark[i].ts /\ q.items = {} /\ q.until = Null
        /\ q.since = Decrement(watermark[i].ts)
    BY <1>1, <1>4 DEF ReadWatermark, Idle
  <2>2. Below(i, cycle[c].ts)' = {}
    BY <1>3, <2>1, BelowShrinks DEF Below, OneBatchOK, Missing
  <2> QED
    BY <2>1, <2>2
<1>5. CASE Fetch(c)
  <2>1. /\ PollsInstance(c, i) /\ p.pc = "fetch" /\ p.items = {} /\ p.inst = i
        /\ UNCHANGED <<remote, mirror>>
    <3>1. p.pc = "fetch" /\ UNCHANGED <<remote, mirror>>
      BY <1>5 DEF Fetch
    <3>2. q.inst = p.inst
      <4>1. p.pc = "fetch" /\ p \in CycleRecord
        BY <1>1, <1>5 DEF Fetch, Polling
      <4>2. CASE EmptyAnswer(c)
        BY <1>1, <4>1, <4>2 DEF EmptyAnswer, CycleRecord
      <4>3. CASE \E S : Batch(c, S)
        BY <1>1, <4>1, <4>3 DEF Batch, CycleRecord
      <4> QED
        BY <1>5, <4>2, <4>3 DEF Fetch
    <3> QED
      BY <1>1, <3>1, <3>2 DEF PollsInstance, Polling, SafetyInv, BatchesOK, BatchOK
  <2>2. Below(i, p.ts) = {}
    BY <2>1 DEF OneBatchOK
  <2>3. CASE EmptyAnswer(c)
    BY <1>1, <2>1, <2>2, <2>3 DEF EmptyAnswer, CycleRecord, Below, Events, OneBatchOK
  <2>4. CASE \E S \in Answers(p.inst, p.since, p.until) : Batch(c, S)
    <3>1. PICK S \in Answers(i, p.since, p.until) : Batch(c, S)
      BY <2>1, <2>4
    <3>2. PICK first \in Newest(i, S) :
             /\ q.pc = "upsert" /\ q.items = S /\ q.captured
             /\ q.ts = IF p.captured THEN p.ts ELSE remote[i][first]
      BY <1>1, <2>1, <3>1 DEF Batch, CycleRecord
    <3>3. ASSUME NEW k \in Below(i, cycle[c].ts)'
          PROVE  k \in S
      <4>1. k \in Events(i) \ mirror[i] /\ remote[i][k] < q.ts
        BY <2>1, <3>3 DEF Below, Events
      <4>2. ~p.captured /\ k \notin Below(i, p.ts)
        BY <2>2, <3>2, <4>1 DEF Below
      <4>3. p.until = Null /\ p.since = Decrement(p.ts)
        BY <2>1, <4>2 DEF OneBatchOK
      <4>4. ~(remote[i][k] < p.ts)
        BY <4>1, <4>2 DEF Below
      <4>5. p.since = Null \/ p.since <= remote[i][k]
        BY <1>1, <1>2, <2>1, <4>1, <4>3, <4>4 DEF Decrement, Null
      <4>6. k \in InWindow(i, p.since, p.until)
        BY <4>1, <4>3, <4>5 DEF InWindow
      <4> QED
        BY <3>1, <4>6, AnswerIsWhole
    <3> QED
      BY <3>2, <3>3
  <2> QED
    BY <1>5, <2>3, <2>4 DEF Fetch
<1>6. CASE Upsert(c)
  <2>1. /\ q.pc = "advance" /\ q.ts = p.ts /\ q.items = p.items /\ q.inst = p.inst
        /\ p.pc = "upsert" /\ q.captured = p.captured /\ remote' = remote
    BY <1>1, <1>6 DEF Upsert, CycleRecord
  <2>2. PollsInstance(c, i) /\ p.captured
    BY <1>1, <2>1 DEF PollsInstance, Polling, OneBatchOK
  <2>3. mirror'[i] = mirror[i] \cup p.items
    BY <1>1, <1>6, <2>1 DEF Upsert, SafetyInv, TypeOK
  <2>4. \A k \in Below(i, cycle[c].ts)' : k \in Below(i, p.ts) /\ k \notin p.items
    BY <2>1, <2>3 DEF Below, Events
  <2> QED
    BY <2>1, <2>2, <2>4 DEF OneBatchOK
<1>7. CASE Advance(c) /\ MoreToDrain(p)
  <2>1. /\ q.pc = "fetch" /\ q.ts = p.ts /\ q.items = {} /\ q.inst = p.inst
        /\ p.pc = "advance" /\ q.captured = p.captured /\ UNCHANGED <<remote, mirror>>
    BY <1>1, <1>7 DEF Advance, CycleRecord
  <2>2. PollsInstance(c, i)
    BY <1>1, <2>1 DEF PollsInstance, Polling
  <2>3. p.items # {}
    <3>1. Cardinality({}) = 0 /\ Cardinality(p.items) >= Limit
      BY <1>7, FS_EmptySet DEF MoreToDrain
    <3>2. ~(0 >= Limit)
      BY FleetLedgerAssumption
    <3> QED
      BY <3>1, <3>2
  <2>4. p.captured /\ Below(i, p.ts) = {}
    BY <2>1, <2>2, <2>3 DEF OneBatchOK
  <2> QED
    BY <2>1, <2>4 DEF Below, Events
<1>8. CASE FetchFails(c) \/ BodyStalls(c)
  <2>1. /\ q.pc \in {"fail", "hung"} /\ q.ts = p.ts /\ q.items = p.items /\ q.inst = p.inst
        /\ q.until = p.until /\ q.since = p.since
        /\ p.pc = "fetch" /\ q.captured = p.captured /\ UNCHANGED <<remote, mirror>>
    BY <1>1, <1>8 DEF FetchFails, BodyStalls, CycleRecord
  <2>2. PollsInstance(c, i)
    BY <1>1, <2>1 DEF PollsInstance, Polling
  <2> QED
    BY <2>1, <2>2 DEF OneBatchOK, Below, Events
<1> QED
  BY <1>4, <1>5, <1>6, <1>7, <1>8 DEF CallOf

LEMMA OneBatchStep == SafetyInv /\ OneBatchInv /\ [Next]_vars => OneBatchInv'
<1> SUFFICES ASSUME SafetyInv, OneBatchInv, [Next]_vars,
                    NEW i \in Instances, Len(remote'[i]) <= Limit
             PROVE  OneBatchOK(i)'
  BY DEF OneBatchInv
<1>1. Len(remote[i]) <= Limit
  <2>1. Events(i) \subseteq Events(i)' /\ Limit \in Nat
        /\ Len(remote[i]) \in Nat /\ Len(remote'[i]) \in Nat
    BY LedgerStep, TypeStep, FleetLedgerAssumption DEF SafetyInv, TypeOK
  <2> QED
    BY <2>1 DEF Events
<1>2. OneBatchOK(i)
  BY <1>1 DEF OneBatchInv
<1>3. Missing(i)' = {}
  <2>1. (watermark[i].ts = Null) \/ \E e \in Events(i) : watermark[i].ts = remote[i][e]
    BY DEF SafetyInv, PositionsOK, WatermarkOK, IsPosition
  <2>2. CASE watermark'[i].ts = watermark[i].ts
    BY <1>2, <2>1, <2>2, BelowShrinks DEF OneBatchOK, Missing, Below
  <2>3. CASE watermark'[i].ts # watermark[i].ts
    <3>1. PICK c \in Cycles : Advance(c) /\ cycle[c].inst = i
                              /\ watermark'[i].ts = cycle[c].ts
      <4>1. PICK c \in Cycles : Advance(c) \/ RecordFailure(c)
        BY <2>3, WatermarkOutcome DEF SafetyInv
      <4>2. CASE RecordFailure(c)
        BY <2>3, <4>2 DEF RecordFailure, SafetyInv, TypeOK, WatermarkRow
      <4>3. CASE Advance(c)
        BY <2>3, <4>3 DEF Advance, AdvanceWatermark, SafetyInv, TypeOK
      <4> QED
        BY <4>1, <4>2, <4>3
    <3>2. PollsInstance(c, i) /\ cycle[c].pc = "advance"
      BY <3>1 DEF Advance, PollsInstance, Polling
    <3>3. Below(i, cycle[c].ts) = {}
      BY <1>2, <3>2 DEF OneBatchOK
    <3>4. cycle[c].ts = Null \/ \E e \in Events(i) : cycle[c].ts = remote[i][e]
      BY <3>2 DEF SafetyInv, PositionsOK, PositionOK, IsPosition, PollsInstance
    <3> QED
      BY <3>1, <3>3, <3>4, BelowShrinks DEF Missing, Below
  <2> QED
    BY <2>2, <2>3
<1>4. ASSUME NEW c \in Cycles, PollsInstance(c, i)'
      PROVE  /\ \A k \in Below(i, cycle[c].ts)' :
                  cycle'[c].pc = "upsert" /\ k \in cycle'[c].items
             /\ ~cycle'[c].captured =>
                  /\ cycle'[c].pc # "upsert" /\ cycle'[c].items = {}
                  /\ cycle'[c].until = Null
                  /\ cycle'[c].since = Decrement(cycle'[c].ts)
  <2>1. CASE cycle'[c] = cycle[c]
    <3>1. PollsInstance(c, i)
      BY <1>4, <2>1 DEF PollsInstance
    <3>2. cycle[c].ts = Null \/ \E e \in Events(i) : cycle[c].ts = remote[i][e]
      BY <3>1 DEF SafetyInv, PositionsOK, PositionOK, IsPosition, PollsInstance
    <3>3. \A k \in Below(i, cycle[c].ts)' : k \in Below(i, cycle[c].ts)
      BY <2>1, <3>2, BelowShrinks DEF Below
    <3> QED
      BY <1>2, <2>1, <3>1, <3>3 DEF OneBatchOK
  <2>2. CASE CallOf(c)
    BY <1>1, <1>2, <1>4, <2>2, OneBatchCall
  <2>3. cycle'[c].pc \notin {"idle", "select"}
    BY <1>4 DEF PollsInstance, Polling
  <2> QED
    BY <2>1, <2>2, <2>3, StepOutcome DEF SafetyInv
<1> QED
  BY <1>3, <1>4 DEF OneBatchOK

(***************************************************************************)
(* A ledger that fits one batch never has a gap below the watermark, in    *)
(* the middle of a poll either, whatever calls fail, stall, overlap or are *)
(* cut off by a crash, and for any batch limit.                            *)
(***************************************************************************)
THEOREM NoGapInOneBatch == Spec => []OneBatchIsComplete
<1>1. Init => OneBatchInv
  BY DEF Init, OneBatchInv, OneBatchOK, Missing, Below, Events, PollsInstance,
     Idle, Polling
<1>2. OneBatchInv => OneBatchIsComplete
  BY DEF OneBatchInv, OneBatchOK, OneBatchIsComplete
<1> QED
  BY SafetyInvariant, OneBatchStep, <1>1, <1>2, PTL DEF Spec
=============================================================================
