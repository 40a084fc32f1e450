---------------------------- MODULE FleetLedger ----------------------------
(***************************************************************************)
(* The fleet ledger poller of the control plane (lib/fleet-ledger-poller)  *)
(* with the tables it writes (lib/fleet-ledger-repo): every interval a     *)
(* poll cycle reads, instance by instance, the instance's /memory/ledger   *)
(* newest first, mirrors the events and moves the instance's watermark.    *)
(*                                                                         *)
(* Nothing in the code stops a new cycle from starting while an earlier    *)
(* one is still waiting for an answer, so a cycle is a process here and    *)
(* every awaited call (a fetch, a query) is a step of its own.             *)
(*                                                                         *)
(* An event of an instance is its position in that instance's ledger; the  *)
(* value there is its timestamp in milliseconds.  The ledger itself is     *)
(* external: it only grows, and its timestamps never decrease.             *)
(***************************************************************************)
EXTENDS Integers, Sequences, FiniteSets, TLC

CONSTANTS Instances,   \* instances the control plane may discover
          Cycles,      \* poll cycles that may be in flight at once
          Limit,       \* POLL_BATCH_LIMIT
          MaxEvents,   \* bound: events an instance records
          Steps,       \* how far apart consecutive timestamps may be (0: a tie)
          MaxFaults    \* bound: failed calls, stalls and crashes

ASSUME FleetLedgerAssumption ==
  /\ Limit \in Nat \ {0}
  /\ MaxEvents \in Nat
  /\ Steps \subseteq Nat
  /\ MaxFaults \in Nat
  /\ IsFiniteSet(Cycles)

VARIABLES remote,      \* remote[i]: the timestamps of instance i's own ledger
          mirror,      \* mirror[i]: rows of mirrored_staff_events
          watermark,   \* watermark[i]: row of instance_ledger_watermarks
          cycle,       \* cycle[c]: the locals of a poll cycle in flight
          running,     \* the interval is armed (_pollInterval !== null)
          faults       \* failures so far, bounded by MaxFaults

vars == <<remote, mirror, watermark, cycle, running, faults>>

(***************************************************************************)
(* Timestamps.  Null is the absent timestamp, event id or bound.           *)
(***************************************************************************)
Null == -1
Events(i) == 1..Len(remote[i])
Increment(t) == IF t = Null THEN Null ELSE t + 1      \* mutant of Decrement
Decrement(t) == IF t = Null THEN Null ELSE t - 1

WatermarkRow == [polled: BOOLEAN, ts: Int, id: Int,
                 succeeded: BOOLEAN, failures: Nat, total: Nat]

NoRow == [polled |-> FALSE, ts |-> Null, id |-> Null,
          succeeded |-> TRUE, failures |-> 0, total |-> 0]

(***************************************************************************)
(* A cycle's locals: pc, the instances still to poll, and pollInstance's   *)
(* own - the bounds, the newest event seen (ts, id; captured once the      *)
(* first batch is in), the batch (items), the timestamp of its last item   *)
(* (oldest) and the rows its insert really added (fresh; the code keeps    *)
(* their number).                                                          *)
(***************************************************************************)
Polling == {"fetch", "upsert", "advance", "fail", "hung"}
Phases == {"idle", "select"} \cup Polling

CycleRecord == [pc: Phases, todo: SUBSET Instances, inst: Instances \cup {Null},
                since: Int, until: Int, ts: Int, id: Int, captured: BOOLEAN,
                items: SUBSET Nat, oldest: Int, fresh: SUBSET Nat]

Idle == [pc |-> "idle", todo |-> {}, inst |-> Null, since |-> Null,
         until |-> Null, ts |-> Null, id |-> Null, captured |-> FALSE,
         items |-> {}, oldest |-> Null, fresh |-> {}]

(* Cycle c is inside pollInstance for instance i. *)
PollsInstance(c, i) == cycle[c].pc \in Polling /\ cycle[c].inst = i

(***************************************************************************)
(* What /memory/ledger may answer: at most Limit events between the two    *)
(* bounds, the newest ones; events of one millisecond come in any order.   *)
(***************************************************************************)
InWindow(i, since, until) ==
  {k \in Events(i) : /\ since = Null \/ since <= remote[i][k]
                     /\ until = Null \/ remote[i][k] <= until}

Answers(i, since, until) ==
  LET window == InWindow(i, since, until) IN
  {S \in SUBSET window :
     /\ Cardinality(S) <= Limit
     /\ Cardinality(S) < Limit => S = window
     /\ \A k \in S, m \in window \ S : remote[i][m] <= remote[i][k]}

Newest(i, S) == {k \in S : \A m \in S : remote[i][m] <= remote[i][k]}
Oldest(i, S) == {k \in S : \A m \in S : remote[i][k] <= remote[i][m]}

Init ==
  /\ remote = [i \in Instances |-> <<>>]
  /\ mirror = [i \in Instances |-> {}]
  /\ watermark = [i \in Instances |-> NoRow]
  /\ cycle = [c \in Cycles |-> Idle]
  /\ running = FALSE
  /\ faults = 0

(* External: instance i records one more audit event in its own ledger. *)
Record(i) ==
  /\ Len(remote[i]) < MaxEvents
  /\ \E d \in Steps :
       remote' = [remote EXCEPT ![i] =
         Append(@, IF @ = <<>> THEN 1 ELSE @[Len(@)] + d)]
  /\ UNCHANGED <<mirror, watermark, cycle, running, faults>>

\* Mutant of Begin: the cycle asks before it has chosen an instance.
BeginUnread(c) == cycle' = [cycle EXCEPT ![c] = [Idle EXCEPT !.pc = "fetch", !.todo = Instances]]

(***************************************************************************)
(* startFleetLedgerPoller polls at once and arms the interval; a second    *)
(* call returns early.  stopFleetLedgerPoller only disarms the interval:   *)
(* cycles in flight go on.                                                 *)
(***************************************************************************)
Begin(c) == cycle' = [cycle EXCEPT ![c] = [Idle EXCEPT !.pc = "select", !.todo = Instances]]

Start(c) ==
  /\ ~running
  /\ running' = TRUE
  /\ cycle[c].pc = "idle"
  /\ Begin(c)
  /\ UNCHANGED <<remote, mirror, watermark, faults>>

Stop ==
  /\ running
  /\ running' = FALSE
  /\ UNCHANGED <<remote, mirror, watermark, cycle, faults>>

(* The interval fires; discovery finds every registered instance. *)
Tick(c) ==
  /\ running
  /\ cycle[c].pc = "idle"
  /\ Begin(c)
  /\ UNCHANGED <<remote, mirror, watermark, running, faults>>

\* Mutant of NextInstance: the first instance polled ends the cycle.
StopAfterFirst(c, todo) == cycle' = [cycle EXCEPT ![c] = Idle]

(* pollInstance returned or threw: the loop goes on with the next instance. *)
NextInstance(c, todo) ==
  cycle' = [cycle EXCEPT ![c] =
    IF todo = {} THEN Idle ELSE [Idle EXCEPT !.pc = "select", !.todo = todo]]

(* Discovery misses some instances, or all (registry unreadable, authority  *)
(* null): a cycle over the others, which is over at once if there are none.  *)
TickPartial(c) ==
  /\ running
  /\ faults < MaxFaults
  /\ faults' = faults + 1
  /\ cycle[c].pc = "idle"
  /\ \E found \in (SUBSET Instances) \ {Instances} : NextInstance(c, found)
  /\ UNCHANGED <<remote, mirror, watermark, running>>

(* getWatermark, and the locals pollInstance starts from. *)
ReadWatermark(c) ==
  /\ cycle[c].pc = "select"
  /\ \E i \in cycle[c].todo :
       cycle' = [cycle EXCEPT ![c] =
         [Idle EXCEPT !.pc    = "fetch",
                      !.todo  = cycle[c].todo \ {i},
                      !.inst  = i,
                      !.since = Decrement(watermark[i].ts),
                      !.ts    = watermark[i].ts,
                      !.id    = watermark[i].id]]
  /\ UNCHANGED <<remote, mirror, watermark, running, faults>>

(***************************************************************************)
(* One request.  The first item of the first batch is the newest event     *)
(* seen in this poll.  An empty answer goes straight to the last advance.  *)
(***************************************************************************)
EmptyAnswer(c) ==
  /\ {} \in Answers(cycle[c].inst, cycle[c].since, cycle[c].until)
  /\ cycle' = [cycle EXCEPT ![c].pc = "advance"]

Batch(c, S) ==
  LET p == cycle[c] IN
  \E first \in Newest(p.inst, S), last \in Oldest(p.inst, S) :
    cycle' = [cycle EXCEPT
      ![c].pc = "upsert",
      ![c].items = S,
      ![c].oldest = remote[p.inst][last],
      ![c].captured = TRUE,
      ![c].ts = IF p.captured THEN p.ts ELSE remote[p.inst][first],
      ![c].id = IF p.captured THEN p.id ELSE first]

Fetch(c) ==
  /\ cycle[c].pc = "fetch"
  /\ \/ EmptyAnswer(c)
     \/ \E S \in Answers(cycle[c].inst, cycle[c].since, cycle[c].until) : Batch(c, S)
  /\ UNCHANGED <<remote, mirror, watermark, running, faults>>

(* Network error, timeout, HTTP error, bad JSON or no items array. *)
FetchFails(c) ==
  /\ cycle[c].pc = "fetch"
  /\ faults < MaxFaults
  /\ faults' = faults + 1
  /\ cycle' = [cycle EXCEPT ![c].pc = "fail"]
  /\ UNCHANGED <<remote, mirror, watermark, running>>

(* The abort timer is cleared once the headers arrive: a body that stalls *)
(* leaves the cycle waiting, and the instances after it unpolled.         *)
BodyStalls(c) ==
  /\ cycle[c].pc = "fetch"
  /\ faults < MaxFaults
  /\ faults' = faults + 1
  /\ cycle' = [cycle EXCEPT ![c].pc = "hung"]
  /\ UNCHANGED <<remote, mirror, watermark, running>>

\* Mutant of Upsert: it counts the rows sent instead of the rows inserted.
UpsertCountsSent(c) ==
  LET p == cycle[c] IN
  /\ p.pc = "upsert"
  /\ mirror' = [mirror EXCEPT ![p.inst] = @ \cup p.items]
  /\ cycle' = [cycle EXCEPT ![c].pc = "advance", ![c].fresh = p.items]
  /\ UNCHANGED <<remote, watermark, running, faults>>

(* upsertMirroredEvents: ON CONFLICT DO NOTHING; the rows inserted count. *)
Upsert(c) ==
  LET p == cycle[c] IN
  /\ p.pc = "upsert"
  /\ mirror' = [mirror EXCEPT ![p.inst] = @ \cup p.items]
  /\ cycle' = [cycle EXCEPT ![c].pc = "advance",
                            ![c].fresh = p.items \ mirror[p.inst]]
  /\ UNCHANGED <<remote, watermark, running, faults>>

(* advanceWatermark overwrites the position and adds the count. *)
AdvanceWatermark(i, p) ==
  watermark' = [watermark EXCEPT ![i] =
    [polled |-> TRUE, ts |-> p.ts, id |-> p.id, succeeded |-> TRUE,
     failures |-> 0, total |-> @.total + Cardinality(p.fresh)]]

(* The next upper bound, when a full batch leaves older events to drain. *)
NextUntilOffByOne(p) == Decrement(Decrement(p.oldest))   \* mutant of NextUntil
NextUntil(p) == Decrement(p.oldest)

MoreToDrain(p) ==
  /\ Cardinality(p.items) >= Limit
  /\ NextUntil(p) # Null
  /\ ~ (p.since # Null /\ NextUntil(p) <= p.since)

Advance(c) ==
  LET p == cycle[c] IN
  /\ p.pc = "advance"
  /\ AdvanceWatermark(p.inst, p)
  /\ IF MoreToDrain(p)
     THEN cycle' = [cycle EXCEPT ![c].pc = "fetch", ![c].until = NextUntil(p),
                                 ![c].items = {}, ![c].oldest = Null, ![c].fresh = {}]
     ELSE NextInstance(c, p.todo)
  /\ UNCHANGED <<remote, mirror, running, faults>>

(* recordPollFailure leaves the position alone and counts the failure. *)
RecordFailure(c) ==
  LET p == cycle[c] IN
  /\ p.pc = "fail"
  /\ watermark' = [watermark EXCEPT ![p.inst] =
       [watermark[p.inst] EXCEPT !.polled = TRUE, !.succeeded = FALSE, !.failures = @ + 1]]
  /\ NextInstance(c, p.todo)
  /\ UNCHANGED <<remote, mirror, running, faults>>

\* Mutant of QueryFails: pollInstance swallows a rejected insert and advances.
QueryFailsSwallowed(c) ==
  LET p == cycle[c] IN
  /\ p.pc = "upsert"
  /\ faults < MaxFaults
  /\ faults' = faults + 1
  /\ cycle' = [cycle EXCEPT ![c].pc = "advance"]
  /\ UNCHANGED <<remote, mirror, watermark, running>>

(* A query rejects: pollAllInstancesOnce catches it and goes on with the   *)
(* next instance; no failure is recorded for this one.                     *)
QueryFails(c) ==
  LET p == cycle[c] IN
  /\ faults < MaxFaults
  /\ faults' = faults + 1
  /\ \/ /\ p.pc = "select"
        /\ \E i \in p.todo : NextInstance(c, p.todo \ {i})
     \/ /\ p.pc \in {"upsert", "advance", "fail"}
        /\ NextInstance(c, p.todo)
  /\ UNCHANGED <<remote, mirror, watermark, running>>

(* The control plane dies, or a shutdown ends the process while a cycle is *)
(* in flight: the tables stay, the cycles and the timer go.                *)
Crash ==
  /\ faults < MaxFaults
  /\ faults' = faults + 1
  /\ running \/ \E c \in Cycles : cycle[c].pc # "idle"
  /\ running' = FALSE
  /\ cycle' = [c \in Cycles |-> Idle]
  /\ UNCHANGED <<remote, mirror, watermark>>

Work(c) ==
  ReadWatermark(c) \/ Fetch(c) \/ Upsert(c) \/ Advance(c) \/ RecordFailure(c)

Next ==
  \/ \E i \in Instances : Record(i)
  \/ \E c \in Cycles : Start(c) \/ Tick(c) \/ TickPartial(c) \/ Work(c)
  \/ \E c \in Cycles : FetchFails(c) \/ BodyStalls(c) \/ QueryFails(c)
  \/ Stop
  \/ Crash

Spec == Init /\ [][Next]_vars

(***************************************************************************)
(* Fairness: the interval keeps firing while it is armed and finds a free  *)
(* cycle, and an awaited call that has not stalled settles.  Nothing       *)
(* restarts a control plane that stopped.                                  *)
(***************************************************************************)
Fairness ==
  /\ WF_vars(\E c \in Cycles : Tick(c))
  /\ \A c \in Cycles : WF_vars(Work(c))

FairSpec == Spec /\ Fairness

(* Nothing tells one cycle from another. *)
CyclesAreAlike == Permutations(Cycles)

-----------------------------------------------------------------------------
(***************************************************************************)
(* Properties                                                              *)
(***************************************************************************)

TypeOK ==
  /\ remote \in [Instances -> Seq(Nat)]
  /\ mirror \in [Instances -> SUBSET Nat]
  /\ watermark \in [Instances -> WatermarkRow]
  /\ cycle \in [Cycles -> CycleRecord]
  /\ \A c \in Cycles : cycle[c].pc \in Polling => cycle[c].inst \in Instances
  /\ running \in BOOLEAN
  /\ faults \in 0..MaxFaults

(***************************************************************************)
(* The running count never exceeds the rows mirrored: with overlapping     *)
(* cycles that fetch the same events, and crashes between the insert and   *)
(* the count, no event is counted twice (upsertMirroredEvents returns the  *)
(* rows inserted, not the rows sent; migration 004 total_events_ingested). *)
(***************************************************************************)
TotalNeverOvercounts ==
  \A i \in Instances : watermark[i].total <= Cardinality(mirror[i])

(***************************************************************************)
(* "Timestamp + remote_event_id of the last successfully ingested event":  *)
(* a position that is not null is that of an event already mirrored, with  *)
(* that event's timestamp, whatever failed or overlapped (the insert comes *)
(* before the advance in pollInstance).                                    *)
(***************************************************************************)
WatermarkIsIngested ==
  \A i \in Instances :
    LET w == watermark[i] IN
    (w.ts # Null \/ w.id # Null) =>
      /\ w.id \in mirror[i]
      /\ w.ts = remote[i][w.id]

(* No cycle is inside a poll of instance i. *)
Settled(i) == \A c \in Cycles : ~PollsInstance(c, i)

(* Events below the watermark that were never mirrored, and those of them  *)
(* that no later poll will ask for, whose lower bound is a step earlier.   *)
Below(i, bound) == {k \in Events(i) \ mirror[i] : remote[i][k] < bound}
Missing(i) == Below(i, watermark[i].ts)
Skipped(i) == Below(i, Decrement(watermark[i].ts))

(* No two events of an instance share a millisecond. *)
StampsDistinct ==
  \A i \in Instances : \A j, k \in Events(i) : j # k => remote[i][j] # remote[i][k]

(***************************************************************************)
(* A drain is complete: as long as no call fails and no two events share a *)
(* timestamp, no event below the watermark is missing once no cycle is     *)
(* polling the instance.  The watermark moves to the newest event before   *)
(* the older batches are even fetched, so this rests on the drain of       *)
(* pollInstance reaching back to where its cycle started, and on the       *)
(* overlap of one millisecond between polls, whatever cycles run at the    *)
(* same time.                                                              *)
(***************************************************************************)
QuietDrainIsComplete ==
  faults = 0 /\ StampsDistinct =>
    \A i \in Instances : Settled(i) => Missing(i) = {}

(***************************************************************************)
(* A ledger that fits one batch is never left with a gap, not even while a *)
(* poll is under way, and whatever fails, hangs, dies or overlaps: the     *)
(* rows of a batch are inserted before the watermark passes them.          *)
(***************************************************************************)
OneBatchIsComplete ==
  \A i \in Instances : Len(remote[i]) <= Limit => Missing(i) = {}

(***************************************************************************)
(* "No events are skipped as long as the instance is reachable": once no   *)
(* cycle is polling an instance, there is no event that later polls no     *)
(* longer ask for and that was not mirrored.                               *)
(***************************************************************************)
NoEventsSkipped == \A i \in Instances : Settled(i) => Skipped(i) = {}

(***************************************************************************)
(* While the poller stays armed, every event an instance records is        *)
(* mirrored in the end, the failures, stalls and restarts notwithstanding, *)
(* as long as the ledger fits one batch.                                   *)
(***************************************************************************)
EventuallyMirrored ==
  (<>[]running) =>
    \A i \in Instances, k \in 1..MaxEvents :
      k \in Events(i) ~> k \in mirror[i]

-----------------------------------------------------------------------------
(***************************************************************************)
(* The inductive invariant behind the properties above.                    *)
(***************************************************************************)

(* The ledger is in the order of its timestamps, which start above zero. *)
LedgerOrdered ==
  \A i \in Instances : \A j, k \in Events(i) :
    remote[i][j] > 0 /\ (j <= k => remote[i][j] <= remote[i][k])

(* Every row is a copy of an event of the instance's own ledger. *)
MirrorInLedger == \A i \in Instances : mirror[i] \subseteq Events(i)

(* A batch is part of its instance's ledger; once inserted, of the mirror. *)
BatchOK(p) ==
  /\ p.pc \in Polling =>
       /\ p.items \subseteq Events(p.inst)
       /\ p.fresh \subseteq mirror[p.inst]
  /\ p.pc = "advance" => p.items \subseteq mirror[p.inst]
  /\ p.pc \notin {"upsert", "advance"} => p.items = {}
  /\ p.pc # "advance" => p.fresh = {}

BatchesOK == \A c \in Cycles : BatchOK(cycle[c])

(* A position is absent or that of an event of the ledger. *)
IsPosition(i, ts, id) ==
  \/ ts = Null /\ id = Null
  \/ id \in Events(i) /\ ts = remote[i][id]

(* The newest event a cycle saw is mirrored or in the batch it will insert. *)
PositionOK(p) ==
  p.pc \in Polling =>
    /\ IsPosition(p.inst, p.ts, p.id)
    /\ p.id # Null => \/ p.id \in mirror[p.inst]
                      \/ p.pc = "upsert" /\ p.id \in p.items

WatermarkOK(i) ==
  /\ IsPosition(i, watermark[i].ts, watermark[i].id)
  /\ watermark[i].id # Null => watermark[i].id \in mirror[i]

PositionsOK ==
  /\ \A i \in Instances : WatermarkOK(i)
  /\ \A c \in Cycles : PositionOK(cycle[c])

(* Every counted row is counted once: the total is the size of a set of    *)
(* rows that no cycle is still about to count, and no two cycles are about *)
(* to count the same row.                                                  *)
Counted(i, C) ==
  /\ watermark[i].total = Cardinality(C)
  /\ \A c \in Cycles : PollsInstance(c, i) => C \cap cycle[c].fresh = {}

CountsOK ==
  /\ \A i \in Instances : \E C \in SUBSET mirror[i] : Counted(i, C)
  /\ \A i \in Instances, c, d \in Cycles :
       PollsInstance(c, i) /\ PollsInstance(d, i) /\ c # d =>
         cycle[c].fresh \cap cycle[d].fresh = {}

SafetyInv ==
  /\ TypeOK
  /\ LedgerOrdered
  /\ MirrorInLedger
  /\ BatchesOK
  /\ PositionsOK
  /\ CountsOK

(***************************************************************************)
(* Why a drain loses nothing while no call fails.  An event below a        *)
(* watermark that is not mirrored yet is still covered: some cycle holds   *)
(* it, that is, has it in its batch or will ask for it before it ends.     *)
(***************************************************************************)
After(since, t) == since = Null \/ since < t

Holds(p, k) ==
  LET t == remote[p.inst][k] IN
  /\ After(p.since, t)
  /\ \/ p.pc = "fetch" /\ (p.until = Null \/ t <= p.until)
     \/ p.pc = "upsert" /\ k \in p.items
     \/ p.pc \in {"upsert", "advance"} /\ Cardinality(p.items) = Limit /\ t < p.oldest

Covered(i, k) == \E c \in Cycles : PollsInstance(c, i) /\ Holds(cycle[c], k)

(* The bounds a cycle works with come from the watermark and the ledger. *)
BoundsOK(p) ==
  p.pc \in Polling =>
    /\ p.since # Null => \E e \in Events(p.inst) : p.since < remote[p.inst][e]
    /\ ~p.captured =>
         /\ p.pc \in {"fetch", "advance"}
         /\ p.until = Null /\ p.items = {}
         /\ p.since = Decrement(p.ts)
         /\ p.pc = "advance" => p.ts = Null
    /\ p.items # {} =>
         /\ \A k \in p.items : p.oldest <= remote[p.inst][k]
         /\ \E k \in p.items : p.oldest = remote[p.inst][k]

DrainInv ==
  faults = 0 =>
    /\ \A c \in Cycles : cycle[c].pc \notin {"fail", "hung"} /\ BoundsOK(cycle[c])
    /\ \A i \in Instances : \A k \in Events(i) \ mirror[i] :
         /\ remote[i][k] < watermark[i].ts => Covered(i, k)
         /\ \A c \in Cycles : PollsInstance(c, i) =>
              /\ ~After(cycle[c].since, remote[i][k]) => Covered(i, k)
              /\ /\ cycle[c].captured
                 /\ After(cycle[c].since, remote[i][k])
                 /\ remote[i][k] < cycle[c].ts
                 => Holds(cycle[c], k)

(***************************************************************************)
(* Why a ledger that fits one batch has no gap: the first batch is all of  *)
(* the window, and nothing outside it is missing, since the window starts  *)
(* where the watermark was.                                                *)
(***************************************************************************)
OneBatchOK(i) ==
  /\ Missing(i) = {}
  /\ \A c \in Cycles : PollsInstance(c, i) =>
       /\ \A k \in Below(i, cycle[c].ts) :
            cycle[c].pc = "upsert" /\ k \in cycle[c].items
       /\ ~cycle[c].captured =>
            /\ cycle[c].pc # "upsert" /\ cycle[c].items = {}
            /\ cycle[c].until = Null
            /\ cycle[c].since = Decrement(cycle[c].ts)

OneBatchInv == \A i \in Instances : Len(remote[i]) <= Limit => OneBatchOK(i)
=============================================================================
