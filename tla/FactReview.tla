------------------------------ MODULE FactReview ------------------------------
(***************************************************************************)
(* An operator's decisions about one fact, an (entityType, entityId, key)  *)
(* of Iranti: flagging an archived row for review and restoring it (routes *)
(* /control-plane/archivist), and resolving an escalated row by keeping    *)
(* the existing fact, accepting the challenger or writing a custom value   *)
(* (routes/control-plane/escalations).                                     *)
(*                                                                         *)
(* A restore is a transaction on a client of its own; a resolution is a    *)
(* sequence of statements that each commit.  All take their connections    *)
(* from one pool (db), which has few and gives up after a while.           *)
(*                                                                         *)
(* The database is not code of this repository: knowledge_base has one row *)
(* per fact, as ON CONFLICT in escalations and auth-keys requires, and a   *)
(* statement that needs a row another transaction has written waits.       *)
(***************************************************************************)
EXTENDS Naturals, FiniteSets, FiniteSetTheorems, TLAPS

CONSTANTS Archived,      \* rows of the archive for this fact
          Restores, Resolves,  \* the requests, by route
          IrantiValue,   \* a value Iranti gave the fact
          Void,
          PoolSize,      \* max of the pool
          MaxWrites,     \* bound: changes Iranti itself makes to the fact
          MaxFaults      \* bound: queries that fail

Reviews == Restores \cup Resolves

ASSUME ReviewAssumption ==
  /\ Restores \cap Resolves = {} /\ Archived \cap Resolves = {}
  /\ IrantiValue \notin Archived \cup Reviews
  /\ Void \notin Archived \cup Reviews \cup {IrantiValue}
  /\ PoolSize \in Nat \ {0}
  /\ MaxWrites \in Nat /\ MaxFaults \in Nat

VARIABLES kb,         \* the row of knowledge_base: its value and where its
                      \* validUntil lies; or NoFact
          validUntil, \* validUntil[a]: where the validUntil of row a lies
          flags,      \* archive_flags: the flagged rows
          resolution, \* resolution[a]: the resolutionState of row a, once
                      \* resolved the resolutionDetail
          lock,       \* the restore whose transaction has written the row
          tableKnown, \* staffEventsTableExists = true
          audited,    \* requests that wrote their event to staff_events
          target,     \* target[r]: the row a request is about
          choice,     \* choice[r]: the resolution request r asks for
          pc,         \* pc[r]: where request r is
          writes, faults

rows == <<kb, flags, resolution, lock>>
vars == <<rows, validUntil, tableKnown, audited, target, choice, pc, writes, faults>>

\* No validUntil, one in the future, one in the past.
Untils == {"none", "ahead", "past"}
NoFact == [value |-> Void, until |-> "past"]
Existing == [value |-> IrantiValue, until |-> "none"]
Expired == [value |-> IrantiValue, until |-> "past"]

\* A fact in force: it has no validUntil or that is yet to come.
Active(fact) == fact.until # "past"

Choices == {"keep_existing", "accept_challenger", "custom"}
Answers == {"restored", "notFlagged", "resolved", "alreadyResolved", "failed"}

\* The places in which a request has a connection of its own.
Holding == {"superseding", "inserting", "auditing", "committing", "writing"}
Free == Cardinality({r \in Reviews : pc[r] \in Holding}) < PoolSize

Init ==
  /\ kb \in {NoFact, Existing, Expired}
  /\ validUntil \in [Archived -> Untils]
  /\ flags \in SUBSET Archived
  /\ resolution \in [Archived -> {"none", "pending"}]
  /\ lock = Void
  /\ tableKnown \in BOOLEAN
  /\ audited = {}
  /\ target \in [Reviews -> Archived]
  /\ choice \in [Resolves -> Choices]
  /\ pc = [r \in Reviews |-> "idle"]
  /\ writes = 0 /\ faults = 0

Goto(r, where) == pc' = [pc EXCEPT ![r] = where]

\* A query rejects.
Fails == faults < MaxFaults /\ faults' = faults + 1

\* A query for which the pool has no connection fails after a timeout.
PoolFails == Fails \/ (~Free /\ UNCHANGED faults)

-----------------------------------------------------------------------------
(* External: Iranti writes the fact, or archives it. *)
IrantiWrites ==
  /\ writes < MaxWrites /\ lock = Void
  /\ writes' = writes + 1
  /\ kb' \in {NoFact, Existing}
  /\ UNCHANGED <<flags, resolution, lock, validUntil, tableKnown, audited, target, choice, pc, faults>>

(* External: the validUntil of row a passes, in knowledge_base too where a  *)
(* resolution has copied it.                                               *)
Elapse(a) ==
  /\ validUntil[a] = "ahead"
  /\ validUntil' = [validUntil EXCEPT ![a] = "past"]
  /\ kb' = IF kb = [value |-> a, until |-> "ahead"] THEN [kb EXCEPT !.until = "past"] ELSE kb
  /\ UNCHANGED <<flags, resolution, lock, tableKnown, audited, target, choice, pc, writes, faults>>

\* POST and DELETE /archive/:id/flag
Flag(a) ==
  /\ Free
  /\ flags' \in {flags \cup {a}, flags \ {a}}
  /\ UNCHANGED <<kb, resolution, lock, validUntil, tableKnown, audited, target, choice, pc, writes, faults>>

Receive(r) ==
  /\ pc[r] = "idle"
  /\ Goto(r, IF r \in Restores THEN "checking" ELSE "reading")
  /\ UNCHANGED <<rows, validUntil, tableKnown, audited, target, choice, writes, faults>>

-----------------------------------------------------------------------------
(* POST /archive/:id/restore *)

getFlagRow(r) ==
  /\ pc[r] = "checking" /\ Free
  /\ Goto(r, IF target[r] \in flags THEN "connecting" ELSE "notFlagged")
  /\ UNCHANGED <<rows, validUntil, tableKnown, audited, target, choice, writes, faults>>

Begin(r) ==
  /\ pc[r] = "connecting" /\ Free
  /\ Goto(r, "superseding")
  /\ UNCHANGED <<rows, validUntil, tableKnown, audited, target, choice, writes, faults>>

\* Mutant of Supersede: the statement is not part of the transaction.
SupersedeAutocommit(r) ==
  /\ pc[r] = "superseding"
  /\ lock = Void
  /\ kb' = [kb EXCEPT !.until = "past"]
  /\ Goto(r, "inserting")
  /\ UNCHANGED <<flags, resolution, lock, validUntil, tableKnown, audited, target, choice, writes, faults>>

\* Step 1: an UPDATE of the row if there is one.  Its effect is not seen before
\* the commit, which step 2 does not let it reach.
Supersede(r) ==
  /\ pc[r] = "superseding"
  /\ IF Active(kb) THEN lock = Void /\ lock' = r ELSE UNCHANGED lock
  /\ Goto(r, "inserting")
  /\ UNCHANGED <<kb, flags, resolution, validUntil, tableKnown, audited, target, choice, writes, faults>>

\* Mutant of Unlocked: no ROLLBACK.
UnlockedNever(r) == lock

Unlocked(r) == IF lock = r THEN Void ELSE lock

\* Step 2: the INSERT has no ON CONFLICT.
InsertFact(r) ==
  /\ pc[r] = "inserting"
  /\ lock \in {Void, r}
  /\ IF kb = NoFact
     THEN lock' = r /\ Goto(r, "auditing")
     ELSE lock' = Unlocked(r) /\ Goto(r, "failed")
  /\ UNCHANGED <<kb, flags, resolution, validUntil, tableKnown, audited, target, choice, writes, faults>>

\* Mutant of checkStaffEventsTable: the pool waits without a limit.
checkUnlimited(r) ==
  /\ pc[r] = "auditing"
  /\ tableKnown \/ Free
  /\ tableKnown' = TRUE
  /\ audited' = audited \cup {r}
  /\ Goto(r, "committing")
  /\ UNCHANGED <<rows, validUntil, target, choice, writes, faults>>

\* Step 3: the event is written if the table is known to exist, which a query
\* on another connection finds out.
checkStaffEventsTable(r) ==
  /\ pc[r] = "auditing"
  /\ \/ /\ tableKnown \/ Free
        /\ tableKnown' = TRUE
        /\ audited' = audited \cup {r}
        /\ UNCHANGED faults
     \/ /\ ~tableKnown /\ PoolFails
        /\ UNCHANGED <<tableKnown, audited>>
  /\ Goto(r, "committing")
  /\ UNCHANGED <<rows, validUntil, target, choice, writes>>

\* The INSERT names no validUntil.
Restored(r) ==
  /\ kb' = [value |-> target[r], until |-> "none"]
  /\ flags' = flags \ {target[r]}
  /\ lock' = Void
  /\ UNCHANGED <<resolution, validUntil, tableKnown, audited, target, choice, writes>>

\* Step 4 and COMMIT.
Commit(r) ==
  /\ pc[r] = "committing"
  /\ Restored(r)
  /\ Goto(r, "restored")
  /\ UNCHANGED faults

CommitUnacknowledged(r) ==
  /\ pc[r] = "committing" /\ Fails
  /\ Restored(r)
  /\ Goto(r, "failed")

\* Anything else fails: ROLLBACK, if a transaction has begun.
RestoreFails(r) ==
  /\ \/ pc[r] \in {"checking", "connecting"} /\ PoolFails
     \/ pc[r] \in Holding /\ Fails
  /\ lock' = Unlocked(r)
  /\ audited' = audited \ {r}
  /\ Goto(r, "failed")
  /\ UNCHANGED <<kb, flags, resolution, validUntil, tableKnown, target, choice, writes>>

-----------------------------------------------------------------------------
(* POST /escalations/:id/resolve *)

ReadEscalation(r) ==
  /\ pc[r] = "reading" /\ Free
  /\ Goto(r, IF resolution[target[r]] \in Choices THEN "alreadyResolved"
             ELSE IF choice[r] = "keep_existing" THEN "marking" ELSE "asking")
  /\ UNCHANGED <<rows, validUntil, tableKnown, audited, target, choice, writes, faults>>

\* The upsert gets a connection, and then the row.
SendUpsert(r) ==
  /\ pc[r] = "asking" /\ Free
  /\ Goto(r, "writing")
  /\ UNCHANGED <<rows, validUntil, tableKnown, audited, target, choice, writes, faults>>

\* A custom value has no validUntil, a challenger that of its row.
Decided(r) ==
  IF choice[r] = "custom" THEN [value |-> r, until |-> "none"]
  ELSE [value |-> target[r], until |-> validUntil[target[r]]]

Upsert(r) ==
  /\ pc[r] = "writing" /\ lock = Void
  /\ kb' = Decided(r)
  /\ Goto(r, "marking")
  /\ UNCHANGED <<flags, resolution, lock, validUntil, tableKnown, audited, target, choice, writes, faults>>

MarkResolved(r) ==
  /\ pc[r] = "marking" /\ Free
  /\ resolution' = [resolution EXCEPT ![target[r]] = choice[r]]
  /\ Goto(r, "logging")
  /\ UNCHANGED <<kb, flags, lock, validUntil, tableKnown, audited, target, choice, writes, faults>>

writeAuditLog(r) ==
  /\ pc[r] = "logging"
  /\ \/ Free /\ audited' = audited \cup {r} /\ UNCHANGED faults
     \/ PoolFails /\ UNCHANGED audited
  /\ Goto(r, "resolved")
  /\ UNCHANGED <<rows, validUntil, tableKnown, target, choice, writes>>

\* Mutant of ResolveFails: a rejected statement is skipped.
ResolveFailsUnnoticed(r) ==
  /\ pc[r] \in {"asking", "writing"}
  /\ Fails
  /\ Goto(r, "marking")
  /\ UNCHANGED <<rows, validUntil, tableKnown, audited, target, choice, writes>>

ResolveFails(r) ==
  /\ \/ pc[r] \in {"reading", "asking", "marking"} /\ PoolFails
     \/ pc[r] = "writing" /\ Fails
  /\ Goto(r, "failed")
  /\ UNCHANGED <<rows, validUntil, tableKnown, audited, target, choice, writes>>

ResolveUnacknowledged(r) ==
  /\ Fails
  /\ \/ /\ pc[r] = "writing" /\ lock = Void
        /\ kb' = Decided(r)
        /\ UNCHANGED resolution
     \/ /\ pc[r] = "marking"
        /\ resolution' = [resolution EXCEPT ![target[r]] = choice[r]]
        /\ UNCHANGED kb
  /\ Goto(r, "failed")
  /\ UNCHANGED <<flags, lock, validUntil, tableKnown, audited, target, choice, writes>>

-----------------------------------------------------------------------------
RestoreStep(r) ==
  \/ getFlagRow(r) \/ Begin(r) \/ Supersede(r) \/ InsertFact(r)
  \/ checkStaffEventsTable(r) \/ Commit(r) \/ CommitUnacknowledged(r)
  \/ RestoreFails(r)

ResolveStep(r) ==
  \/ ReadEscalation(r) \/ SendUpsert(r) \/ Upsert(r) \/ MarkResolved(r)
  \/ writeAuditLog(r) \/ ResolveFails(r) \/ ResolveUnacknowledged(r)

Next ==
  \/ IrantiWrites
  \/ \E a \in Archived : Elapse(a) \/ Flag(a)
  \/ \E r \in Reviews : Receive(r)
  \/ \E r \in Restores : RestoreStep(r)
  \/ \E r \in Resolves : ResolveStep(r)

Spec == Init /\ [][Next]_vars

(* A handler that can go on does, and the pool gives up on a connection after *)
(* its timeout; nothing makes a request arrive.                               *)
FairSpec ==
  /\ Spec
  /\ \A r \in Restores : WF_vars(RestoreStep(r))
  /\ \A r \in Resolves : WF_vars(ResolveStep(r))

-----------------------------------------------------------------------------
TypeOK ==
  /\ kb \in [value : Archived \cup Resolves \cup {IrantiValue, Void}, until : Untils]
  /\ validUntil \in [Archived -> Untils]
  /\ flags \subseteq Archived
  /\ resolution \in [Archived -> {"none", "pending"} \cup Choices]
  /\ lock \in Restores \cup {Void}
  /\ lock # Void => pc[lock] \in Holding
  /\ tableKnown \in BOOLEAN
  /\ audited \subseteq Reviews
  /\ target \in [Reviews -> Archived] /\ choice \in [Resolves -> Choices]
  /\ pc \in [Reviews -> Answers \cup Holding \cup {"idle", "checking",
               "connecting", "reading", "asking", "marking", "logging"}]
  /\ Cardinality({r \in Reviews : pc[r] \in Holding}) <= PoolSize
  /\ writes \in 0..MaxWrites /\ faults \in 0..MaxFaults

(* What ends a fact that is in force without a replacement in force.  A      *)
(* restore that fails is not among it: whatever goes wrong after the current *)
(* row was marked as superseded, no reader ever sees the fact ended.  Iranti *)
(* ends facts, and time does; and a challenger is accepted with the          *)
(* validUntil of its row, so that accepting one that had expired ends the    *)
(* fact it replaces and puts none in force.                                  *)
FactStaysInForce ==
  [][Active(kb) /\ ~Active(kb') =>
       \/ writes' # writes
       \/ validUntil' # validUntil /\ kb'.value = kb.value
       \/ \E r \in Resolves : /\ choice[r] = "accept_challenger" /\ kb' = Decided(r)
                              /\ validUntil[target[r]] = "past"]_vars

\* The row that request q writes.
Written(q) == IF q \in Resolves THEN Decided(q) ELSE [value |-> target[q], until |-> "none"]
Writers == {q \in Reviews : q \in Resolves => choice[q] # "keep_existing"}

(* A row is recorded as resolved by a new value only if that value has       *)
(* become the fact, valid for as long as its row says, and was replaced      *)
(* since, if at all, by that of another request: not when the statement that *)
(* writes it has failed.                                                     *)
DecisionIsInForce ==
  [][\A r \in Resolves \cap Writers :
       writes = 0 /\ pc[r] = "marking" /\ pc'[r] = "logging" =>
         \/ kb' = Decided(r)
         \/ \E q \in Writers \ {r} : pc[q] # "idle" /\ kb' = Written(q)]_vars

(* What comes to an end: the requests that are not answered yet.  Restores   *)
(* that hold all connections of the pool while they wait for another one, or *)
(* for each other's row, get on.                                             *)
Waits == {r \in Reviews : pc[r] \notin Answers \cup {"idle"}}

(* If two operators resolve the same escalation, "the second resolution will *)
(* fail".                                                                    *)
SecondResolutionFails ==
  \A q, r \in Resolves :
    pc[q] = "resolved" /\ pc[r] = "resolved" /\ target[q] = target[r] => q = r

-----------------------------------------------------------------------------
(***************************************************************************)
(* Proofs, for any numbers of archived rows, restores, resolutions,        *)
(* connections, writes of Iranti and failures.                             *)
(***************************************************************************)

(* The requests that have a connection.                                    *)
Connected == {r \in Reviews : pc[r] \in Holding}

PoolInv == IsFiniteSet(Connected) /\ Cardinality(Connected) <= PoolSize

(* A request is only where its route goes.                                 *)
RestorePlaces == {"idle", "checking", "connecting", "superseding", "inserting",
                  "auditing", "committing", "restored", "notFlagged", "failed"}
ResolvePlaces == {"idle", "reading", "asking", "writing", "marking", "logging",
                  "resolved", "alreadyResolved", "failed"}

PlacesInv ==
  /\ pc \in [Reviews -> RestorePlaces \cup ResolvePlaces]
  /\ \A r \in Restores : pc[r] \in RestorePlaces
  /\ \A r \in Resolves : pc[r] \in ResolvePlaces

(* A resolution that keeps the fact never gets to the statement that       *)
(* writes it.                                                              *)
WritersWrite == \A r \in Resolves : pc[r] \in {"asking", "writing"} => r \in Writers

(* As long as Iranti has written nothing, the fact is what a resolution    *)
(* that is about to be recorded has written, or what another request has   *)
(* put in force since.                                                     *)
InForce(r) ==
  \/ kb = Decided(r)
  \/ \E q \in Writers \ {r} : pc[q] # "idle" /\ kb = Written(q)

DecidedInv ==
  writes = 0 => \A r \in Resolves \cap Writers : pc[r] = "marking" => InForce(r)

ReviewInv == TypeOK /\ PoolInv /\ PlacesInv /\ WritersWrite /\ DecidedInv

(* What a step of a request does, whichever it is.                         *)
Moves(r) ==
  /\ pc' \in [Reviews -> RestorePlaces \cup ResolvePlaces]
  /\ \A q \in Reviews \ {r} : pc'[q] = pc[q]
  /\ pc'[r] # "idle"
  /\ pc'[r] \in Holding => pc[r] \in Holding \/ Free
  /\ flags' \subseteq Archived
  /\ tableKnown' \in BOOLEAN
  /\ audited' \subseteq Reviews
  /\ faults' \in 0..MaxFaults
  /\ UNCHANGED <<validUntil, target, choice, writes>>
-----------------------------------------------------------------------------
(* The steps. *)

(* A restore, from its arrival to its answer.                              *)
LEMMA RestoreMoves ==
  ASSUME ReviewInv, NEW r \in Restores, Receive(r) \/ RestoreStep(r)
  PROVE  /\ Moves(r)
         /\ pc'[r] \in RestorePlaces
         /\ kb' \in {kb, Written(r)}
         /\ lock' \in {lock, r, Void}
         /\ lock = r => pc'[r] \in Holding \/ lock' # r
         /\ lock' = r => pc'[r] \in Holding
         /\ UNCHANGED resolution
<1> USE ReviewAssumption DEF ReviewInv, TypeOK, PlacesInv, Moves, Goto, Holding,
                             RestorePlaces, ResolvePlaces, Reviews
<1>1. CASE Receive(r)
  BY <1>1 DEF Receive, rows
<1>2. CASE getFlagRow(r)
  BY <1>2 DEF getFlagRow, rows
<1>3. CASE Begin(r)
  BY <1>3 DEF Begin, rows
<1>4. CASE Supersede(r)
  BY <1>4 DEF Supersede
<1>5. CASE InsertFact(r)
  BY <1>5 DEF InsertFact, Unlocked
<1>6. CASE checkStaffEventsTable(r)
  <2>1. /\ pc[r] = "auditing" /\ pc' = [pc EXCEPT ![r] = "committing"]
        /\ audited' \subseteq Reviews /\ faults' \in 0..MaxFaults
        /\ UNCHANGED <<rows, validUntil, target, choice, writes>>
    BY <1>6 DEF checkStaffEventsTable, PoolFails, Fails
  <2>2. tableKnown' \in BOOLEAN
    BY <1>6 DEF checkStaffEventsTable
  <2> QED
    BY <2>1, <2>2 DEF rows
<1>7. CASE Commit(r)
  BY <1>7 DEF Commit, Restored, Written
<1>8. CASE CommitUnacknowledged(r)
  BY <1>8 DEF CommitUnacknowledged, Restored, Written, Fails
<1>9. CASE RestoreFails(r)
  BY <1>9 DEF RestoreFails, Unlocked, PoolFails, Fails
<1> QED
  BY <1>1, <1>2, <1>3, <1>4, <1>5, <1>6, <1>7, <1>8, <1>9 DEF RestoreStep

(* A resolution, from its arrival to its answer: it comes to the place     *)
(* where it is recorded by writing the fact, or without a decision to.     *)
LEMMA ResolveMoves ==
  ASSUME ReviewInv, NEW r \in Resolves, Receive(r) \/ ResolveStep(r)
  PROVE  /\ Moves(r)
         /\ pc'[r] \in ResolvePlaces
         /\ pc'[r] \in {"asking", "writing"} => r \in Writers
         /\ pc'[r] = "marking" => kb' = Decided(r) \/ r \notin Writers
         /\ kb' = kb \/ (kb' = Decided(r) /\ r \in Writers)
         /\ resolution' \in [Archived -> {"none", "pending"} \cup Choices]
         /\ UNCHANGED lock
<1> USE ReviewAssumption DEF ReviewInv, TypeOK, PlacesInv, WritersWrite, Moves, Goto,
                             Holding, RestorePlaces, ResolvePlaces, Reviews, Writers
<1>1. CASE Receive(r)
  BY <1>1 DEF Receive, rows
<1>2. CASE ReadEscalation(r)
  BY <1>2 DEF ReadEscalation, rows
<1>3. CASE SendUpsert(r)
  BY <1>3 DEF SendUpsert, rows
<1>4. CASE Upsert(r)
  BY <1>4 DEF Upsert
<1>5. CASE MarkResolved(r)
  BY <1>5 DEF MarkResolved
<1>6. CASE writeAuditLog(r)
  BY <1>6 DEF writeAuditLog, rows, PoolFails, Fails
<1>7. CASE ResolveFails(r)
  BY <1>7 DEF ResolveFails, rows, PoolFails, Fails
<1>8. CASE ResolveUnacknowledged(r)
  BY <1>8 DEF ResolveUnacknowledged, Fails
<1> QED
  BY <1>1, <1>2, <1>3, <1>4, <1>5, <1>6, <1>7, <1>8 DEF ResolveStep

(* The pool gives out no more connections than it has.                     *)
LEMMA PoolIsKept ==
  ASSUME ReviewInv, NEW r \in Reviews, Moves(r)
  PROVE  PoolInv'
<1>1. IsFiniteSet(Connected) /\ Cardinality(Connected) <= PoolSize
  BY DEF ReviewInv, PoolInv
<1>2. CASE pc'[r] \notin Holding
  <2>1. Connected' = Connected \ {r}
    BY <1>2 DEF Connected, Moves
  <2>2. Connected' \in SUBSET Connected
    BY <2>1
  <2>3. IsFiniteSet(Connected') /\ Cardinality(Connected') <= Cardinality(Connected)
    BY <1>1, <2>2, FS_Subset
  <2>4. Cardinality(Connected) \in Nat /\ Cardinality(Connected') \in Nat
    BY <1>1, <2>3, FS_CardinalityType
  <2> QED
    BY <1>1, <2>3, <2>4, ReviewAssumption DEF PoolInv
<1>3. CASE pc'[r] \in Holding
  <2>1. Connected' = Connected \cup {r}
    BY <1>3 DEF Connected, Moves
  <2>2. r \in Connected \/ Cardinality(Connected) < PoolSize
    BY <1>3 DEF Connected, Moves, Free
  <2>3. /\ IsFiniteSet(Connected')
        /\ Cardinality(Connected') = IF r \in Connected THEN Cardinality(Connected)
                                     ELSE Cardinality(Connected) + 1
    BY <1>1, <2>1, FS_AddElement
  <2>4. Cardinality(Connected) \in Nat
    BY <1>1, FS_CardinalityType
  <2> QED
    BY <1>1, <2>2, <2>3, <2>4, ReviewAssumption DEF PoolInv
<1> QED
  BY <1>2, <1>3

Facts == [value : Archived \cup Resolves \cup {IrantiValue, Void}, until : Untils]

(* What the steps write is a fact.                                         *)
LEMMA WrittenAreFacts ==
  /\ NoFact \in Facts /\ Existing \in Facts /\ Expired \in Facts
  /\ TypeOK => \A r \in Reviews : Written(r) \in Facts
<1>1. \A v \in Archived \cup Resolves \cup {IrantiValue, Void}, u \in Untils :
        [value |-> v, until |-> u] \in Facts
  BY DEF Facts
<1>0. "none" \in Untils /\ "past" \in Untils
  BY DEF Untils
<1>2. ASSUME TypeOK, NEW r \in Reviews
      PROVE  Written(r) \in Facts
  <2>1. target[r] \in Archived /\ validUntil[target[r]] \in Untils
    BY <1>2 DEF TypeOK
  <2>2. Decided(r) \in Facts \/ r \notin Resolves
    BY <1>0, <1>1, <2>1 DEF Decided
  <2> QED
    BY <1>0, <1>1, <2>1, <2>2 DEF Written
<1> QED
  BY <1>0, <1>1, <1>2 DEF NoFact, Existing, Expired

(* The types are kept.                                                     *)
LEMMA TypesAreKept ==
  ASSUME ReviewInv, [Next]_vars
  PROVE  TypeOK'
<1> USE ReviewAssumption DEF ReviewInv
<1>1. CASE IrantiWrites
  <2>1. writes' \in 0..MaxWrites /\ kb' \in {NoFact, Existing}
    BY <1>1 DEF IrantiWrites, TypeOK
  <2> QED
    BY <1>1, <2>1, WrittenAreFacts DEF IrantiWrites, TypeOK, Facts
<1>2. ASSUME NEW a \in Archived, Flag(a)
      PROVE  TypeOK'
  BY <1>2 DEF Flag, TypeOK
<1>6. ASSUME NEW a \in Archived, Elapse(a)
      PROVE  TypeOK'
  <2>1. kb' \in Facts /\ validUntil' \in [Archived -> Untils]
    BY <1>6 DEF Elapse, TypeOK, Facts, Untils
  <2> QED
    BY <1>6, <2>1 DEF Elapse, TypeOK, Facts
<1>3. ASSUME NEW r \in Restores, Receive(r) \/ RestoreStep(r)
      PROVE  TypeOK'
  <2>1. Cardinality(Connected') <= PoolSize
    BY <1>3, RestoreMoves, PoolIsKept DEF Reviews, PoolInv
  <2>2. lock' \in Restores \cup {Void} /\ (lock' # Void => pc'[lock'] \in Holding)
    BY <1>3, RestoreMoves DEF TypeOK, Moves, Reviews
  <2>3. kb' \in Facts
    BY <1>3, RestoreMoves, WrittenAreFacts DEF TypeOK, Facts, Reviews
  <2> QED
    BY <1>3, <2>1, <2>2, <2>3, RestoreMoves
    DEF TypeOK, Facts, Moves, Connected, RestorePlaces, ResolvePlaces, Answers, Holding
<1>4. ASSUME NEW r \in Resolves, Receive(r) \/ ResolveStep(r)
      PROVE  TypeOK'
  <2>1. Cardinality(Connected') <= PoolSize
    BY <1>4, ResolveMoves, PoolIsKept DEF Reviews, PoolInv
  <2>2. lock' # Void => pc'[lock'] \in Holding
    BY <1>4, ResolveMoves DEF TypeOK, Moves, Reviews
  <2>3. kb' \in Facts
    BY <1>4, ResolveMoves, WrittenAreFacts DEF TypeOK, Facts, Reviews, Written
  <2> QED
    BY <1>4, <2>1, <2>2, <2>3, ResolveMoves
    DEF TypeOK, Facts, Moves, Connected, RestorePlaces, ResolvePlaces, Answers, Holding
<1>5. CASE UNCHANGED vars
  BY <1>5 DEF vars, rows, TypeOK
<1> QED
  BY <1>1, <1>2, <1>3, <1>4, <1>5, <1>6 DEF Next, Reviews

(* A decision that is about to be recorded was put in force, and only      *)
(* another request has put something else there since.                     *)
LEMMA DecisionsAreKept ==
  ASSUME ReviewInv, [Next]_vars
  PROVE  DecidedInv'
<1>1. CASE IrantiWrites
  BY <1>1 DEF IrantiWrites, DecidedInv, ReviewInv, TypeOK
<1>2. CASE UNCHANGED <<kb, validUntil, pc, choice, target, writes>>
  BY <1>2 DEF ReviewInv, DecidedInv, InForce, Writers, Written, Decided
<1>3. ASSUME NEW r \in Reviews, Moves(r),
             kb' = kb \/ (kb' = Written(r) /\ r \in Writers),
             r \in Resolves /\ pc'[r] = "marking" => kb' = Written(r) \/ r \notin Writers
      PROVE  DecidedInv'
  <2>1. UNCHANGED <<validUntil, writes, target, choice>> /\ Writers' = Writers
        /\ \A q : Decided(q)' = Decided(q) /\ Written(q)' = Written(q)
    BY <1>3 DEF Moves, Writers, Decided, Written
  <2>2. ASSUME writes = 0, NEW q \in Resolves \cap Writers, pc'[q] = "marking"
        PROVE  InForce(q)'
    <3>1. CASE q = r
      BY <1>3, <2>1, <2>2, <3>1 DEF InForce, Written
    <3>2. CASE q # r
      <4>1. pc[q] = "marking" /\ InForce(q)
        BY <1>3, <2>2, <3>2 DEF Moves, Reviews, ReviewInv, DecidedInv
      <4>2. \A x \in Writers : pc[x] # "idle" => pc'[x] # "idle"
        BY <1>3 DEF Moves, Writers
      <4>3. pc'[r] # "idle"
        BY <1>3 DEF Moves
      <4> QED
        BY <1>3, <2>1, <3>2, <4>1, <4>2, <4>3 DEF InForce
    <3> QED
      BY <3>1, <3>2
  <2> QED
    BY <2>1, <2>2 DEF DecidedInv
<1>4. ASSUME NEW a \in Archived, Flag(a)
      PROVE  DecidedInv'
  BY <1>2, <1>4 DEF Flag
<1>8. ASSUME NEW a \in Archived, Elapse(a)
      PROVE  DecidedInv'
  <2>1. UNCHANGED <<pc, target, choice, writes>> /\ Writers' = Writers
    BY <1>8 DEF Elapse, Writers
  <2>2. ASSUME NEW q \in Reviews, kb = Written(q)
        PROVE  kb' = Written(q)'
    <3>2. target[q] \in Archived
      BY DEF ReviewInv, TypeOK
    <3>3. /\ validUntil' = [validUntil EXCEPT ![a] = "past"] /\ validUntil[a] = "ahead"
          /\ kb' = IF kb = [value |-> a, until |-> "ahead"] THEN [kb EXCEPT !.until = "past"] ELSE kb
          /\ validUntil \in [Archived -> Untils]
      BY <1>8 DEF Elapse, ReviewInv, TypeOK
    <3>4. CASE q \in Resolves /\ choice[q] # "custom" /\ target[q] = a
      BY <2>1, <2>2, <3>3, <3>4 DEF Written, Decided
    <3>5. CASE q \in Resolves /\ choice[q] # "custom" /\ target[q] # a
      BY <2>1, <2>2, <3>2, <3>3, <3>5 DEF Written, Decided
    <3>6. CASE q \in Resolves /\ choice[q] = "custom"
      BY <2>1, <2>2, <3>3, <3>6 DEF Written, Decided
    <3>7. CASE q \notin Resolves
      BY <2>1, <2>2, <3>3, <3>7 DEF Written
    <3> QED
      BY <3>4, <3>5, <3>6, <3>7
  <2>3. \A q \in Resolves : Written(q) = Decided(q) /\ Written(q)' = Decided(q)'
    BY DEF Written
  <2>4. ASSUME writes = 0, NEW q \in Resolves \cap Writers, pc[q] = "marking"
        PROVE  InForce(q)'
    <3>1. InForce(q)
      BY <2>4 DEF ReviewInv, DecidedInv
    <3>2. Writers \subseteq Reviews /\ Resolves \subseteq Reviews
      BY DEF Writers, Reviews
    <3> QED
      BY <2>1, <2>2, <2>3, <3>1, <3>2 DEF InForce
  <2> QED
    BY <2>1, <2>4 DEF DecidedInv
<1>5. ASSUME NEW r \in Restores, Receive(r) \/ RestoreStep(r)
      PROVE  DecidedInv'
  <2>1. r \in Reviews /\ r \notin Resolves /\ r \in Writers
    BY ReviewAssumption DEF Reviews, Writers
  <2> QED
    BY <1>3, <1>5, <2>1, RestoreMoves
<1>6. ASSUME NEW r \in Resolves, Receive(r) \/ ResolveStep(r)
      PROVE  DecidedInv'
  <2>1. r \in Reviews /\ Written(r) = Decided(r)
    BY DEF Reviews, Written
  <2> QED
    BY <1>3, <1>6, <2>1, ResolveMoves
<1>7. CASE UNCHANGED vars
  BY <1>2, <1>7 DEF vars, rows
<1> QED
  BY <1>1, <1>4, <1>5, <1>6, <1>7, <1>8 DEF Next, Reviews

LEMMA InitHasInv == Init => ReviewInv
<1> SUFFICES ASSUME Init
             PROVE  ReviewInv
  OBVIOUS
<1> USE ReviewAssumption DEF Init
<1>1. Connected = {}
  BY DEF Connected, Holding
<1>2. PoolInv
  BY <1>1, FS_EmptySet DEF PoolInv
<1>3. TypeOK
  <2>1. kb \in Facts
    BY WrittenAreFacts
  <2> QED
    BY <1>1, <1>2, <2>1 DEF TypeOK, PoolInv, Connected, Facts
<1>4. PlacesInv /\ WritersWrite /\ DecidedInv
  BY DEF PlacesInv, RestorePlaces, ResolvePlaces, Reviews, WritersWrite, DecidedInv
<1> QED
  BY <1>2, <1>3, <1>4 DEF ReviewInv

LEMMA StepKeepsInv == ReviewInv /\ [Next]_vars => ReviewInv'
<1> SUFFICES ASSUME ReviewInv, [Next]_vars
             PROVE  ReviewInv'
  OBVIOUS
<1>1. TypeOK' /\ DecidedInv'
  BY TypesAreKept, DecisionsAreKept
<1>2. PoolInv' /\ PlacesInv' /\ WritersWrite'
  <2>1. CASE UNCHANGED <<pc, choice>>
    BY <2>1 DEF ReviewInv, PoolInv, Connected, PlacesInv, WritersWrite, Writers
  <2>2. ASSUME NEW r \in Restores, Receive(r) \/ RestoreStep(r)
        PROVE  PoolInv' /\ PlacesInv' /\ WritersWrite'
    <3>1. r \in Reviews /\ Moves(r) /\ pc'[r] \in RestorePlaces /\ r \notin Resolves
      BY <2>2, RestoreMoves, ReviewAssumption DEF Reviews
    <3>2. PlacesInv' /\ WritersWrite'
      BY <3>1 DEF ReviewInv, Moves, PlacesInv, WritersWrite, Writers, Reviews
    <3> QED
      BY <3>1, <3>2, PoolIsKept
  <2>3. ASSUME NEW r \in Resolves, Receive(r) \/ ResolveStep(r)
        PROVE  PoolInv' /\ PlacesInv' /\ WritersWrite'
    <3>1. /\ r \in Reviews /\ Moves(r) /\ pc'[r] \in ResolvePlaces /\ r \notin Restores
          /\ pc'[r] \in {"asking", "writing"} => r \in Writers
      BY <2>3, ResolveMoves, ReviewAssumption DEF Reviews
    <3>2. PlacesInv' /\ WritersWrite'
      BY <3>1 DEF ReviewInv, Moves, PlacesInv, WritersWrite, Writers, Reviews
    <3> QED
      BY <3>1, <3>2, PoolIsKept
  <2>4. CASE IrantiWrites \/ (\E a \in Archived : Elapse(a) \/ Flag(a)) \/ UNCHANGED vars
    BY <2>1, <2>4 DEF IrantiWrites, Elapse, Flag, vars
  <2> QED
    BY <2>2, <2>3, <2>4 DEF Next, Reviews
<1> QED
  BY <1>1, <1>2 DEF ReviewInv
-----------------------------------------------------------------------------
(* The types of FactReview; of them, the pool gives out no more            *)
(* connections than it has, and a row is locked only by a restore that     *)
(* still has the connection of its transaction.                            *)
THEOREM TypeCorrect == Spec => []TypeOK
<1>1. ReviewInv => TypeOK
  BY DEF ReviewInv
<1> QED
  BY <1>1, InitHasInv, StepKeepsInv, PTL DEF Spec

(* The restore and resolve routes end a fact without a replacement in      *)
(* force in one case only, the acceptance of a challenger that had         *)
(* expired; one in force stays so, but for that, for what Iranti itself    *)
(* does and for its own validUntil.                                        *)
THEOREM FactsStay == Spec => FactStaysInForce
<1> DEFINE Ended == \/ writes' # writes
                    \/ validUntil' # validUntil /\ kb'.value = kb.value
                    \/ \E r \in Resolves : /\ choice[r] = "accept_challenger" /\ kb' = Decided(r)
                                           /\ validUntil[target[r]] = "past"
<1>1. ReviewInv /\ [Next]_vars => (Active(kb) /\ ~Active(kb') => Ended)
  <2> SUFFICES ASSUME ReviewInv, [Next]_vars, Active(kb), ~Active(kb')
               PROVE  Ended
    OBVIOUS
  <2>1. CASE IrantiWrites
    BY <2>1 DEF IrantiWrites, ReviewInv, TypeOK
  <2>2. kb' # kb
    OBVIOUS
  <2>3. ASSUME NEW r \in Restores, Receive(r) \/ RestoreStep(r)
        PROVE  FALSE
    <3>1. kb' = Written(r) /\ r \notin Resolves
      BY <2>2, <2>3, RestoreMoves, ReviewAssumption
    <3> QED
      BY <3>1 DEF Written, Active
  <2>4. ASSUME NEW r \in Resolves, Receive(r) \/ ResolveStep(r)
        PROVE  Ended
    <3>1. kb' = Decided(r) /\ r \in Writers /\ r \in Reviews
      BY <2>2, <2>4, ResolveMoves DEF Reviews
    <3>2. choice[r] \in Choices /\ choice[r] # "keep_existing"
      BY <3>1 DEF ReviewInv, TypeOK, Writers
    <3>3. choice[r] # "custom" /\ validUntil[target[r]] = "past"
      BY <3>1 DEF Decided, Active
    <3>4. choice[r] = "accept_challenger"
      BY <3>2, <3>3 DEF Choices
    <3> QED
      BY <3>1, <3>3, <3>4
  <2>5. ASSUME NEW a \in Archived, Elapse(a)
        PROVE  Ended
    <3>1. kb' = [kb EXCEPT !.until = "past"]
      BY <2>2, <2>5 DEF Elapse
    <3>2. kb'.value = kb.value
      BY <3>1 DEF ReviewInv, TypeOK
    <3>3. validUntil' # validUntil
      BY <2>5 DEF Elapse, ReviewInv, TypeOK
    <3> QED
      BY <3>2, <3>3
  <2>6. CASE (\E a \in Archived : Flag(a)) \/ UNCHANGED vars
    BY <2>2, <2>6 DEF Flag, vars, rows
  <2> QED
    BY <2>1, <2>3, <2>4, <2>5, <2>6 DEF Next, Reviews
<1> QED
  BY <1>1, InitHasInv, StepKeepsInv, PTL DEF Spec, FactStaysInForce

(* POST /escalations/:id/resolve: a row is recorded as resolved by a new   *)
(* value only once that value has become the fact, whichever requests      *)
(* interleave, whatever fails and however short the pool is.               *)
THEOREM DecisionsTakeForce == Spec => DecisionIsInForce
<1> DEFINE Recorded == \A r \in Resolves \cap Writers :
       writes = 0 /\ pc[r] = "marking" /\ pc'[r] = "logging" =>
         \/ kb' = Decided(r)
         \/ \E q \in Writers \ {r} : pc[q] # "idle" /\ kb' = Written(q)
<1>1. ReviewInv /\ [Next]_vars => Recorded
  <2> SUFFICES ASSUME ReviewInv, [Next]_vars, NEW r \in Resolves \cap Writers,
                      writes = 0, pc[r] = "marking", pc'[r] = "logging"
               PROVE  /\ kb' = kb
                      /\ InForce(r)
    BY DEF InForce
  <2>1. InForce(r)
    BY DEF ReviewInv, DecidedInv
  <2>2. kb' = kb
    <3>1. r \in Reviews
      BY DEF Reviews
    <3>2. CASE IrantiWrites
      BY <3>2 DEF IrantiWrites
    <3>3. CASE \E a \in Archived : Elapse(a) \/ Flag(a)
      BY <3>3 DEF Elapse, Flag
    <3>4. ASSUME NEW q \in Restores, Receive(q) \/ RestoreStep(q)
          PROVE  FALSE
      BY <3>1, <3>4, RestoreMoves, ReviewAssumption DEF Moves, Reviews
    <3>5. ASSUME NEW q \in Resolves, Receive(q) \/ ResolveStep(q)
          PROVE  kb' = kb
      <4>1. q = r
        BY <3>1, <3>5, ResolveMoves DEF Moves, Reviews
      <4> QED
        BY <3>5, <4>1 DEF Receive, ResolveStep, ReadEscalation, SendUpsert, Upsert, MarkResolved,
           writeAuditLog, ResolveFails, ResolveUnacknowledged, Goto, rows, ReviewInv, PlacesInv,
           Reviews
    <3>6. CASE UNCHANGED vars
      BY <3>6 DEF vars, rows
    <3> QED
      BY <3>2, <3>3, <3>4, <3>5, <3>6 DEF Next, Reviews
  <2> QED
    BY <2>1, <2>2
<1> QED
  BY <1>1, InitHasInv, StepKeepsInv, PTL DEF Spec, DecisionIsInForce
=============================================================================
