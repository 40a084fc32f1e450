------------------------------ MODULE AuthKeys ------------------------------
(***************************************************************************)
(* Creating and revoking the API keys of an instance (routes/control-      *)
(* plane/auth-keys).  All keys of an instance are one JSON value in one    *)
(* row: a request loads it, edits its copy and saves the whole, each with  *)
(* a query of its own, outside any transaction.                            *)
(*                                                                         *)
(* A create makes a fresh secret, named here by its request; the row keeps *)
(* its hash and the answer carries the only copy of the token.  Owners,    *)
(* scopes, descriptions and times are left out.                            *)
(***************************************************************************)
EXTENDS Naturals

CONSTANTS KeyIds,
          Requests,
          CliSecret,   \* the secret of a key `iranti auth create-key` made
          NoSecret,
          Serialised,  \* the clients wait for each answer before they ask again
          MaxFaults    \* bound: failed queries and file writes

Secrets == Requests \cup {CliSecret}

ASSUME AuthKeysAssumption ==
  /\ CliSecret \notin Requests
  /\ NoSecret \notin Secrets
  /\ Serialised \in BOOLEAN
  /\ MaxFaults \in Nat

VARIABLES registry,  \* the row: registry[k] is the record of key k
          pc,        \* pc[r]: where request r is
          op,        \* op[r]: what request r asks for
          snapshot,  \* snapshot[r]: the registry as request r loaded it
          project,   \* IRANTI_API_KEY in the project's .env.iranti
          faults     \* failures so far, up to MaxFaults

vars == <<registry, pc, op, snapshot, project, faults>>

KR == INSTANCE KeyRegistry WITH keys <- registry
Absent == KR!Absent
Registries == [KeyIds -> {Absent} \cup KR!Keys]

Ops == [kind : {"create", "revoke"}, key : KeyIds, syncToProject : BOOLEAN]
Answers == {"created", "warned", "revoked", "notFound", "failed"}

Init ==
  /\ registry \in [KeyIds -> {Absent} \cup [secret : {CliSecret}, isActive : BOOLEAN]]
  /\ pc = [r \in Requests |-> "idle"]
  /\ op \in [Requests -> Ops]
  /\ snapshot = [r \in Requests |-> registry]
  /\ project = NoSecret
  /\ faults = 0

Goto(r, where) == pc' = [pc EXCEPT ![r] = where]

Fault == faults < MaxFaults /\ faults' = faults + 1

\* The request arrives; its handler has resolved the instance.
Receive(r) ==
  /\ pc[r] = "idle"
  /\ Serialised => \A q \in Requests : pc[q] \in Answers \cup {"idle"}
  /\ Goto(r, "loading")
  /\ UNCHANGED <<registry, op, snapshot, project, faults>>

loadRegistry(r) ==
  /\ pc[r] = "loading"
  /\ snapshot' = [snapshot EXCEPT ![r] = registry]
  /\ Goto(r, IF op[r].kind = "revoke" /\ registry[op[r].key] = Absent
             THEN "notFound" ELSE "saving")
  /\ UNCHANGED <<registry, op, project, faults>>

LoadFails(r) ==
  /\ pc[r] = "loading"
  /\ Fault
  /\ Goto(r, "failed")
  /\ UNCHANGED <<registry, op, snapshot, project>>

\* Mutant of Edited: a create only activates the record there is.
EditedActivates(r) ==
  [snapshot[r] EXCEPT ![op[r].key].isActive = op[r].kind = "create"]

\* Mutant of Edited: a revoked key leaves the registry.
EditedRevokeDrops(r) ==
  [snapshot[r] EXCEPT ![op[r].key] =
     IF op[r].kind = "create" THEN [secret |-> r, isActive |-> TRUE] ELSE Absent]

\* The registry a request saves: its copy with one record replaced.
Edited(r) ==
  IF op[r].kind = "create"
  THEN [snapshot[r] EXCEPT ![op[r].key] = [secret |-> r, isActive |-> TRUE]]
  ELSE [snapshot[r] EXCEPT ![op[r].key].isActive = FALSE]

AfterSave(r) ==
  IF op[r].kind = "revoke" THEN "revoked"
  ELSE IF op[r].syncToProject THEN "syncing" ELSE "created"

saveRegistry(r) ==
  /\ pc[r] = "saving"
  /\ registry' = Edited(r)
  /\ Goto(r, AfterSave(r))
  /\ UNCHANGED <<op, snapshot, project, faults>>

\* Mutant of SaveFails: the handler goes on.
SaveFailsUnnoticed(r) ==
  /\ pc[r] = "saving"
  /\ Fault
  /\ Goto(r, AfterSave(r))
  /\ UNCHANGED <<registry, op, snapshot, project>>

\* The save fails, before or after the database has made it.
SaveFails(r) ==
  /\ pc[r] = "saving"
  /\ Fault
  /\ registry' \in {registry, Edited(r)}
  /\ Goto(r, "failed")
  /\ UNCHANGED <<op, snapshot, project>>

syncTokenToProject(r) ==
  /\ pc[r] = "syncing"
  /\ project' = r
  /\ Goto(r, "created")
  /\ UNCHANGED <<registry, op, snapshot, faults>>

SyncFails(r) ==
  /\ pc[r] = "syncing"
  /\ Fault
  /\ Goto(r, "warned")
  /\ UNCHANGED <<registry, op, snapshot, project>>

Step(r) ==
  \/ Receive(r) \/ loadRegistry(r) \/ LoadFails(r) \/ saveRegistry(r)
  \/ SaveFails(r) \/ syncTokenToProject(r) \/ SyncFails(r)

Next == \E r \in Requests : Step(r)

Spec == Init /\ [][Next]_vars

-----------------------------------------------------------------------------
TypeOK ==
  /\ registry \in Registries
  /\ pc \in [Requests -> Answers \cup {"idle", "loading", "saving", "syncing"}]
  /\ op \in [Requests -> Ops]
  /\ snapshot \in [Requests -> Registries]
  /\ project \in Requests \cup {NoSecret}
  /\ faults \in 0..MaxFaults

(* The stepwise registry implements the one that changes one key in one step *)
(* (for clients that wait).                                                  *)
RegistrySpec == KR!Spec

(* A token that is handed out, in the answer of a create or in the project's *)
(* file, is that of an active key of the registry at that time.              *)
TokenIsActive(r) ==
  registry[op[r].key] = [secret |-> r, isActive |-> TRUE]

CreatedTokenIsRegistered ==
  [][\A r \in Requests :
       /\ pc[r] = "syncing" /\ pc'[r] \in {"created", "warned"} => TokenIsActive(r)
       /\ pc[r] = "saving" /\ pc'[r] \in {"created", "syncing"} => TokenIsActive(r)']_vars

(* A revoked key stays revoked unless someone creates it anew.               *)
RevokedStaysRevoked ==
  [][\A k \in KeyIds :
       registry[k] # Absent /\ ~registry[k].isActive /\ registry'[k].isActive
         => \E r \in Requests : op[r] \in [kind : {"create"}, key : {k},
                                            syncToProject : BOOLEAN]
                                /\ pc[r] = "saving" /\ pc'[r] # "saving"]_vars
=============================================================================
