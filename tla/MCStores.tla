------------------------------ MODULE MCStores ------------------------------
(***************************************************************************)
(* The stores that outlive a request of the control plane, on small        *)
(* instances: the API keys of an instance (AuthKeys), the instances and    *)
(* their project bindings (Instances), and the staff events that the       *)
(* adapter writes and the streams read (StaffActivity).  They share        *)
(* nothing, so a behaviour works on one of them, and the others stay as    *)
(* they begin: interleaving them would multiply states and show nothing    *)
(* more.                                                                   *)
(***************************************************************************)
EXTENDS AuthKeys, Instances, StaffActivity, TLC

CONSTANTS q1, q2, a, b

VARIABLE part

everything == <<part, vars, diskVars, activityVars>>

(* What is proved of the adapter and the stream applies to this instance.  *)
ASSUME ActivityAssumption ==
  /\ Adapter!AdapterAssumption /\ Stream!StreamAssumption
  /\ AdapterLimit <= InsertMax /\ 0..MaxTime \subseteq InsertDelays
-----------------------------------------------------------------------------
(* Initial states of a part that a behaviour leaves alone.                 *)

KeysAtRest ==
  /\ registry = [k \in KeyIds |-> Absent]
  /\ pc = [r \in Requests |-> "idle"]
  /\ op = [r \in Requests |-> [kind |-> "revoke", key |-> CHOOSE k \in KeyIds : TRUE,
                                syncToProject |-> FALSE]]
  /\ snapshot = [r \in Requests |-> registry]
  /\ project = NoSecret
  /\ faults = 0

DiskAtRest ==
  /\ dir = [x \in Roots |-> [n \in Names |-> NoFile]]
  /\ binding = [x \in Projects |-> NoFile]
  /\ job = [r \in Slots |-> NoJob]
  /\ database = {} /\ running = {} /\ doomed = {}
  /\ served = 0 /\ careful = TRUE /\ failures = 0

ActivityAtRest == ActivityInit /\ resume = "header"

MCInit ==
  \/ part = "keys" /\ Init /\ DiskAtRest /\ ActivityAtRest
  \/ part = "disk" /\ KeysAtRest /\ DiskInit /\ ActivityAtRest
  \/ part = "staff" /\ KeysAtRest /\ DiskAtRest /\ ActivityInit

\* A bound: three requests, or two and a failure.
Bounded == served' + failures' <= 3

MCNext ==
  \/ part = "keys" /\ Next /\ UNCHANGED <<part, diskVars, activityVars>>
  \/ part = "disk" /\ DiskNext /\ Bounded /\ UNCHANGED <<part, vars, activityVars>>
  \/ part = "staff" /\ ActivityNext /\ UNCHANGED <<part, vars, diskVars>>

MCSpec == MCInit /\ [][MCNext]_everything

Alike == Permutations({q1, q2}) \cup Permutations({a, b})
=============================================================================
