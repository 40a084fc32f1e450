----------------------------- MODULE KeyRegistry -----------------------------
(***************************************************************************)
(* What the key manager promises of an instance's registry of API keys: a  *)
(* key is created, rotated to a new secret or revoked, one key at a time   *)
(* and each in one step.                                                   *)
(***************************************************************************)
CONSTANTS KeyIds, Secrets, NoSecret

VARIABLE keys    \* keys[k]: the record of key k

Absent == [secret |-> NoSecret, isActive |-> FALSE]

Keys == [secret : Secrets, isActive : BOOLEAN]

Init == keys \in [KeyIds -> {Absent} \cup Keys]

Create(k, s) == keys' = [keys EXCEPT ![k] = [secret |-> s, isActive |-> TRUE]]

Revoke(k) ==
  /\ keys[k] # Absent
  /\ keys' = [keys EXCEPT ![k].isActive = FALSE]

Next == \E k \in KeyIds : Revoke(k) \/ \E s \in Secrets : Create(k, s)

Spec == Init /\ [][Next]_keys
=============================================================================
