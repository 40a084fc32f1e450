------------------------------ MODULE Providers ------------------------------
(* The provider settings of one instance: routes/control-plane/providers.ts  *)
(* with its two caches, and the page of ProviderManager.tsx.  A request reads *)
(* the env file once, asks the providers one by one, and others write the     *)
(* file meanwhile.                                                            *)
EXTENDS Naturals, FiniteSets

CONSTANTS Provs,       \* providers with a key
          Reqs,        \* GET /providers requests in flight, a bound
          MaxWrites    \* key writes, a bound; each writes a key of its own

VARIABLES keys,      \* provider |-> the key in the env file, 0 when there is none
          written,   \* keys written so far
          reach,     \* reachabilityCache: provider |-> [of, reachable]
          quota,     \* quotaCache: provider |-> the key it was made with, 0 when there is none
          gets,      \* request |-> its state, see NoGet
          shown,     \* the data of the page's query
          overtaken  \* providers whose key changed while a check of the old one went on

settings == <<keys, written>>
vars == <<settings, reach, quota, gets, shown, overtaken>>

NoEntry == [of |-> 0, reachable |-> FALSE]
NoGet == [at |-> "free", refresh |-> FALSE, keys |-> [p \in Provs |-> 0],
          todo |-> {}, up |-> {}, cached |-> {}]

Init == /\ keys = [p \in Provs |-> 0] /\ written = 0
        /\ reach = [p \in Provs |-> NoEntry] /\ quota = [p \in Provs |-> 0]
        /\ gets = [r \in Reqs |-> NoGet]
        /\ shown = [keys |-> {}, up |-> {}]
        /\ overtaken = {}
------------------------------------------------------------------------------
(* Writes. *)

\* writeEnvVarForScope and the removal of the cached reachability.
Checks(p) == {r \in Reqs : gets[r].at = "checking" /\ p \in gets[r].todo}
SetKeyTo(p, k) == /\ keys' = [keys EXCEPT ![p] = k]
                  /\ reach' = [reach EXCEPT ![p] = NoEntry]
                  /\ overtaken' = IF Checks(p) = {} THEN overtaken ELSE overtaken \union {p}
                  /\ UNCHANGED <<quota, gets, shown>>

\* PUT and DELETE /providers/:providerId/key, of a known provider, not a placeholder.
PutKey(p) == written < MaxWrites /\ written' = written + 1 /\ SetKeyTo(p, written')
DeleteKey(p) == UNCHANGED written /\ SetKeyTo(p, 0)
------------------------------------------------------------------------------
(* GET /providers *)

\* The page asks on its own, or the operator presses Refresh now.
Ask(r) == /\ gets[r].at = "free"
          /\ \E b \in BOOLEAN : gets' = [gets EXCEPT ![r] = [NoGet EXCEPT !.at = "sent", !.refresh = b]]
          /\ UNCHANGED <<settings, reach, quota, shown, overtaken>>

\* The handler up to its checks: it reads the file, and takes from the cache
\* what is there for the providers that have a key.
Start(r) ==
    /\ gets[r].at = "sent"
    /\ LET present == {p \in Provs : keys[p] # 0}
           hits == {p \in present : reach[p] # NoEntry}
       IN  gets' = [gets EXCEPT ![r] = [@ EXCEPT
                      !.at = "checking", !.keys = keys, !.todo = present \ hits,
                      !.up = {p \in hits : reach[p].reachable}, !.cached = hits]]
    /\ UNCHANGED <<settings, reach, quota, shown, overtaken>>

\* checkReachability ends with an answer below 500, any other, or a time-out of
\* five seconds, and the cache takes the result whatever the file says by now.
Checked(r, p) ==
    /\ gets[r].at = "checking" /\ p \in gets[r].todo
    /\ \E ok \in BOOLEAN :
         /\ reach' = [reach EXCEPT ![p] = [of |-> gets[r].keys[p], reachable |-> ok]]
         /\ gets' = [gets EXCEPT ![r].todo = @ \ {p}, ![r].up = IF ok THEN @ \union {p} ELSE @]
    /\ UNCHANGED <<settings, quota, shown, overtaken>>

Answer(r) ==
    /\ gets[r].at = "checking" /\ gets[r].todo = {}
    /\ shown' = [keys |-> {p \in Provs : gets[r].keys[p] # 0}, up |-> gets[r].up]
    /\ gets' = [gets EXCEPT ![r] = NoGet]
    /\ UNCHANGED <<settings, reach, quota, overtaken>>

\* A minute passes: REACHABILITY_TTL_MS.
Expire(p) == /\ reach[p] # NoEntry /\ reach' = [reach EXCEPT ![p] = NoEntry]
             /\ overtaken' = overtaken \ (IF Checks(p) = {} THEN {p} ELSE {})
             /\ UNCHANGED <<settings, quota, gets, shown>>

\* GET /:instanceId/providers/:providerId/quota: the cache first, then the key,
\* and an entry when the provider told its limits.
GetQuota(p) == /\ quota[p] = 0 /\ keys[p] # 0 /\ quota' = [quota EXCEPT ![p] = keys[p]]
               /\ UNCHANGED <<settings, reach, gets, shown, overtaken>>
QuotaExpires(p) == /\ quota[p] # 0 /\ quota' = [quota EXCEPT ![p] = 0]
                   /\ UNCHANGED <<settings, reach, gets, shown, overtaken>>
------------------------------------------------------------------------------
Next == \/ \E p \in Provs : PutKey(p) \/ DeleteKey(p) \/ Expire(p) \/ GetQuota(p) \/ QuotaExpires(p)
        \/ \E r \in Reqs : Ask(r) \/ Start(r) \/ Answer(r) \/ \E p \in Provs : Checked(r, p)

Answering(r) == Start(r) \/ Answer(r) \/ \E p \in Provs : Checked(r, p)
Fairness == \A r \in Reqs : WF_vars(Answering(r))
Spec == Init /\ [][Next]_vars /\ Fairness
------------------------------------------------------------------------------
(* Properties. *)

\* A cached reachability is of the key that the env file holds, unless the key
\* was written while a check of the old one went on: deleting the entry on a
\* write, as PUT and DELETE do, leaves that one way for an old answer to stay.
CacheIsOfKey == \A p \in Provs : reach[p] # NoEntry /\ reach[p].of # keys[p] => p \in overtaken

\* The page never says reachable of a provider that it says has no key, though
\* the cache may hold the answer for a key that has been removed since.
ReachableHasKey == shown.up \subseteq shown.keys

\* What comes to an end: every request of the page, for each check ends by its
\* time-out.  Requests are numbered.
Waits == {r \in Reqs : gets[r].at # "free"}
===============================================================================
