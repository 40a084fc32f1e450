--------------------------- MODULE CodexIntegration ----------------------------
(* The registration of Iranti with Codex: routes/control-plane/               *)
(* codex-integration.ts, the commands it runs through lib/codex-cli.ts under  *)
(* a timeout that ends a command but not what the command had started, and    *)
(* the panel (CodexIntegrationPanel.tsx) in several tabs. What `iranti        *)
(* codex-setup`, `iranti uninstall` and `codex mcp` do is external.           *)
EXTENDS Naturals

CONSTANTS Tabs,
          MaxActs       \* requests of all tabs and changes made elsewhere, a bound

VARIABLES installed,    \* resolveCodexCli finds the command
          registered,   \* Codex has the Iranti server in its configuration
          late,         \* commands that timed out and may still take effect
          request,      \* tab |-> [kind, at, inspected, ok] of its POST or DELETE
          seen,         \* tab |-> values of registered since its request was sent
          fetch,        \* tab |-> "none", "sent", or the answer to its GET
          data,         \* tab |-> what its panel shows
          failed,       \* tab |-> its last GET failed
          acts,         \* requests so far
          told          \* tab |-> its last request was answered ok and nothing has changed since

server == <<installed, registered, late>>
panel == <<fetch, data, failed>>
vars == <<server, request, seen, panel, acts, told>>

Kinds == {"setup", "remove"}
Idle == [kind |-> "none", at |-> "idle", inspected |-> TRUE, ok |-> FALSE]
\* checkIrantiRegistration: an inspection that fails reads as not registered.
Inspect == {IF registered THEN "registered" ELSE "unregistered", "unknown"}

Init == /\ installed \in BOOLEAN /\ registered \in BOOLEAN /\ late = {} /\ acts = 0
        /\ request = [t \in Tabs |-> Idle] /\ seen = [t \in Tabs |-> {}]
        /\ fetch = [t \in Tabs |-> "sent"] /\ data = [t \in Tabs |-> "none"]
        /\ failed = [t \in Tabs |-> FALSE] /\ told = [t \in Tabs |-> FALSE]

\* The configuration of Codex becomes v.
Becomes(v) == /\ registered' = v
              /\ seen' = [t \in Tabs |-> IF request[t].at = "idle" THEN seen[t] ELSE seen[t] \cup {v}]
              /\ told' = [t \in Tabs |-> told[t] /\ v = registered]
Stays == UNCHANGED <<registered, seen, told>>
At(t, at) == request' = [request EXCEPT ![t].at = at]
Answer(t, ok, inspected) == request' = [request EXCEPT ![t].at = "answered", ![t].ok = ok, ![t].inspected = inspected]
------------------------------------------------------------------------------
(* The routes. *)

\* Without Codex there is nothing to register with, and nothing to remove; a
\* lookup that takes more than 3 s reads as if it were not there.
Resolve(t) == /\ request[t].at = "resolve" /\ Stays /\ UNCHANGED <<installed, late, panel, acts>>
              /\ \/ installed /\ At(t, "command")
                 \/ Answer(t, request[t].kind = "remove", ~installed)

\* runIrantiCommand: `codex-setup`, or `uninstall --target codex`. The removal
\* goes on after a failure of the command, the registration reports it.
Ended(t, done) == IF request[t].kind = "setup" THEN Answer(t, done, TRUE) ELSE At(t, "check")
RunCommand(t) == /\ request[t].at = "command" /\ UNCHANGED <<installed, panel, acts>>
                 /\ \/ Becomes(request[t].kind = "setup") /\ Ended(t, TRUE) /\ UNCHANGED late
                    \/ Stays /\ Ended(t, FALSE) /\ UNCHANGED late
                    \/ Stays /\ Ended(t, FALSE) /\ late' = late \cup {request[t].kind}
LateEffect(k) == /\ k \in late /\ late' = late \ {k} /\ Becomes(k = "setup")
                 /\ UNCHANGED <<installed, request, panel, acts>>

Check(t) == /\ request[t].at = "check" /\ Stays /\ UNCHANGED <<installed, late, panel, acts>>
            /\ \E found \in Inspect : IF found = "registered" THEN At(t, "fallback")
                                      ELSE Answer(t, TRUE, found = "unregistered")

\* `codex mcp remove iranti`: done, refused because it is not registered, or failed.
Fallback(t) == /\ request[t].at = "fallback" /\ UNCHANGED <<installed, late, panel, acts>>
               /\ \/ Becomes(FALSE) /\ Answer(t, TRUE, TRUE)
                  \/ Stays /\ Answer(t, ~registered, TRUE)
                  \/ Stays /\ Answer(t, FALSE, TRUE)

\* GET: 500 when a command cannot be run.
Get(t) == /\ fetch[t] = "sent" /\ UNCHANGED <<server, request, seen, data, failed, acts, told>>
          /\ \E r \in (IF installed THEN Inspect ELSE {}) \cup {"missing", "error"} :
                 fetch' = [fetch EXCEPT ![t] = r]
------------------------------------------------------------------------------
(* The panel. *)

Act(t, k) == /\ request[t].at = "idle" /\ acts < MaxActs /\ acts' = acts + 1 /\ data[t] # "none"
             /\ k = "setup" => data[t] \in {"unregistered", "unknown"}
             /\ k = "remove" => data[t] = "registered"
             /\ request' = [request EXCEPT ![t] = [Idle EXCEPT !.kind = k, !.at = "resolve"]]
             /\ seen' = [seen EXCEPT ![t] = {registered}] /\ told' = [told EXCEPT ![t] = FALSE]
             /\ UNCHANGED <<server, panel>>

\* doSetup, doRemove: invalidateQueries and refetch drop a GET under way and send
\* another, only after an answer that says ok.
Receive(t) == /\ request[t].at = "answered" /\ request' = [request EXCEPT ![t] = Idle]
              /\ fetch' = (IF request[t].ok THEN [fetch EXCEPT ![t] = "sent"] ELSE fetch)
              /\ told' = [told EXCEPT ![t] = request[t].ok /\ registered = (request[t].kind = "setup")]
              /\ seen' = [seen EXCEPT ![t] = {}] /\ UNCHANGED <<server, data, failed, acts>>
Lost(t) == /\ request[t].at = "answered" /\ request' = [request EXCEPT ![t] = Idle]
           /\ seen' = [seen EXCEPT ![t] = {}] /\ UNCHANGED <<server, panel, acts, told>>

Load(t) == /\ fetch[t] \notin {"none", "sent"} /\ fetch' = [fetch EXCEPT ![t] = "none"]
           /\ failed' = [failed EXCEPT ![t] = fetch[t] = "error"]
           /\ data' = (IF fetch[t] = "error" THEN data ELSE [data EXCEPT ![t] = fetch[t]])
           /\ UNCHANGED <<server, request, seen, acts, told>>
\* The data is stale after 30 s: the next focus of the window asks again.
Refocus(t) == /\ fetch[t] = "none" /\ fetch' = [fetch EXCEPT ![t] = "sent"]
              /\ UNCHANGED <<server, request, seen, data, failed, acts, told>>
\* Another browser, or a terminal: `codex mcp add` and `remove`.
Elsewhere == /\ installed /\ acts < MaxActs /\ acts' = acts + 1 /\ Becomes(~registered)
             /\ UNCHANGED <<installed, late, request, panel>>
------------------------------------------------------------------------------
Next == \/ \E t \in Tabs : \/ Resolve(t) \/ RunCommand(t) \/ Check(t) \/ Fallback(t) \/ Get(t)
                           \/ (\E k \in Kinds : Act(t, k)) \/ Receive(t) \/ Lost(t) \/ Load(t) \/ Refocus(t)
        \/ (\E k \in Kinds : LateEffect(k)) \/ Elsewhere
Spec == Init /\ [][Next]_vars
------------------------------------------------------------------------------
(* Properties. *)

\* "ok" is true: while the request ran there was a moment at which Codex had the
\* registration, or had it no more, though other tabs and commands that timed
\* out changed it meanwhile. Left out are the removals whose lookup of Codex
\* or inspection failed, which codex-integration.ts:151 and :170 answer as if
\* nothing had been registered.
OkIsTrue == \A t \in Tabs : LET r == request[t] IN
    r.at = "answered" /\ r.ok /\ r.inspected /\ installed => (r.kind = "setup") \in seen[t]

\* What the panel shows after an action that succeeded is what the action left,
\* though a GET sent before it is answered after it.
DoneIsShown == \A t \in Tabs :
    told[t] /\ fetch[t] = "none" /\ ~failed[t] /\ data[t] \in {"registered", "unregistered"}
        => (data[t] = "registered") = registered
================================================================================
