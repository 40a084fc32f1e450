-------------------------------- MODULE Health ---------------------------------
(* The health of one instance: the checks of routes/control-plane/health.ts   *)
(* and the dashboard of HealthDashboard.tsx that polls and ranks them.  What  *)
(* is wrong with the instance is a set of faults, which may change while a    *)
(* run of the checks is under way: those that query the database take their   *)
(* turns on the one connection of the run's pool.                             *)
EXTENDS Naturals, FiniteSets, Sequences

CONSTANTS MaxFaults,    \* faults at once, a bound
          MaxChanges    \* changes of the faults, a bound

Faults == {"no_url", "db_down", "unmigrated", "no_vector", "no_provider", "unknown_provider", "no_key",
           "no_project", "iranti_down", "no_table"}

VARIABLES faults,       \* what is wrong now
          changes,      \* changes so far
          run,          \* the statuses the run under way has, in the order of DbQueries; or Idle
          data          \* the response the dashboard shows: check |-> status, or NoData

vars == <<faults, changes, run, data>>

Names == <<"db_reachability", "db_schema_version", "vector_backend", "anthropic_key", "openai_key",
           "default_provider_configured", "mcp_integration", "claude_md_integration", "runtime_version",
           "staff_events_table">>     \* the order of runAllHealthChecks
DbQueries == <<"db_reachability", "db_schema_version", "vector_backend", "staff_events_table">>
Idle == <<"idle">>
NoData == [n \in {} |-> "ok"]

Init == /\ faults \in {f \in SUBSET Faults : Cardinality(f) <= MaxFaults}
        /\ changes = 0 /\ run = Idle /\ data = NoData
------------------------------------------------------------------------------
(* health.ts: the status a check gives. *)

Is(f) == f \in faults
NoDatabase == Is("no_url") \/ Is("db_down")
checkDbReachability == IF NoDatabase THEN "error" ELSE "ok"
checkDbSchemaVersion == IF NoDatabase \/ Is("unmigrated") THEN "warn" ELSE "ok"
Asked(missing) == IF Is("no_url") THEN "warn" ELSE IF Is("db_down") THEN "error"
                  ELSE IF Is(missing) THEN "warn" ELSE "ok"
checkVectorBackend == Asked("no_vector")
checkStaffEventsTable == Asked("no_table")
\* claude is the provider unless one of the provider's own faults is there
makeProviderKeyCheck == IF Is("no_key") /\ ~Is("no_provider") /\ ~Is("unknown_provider") THEN "warn" ELSE "ok"
checkDefaultProvider == IF Is("no_provider") THEN "warn" ELSE IF Is("unknown_provider") THEN "error" ELSE "ok"
summarizeProjectIntegration == IF Is("no_project") THEN "warn" ELSE "ok"
checkRuntimeVersion == IF Is("iranti_down") THEN "warn" ELSE "ok"

Status == [db_reachability |-> checkDbReachability, db_schema_version |-> checkDbSchemaVersion,
           vector_backend |-> checkVectorBackend, anthropic_key |-> makeProviderKeyCheck, openai_key |-> "ok",
           default_provider_configured |-> checkDefaultProvider, runtime_version |-> checkRuntimeVersion,
           mcp_integration |-> summarizeProjectIntegration, claude_md_integration |-> summarizeProjectIntegration,
           staff_events_table |-> checkStaffEventsTable]

\* computeOverall
Overall(d) == LET counted == DOMAIN d \ {"staff_events_table"} IN
    CASE \E n \in counted : d[n] = "error" -> "error"
      [] ~(\E n \in counted : d[n] = "error") /\ (\E n \in counted : d[n] = "warn") -> "degraded"
      [] OTHER -> "healthy"

\* GET /health: a run starts when the dashboard has none under way, on its
\* interval or on Refresh; it queries in turn and then answers.
Refetch == run = Idle /\ run' = <<>> /\ UNCHANGED <<faults, changes, data>>
Query == /\ run # Idle /\ Len(run) < Len(DbQueries)
         /\ run' = Append(run, Status[DbQueries[Len(run) + 1]])
         /\ UNCHANGED <<faults, changes, data>>
Response == [n \in DOMAIN Status |->
                IF \E i \in 1..Len(DbQueries) : DbQueries[i] = n
                THEN run[CHOOSE i \in 1..Len(DbQueries) : DbQueries[i] = n] ELSE Status[n]]
Answer == /\ run # Idle /\ Len(run) = Len(DbQueries) /\ run' = Idle
          /\ data' = Response /\ UNCHANGED <<faults, changes>>
------------------------------------------------------------------------------
(* HealthDashboard.tsx *)

Blocking == {"db_reachability", "db_schema_version", "vector_backend", "default_provider_configured"}
Expected == {"runtime_version", "staff_events_table", "mcp_integration", "claude_md_integration"}
classifyCheckSeverity(n, status) ==
    CASE status = "ok" -> "HEALTHY"
      [] status = "error" /\ n \in Blocking -> "CRITICAL"
      [] status = "warn" /\ n \in Expected -> "INFO"
      [] OTHER -> "WARNING"

Severities == <<"CRITICAL", "WARNING", "INFO", "HEALTHY">>
Of(severity) == LET Test(n) == n \in DOMAIN data /\ classifyCheckSeverity(n, data[n]) = severity
                IN  SelectSeq(Names, Test)

\* getSummaryStatus
Summary == CASE Of("CRITICAL") # <<>> -> "critical"
             [] Of("CRITICAL") = <<>> /\ Of("WARNING") # <<>> -> "warning"
             [] Of("CRITICAL") = <<>> /\ Of("WARNING") = <<>> /\ Of("INFO") # <<>> -> "operational"
             [] OTHER -> "healthy"

\* The cards: a stable sort by severitySortKey.
sortedChecks == Of("CRITICAL") \o Of("WARNING") \o Of("INFO") \o Of("HEALTHY")

\* getOperatorPriorities: at most three of the worst severity that occurs.
FirstThree(s) == SubSeq(s, 1, IF Len(s) < 3 THEN Len(s) ELSE 3)
Priorities == CASE Summary = "critical" -> FirstThree(Of("CRITICAL"))
                [] Summary = "warning" -> FirstThree(Of("WARNING"))
                [] Summary = "operational" -> FirstThree(Of("INFO"))
                [] OTHER -> <<>>
------------------------------------------------------------------------------
Change == /\ changes < MaxChanges /\ changes' = changes + 1
          /\ \E f \in Faults : faults' = IF f \in faults THEN faults \ {f} ELSE faults \cup {f}
          /\ Cardinality(faults') <= MaxFaults
          /\ UNCHANGED <<run, data>>

Next == Refetch \/ Query \/ Answer \/ Change
\* The dashboard polls every half minute and every query is answered or times out.
Fairness == WF_vars(Refetch \/ Query \/ Answer)
Spec == Init /\ [][Next]_vars /\ Fairness
------------------------------------------------------------------------------
(* Properties. *)

\* The page and the API agree on what is broken: the summary calls for action
\* exactly when the server's overall status is error, though the severities are
\* ranked by the client and the statuses by the server.
CriticalIffError == data # NoData => (Summary = "critical" <=> Overall(data) = "error")

\* What the operator is told to do first is what the cards show first.
PrioritiesAreFirstCards == \A i \in 1..Len(Priorities) : sortedChecks[i] = Priorities[i]

\* What comes to an end: a database that is gone without the dashboard saying
\* so, and everything being repaired without the dashboard showing it.
Waits == (IF (Is("db_down") \/ Is("no_url")) /\ Summary # "critical" THEN {1} ELSE {})
         \union (IF faults = {} /\ (data = NoData \/ Summary # "healthy") THEN {2} ELSE {})
================================================================================
