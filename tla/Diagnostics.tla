----------------------------- MODULE Diagnostics -------------------------------
(* The diagnostics of an instance: routes/control-plane/diagnostics.ts, which *)
(* writes a probe fact to the instance and reads it back, and the panel of    *)
(* HealthDashboard.tsx that starts runs and shows the last one, while the     *)
(* operator selects another instance and a second tab starts runs too.        *)
EXTENDS Naturals

CONSTANTS Insts,        \* instances, the ids the selection offers
          MaxRuns,      \* runs started, a bound
          MaxSelects    \* selections, a bound

VARIABLES active,       \* the selected instance
          selects,      \* selections so far
          captured,     \* the instance the panel's runDiagnostics closes over
          running,      \* the run the panel waits for, 0 when not running
          fetching,     \* the answer to GET /last the panel waits for: [inst, run], or NoFetch
          lastRun,      \* run shown as "Last run", 0 for none
          result,       \* run shown in the results, 0 for none
          runs,         \* run |-> [inst, at, status], the server's
          fact,         \* instance |-> the value of its probe fact, 0 when it has none
          last          \* lastDiagnosticResult: instance |-> run, 0 for none

panel == <<active, selects, captured, running, fetching, lastRun, result>>
server == <<runs, fact, last>>
vars == <<panel, server>>

RunIds == 1..MaxRuns
Unsent == {r \in RunIds : runs[r].at = "unsent"}
Next1 == CHOOSE r \in Unsent : \A s \in Unsent : r <= s
NoFetch == [inst |-> "none", run |-> 0]

Init == /\ active \in Insts /\ selects = 0 /\ captured = active /\ running = 0
        /\ fetching = [inst |-> active, run |-> 0] /\ lastRun = 0 /\ result = 0
        /\ runs = [r \in RunIds |-> [inst |-> active, at |-> "unsent", status |-> "none"]]
        /\ fact = [i \in Insts |-> 0] /\ last = [i \in Insts |-> 0]
------------------------------------------------------------------------------
(* The panel. *)

\* The selection changes: the effect drops the answer it waited for and asks
\* for the last run of the new instance; nothing else is reset.
Select(i) == /\ i # active /\ selects < MaxSelects /\ selects' = selects + 1 /\ active' = i
             /\ fetching' = [inst |-> i, run |-> 0]
             /\ UNCHANGED <<captured, running, lastRun, result, server>>

\* fetchLast: no run of this server session is a 404, which shows nothing new.
FetchLast == /\ fetching # NoFetch /\ fetching' = NoFetch
             /\ lastRun' = (IF last[fetching.inst] = 0 THEN lastRun ELSE last[fetching.inst])
             /\ UNCHANGED <<active, selects, captured, running, result, server>>

\* runDiagnostics is made anew when running changes, not when the instance does.
Send(i) == runs' = [runs EXCEPT ![Next1] = [inst |-> i, at |-> "sent", status |-> "none"]]
runDiagnostics == /\ running = 0 /\ Unsent # {} /\ Send(captured) /\ running' = Next1 /\ captured' = active
                  /\ UNCHANGED <<active, selects, fetching, lastRun, result, fact, last>>

Receive == /\ running # 0 /\ runs[running].at = "answered" /\ running' = 0 /\ captured' = active
           /\ result' = running /\ lastRun' = running
           /\ UNCHANGED <<active, selects, fetching, server>>
AnswerLost == /\ running # 0 /\ running' = 0 /\ captured' = active
              /\ UNCHANGED <<active, selects, fetching, lastRun, result, server>>

\* Another tab, or the command palette of one.
OtherTab(i) == Unsent # {} /\ Send(i) /\ UNCHANGED <<panel, fact, last>>
------------------------------------------------------------------------------
(* The server. *)

Value(r) == 1          \* ROUNDTRIP_VALUE

\* writeDiagnosticFact of checkIngestRoundtrip.
WriteProbe(r) == /\ runs[r].at = "sent" /\ runs' = [runs EXCEPT ![r].at = "written"]
                 /\ fact' = [fact EXCEPT ![runs[r].inst] = Value(r)] /\ UNCHANGED <<panel, last>>

\* The run is answered when each of its checks has an outcome: the probe reads
\* back, or a check failed or timed out, which does not stop what it began.
Answered(r, status) == /\ runs' = [runs EXCEPT ![r].at = "answered", ![r].status = status]
                       /\ last' = [last EXCEPT ![runs[r].inst] = r] /\ UNCHANGED <<panel, fact>>
ReadProbe(r) == /\ runs[r].at = "written"
                /\ Answered(r, IF fact[runs[r].inst] = Value(r) THEN "pass" ELSE "fail")
TimedOut(r) == runs[r].at \in {"sent", "written"} /\ Answered(r, "fail")
LateWrite(r) == /\ runs[r].at = "answered" /\ runs[r].status = "fail" /\ fact[runs[r].inst] # Value(r)
                /\ fact' = [fact EXCEPT ![runs[r].inst] = Value(r)] /\ UNCHANGED <<panel, runs, last>>
------------------------------------------------------------------------------
Next == \/ \E i \in Insts : Select(i) \/ OtherTab(i)
        \/ FetchLast \/ runDiagnostics \/ Receive \/ AnswerLost
        \/ \E r \in RunIds : WriteProbe(r) \/ ReadProbe(r) \/ TimedOut(r) \/ LateWrite(r)

\* Every check has its timeout, so a run is answered, and its answer arrives.
Probing(r) == WriteProbe(r) \/ ReadProbe(r)
Fairness == /\ WF_vars(FetchLast) /\ WF_vars(Receive)
            /\ \A r \in RunIds : WF_vars(Probing(r))
Spec == Init /\ [][Next]_vars /\ Fairness
------------------------------------------------------------------------------
(* Properties. *)

\* Runs do not fail each other: what a run wrote reads back as it wrote it,
\* though another tab's run, or one that timed out, writes the same fact.
ProbeReadsBack == \A r \in RunIds : runs[r].at = "written" => fact[runs[r].inst] = Value(r)

\* The last run that is fetched is one of the selected instance, however fast
\* the operator changes the selection.
FetchedIsOfSelected ==
    fetching # NoFetch /\ fetching' = NoFetch /\ lastRun' # lastRun => runs[lastRun'].inst = active

\* What comes to an end: the run the button of the panel waits for.
Waits == IF running # 0 THEN {1} ELSE {}
================================================================================
