--------------------------- MODULE ProviderRouting ---------------------------
(* The provider settings of the instances: the panels of ProviderManager.tsx  *)
(* for the default provider and the fallback chain, RoutingEditor.tsx for the *)
(* models of the tasks, and the routes of routes/control-plane/providers.ts   *)
(* that write them.  Each panel edits a draft that follows the data of the    *)
(* page's query; others write the env files meanwhile.                        *)
EXTENDS Naturals, Sequences, Functions

CONSTANTS Insts, First,   \* the instances, and the one active at first
          Provs, Claude,  \* known provider ids
          Legacy,         \* "anthropic", which stands for Claude
          None,
          Detected,       \* the provider GET /providers names when none is set
          Models,         \* overrides of the one task modelled
          Files,          \* what the env files may hold at first
          MaxSteps,       \* edits, saves and changes by others, a bound
          MaxChain        \* length of the chain, a bound

VARIABLES file,   \* instance |-> the settings in its env file
          data,   \* instance |-> what the page's query holds of them, or NoData
          req,    \* instance |-> the GET under way
          inst,   \* the active instance
          draft,  \* what the panels hold, or NoData when they are not there
          jobs,   \* kind of save |-> the one under way
          saved,  \* kind of save |-> the value last saved, undisturbed since
          count   \* edits, saves and changes by others so far

vars == <<file, data, req, inst, draft, jobs, saved, count>>

Parts == {"def", "chain", "routing"}
Kinds == Parts \union {"normalize"}
NoData == [def |-> None, chain |-> <<None>>, routing |-> None]
NoReq == [at |-> "idle", read |-> NoData]
Sent == [NoReq EXCEPT !.at = "sent"]
NoJob == [at |-> "idle", of |-> First, value |-> None, base |-> NoData, clean |-> TRUE]
------------------------------------------------------------------------------
(* What the settings say. *)

normalizeProviderId(p) == IF p = Legacy THEN Claude ELSE p
\* getScopedDefaultProvider with computedDefault, getScopedFallbackChain,
\* getScopedTaskRouting.
Read(c) == [def |-> IF c.def = None THEN Detected ELSE normalizeProviderId(c.def),
            chain |-> [k \in DOMAIN c.chain |-> normalizeProviderId(c.chain[k])],
            routing |-> c.routing]
Renamed(c) == [c EXCEPT !.def = normalizeProviderId(@), !.chain = Read(c).chain]
needsClaudeMigration(c) == c # Renamed(c)

\* The effects that follow the data: a value that did not change leaves the
\* draft alone; of another instance, the chain and the routing always are new
\* objects, the default provider is compared by its name.
Follow(d, old, new, moved) ==
    IF new = NoData THEN NoData
    ELSE IF d = NoData THEN Read(new)
    ELSE [q \in Parts |-> IF Read(old)[q] # Read(new)[q] \/ (moved /\ q # "def") THEN Read(new)[q] ELSE d[q]]

\* A change of the data in view, and of the draft with it.
Shows(i, new) == /\ data' = [data EXCEPT ![i] = new]
                 /\ draft' = IF i = inst THEN Follow(draft, data[i], new, FALSE) ELSE draft

\* A write of a part of a file, by job k, which goes on at another step.
Writes(i, q, v, k, at) ==
    /\ file' = [file EXCEPT ![i][q] = v]
    /\ saved' = [saved EXCEPT ![q] = IF @.of = i THEN NoJob ELSE @]
    /\ jobs' = [h \in Kinds |-> IF h = k THEN [jobs[h] EXCEPT !.at = at]
                                ELSE IF h \in {q, "normalize"} /\ jobs[h].of = i
                                     THEN [jobs[h] EXCEPT !.clean = FALSE] ELSE jobs[h]]
    /\ UNCHANGED <<data, req, inst, draft>>
------------------------------------------------------------------------------
(* The page. *)

Init == /\ file \in [Insts -> Files]
        /\ data = [i \in Insts |-> NoData] /\ req = [i \in Insts |-> IF i = First THEN Sent ELSE NoReq]
        /\ inst = First /\ draft = NoData /\ jobs = [k \in Kinds |-> NoJob]
        /\ saved = [q \in Parts |-> NoJob] /\ count = 0

\* Another instance comes with what the cache has, and is asked anew unless
\* that is fresh.
SelectInstance(i) ==
    /\ i # inst /\ inst' = i
    /\ draft' = Follow(draft, data[inst], data[i], TRUE)
    /\ req' \in {[req EXCEPT ![i] = Sent]} \union {r \in {req} : data[i] # NoData}
    /\ saved' = [q \in Parts |-> NoJob] /\ UNCHANGED <<file, data, jobs, count>>

\* The select of the default provider, the buttons of the chain, the select of
\* the task's model: disabled while their own save is pending.
Edit(q, v) ==
    /\ draft # NoData /\ jobs[q].at = "idle" /\ v # draft[q] /\ count < MaxSteps /\ count' = count + 1
    /\ draft' = [draft EXCEPT ![q] = v] /\ saved' = [saved EXCEPT ![q] = NoJob]
    /\ UNCHANGED <<file, data, req, inst, jobs>>
selectDefault(p) == Edit("def", p)
handleAddChainItem(p) == /\ p \notin Range(draft.chain) /\ Len(draft.chain) < MaxChain
                         /\ Edit("chain", Append(draft.chain, p))
handleRemoveChainItem(n) ==
    n \in DOMAIN draft.chain /\ Edit("chain", SubSeq(draft.chain, 1, n - 1) \o SubSeq(draft.chain, n + 1, Len(draft.chain)))
handleMoveUp(n) == /\ n \in 2..Len(draft.chain)
                   /\ Edit("chain", [draft.chain EXCEPT ![n] = draft.chain[n - 1], ![n - 1] = draft.chain[n]])
handleMoveDown(n) == n + 1 \in DOMAIN draft.chain /\ handleMoveUp(n + 1)
handleChange(m) == Edit("routing", m)

\* The three Save buttons and Reset all overrides, and the button of the banner.
Starts(k, v, clean) == /\ jobs[k].at = "idle" /\ draft # NoData /\ count < MaxSteps /\ count' = count + 1
                /\ jobs' = [jobs EXCEPT ![k] = [at |-> "sent", of |-> inst, value |-> v,
                                                base |-> IF k = "normalize" THEN data[inst] ELSE NoData,
                                                clean |-> clean]]
                /\ UNCHANGED <<file, data, req, inst, draft, saved>>
handleSetDefault == Starts("def", draft.def, TRUE)
handleSaveChain == Starts("chain", draft.chain, TRUE)
handleSave == Starts("routing", draft.routing, TRUE)
\* An override not saved yet stays in the editor after a reset: nothing is
\* claimed of one pressed then.
handleResetAll == Starts("routing", None, draft.routing = data[inst].routing)
handleNormalizeClaudeProviderIds ==
    /\ data[inst] # NoData /\ needsClaudeMigration(data[inst])
    /\ Starts("normalize", None, data[inst] = file[inst])

\* invalidateQueries: every instance's data is stale, the one in view is asked
\* for anew, and a request under way is cancelled.
onSuccess == req' = [i \in Insts |-> IF i = inst THEN Sent ELSE NoReq]
Ended(k) == jobs' = [jobs EXCEPT ![k] = NoJob]
\* The panel reports the save.
SaveAnswered(q) ==
    /\ jobs[q].at = "written" /\ onSuccess /\ Ended(q)
    /\ saved' = [saved EXCEPT ![q] = IF jobs[q].clean /\ jobs[q].of = inst THEN jobs[q] ELSE NoJob]
    /\ UNCHANGED <<file, data, inst, draft, count>>
NormalizeAnswered == /\ jobs["normalize"].at = "renamed" /\ onSuccess /\ Ended("normalize")
                     /\ UNCHANGED <<file, data, inst, draft, saved, count>>
SaveFails(k) == /\ jobs[k].at # "idle" /\ Ended(k)
                /\ UNCHANGED <<file, data, req, inst, draft, saved, count>>
------------------------------------------------------------------------------
(* The routes. *)

\* PUT and DELETE /providers/default, /providers/fallback, /providers/task-routing.
PutPart(q) == /\ jobs[q].at = "sent" /\ Writes(jobs[q].of, q, jobs[q].value, q, "written")
              /\ UNCHANGED count

\* The two writes of the banner's button, each only of what held the old name
\* in the data the page had.
NormalizeDefault ==
    LET j == jobs["normalize"] IN
    /\ j.at = "sent" /\ UNCHANGED count
    /\ IF j.base.def = Legacy THEN Writes(j.of, "def", Claude, "normalize", "chain")
       ELSE jobs' = [jobs EXCEPT !["normalize"].at = "chain"] /\ UNCHANGED <<file, data, req, inst, draft, saved>>
NormalizeChain ==
    LET j == jobs["normalize"] IN
    /\ j.at = "chain" /\ UNCHANGED count
    /\ IF Legacy \in Range(j.base.chain)
       THEN Writes(j.of, "chain", Renamed(j.base).chain, "normalize", "renamed")
       ELSE jobs' = [jobs EXCEPT !["normalize"].at = "renamed"] /\ UNCHANGED <<file, data, req, inst, draft, saved>>

\* GET /providers reads the settings, checks the providers, and answers.
GetServed(i) == /\ req[i].at = "sent" /\ req' = [req EXCEPT ![i] = [at |-> "read", read |-> file[i]]]
                /\ UNCHANGED <<file, data, inst, draft, jobs, saved, count>>
GetAnswered(i) == /\ req[i].at = "read" /\ req' = [req EXCEPT ![i] = NoReq] /\ Shows(i, req[i].read)
                  /\ UNCHANGED <<file, inst, jobs, saved, count>>
GetFails(i) == /\ req[i].at \in {"sent", "read"} /\ req' = [req EXCEPT ![i] = [NoReq EXCEPT !.at = "failed"]]
               /\ UNCHANGED <<file, data, inst, draft, jobs, saved, count>>
\* Refresh all, and every five minutes.
Refetch == /\ req[inst].at \in {"idle", "failed"} /\ req' = [req EXCEPT ![inst] = Sent]
           /\ UNCHANGED <<file, data, inst, draft, jobs, saved, count>>

\* Another page, or an editor, changes a file.
Others(i, q, v) == /\ count < MaxSteps /\ count' = count + 1 /\ v # file[i][q]
                   /\ Writes(i, q, v, "nobody", "idle")

Next == \/ \E i \in Insts : SelectInstance(i) \/ GetServed(i) \/ GetAnswered(i) \/ GetFails(i)
        \/ \E p \in Provs \union {None} : selectDefault(p)
        \/ \E p \in Provs : handleAddChainItem(p)
        \/ \E n \in 1..MaxChain : handleRemoveChainItem(n) \/ handleMoveUp(n) \/ handleMoveDown(n)
        \/ \E m \in Models \union {None} : handleChange(m)
        \/ handleSetDefault \/ handleSaveChain \/ handleSave \/ handleResetAll
        \/ handleNormalizeClaudeProviderIds \/ NormalizeDefault \/ NormalizeChain \/ NormalizeAnswered
        \/ \E q \in Parts : PutPart(q) \/ SaveAnswered(q)
        \/ \E k \in Kinds : SaveFails(k)
        \/ Refetch
        \/ \E i \in Insts : \/ Others(i, "def", Legacy) \/ Others(i, "chain", <<Legacy>>)
                            \/ \E m \in Models : Others(i, "routing", m)
Spec == Init /\ [][Next]_vars
------------------------------------------------------------------------------
(* Properties. *)

\* What a panel reported as saved it goes on showing, through the refetch that
\* follows and any later one, until the operator edits it or someone else
\* writes that setting; a cleared default may show as the detected one.
SavedIsShown ==
    \A q \in Parts :
        saved[q].at # "idle" /\ draft # NoData /\ req[inst].at = "idle"
            => draft[q] = saved[q].value \/ (saved[q].value = None /\ draft[q] = Detected)

\* Normalize to claude renames and changes nothing else, when the page's data
\* was true at the click and nobody wrote the file meanwhile.
NormalizeOnlyRenames ==
    LET j == jobs["normalize"]
    IN  j.at = "renamed" /\ j.clean => file[j.of] = Renamed(j.base)
===============================================================================
