------------------------------ MODULE Onboarding ------------------------------
(* First use: the setup status of an instance and its repairs (routes/        *)
(* control-plane/setup.ts, GettingStarted.tsx).  What a step needs is a fact  *)
(* that holds or does not.                                                    *)
EXTENDS Naturals, FiniteSets

CONSTANTS Changing,    \* the facts that may change, the others hold
          MaxMoves     \* changes and repairs, a bound

VARIABLES facts,       \* those that hold
          moves,       \* changes and repairs so far
          repaired,    \* repairs that the server made
          get,         \* GET of the query: [at, facts, asOf]
          posts,       \* the refresh of the button and of each repair, alike, with what was made
          loading,     \* repairLoadingAction
          shown,       \* the query's data
          owed         \* the repairs that the data has to show

server == <<facts, moves, repaired>>
page == <<get, posts, loading, shown, owed>>
vars == <<server, page>>

Facts == {"root", "database", "provider", "key", "pepper", "project", "mcp", "claude"}
Repairable == {"pepper", "mcp", "claude"}
Posts == Repairable \cup {"button"}
NoRequest == [at |-> "none", facts |-> {}, asOf |-> 0]
NoPost == [at |-> "none", facts |-> {}, asOf |-> 0, made |-> 0]
NoData == [known |-> FALSE, facts |-> {}, asOf |-> 0]
Data(r) == [known |-> TRUE, facts |-> r.facts, asOf |-> r.asOf]

Init == /\ facts = Facts \ Changing /\ moves = 0 /\ repaired = 0
        /\ get = [NoRequest EXCEPT !.at = "asked"] /\ posts = [p \in Posts |-> NoPost] /\ loading = "none"
        /\ shown = NoData /\ owed = 0
------------------------------------------------------------------------------
(* buildSetupStatus: the steps and what each offers. *)

checkRuntimeRoot(f) == IF "root" \in f THEN "not_applicable" ELSE "warning"
checkDatabase(f) == IF "database" \in f THEN "complete" ELSE "incomplete"
checkProvider(f) == CASE {"provider", "key"} \subseteq f -> "complete"
                      [] {"provider", "key"} \cap f = {} -> "incomplete"
                      [] OTHER -> "warning"
checkApiKeyPepper(f) == IF "pepper" \in f THEN "complete" ELSE "warning"
checkProjectBinding(f) == IF "project" \in f THEN "complete" ELSE "warning"
checkProjectIntegration(f) == IF "project" \notin f THEN "not_applicable"
                              ELSE IF {"mcp", "claude"} \subseteq f THEN "complete" ELSE "warning"
Statuses(f) == {checkRuntimeRoot(f), checkDatabase(f), checkProvider(f), checkApiKeyPepper(f),
                checkProjectBinding(f), checkProjectIntegration(f)}
isFullyConfigured(f) == "incomplete" \notin Statuses(f)
\* The repairs that the server makes; a project that lacks both files is offered
\* none, and the other steps open another page.
RepairActions(f) == ({"pepper"} \ f)
                    \cup {a \in {"mcp", "claude"} : "project" \in f /\ {"mcp", "claude"} \ f = {a}}

\* The environment is read first; the database and the files of the projects,
\* which take longer, after it.
Environment == {"root", "provider", "key", "pepper", "project"}
Read(r) == CASE r.at = "asked" -> [r EXCEPT !.at = "half", !.facts = facts \cap Environment, !.asOf = repaired]
             [] r.at = "half"  -> [r EXCEPT !.at = "read", !.facts = @ \cup (facts \ Environment)]
Reading(r) == r.at \in {"asked", "half"}

\* The operator, the command line and Iranti make and unmake facts.
Outside(f) == /\ moves < MaxMoves /\ moves' = moves + 1 /\ f \in Changing
              /\ facts' = (facts \ {f}) \cup ({f} \ facts)
              /\ UNCHANGED <<repaired, page>>
------------------------------------------------------------------------------
(* The page: one query, which the badge and the banner of the shell share. *)

GetReads == /\ Reading(get) /\ get' = Read(get)
            /\ UNCHANGED <<server, posts, loading, shown, owed>>
GetAnswered == /\ get.at = "read" /\ get' = NoRequest /\ shown' = Data(get)
               /\ UNCHANGED <<server, posts, loading, owed>>
\* The window gets the focus, or the page is mounted again.
Refetch == /\ get.at = "none" /\ get' = [NoRequest EXCEPT !.at = "asked"]
           /\ UNCHANGED <<server, posts, loading, shown, owed>>

\* What is drawn: the steps, unless no step is incomplete, when the page says
\* that all are complete, hides the warnings, and cannot be marked complete.
ShowsSteps == shown.known /\ ~isFullyConfigured(shown.facts)

\* handleRefreshAll.
handleRefreshAll == /\ ShowsSteps /\ posts["button"].at = "none"
                    /\ posts' = [posts EXCEPT !["button"].at = "asked"]
                    /\ UNCHANGED <<server, get, loading, shown, owed>>
\* handleRepairAction: one action is shown as loading, which lets the one
\* before it be sent again; here one request of an action at a time.
handleRepairAction(a) ==
    /\ ShowsSteps /\ a \in RepairActions(shown.facts) /\ loading # a /\ posts[a].at = "none"
    /\ posts' = [posts EXCEPT ![a].at = "sent"] /\ loading' = a
    /\ UNCHANGED <<server, get, shown, owed>>
\* POST generate-pepper, or the repair of a project's file; a failure ends it.
Repairs(a) == /\ posts[a].at = "sent"
              /\ \/ /\ moves < MaxMoves /\ moves' = moves + 1
                    /\ facts' = facts \cup {a} /\ repaired' = repaired + 1
                    /\ posts' = [posts EXCEPT ![a].at = "asked", ![a].made = repaired'] /\ UNCHANGED loading
                 \/ /\ posts' = [posts EXCEPT ![a] = NoPost] /\ loading' = "none"
                    /\ UNCHANGED <<facts, repaired, moves>>
              /\ UNCHANGED <<get, shown, owed>>
PostReads(p) == /\ Reading(posts[p]) /\ posts' = [posts EXCEPT ![p] = Read(@)]
                /\ UNCHANGED <<server, get, loading, shown, owed>>

Alone(p) == get.at = "none" /\ \A q \in Posts \ {p} : posts[q].at = "none"
Settles(p) == /\ posts' = [posts EXCEPT ![p] = NoPost]
              /\ loading' = IF p = "button" THEN loading ELSE "none"
              /\ owed' = IF ~Alone(p) THEN 0 ELSE IF p = "button" THEN owed ELSE posts[p].made
\* The answer is put into the query, whatever requests of it are under way.
PostAnswered(p) == /\ posts[p].at = "read" /\ Settles(p) /\ shown' = Data(posts[p])
                   /\ UNCHANGED <<server, get>>
PostFails(p) == /\ posts[p].at # "none" /\ posts' = [posts EXCEPT ![p] = NoPost]
                /\ loading' = IF p = "button" THEN loading ELSE "none"
                /\ UNCHANGED <<server, get, shown, owed>>
------------------------------------------------------------------------------
Next == \/ GetReads \/ GetAnswered \/ Refetch \/ handleRefreshAll
        \/ \E f \in Changing : Outside(f)
        \/ \E a \in Repairable : handleRepairAction(a) \/ Repairs(a)
        \/ \E p \in Posts : PostReads(p) \/ PostAnswered(p) \/ PostFails(p)
Fetching == GetReads \/ GetAnswered
Posting(p) == (p \in Repairable /\ Repairs(p)) \/ PostReads(p) \/ PostAnswered(p)
Fairness == WF_vars(Fetching) /\ \A p \in Posts : WF_vars(Posting(p))
Spec == Init /\ [][Next]_vars /\ Fairness
------------------------------------------------------------------------------
(* Properties. *)

\* A repair that was answered shows: when no other request was under way, the
\* data of the page was read after it, and stays so.
RepairIsShown == shown.asOf >= owed

\* What comes to an end: the repair whose button is busy.
Waits == IF loading # "none" THEN {1} ELSE {}
================================================================================
