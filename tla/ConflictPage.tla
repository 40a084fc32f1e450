----------------------------- MODULE ConflictPage ------------------------------
(* The page of the pending escalations (ConflictReview.tsx) over the routes of *)
(* escalations.ts, whose decision FactReview models in detail.  The list is    *)
(* read every thirty seconds and after each decision; the panel beside it      *)
(* compares the two facts of the selected escalation and is one component for *)
(* all of them, so what was chosen stays when another row is clicked.         *)
EXTENDS Integers, FiniteSets

CONSTANTS Escalations, MaxResolves  \* requests of the operator, a bound

VARIABLES pending,    \* archive rows that are escalated and pending
          list,       \* the query ['escalations', 'pending']
          listReq,    \* its request: [at, rows]
          broken,     \* the query is in error; its rows are hidden, and stay
          tab, selectedId,
          choice, custom,       \* pendingChoice; whether the custom value is JSON
          resolving, failed,    \* of the panel
          reqs,       \* decisions under way: [id, choice, at, live, no]
          resolves,
          answered    \* decisions of this page that it knows were taken

view == <<list, listReq, broken>>
panel == <<choice, custom, resolving, failed>>
vars == <<pending, view, tab, selectedId, panel, reqs, resolves, answered>>

None == "none"
Choices == {"keep_existing", "accept_challenger", "custom"}
Idle == [at |-> "none", rows |-> {}]

Init == /\ pending = Escalations /\ list = {} /\ listReq = [Idle EXCEPT !.at = "asked"] /\ broken = FALSE
        /\ tab = "pending" /\ selectedId = None
        /\ choice = None /\ custom = FALSE /\ resolving = FALSE /\ failed = FALSE
        /\ reqs = {} /\ resolves = 0 /\ answered = {}

\* The panel is there while its escalation is listed; when it goes, what was
\* chosen in it goes, and its requests find nobody.
Selected == tab = "pending" /\ selectedId \in list
PanelFollows(R) == IF Selected' THEN reqs' = R /\ UNCHANGED panel
                   ELSE /\ reqs' = {[r EXCEPT !.live = FALSE] : r \in R}
                        /\ choice' = None /\ custom' = FALSE /\ resolving' = FALSE /\ failed' = FALSE
------------------------------------------------------------------------------
(* The list. *)

\* GET /escalations: the archive first, then the facts that are in force beside.
ReadArchive == /\ listReq.at = "asked" /\ listReq' = [at |-> "read", rows |-> pending]
               /\ UNCHANGED <<pending, list, broken, tab, selectedId, panel, reqs, resolves, answered>>
Receive == /\ listReq.at = "read" /\ listReq' = Idle /\ list' = listReq.rows /\ broken' = FALSE
           /\ UNCHANGED <<pending, tab, selectedId, resolves, answered>> /\ PanelFollows(reqs)
Fail == /\ listReq.at # "none" /\ listReq' = Idle /\ broken' = TRUE
        /\ UNCHANGED <<pending, list, tab, selectedId, panel, reqs, resolves, answered>>
\* The interval joins a request under way, Retry and a decision start another.
Interval == /\ listReq.at = "none" /\ listReq' = [Idle EXCEPT !.at = "asked"]
            /\ UNCHANGED <<pending, list, broken, tab, selectedId, panel, reqs, resolves, answered>>
Refetch == listReq' = [Idle EXCEPT !.at = "asked"]
Retry == /\ broken /\ Refetch
         /\ UNCHANGED <<pending, list, broken, tab, selectedId, panel, reqs, resolves, answered>>

Click(e) == /\ tab = "pending" /\ ~broken /\ e \in list /\ selectedId' = IF e = selectedId THEN None ELSE e
            /\ UNCHANGED <<pending, view, tab, resolves, answered>> /\ PanelFollows(reqs)
SetTab(t) == /\ tab' = t /\ t # tab
             /\ UNCHANGED <<pending, view, selectedId, resolves, answered>> /\ PanelFollows(reqs)
------------------------------------------------------------------------------
(* The panel. *)

handleChoiceClick(c) == /\ Selected /\ ~resolving /\ choice' = IF c = choice THEN None ELSE c
                        /\ UNCHANGED <<pending, view, tab, selectedId, custom, resolving, failed, reqs, resolves, answered>>
TypeCustom(v) == /\ Selected /\ choice = "custom" /\ custom' = v
                 /\ UNCHANGED <<pending, view, tab, selectedId, choice, resolving, failed, reqs, resolves, answered>>
handleConfirm == /\ Selected /\ ~resolving /\ choice # None /\ (choice = "custom" => custom)
                 /\ resolves < MaxResolves /\ resolves' = resolves + 1
                 /\ resolving' = TRUE /\ failed' = FALSE
                 /\ reqs' = reqs \union {[id |-> selectedId, choice |-> choice, at |-> "sent", live |-> TRUE, no |-> resolves]}
                 /\ UNCHANGED <<pending, view, tab, selectedId, choice, custom, answered>>

\* POST /escalations/:id/resolve: only a pending one is decided, which is
\* looked up before the decision is carried out; either step may fail.
ReadEscalation(r) == /\ r.at = "sent"
                     /\ \E a \in IF r.id \in pending THEN {"found", "refused"} ELSE {"refused"} :
                          reqs' = (reqs \ {r}) \union {[r EXCEPT !.at = a]}
                     /\ UNCHANGED <<pending, view, tab, selectedId, panel, resolves, answered>>
MarkResolved(r) == /\ r.at = "found"
                   /\ \/ pending' = pending \ {r.id} /\ reqs' = (reqs \ {r}) \union {[r EXCEPT !.at = "done"]}
                      \/ pending' \in {pending, pending \ {r.id}} /\ reqs' = (reqs \ {r}) \union {[r EXCEPT !.at = "refused"]}
                   /\ UNCHANGED <<view, tab, selectedId, panel, resolves, answered>>

\* handleResolve asks for the list again, and the panel that sent the decision
\* closes whatever is selected by then.
Resolved(r) == /\ r.at = "done" /\ Refetch /\ selectedId' = None /\ answered' = answered \union {r.id}
               /\ UNCHANGED <<pending, list, broken, tab, resolves>> /\ PanelFollows(reqs \ {r})
ResolveFailed(r) == /\ r.at = "refused" /\ reqs' = reqs \ {r}
                    /\ IF r.live THEN failed' = TRUE /\ resolving' = FALSE /\ choice' = None /\ UNCHANGED custom
                       ELSE UNCHANGED panel
                    /\ UNCHANGED <<pending, view, tab, selectedId, resolves, answered>>

\* External: another tab decides one.
Decide(e) == /\ e \in pending /\ pending' = pending \ {e}
             /\ UNCHANGED <<view, tab, selectedId, panel, reqs, resolves, answered>>

Next == \/ ReadArchive \/ Receive \/ Fail \/ Interval \/ Retry \/ handleConfirm
        \/ (\E e \in Escalations : Click(e) \/ Decide(e)) \/ (\E t \in {"pending", "resolved"} : SetTab(t))
        \/ (\E c \in Choices : handleChoiceClick(c)) \/ (\E v \in BOOLEAN : TypeCustom(v))
        \/ \E r \in reqs : ReadEscalation(r) \/ MarkResolved(r) \/ Resolved(r) \/ ResolveFailed(r)
Spec == Init /\ [][Next]_vars
------------------------------------------------------------------------------
(* Properties. *)

\* Once the list has settled, nothing the operator has decided here is offered
\* for a decision again, whichever request for the list was under way then.
DecidedIsNotOffered == listReq.at = "none" /\ ~broken => list \cap answered = {}
================================================================================
