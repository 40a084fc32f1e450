---------------------------- MODULE InstancesPage -----------------------------
(* The page of the instances, InstanceManager.tsx: the list with its query,   *)
(* the selection, the lifecycle controls, the priority card, the questions    *)
(* before a stop and a deletion, and the creation of an instance.  One panel  *)
(* shows whichever instance is selected and keeps its state when that changes. *)
EXTENDS Naturals, FiniteSets, FiniteSetsExt

CONSTANTS Count,        \* instances, numbered in the order of their names
          MaxActions,   \* requests of the operator, a bound
          MaxChanges    \* changes by the command line and by other tabs, a bound

VARIABLES exists, up,   \* the instances and those that run, as discovery finds them
          own, others,  \* requests and changes so far
          acted,        \* changes that the requests of this page made
          list,         \* the query ['instances']: [rows, up, asOf]
          listReq,      \* its request: [at, rows, up, asOf, pick]
          broken,       \* the query is in error, and the page shows that alone
          route, local, \* the id in the address, localSelectedId
          question,     \* "none", "stop" or "delete"
          typed,        \* confirmName of the deletion
          reqs,         \* requests under way: [owner, kind, name, typed, at, live, no]
          timers,       \* refreshes that wait for their timer
          due           \* acted, when the list was last asked for after a request

world == <<exists, up>>
view == <<list, listReq, broken>>
panel == <<question, typed>>
vars == <<world, own, others, acted, view, route, local, panel, reqs, timers, due>>

Names == 1..Count
None == 0
NoList == [rows |-> {}, up |-> {}, asOf |-> 0]
NoRequest == [at |-> "none", rows |-> {}, up |-> {}, asOf |-> 0, pick |-> None]
Asking(pick) == [NoRequest EXCEPT !.at = "asked", !.pick = pick]

Init == /\ exists = Names \ {1} /\ up = {} /\ own = 0 /\ others = 0 /\ acted = 0
        /\ list = NoList /\ listReq = Asking(None) /\ broken = FALSE
        /\ route = None /\ local = None
        /\ question = "none" /\ typed = None /\ reqs = {} /\ timers = 0 /\ due = 0

\* The selected instance: the route's, else the one clicked, else the first.
selectedId == IF route # None THEN route ELSE IF local # None THEN local
              ELSE IF list.rows = {} THEN None ELSE Min(list.rows)
Shown == ~broken /\ selectedId \in list.rows
\* The panel goes when no instance is selected, and its state with it; the
\* requests it sent go on, and their answers find nobody.
Unmounted == /\ question' = "none" /\ typed' = None /\ reqs' = {[r EXCEPT !.live = FALSE] : r \in reqs}
PanelFollows == IF Shown' THEN UNCHANGED <<panel, reqs>> ELSE Unmounted
------------------------------------------------------------------------------
(* The list. *)

JoinList(pick) == listReq' = IF listReq.at # "none" THEN listReq ELSE Asking(pick) \* mutant
\* refetch() drops the request under way and sends another.
Refetch(pick) == listReq' = Asking(pick)

Load == /\ listReq.at = "asked"
        /\ listReq' = [listReq EXCEPT !.at = "read", !.rows = exists, !.up = up, !.asOf = acted]
        /\ UNCHANGED <<world, own, others, acted, list, broken, route, local, panel, reqs, timers, due>>
\* The answer; the creation form waits for it to select what it made.
Receive == /\ listReq.at = "read" /\ listReq' = NoRequest /\ broken' = FALSE
           /\ list' = [rows |-> listReq.rows, up |-> listReq.up, asOf |-> listReq.asOf]
           /\ IF listReq.pick \in listReq.rows THEN route' = listReq.pick /\ local' = listReq.pick
              ELSE UNCHANGED <<route, local>>
           /\ UNCHANGED <<world, own, others, acted, timers, due>>
           /\ PanelFollows
Fail == /\ listReq.at # "none" /\ listReq' = NoRequest /\ broken' = TRUE /\ due' = 0
        /\ UNCHANGED <<world, own, others, acted, list, route, local, timers>>
        /\ PanelFollows

\* Refresh, Retry, Probe, or the window's focus.
Refresh == /\ listReq.at = "none" /\ Refetch(None)
           /\ UNCHANGED <<world, own, others, acted, list, broken, route, local, panel, reqs, timers, due>>
\* A row is clicked, or the browser goes back, which a question does not prevent.
Select(n) == /\ \/ ~broken /\ n \in list.rows /\ question = "none" /\ local' = n
                \/ UNCHANGED local
             /\ n # route /\ route' = n
             /\ UNCHANGED <<world, own, others, acted, view, timers, due>>
             /\ PanelFollows
------------------------------------------------------------------------------
(* The panel. *)

Busy(owner) == \E r \in reqs : r.owner = owner /\ r.live
Send(owner, kind, n) ==
    /\ ~Busy(owner) /\ own < MaxActions /\ own' = own + 1
    /\ reqs' = reqs \cup {[owner |-> owner, kind |-> kind, name |-> n, typed |-> typed, at |-> "sent", live |-> TRUE, no |-> own]}

\* The start buttons of the controls and of the card go by the row shown, each
\* with a flag of its own.
handleStart(owner) ==
    /\ Shown /\ selectedId \notin list.up /\ question = "none" /\ Send(owner, "start", selectedId)
    /\ UNCHANGED <<world, others, acted, view, route, local, panel, timers, due>>
AskStop == /\ Shown /\ selectedId \in list.up /\ question = "none" /\ ~Busy("controls") /\ question' = "stop"
           /\ UNCHANGED <<world, own, others, acted, view, route, local, typed, reqs, timers, due>>
\* handleStopConfirm stops the instance shown by now.
handleStopConfirm == /\ question = "stop" /\ question' = "none"
                     /\ \/ Send("controls", "stop", selectedId)
                        \/ Busy("controls") /\ UNCHANGED <<own, reqs>>
                     /\ UNCHANGED <<world, others, acted, view, route, local, typed, timers, due>>

AskDelete == /\ Shown /\ question = "none" /\ question' = "delete"
             /\ typed' \in Names
             /\ UNCHANGED <<world, own, others, acted, view, route, local, reqs, timers, due>>
\* handleDelete: the name typed is the name shown by now.
handleDelete == /\ question = "delete" /\ typed = selectedId /\ Send("delete", "delete", selectedId)
                /\ UNCHANGED <<world, others, acted, view, route, local, panel, timers, due>>
Cancel == /\ question # "none" /\ ~Busy("delete") /\ question' = "none" /\ typed' = None
          /\ UNCHANGED <<world, own, others, acted, view, route, local, reqs, timers, due>>

handleCreate(n) == /\ ~broken /\ n \notin list.rows /\ question = "none" /\ Send("create", "create", n)
                   /\ UNCHANGED <<world, others, acted, view, route, local, panel, timers, due>>
------------------------------------------------------------------------------
(* The requests: what the server does with them, and their answers. *)

Possible(r) == CASE r.kind = "start"  -> r.name \in exists \ up
                 [] r.kind = "stop"   -> r.name \in up
                 [] r.kind = "delete" -> r.name \in exists \ up /\ r.typed = r.name
                 [] r.kind = "create" -> r.name \notin exists
Serve(r) ==
    /\ r.at = "sent"
    /\ \E ok \in BOOLEAN :
         /\ ok => Possible(r)
         /\ reqs' = (reqs \ {r}) \cup {[r EXCEPT !.at = IF ok THEN "done" ELSE "refused"]}
         /\ acted' = IF ok THEN acted + 1 ELSE acted
         /\ exists' = IF ~ok THEN exists ELSE CASE r.kind = "delete" -> exists \ {r.name}
                                                [] r.kind = "create" -> exists \cup {r.name} [] OTHER -> exists
         /\ up' = IF ~ok THEN up ELSE CASE r.kind = "start" -> up \cup {r.name}
                                        [] r.kind = "stop" -> up \ {r.name} [] OTHER -> up
    /\ UNCHANGED <<own, others, view, route, local, panel, timers, due>>

\* Without a success the buttons come back, and nothing is asked again.
Refused(r) == /\ r.at = "refused" /\ reqs' = reqs \ {r}
              /\ UNCHANGED <<world, own, others, acted, view, route, local, panel, timers, due>>
\* The controls refresh the list by a timer, the card at once.
Started(r) == /\ r.at = "done" /\ r.kind \in {"start", "stop"} /\ reqs' = reqs \ {r}
              /\ IF r.owner = "controls" THEN timers' = timers + 1 /\ UNCHANGED <<listReq, due>>
                 ELSE Refetch(None) /\ due' = acted /\ UNCHANGED timers
              /\ UNCHANGED <<world, own, others, acted, list, broken, route, local, panel>>
TimerFires == /\ timers > 0 /\ timers' = timers - 1 /\ Refetch(None) /\ due' = acted
              /\ UNCHANGED <<world, own, others, acted, list, broken, route, local, panel, reqs>>
\* onDeleted closes the question and leaves the instance's address.
Deleted(r) == /\ r.at = "done" /\ r.kind = "delete"
              /\ Refetch(None) /\ due' = acted /\ route' = None
              /\ UNCHANGED <<world, own, others, acted, list, broken, local, timers>>
              /\ reqs' = IF Shown' THEN reqs \ {r} ELSE {[q EXCEPT !.live = FALSE] : q \in reqs \ {r}}
              /\ IF r.live \/ ~Shown' THEN question' = "none" /\ typed' = None ELSE UNCHANGED panel
Created(r) == /\ r.at = "done" /\ r.kind = "create" /\ reqs' = reqs \ {r}
              /\ Refetch(r.name) /\ due' = acted
              /\ UNCHANGED <<world, own, others, acted, list, broken, route, local, panel, timers>>

\* The command line, or another tab, starts, stops, makes or deletes one.
Change(n) == /\ others < MaxChanges /\ others' = others + 1
             /\ \/ n \in exists /\ up' = (up \ {n}) \cup ({n} \ up) /\ UNCHANGED exists
                \/ n \notin up /\ exists' = (exists \ {n}) \cup ({n} \ exists) /\ UNCHANGED up
             /\ UNCHANGED <<own, acted, view, route, local, panel, reqs, timers, due>>
------------------------------------------------------------------------------
Next == \/ Load \/ Receive \/ Fail \/ Refresh \/ TimerFires
        \/ \E n \in Names : Select(n) \/ handleCreate(n) \/ Change(n)
        \/ \E o \in {"controls", "card"} : handleStart(o)
        \/ AskStop \/ handleStopConfirm \/ AskDelete \/ handleDelete \/ Cancel
        \/ \E r \in reqs : Serve(r) \/ Refused(r) \/ Started(r) \/ Deleted(r) \/ Created(r)

\* The server answers, and timers fire.
Answering == \E r \in reqs : Serve(r) \/ Refused(r) \/ Started(r) \/ Deleted(r) \/ Created(r)
Fairness == WF_vars(Answering) /\ WF_vars(TimerFires) /\ WF_vars(Load) /\ WF_vars(Receive)
Spec == Init /\ [][Next]_vars /\ Fairness
------------------------------------------------------------------------------
(* Properties. *)

\* What the operator did is listed: once no request for the list is under way,
\* the list was read after every action whose answer has asked for it.
ActionIsListed == listReq.at = "none" => list.asOf >= due

\* A deletion is asked of the server only under the name that was typed, though
\* the instance shown may change under the question.
DeletesWhatWasTyped == \A r \in reqs : r.kind = "delete" => r.typed = r.name

\* What comes to an end: the requests behind disabled buttons, and the timers
\* that refresh the list.
Waits == (IF reqs # {} THEN {1} ELSE {}) \union (IF timers > 0 THEN {2} ELSE {})
================================================================================
