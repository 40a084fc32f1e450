------------------------------- MODULE Sessions --------------------------------
(* The sessions of the agents: routes/control-plane/sessions.ts, which lists  *)
(* them from Iranti or from the facts of the database and forwards resume and *)
(* abandon, and SessionsView.tsx with its tabs.  A session belongs to an      *)
(* agent; the sessions and their states are Iranti's, and agents change them. *)
EXTENDS Naturals, FiniteSets

CONSTANTS Ids,          \* sessions, the pairs of an agent and a session id
          Tabs,         \* the tabs, "all" or a state
          MaxChanges    \* changes by agents and actions of the operator, a bound

VARIABLES state,        \* session |-> its operator state, as Iranti has it
          changes,      \* changes and actions so far
          tab,          \* activeFilter
          lists,        \* tab |-> its query: [rows, asOf, fresh]
          fetches,      \* tab |-> the request under way: [at, rows, asOf]
          action,       \* of SessionActions: [at, id, mode]
          acted,        \* actions that Iranti took
          actedOn       \* tab |-> acted when an action was done on that tab

view == <<tab, lists, fetches, action, actedOn>>
vars == <<state, changes, acted, view>>

States == {"active", "interrupted", "completed", "abandoned"}
NoRequest == [at |-> "none", rows |-> {}, asOf |-> 0]
NoAction == [at |-> "none", id |-> CHOOSE i \in Ids : TRUE, mode |-> "resume"]

Init == /\ state = [i \in Ids |-> "interrupted"] /\ changes = 0
        /\ tab = "all" /\ acted = 0
        /\ lists = [t \in Tabs |-> [rows |-> {}, asOf |-> 0, fresh |-> FALSE]]
        /\ fetches = [t \in Tabs |-> IF t = "all" THEN [NoRequest EXCEPT !.at = "asked"] ELSE NoRequest]
        /\ action = NoAction /\ actedOn = [t \in Tabs |-> 0]
------------------------------------------------------------------------------
(* GET /sessions: a row is a session with the state it had. *)

Rows == {[id |-> i, state |-> state[i]] : i \in Ids}
applySessionFilters(rows, t) == {r \in rows : t = "all" \/ r.state = t}

\* Iranti's answer is filtered again; without one the sessions come from the
\* facts of the database, where agents leave the same states.
ListSessions(t) ==
    /\ fetches[t].at = "asked"
    /\ fetches' = [fetches EXCEPT ![t] = [at |-> "read", rows |-> applySessionFilters(Rows, t), asOf |-> acted]]
    /\ UNCHANGED <<state, changes, acted, tab, lists, action, actedOn>>

Receive(t) == /\ fetches[t].at = "read" /\ fetches' = [fetches EXCEPT ![t] = NoRequest]
              /\ lists' = [lists EXCEPT ![t] = [rows |-> fetches[t].rows, asOf |-> fetches[t].asOf, fresh |-> TRUE]]
              /\ UNCHANGED <<state, changes, acted, tab, action, actedOn>>
\* The request fails; the query keeps its rows and is asked again when mounted.
Fail(t) == /\ fetches[t].at # "none" /\ fetches' = [fetches EXCEPT ![t] = NoRequest]
           /\ lists' = [lists EXCEPT ![t].fresh = FALSE]
           /\ actedOn' = [actedOn EXCEPT ![t] = 0]
           /\ UNCHANGED <<state, changes, acted, tab, action>>
------------------------------------------------------------------------------
(* The view. *)

\* A tab is mounted, or the window focused: its query is asked again unless it
\* is under way, or fresh and read less than half a minute ago.
Mounted(t) == {f \in {fetches, [fetches EXCEPT ![t] = [NoRequest EXCEPT !.at = "asked"]]} :
                 /\ fetches[t].at # "none" => f = fetches
                 /\ fetches[t].at = "none" /\ ~lists[t].fresh => f # fetches}
\* handleTabClick closes the row, not the request it has sent.
handleTabClick(t) == /\ t # tab /\ tab' = t /\ fetches' \in Mounted(t)
                     /\ UNCHANGED <<state, changes, acted, lists, action, actedOn>>
Refocus == /\ fetches' \in Mounted(tab) \ {fetches}
           /\ UNCHANGED <<state, changes, acted, tab, lists, action, actedOn>>

\* SessionActions: which buttons a row has, and handleConfirm; the row is drawn
\* anew while its question stands, so what is confirmed is what it offers.
Offers(row, mode) == row.state = "interrupted" \/ (mode = "abandon" /\ row.state = "active")
handleConfirm(row, mode) ==
    /\ action.at = "none" /\ Offers(row, mode) /\ changes < MaxChanges /\ changes' = changes + 1
    /\ action' = [at |-> "sent", id |-> row.id, mode |-> mode]
    /\ UNCHANGED <<state, acted, tab, lists, fetches, actedOn>>

\* handleRefetch, after the answer or the failure: every query of the sessions
\* is invalidated and the mounted one asked again, dropping its request.
Refetched == [fetches EXCEPT ![tab] = [NoRequest EXCEPT !.at = "asked"]]
Done == /\ action.at = "done" /\ action' = NoAction
        /\ lists' = [t \in Tabs |-> [lists[t] EXCEPT !.fresh = FALSE]]
        /\ fetches' = Refetched /\ actedOn' = [actedOn EXCEPT ![tab] = acted]
        /\ UNCHANGED <<state, changes, acted, tab>>
------------------------------------------------------------------------------
(* proxySessionAction, with Iranti's side: it resumes what is interrupted and *)
(* abandons what is open, and answers an error otherwise.                     *)
After(mode) == IF mode = "resume" THEN "active" ELSE "abandoned"
proxySessionAction ==
    /\ action.at = "sent" /\ action' = [action EXCEPT !.at = "done"]
    /\ \/ /\ Offers([id |-> action.id, state |-> state[action.id]], action.mode)
          /\ state' = [state EXCEPT ![action.id] = After(action.mode)] /\ acted' = acted + 1
       \/ UNCHANGED <<state, acted>>
    /\ UNCHANGED <<changes, tab, lists, fetches, actedOn>>

\* An agent checkpoints, is interrupted, or completes.
AgentChanges(i) == /\ changes < MaxChanges /\ changes' = changes + 1 /\ state[i] \in {"active", "interrupted"}
                   /\ \E s \in {"active", "interrupted", "completed"} \ {state[i]} : state' = [state EXCEPT ![i] = s]
                   /\ UNCHANGED <<acted, view>>
------------------------------------------------------------------------------
Next == \/ \E t \in Tabs : ListSessions(t) \/ Receive(t) \/ Fail(t) \/ handleTabClick(t)
        \/ \E row \in lists[tab].rows, mode \in {"resume", "abandon"} : handleConfirm(row, mode)
        \/ Done \/ proxySessionAction \/ Refocus
        \/ \E i \in Ids : AgentChanges(i)

\* Iranti or the database answers, and so does the control plane.
Acting == proxySessionAction \/ Done
Listing(t) == ListSessions(t) \/ Receive(t)
Fairness == WF_vars(Acting) /\ \A t \in Tabs : WF_vars(Listing(t))
Spec == Init /\ [][Next]_vars /\ Fairness
------------------------------------------------------------------------------
(* Properties. *)

\* The rows of a tab are of the tab's state, wherever they come from.
RowsMatchTab == \A t \in Tabs : \A r \in lists[t].rows : t # "all" => r.state = t

\* What the operator did shows where it was done: unless its request failed, a
\* list that is not being asked for was read after every action done on its tab.
ActionIsShown == \A t \in Tabs : fetches[t].at = "none" => lists[t].asOf >= actedOn[t]

\* An action on a row that is out of date does not undo what the agent did: a
\* completed session is not abandoned and an abandoned one not resumed.
ClosedStaysClosed == \A i \in Ids : state[i] \in {"completed", "abandoned"} => state'[i] = state[i]

\* What comes to an end: the action whose buttons are disabled.
Waits == IF action.at = "sent" THEN {1} ELSE {}
================================================================================
