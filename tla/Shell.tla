-------------------------------- MODULE Shell ---------------------------------
(* The shell around the views: the health poller and its toasts (AppShell.tsx, *)
(* hooks/useToasts.ts) and the settings of the browser (lib/settings.ts,      *)
(* hooks/useSettings.tsx, SettingsPage.tsx), which every tab keeps for itself *)
(* and all write to one place.                                                *)
EXTENDS Naturals, Sequences, SequencesExt, FiniteSets

CONSTANTS Tabs,         \* browser tabs; the first one of them polls and has the page of settings open
          First,        \* that one
          Fields,       \* settings, "theme" and "chatPanelOpen" among them
          MaxToasts,    \* MAX_TOASTS
          MaxPolls,     \* polls under way at once, a bound
          MaxMoves      \* changes of health and of settings, a bound

VARIABLES overall,      \* what GET /health answers with
          polls,        \* answers under way
          prevOverall,  \* prevOverallRef, or Unknown before the first answer
          toasts,       \* the titles that are listed, the oldest first
          dismissed,    \* the operator closed the toast of prevOverall
          store,        \* localStorage
          settings,     \* tab |-> its settings
          draft,        \* the draft of the page
          edited,       \* the fields edited since the page took the settings over
          moves         \* so far

health == <<overall, polls, prevOverall, toasts, dismissed>>
prefs == <<store, settings, draft, edited>>
vars == <<health, prefs, moves>>

Unknown == "unknown"
Overalls == {"healthy", "degraded", "error"}
DEFAULT_SETTINGS == [f \in Fields |-> 0]
Move == moves < MaxMoves /\ moves' = moves + 1

Init == /\ overall \in Overalls /\ polls = <<>> /\ prevOverall = Unknown
        /\ toasts = <<>> /\ dismissed = FALSE
        /\ store = DEFAULT_SETTINGS /\ settings = [t \in Tabs |-> DEFAULT_SETTINGS]
        /\ draft = DEFAULT_SETTINGS /\ edited = {} /\ moves = 0
------------------------------------------------------------------------------
(* The health poller. *)

HealthChanges == /\ Move /\ overall' \in Overalls \ {overall}
                 /\ UNCHANGED <<polls, prevOverall, toasts, dismissed, prefs>>
\* The interval goes on whether or not the last poll was answered, and the
\* checks of a poll take their time: answers come in any order.
Poll == /\ Len(polls) < MaxPolls /\ polls' = Append(polls, overall)
        /\ UNCHANGED <<overall, prevOverall, toasts, dismissed, prefs, moves>>
Unanswered(i) == /\ polls' = RemoveAt(polls, i)
                 /\ UNCHANGED <<overall, prevOverall, toasts, dismissed, prefs, moves>>

\* toastReducer: a title that is listed is not added again, and the oldest goes
\* when there are too many.
Added(title) == IF Contains(toasts, title) THEN toasts
                ELSE Append(IF Len(toasts) >= MaxToasts THEN Tail(toasts) ELSE toasts, title)

\* pollHealth: the first answer is only told when it is bad, later ones when
\* they differ from the last.
IsTold(o) == prevOverall # o /\ (prevOverall = Unknown => o # "healthy")
pollHealth(i) ==
    LET o == polls[i] IN
    /\ polls' = RemoveAt(polls, i) /\ prevOverall' = o
    /\ toasts' = IF IsTold(o) THEN Added(o) ELSE toasts
    /\ dismissed' = IF o # prevOverall THEN FALSE ELSE dismissed
    /\ UNCHANGED <<overall, prefs, moves>>

\* The operator closes a toast; that of good health closes itself.
dismissToast(i) == /\ toasts' = RemoveAt(toasts, i)
                   /\ dismissed' = (dismissed \/ toasts[i] = prevOverall)
                   /\ UNCHANGED <<overall, polls, prevOverall, prefs, moves>>
------------------------------------------------------------------------------
(* The settings. *)

\* An effect of the page: whenever the settings change the draft is theirs.
DraftKept(t) == UNCHANGED <<draft, edited>> \* mutant: the draft is taken once
DraftFollows(t) == IF t = First /\ settings'[t] # settings[t] THEN draft' = settings'[t] /\ edited' = {}
                   ELSE UNCHANGED <<draft, edited>>
\* saveSettings writes all of a tab's settings.
Changed(t, new) == settings' = [settings EXCEPT ![t] = new] /\ store' = IF settings[t] = new THEN store ELSE new

\* toggleTheme, handleChatToggle: one field, at once.
toggle(t, f) == /\ Move /\ Changed(t, [settings[t] EXCEPT ![f] = 1 - @]) /\ DraftFollows(t)
                /\ UNCHANGED health
updateDraft(f) == /\ Move /\ draft' = [draft EXCEPT ![f] = 1 - @] /\ edited' = edited \cup {f}
                  /\ UNCHANGED <<health, store, settings>>
handleResetDefaults == /\ Move /\ draft' = DEFAULT_SETTINGS /\ edited' = Fields
                       /\ UNCHANGED <<health, store, settings>>
hasChanges == draft # settings[First]
handleSave == /\ hasChanges /\ Changed(First, draft) /\ DraftFollows(First)
              /\ UNCHANGED <<health, moves>>

\* loadSettings: a tab is loaded again.
Reload(t) == /\ settings' = [settings EXCEPT ![t] = store]
             /\ IF t = First THEN /\ draft' = store /\ edited' = {}
                                  /\ polls' = <<>> /\ prevOverall' = Unknown /\ toasts' = <<>> /\ dismissed' = FALSE
                ELSE UNCHANGED <<draft, edited, polls, prevOverall, toasts, dismissed>>
             /\ UNCHANGED <<overall, store, moves>>
------------------------------------------------------------------------------
Toggled == Fields \cap {"theme", "chatPanelOpen"}
Next == \/ HealthChanges \/ Poll
        \/ \E i \in DOMAIN polls : Unanswered(i) \/ pollHealth(i)
        \/ \E i \in DOMAIN toasts : dismissToast(i)
        \/ \E t \in Tabs : Reload(t) \/ (\E f \in Toggled : toggle(t, f))
        \/ (\E f \in Fields : updateDraft(f)) \/ handleResetDefaults \/ handleSave
Spec == Init /\ [][Next]_vars
------------------------------------------------------------------------------
(* Properties. *)

\* Bad health is shown: when the last answer was bad its toast is listed, unless
\* the operator closed it since, whatever was told and closed before.
BadHealthIsToasted == prevOverall \in {"degraded", "error"} => dismissed \/ Contains(toasts, prevOverall)

\* Saving the page undoes nothing that was changed elsewhere in the tab: it
\* changes only the fields that were edited since the page took the settings.
SaveUndoesNothing == handleSave => \A f \in Fields \ edited : settings'[First][f] = settings[First][f]
================================================================================
