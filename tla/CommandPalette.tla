---------------------------- MODULE CommandPalette -----------------------------
(* The command palette (components/shell/CommandPalette.tsx), the keys that   *)
(* open and close it (useCommandPalette and the second Ctrl+K listener of     *)
(* AppShell.tsx), the G-then-letter navigation of useViewNavigationShortcuts  *)
(* and the signal by which the palette starts diagnostics on the health page. *)
EXTENDS Naturals, Sequences, SequencesExt

CONSTANTS Navs,         \* the commands that open a view, a sequence of routes
          Queries,      \* texts that can be typed, beside "" and "?"
          Hits,         \* text |-> the commands fuzzyMatch finds it in
          GoRoutes      \* letter |-> route, GO_MODE_ROUTES

VARIABLES open, query, selected,    \* the palette
          focus,        \* "page", "field" (an input of the page), "input" (the palette's) or "button"
          previous,     \* previousFocusRef
          hookFirst,    \* the hook's keydown listener runs before the one of AppShell
          route,        \* the location
          listening,    \* the health page is mounted: its listener is registered
          frame,        \* an animation frame will dispatch iranti:run-diagnostics
          signals,      \* the health page's diagRunSignal, 0 when it is not mounted
          goMode        \* goModeRef, true until a key or the timeout of 1500 ms

palette == <<open, query, selected, focus, previous, hookFirst>>
page == <<route, listening, frame, signals>>
vars == <<palette, page, goMode>>

Actions == <<"toggle-dark", "refresh-health", "run-diagnostics">>
allCommands == Navs \o Actions
MaxSignals == 2         \* diagnostics asked for while the page stays open, a bound

filteredCommands == IF query \in {"", "?"} THEN allCommands
                    ELSE SelectSeq(allCommands, LAMBDA c : c \in Hits[query])
isInputFocused == focus \in {"field", "input"}

Init == /\ open = FALSE /\ query = "" /\ selected = 1 /\ focus = "page" /\ previous = "page"
        /\ hookFirst = TRUE /\ route = "/memory" /\ listening = FALSE /\ frame = FALSE
        /\ signals = 0 /\ goMode = FALSE
------------------------------------------------------------------------------
(* Opening and closing. *)

\* Mounting the palette focuses its input; the hook's effect depends on open and
\* registers its listener anew, behind the one of AppShell.
Mounted == open' = TRUE /\ query' = "" /\ selected' = 1 /\ focus' = "input" /\ hookFirst' = FALSE
\* closePalette: the element that had the focus gets it back in the next frame;
\* an element of the palette is gone by then, and nothing is focused.
closePalette(prev) == /\ open' = FALSE /\ previous' = prev /\ hookFirst' = FALSE
                      /\ focus' = (IF prev \in {"page", "field"} THEN prev ELSE "page")
                      /\ UNCHANGED <<query, selected>>

Focus(f) == /\ ~open /\ f # focus /\ focus' = f
            /\ UNCHANGED <<open, query, selected, previous, hookFirst, page, goMode>>

\* Ctrl+K when closed. Each listener is followed by a render: the first opens the
\* palette; the second one runs after it only if it is AppShell's, and then
\* records the palette's own input as the element to return to.
OpenByKey == /\ ~open /\ Mounted /\ previous' = (IF hookFirst THEN "input" ELSE focus)
             /\ UNCHANGED <<page, goMode>>
\* When open AppShell's listener comes first and records the present focus.
CloseByKey == open /\ closePalette(focus) /\ UNCHANGED <<page, goMode>>
OpenByButton == ~open /\ Mounted /\ previous' = "page" /\ UNCHANGED <<page, goMode>>
\* Escape, the button and the backdrop.
Close == open /\ closePalette(previous) /\ UNCHANGED <<page, goMode>>
------------------------------------------------------------------------------
(* Inside the palette. *)

Type(q) == /\ open /\ focus = "input" /\ q # query /\ query' = q /\ selected' = 1
           /\ UNCHANGED <<open, focus, previous, hookFirst, page, goMode>>

\* The button of the footer, which does nothing to an empty query.
ShowShortcuts == /\ open /\ focus' = "input"
                 /\ query' = (IF query = "" THEN query ELSE "?")
                 /\ selected' = (IF query' = query THEN selected ELSE 1)
                 /\ UNCHANGED <<open, previous, hookFirst, page, goMode>>

\* handleTabKey keeps the focus among the palette's input and its buttons.
Tab == /\ open /\ focus' = (IF focus = "input" THEN "button" ELSE "input")
       /\ UNCHANGED <<open, query, selected, previous, hookFirst, page, goMode>>

Size == IF filteredCommands = <<>> THEN 1 ELSE Len(filteredCommands)
Arrow(step) == /\ open /\ selected' = ((selected - 1 + step + Size) % Size) + 1
               /\ UNCHANGED <<open, query, focus, previous, hookFirst, page, goMode>>
Hover(i) == /\ open /\ i # selected /\ selected' = i
            /\ UNCHANGED <<open, query, focus, previous, hookFirst, page, goMode>>

navigate(r) == route' = r /\ UNCHANGED <<listening, signals>>
\* Nothing listens to the event of "Refresh health".
activateCommand(c) ==
    /\ closePalette(previous) /\ UNCHANGED goMode
    /\ CASE c = "toggle-dark"     -> UNCHANGED page
         [] c = "refresh-health"  -> navigate("/health") /\ UNCHANGED frame
         [] c = "run-diagnostics" -> navigate("/health") /\ frame' = TRUE /\ signals < MaxSignals
         [] OTHER                 -> navigate(c) /\ UNCHANGED frame
\* Wherever the focus is inside the palette.
Enter == open /\ filteredCommands # <<>> /\ activateCommand(filteredCommands[selected])
Click(i) == open /\ activateCommand(filteredCommands[i])
------------------------------------------------------------------------------
(* The page behind it. *)

\* The render that follows a navigation, before the next frame.
Render == /\ listening # (route = "/health") /\ listening' = (route = "/health") /\ signals' = 0
          /\ UNCHANGED <<palette, goMode, route, frame>>
Frame == /\ frame /\ listening = (route = "/health") /\ frame' = FALSE
         /\ signals' = (IF listening THEN signals + 1 ELSE signals)
         /\ UNCHANGED <<palette, goMode, route, listening>>
------------------------------------------------------------------------------
(* The G-then-letter navigation. *)

enterGoMode == ~isInputFocused /\ ~goMode /\ goMode' = TRUE /\ UNCHANGED <<palette, page>>
\* The second key ends the mode, whether or not a route has it.
SecondKey(k) == /\ ~isInputFocused /\ goMode /\ goMode' = FALSE /\ UNCHANGED palette
                /\ IF k \in DOMAIN GoRoutes THEN navigate(GoRoutes[k]) /\ UNCHANGED frame
                   ELSE UNCHANGED page
GoTimeout == goMode /\ goMode' = FALSE /\ UNCHANGED <<palette, page>>
------------------------------------------------------------------------------
Next == \/ \E f \in {"page", "field"} : Focus(f)
        \/ OpenByKey \/ CloseByKey \/ OpenByButton \/ Close
        \/ \E q \in Queries \cup {"", "?"} : Type(q)
        \/ ShowShortcuts \/ Tab \/ Arrow(1) \/ Arrow(Size - 1) \/ (\E i \in 1..Len(filteredCommands) : Hover(i) \/ Click(i))
        \/ Enter \/ Render \/ Frame
        \/ enterGoMode \/ GoTimeout \/ (\E k \in DOMAIN GoRoutes \cup {"z"} : SecondKey(k))
Spec == Init /\ [][Next]_vars
------------------------------------------------------------------------------
(* Properties. *)

\* The command that Enter would run is one of the list on the screen, whatever
\* was typed after the arrow keys moved.
HighlightIsListed == open /\ filteredCommands # <<>> => selected \in 1..Len(filteredCommands)

\* "Run Diagnostics" reaches the health page though the page is mounted by the
\* same command: what is asked for is signalled unless the operator left the page.
AskedIsSignalled == frame /\ ~frame' /\ route = "/health" => signals' = signals + 1
================================================================================
