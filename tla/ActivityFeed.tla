----------------------------- MODULE ActivityFeed -----------------------------
(* The page of ActivityStream.tsx over the stream of EventStream: events that *)
(* arrive enter a list, or a buffer while the page is paused by its badge or  *)
(* by the mouse over the list.  A handler sees the state as last drawn, while *)
(* events arrive at any time.  The tail mode replaces the list by the newest  *)
(* events of GET /events.  An event is the number of its message: the page    *)
(* does not look at ids, and lists an event that is sent again once more.     *)
EXTENDS Naturals, Sequences, FiniteSets, SequencesExt, Functions

CONSTANTS MAX_EVENTS_IN_DOM,  \* 500 in the code, and the limit of a tail request
          MAX_PAUSE_BUFFER,   \* 1000 in the code
          MaxEvents, MaxModes \* bounds: events, and changes of mode or filter

VARIABLES stored,       \* events in staff_events, in the order they are sent
          es, at,       \* the connection is open, and how far it has sent
          received,     \* events received; lastEventIdRef holds one of them
          mode, manualPaused, hoverPaused, events, buffer, bufferDropped,
          drawn,        \* what the handlers close over
          pausedRef,    \* what a message looks at, set when a drawing took effect
          tail,         \* the tail request: [at, rows]
          modes,        \* changes of mode or filter
          tailed, raced \* history: a tail was listed; a handler saw an old state

page == <<mode, manualPaused, hoverPaused, events, buffer, bufferDropped, drawn, pausedRef>>
history == <<tailed, raced>>
vars == <<stored, es, at, received, page, tail, modes, history>>

State(b, m, h) == [buffer |-> b, manual |-> m, hover |-> h]
NoTail == [at |-> "none", rows |-> <<>>]
Init == /\ stored = 0 /\ es = FALSE /\ at = 0 /\ received = {}
        /\ mode = "live" /\ manualPaused = FALSE /\ hoverPaused = FALSE
        /\ events = <<>> /\ buffer = <<>> /\ bufferDropped = FALSE
        /\ drawn = State(<<>>, FALSE, FALSE) /\ pausedRef = FALSE
        /\ tail = NoTail /\ modes = 0 /\ tailed = FALSE /\ raced = FALSE
------------------------------------------------------------------------------
(* The stream and its connection. *)
Insert == /\ stored < MaxEvents /\ stored' = stored + 1
          /\ UNCHANGED <<es, at, received, page, tail, modes, history>>
\* connect: the stream starts at the present; the since parameter of a page that
\* has received an event is refused (ValidSince of EventStream).
connect == /\ mode = "live" /\ ~es /\ received = {} /\ es' = TRUE /\ at' = stored
           /\ UNCHANGED <<stored, received, page, tail, modes, history>>
Cut == es /\ es' = FALSE /\ UNCHANGED <<stored, at, received, page, tail, modes, history>>

Newest(n, s) == SubSeq(s, 1, IF Len(s) > n THEN n ELSE Len(s))
onmessage ==
    /\ es /\ at < stored /\ at' = at + 1 /\ received' = received \union {at'}
    /\ IF pausedRef
       THEN /\ buffer' = Append(IF Len(buffer) >= MAX_PAUSE_BUFFER THEN Tail(buffer) ELSE buffer, at')
            /\ bufferDropped' = (bufferDropped \/ Len(buffer) >= MAX_PAUSE_BUFFER)
            /\ UNCHANGED events
       ELSE events' = Newest(MAX_EVENTS_IN_DOM, <<at'>> \o events) /\ UNCHANGED <<buffer, bufferDropped>>
    /\ UNCHANGED <<stored, es, mode, manualPaused, hoverPaused, drawn, pausedRef, tail, modes, history>>
------------------------------------------------------------------------------
(* Drawing.  A click is drawn before anything else happens, the rest later. *)
Drawn == drawn' = State(buffer', manualPaused', hoverPaused') /\ pausedRef' = (manualPaused' \/ hoverPaused')
Draw == /\ drawn # State(buffer, manualPaused, hoverPaused) \/ pausedRef # (manualPaused \/ hoverPaused)
        /\ UNCHANGED <<stored, es, at, received, mode, manualPaused, hoverPaused, events, buffer,
                       bufferDropped, tail, modes, history>> /\ Drawn

FlushKept == \* mutant: what was listed goes
    /\ events' = Newest(MAX_EVENTS_IN_DOM, drawn.buffer) /\ buffer' = <<>> /\ bufferDropped' = FALSE
    /\ raced' = (raced \/ drawn # State(buffer, manualPaused, hoverPaused))
\* flushBuffer puts the buffer as it was drawn in front and empties what there is.
flushBuffer == /\ events' = Newest(MAX_EVENTS_IN_DOM, drawn.buffer \o events)
               /\ buffer' = <<>> /\ bufferDropped' = FALSE
               /\ raced' = (raced \/ drawn # State(buffer, manualPaused, hoverPaused))
Resumed == flushBuffer /\ manualPaused' = FALSE /\ hoverPaused' = FALSE
Unflushed == UNCHANGED <<events, buffer, bufferDropped, raced>>

handleBadgeToggle == /\ mode = "live"
                     /\ IF drawn.manual THEN Resumed ELSE manualPaused' = TRUE /\ UNCHANGED hoverPaused /\ Unflushed
                     /\ Drawn /\ UNCHANGED <<stored, es, at, received, mode, tail, modes, tailed>>
\* The button of the banner, which stands in either mode.
handleResume == /\ drawn.manual /\ drawn.buffer # <<>> /\ Resumed
                /\ Drawn /\ UNCHANGED <<stored, es, at, received, mode, tail, modes, tailed>>
handleListMouseEnter == /\ mode = "live" /\ ~hoverPaused /\ hoverPaused' = TRUE
                        /\ UNCHANGED <<stored, es, at, received, mode, manualPaused, events, buffer,
                                       bufferDropped, drawn, pausedRef, tail, modes, history>>
handleListMouseLeave == /\ drawn.hover /\ hoverPaused' = FALSE /\ IF drawn.manual THEN Unflushed ELSE flushBuffer
                        /\ UNCHANGED <<stored, es, at, received, mode, manualPaused,
                                       drawn, pausedRef, tail, modes, tailed>>
------------------------------------------------------------------------------
(* Modes and filters.  A change closes the connection; the tail is asked for  *)
(* anew, and the answer is listed whatever the mode is by then.               *)
SetMode(m) == /\ modes < MaxModes /\ modes' = modes + 1 /\ mode' = m /\ es' = FALSE
              /\ m # mode \/ m = "live" \/ tail.at = "none"
              /\ tail' = IF m = "tail" THEN [NoTail EXCEPT !.at = "asked"] ELSE tail
              /\ UNCHANGED <<stored, at, received, manualPaused, hoverPaused, events, buffer,
                             bufferDropped, history>> /\ Drawn
ReadTail == /\ tail.at = "asked"
            /\ tail' = [at |-> "read", rows |-> Reverse(Newest(MAX_EVENTS_IN_DOM, [i \in 1..stored |-> stored + 1 - i]))]
            /\ UNCHANGED <<stored, es, at, received, page, modes, history>>
ListTail == /\ tail.at = "read" /\ tail' = NoTail /\ events' = tail.rows /\ tailed' = TRUE
            /\ UNCHANGED <<stored, es, at, received, mode, manualPaused, hoverPaused, buffer,
                           bufferDropped, drawn, pausedRef, modes, raced>>
TailFails == /\ tail.at = "asked" /\ tail' = NoTail
             /\ UNCHANGED <<stored, es, at, received, page, modes, history>>

Next == \/ Insert \/ connect \/ Cut \/ onmessage \/ Draw
        \/ handleBadgeToggle \/ handleResume \/ handleListMouseEnter \/ handleListMouseLeave
        \/ \E m \in {"live", "tail"} : SetMode(m)
        \/ ReadTail \/ ListTail \/ TailFails
Spec == Init /\ [][Next]_vars
------------------------------------------------------------------------------
(* Properties. *)

\* Until a tail is listed or a handler sees an old drawing, every event that
\* was received is listed or buffered, once for each message, unless a limit cut it off: then
\* the list is full or the page says that events were dropped.
NothingLost == ~tailed /\ ~raced =>
    /\ IsInjective(events \o buffer)
    /\ received \subseteq Range(events \o buffer) \/ Len(events) = MAX_EVENTS_IN_DOM \/ bufferDropped
================================================================================
