-------------------------------- MODULE Chat ---------------------------------
(* The chat: routes/control-plane/chat.ts, which asks Iranti for memory and   *)
(* then for a completion, and the panel of ChatPanel.tsx.  Cancelling in the  *)
(* panel drops its own fetch only, so the server still works on a question    *)
(* when the next one of the same session comes in; DELETE /chat/:sessionId    *)
(* aborts the question the registry holds for the session.                    *)
EXTENDS Naturals, Sequences

CONSTANT MaxSends   \* questions asked, a bound

VARIABLES messages,     \* the thread: [role, of], of the question's number
          asked,        \* questions sent so far; they name sessions too
          current,      \* the question abortControllerRef belongs to, 0 when not isLoading
          sessionId,    \* of the panel, 0 when undefined
          req,          \* question |-> [at, session, aborted], the server's handling of it
          inFlight,     \* session |-> the question whose controller is registered, or 0
          cancelling    \* the second click on Clear is awaited

panel == <<messages, asked, current, sessionId, cancelling>>
server == <<req, inFlight>>
vars == <<panel, server>>

Questions == 1..MaxSends
Running == {"attend", "completion"}
Said(role, q) == [role |-> role, of |-> q]

Init == /\ messages = <<>> /\ asked = 0 /\ current = 0 /\ sessionId = 0 /\ cancelling = FALSE
        /\ req = [q \in Questions |-> [at |-> "unsent", session |-> 0, aborted |-> FALSE]]
        /\ inFlight = [q \in Questions |-> 0]
------------------------------------------------------------------------------
(* The panel. *)

\* handleSend up to its fetch; the text is not empty.
handleSendAgain == \* mutant: without the guard on isLoading
    /\ asked < MaxSends /\ asked' = asked + 1 /\ current' = asked'
    /\ messages' = Append(messages, Said("user", asked'))
    /\ req' = [req EXCEPT ![asked'].at = "sent", ![asked'].session = sessionId]
    /\ UNCHANGED <<sessionId, cancelling, inFlight>>
handleSend == /\ current = 0 /\ asked < MaxSends
              /\ asked' = asked + 1 /\ current' = asked'
              /\ messages' = Append(messages, Said("user", asked'))
              /\ req' = [req EXCEPT ![asked'].at = "sent", ![asked'].session = sessionId]
              /\ UNCHANGED <<sessionId, cancelling, inFlight>>

\* The rest of handleSend: the note, the reply or the error becomes the next message.
Note(role) == messages' = Append(messages, Said(role, current)) /\ current' = 0

\* handleCancel aborts the fetch; what the server does is not told.
handleCancel == /\ current # 0 /\ Note("assistant")
                /\ UNCHANGED <<asked, sessionId, cancelling, server>>

Receive == /\ current # 0 /\ req[current].at \in {"ok", "failed", "aborted"}
           /\ Note("assistant")
           /\ sessionId' = IF req[current].at = "ok" THEN req[current].session ELSE sessionId
           /\ UNCHANGED <<asked, cancelling, server>>

AnswerLost == /\ current # 0 /\ Note("assistant")
              /\ UNCHANGED <<asked, sessionId, cancelling, server>>

\* handleClearClick: the first click asks, the second within three seconds
\* clears the thread and the session, whatever is in flight.
handleClearClick ==
    /\ cancelling' = ~cancelling
    /\ IF cancelling THEN messages' = <<>> /\ sessionId' = 0 ELSE UNCHANGED <<messages, sessionId>>
    /\ UNCHANGED <<asked, current, server>>

ClearTimesOut == /\ cancelling /\ cancelling' = FALSE
                 /\ UNCHANGED <<messages, asked, current, sessionId, server>>
------------------------------------------------------------------------------
(* The server. *)

\* POST /chat: a question without a session names a new one (randomUUID), and
\* its controller takes the place of any other of that session.
PostChat(q) == /\ req[q].at = "sent"
               /\ LET s == IF req[q].session = 0 THEN q ELSE req[q].session
                  IN  /\ req' = [req EXCEPT ![q].at = "attend", ![q].session = s]
                      /\ inFlight' = [inFlight EXCEPT ![s] = q]
               /\ UNCHANGED panel

\* irantiFetchAttend returns or throws; either way the completion is asked for.
Attended(q) == /\ req[q].at = "attend" /\ req' = [req EXCEPT ![q].at = "completion"]
               /\ UNCHANGED <<panel, inFlight>>

\* callIrantiChatCompletions: with an aborted signal it can only throw, and the
\* answer is 499.  The finally removes whatever controller the session has.
Outcomes(q) == IF req[q].aborted THEN {"aborted"} ELSE {"ok", "failed"}
Completed(q) ==
    /\ req[q].at = "completion"
    /\ \E o \in Outcomes(q) : req' = [req EXCEPT ![q].at = o]
    /\ inFlight' = [inFlight EXCEPT ![req[q].session] = 0]
    /\ UNCHANGED panel

\* DELETE /chat/:sessionId
DeleteChat(s) ==
    /\ req' = IF inFlight[s] # 0 THEN [req EXCEPT ![inFlight[s]].aborted = TRUE] ELSE req
    /\ inFlight' = [inFlight EXCEPT ![s] = 0]
    /\ UNCHANGED panel
------------------------------------------------------------------------------
Next == \/ handleSend \/ handleCancel \/ Receive \/ AnswerLost \/ handleClearClick \/ ClearTimesOut
        \/ \E q \in Questions : PostChat(q) \/ Attended(q) \/ Completed(q) \/ DeleteChat(q)

\* Iranti answers or fails, and the answers come back.
Answering(q) == PostChat(q) \/ Attended(q) \/ Completed(q)
Fairness == WF_vars(Receive) /\ \A q \in Questions : WF_vars(Answering(q))
Spec == Init /\ [][Next]_vars /\ Fairness
------------------------------------------------------------------------------
(* Properties. *)

\* The registry names requests that the server works on, each under its own
\* session and not yet aborted: what DELETE aborts is never already answered.
TypeOK == \A s \in Questions : inFlight[s] # 0 =>
              LET r == req[inFlight[s]] IN r.at \in Running /\ r.session = s /\ ~r.aborted

\* A reply follows its own question: no reply lands under another question,
\* and only the first message can be a reply whose question was cleared away.
AnswersFollowQuestions ==
    \A i \in 1..Len(messages) :
        /\ messages[i].role = "assistant" /\ i > 1 => messages[i - 1] = Said("user", messages[i].of)
        /\ messages[i].role = "user" /\ i < Len(messages) => messages[i + 1] = Said("assistant", messages[i].of)
        /\ messages[i].role = "user" /\ i = Len(messages) => current = messages[i].of

\* A question whose session was cancelled is never answered by the model, even
\* if the abort came while the memory was being asked and its error is swallowed.
AbortedIsNotAnswered == \A q \in Questions : req[q].aborted => req[q].at # "ok"

\* What comes to an end: the wait for an answer.
Waits == IF current # 0 THEN {1} ELSE {}
===============================================================================
