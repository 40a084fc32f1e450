---------------------------- MODULE PagesProofs -----------------------------
(***************************************************************************)
(* What the panels of Panels promise, proved for every value of their      *)
(* constants: that answers find their request, that the upgrade panel      *)
(* polls what it shows, that the feed loses no event and that the history  *)
(* of a fact is true.  A behaviour stays on one page, so each page has its *)
(* own inductive invariant, over names for the slots that it uses; the     *)
(* theorems at the end put the pages together.                             *)
(***************************************************************************)
EXTENDS Panels, SequenceTheorems, FiniteSetTheorems, WellFoundedInduction, TLAPS

-----------------------------------------------------------------------------
(***************************************************************************)
(* The chat.  The registry names a question under its own session only     *)
(* while the server works on it, so what a deletion aborts is unanswered;  *)
(* and while a question waits, it is the last thing said, unless the       *)
(* thread was cleared.                                                     *)
(***************************************************************************)
messages == s1
asked == s2
current == s3
sessionId == s4
req == s5
inFlight == s6
cancelling == s7
USE DEF messages, asked, current, sessionId, req, inFlight, cancelling

LEMMA ChatBounds ==
  MaxSends \in Nat
BY PagesAssumption

Sayings == [role : {"user", "assistant"}, of : 1..MaxSends]
Handled == [at : {"unsent", "sent", "attend", "completion", "ok", "failed", "aborted"},
            session : 0..MaxSends, aborted : BOOLEAN]

ChatTypeOK ==
  /\ messages \in Seq(Sayings)
  /\ asked \in 0..MaxSends /\ current \in 0..asked /\ sessionId \in 0..MaxSends
  /\ req \in [1..MaxSends -> Handled] /\ inFlight \in [1..MaxSends -> 0..MaxSends]

\* What waits for an answer is said last.
LastIsAsked == current # 0 /\ messages # <<>> => messages[Len(messages)] = ChatPage!Said("user", current)

\* Questions not asked yet are unknown to the server, and those it does not
\* work on yet are not aborted.
UnaskedIsUnsent == \A q \in 1..MaxSends : /\ q > asked => req[q].at = "unsent"
                                          /\ req[q].at \in {"unsent", "sent"} => ~req[q].aborted

ChatInv == /\ ChatTypeOK /\ LastIsAsked /\ UnaskedIsUnsent
           /\ ChatPage!TypeOK /\ ChatPage!AnswersFollowQuestions /\ ChatPage!AbortedIsNotAnswered

USE DEF ChatPage!Said, ChatPage!Questions, ChatPage!Running

LEMMA ChatInit == ASSUME ChatPage!Init PROVE ChatInv
  BY ChatBounds DEF ChatPage!Init, ChatInv, ChatTypeOK, LastIsAsked, UnaskedIsUnsent, Handled,
     ChatPage!TypeOK, ChatPage!AnswersFollowQuestions, ChatPage!AbortedIsNotAnswered

(* One more message, of the question that waits or of the one now asked.   *)
LEMMA Speaks ==
  ASSUME ChatInv, NEW role \in {"user", "assistant"}, NEW q \in 1..MaxSends,
         messages' = Append(messages, ChatPage!Said(role, q)),
         IF role = "user" THEN current = 0 /\ current' = q ELSE current = q /\ current' = 0
  PROVE  /\ messages' \in Seq(Sayings)
         /\ LastIsAsked' /\ ChatPage!AnswersFollowQuestions'
<1> DEFINE m == ChatPage!Said(role, q)
<1>1. /\ messages \in Seq(Sayings)
      /\ m \in Sayings /\ m.role = role /\ m.of = q
  BY DEF ChatInv, ChatTypeOK, Sayings
<1>2. /\ messages' \in Seq(Sayings)
      /\ Len(messages') = Len(messages) + 1 /\ messages'[Len(messages')] = m
      /\ \A i \in 1..Len(messages) : messages'[i] = messages[i]
  BY <1>1
<1>3. LastIsAsked'
  BY <1>1, <1>2 DEF LastIsAsked
<1>4. Len(messages) # 0 /\ role = "assistant" => messages[Len(messages)] = ChatPage!Said("user", q)
  BY <1>1 DEF ChatInv, LastIsAsked
<1>5. Len(messages) # 0 /\ role = "user" => messages[Len(messages)].role # "user"
  <2> SUFFICES ASSUME Len(messages) # 0, current = 0 PROVE messages[Len(messages)].role # "user"
    OBVIOUS
  <2>0. Len(messages) \in 1..Len(messages)
    BY <1>1
  <2>1. messages[Len(messages)] \in Sayings
    BY <1>1, <2>0, ElementOfSeq
  <2>2. messages[Len(messages)].role = "user" => current = messages[Len(messages)].of
    BY <2>0 DEF ChatInv, ChatPage!AnswersFollowQuestions
  <2> QED
    BY <2>1, <2>2 DEF Sayings
<1>6. ChatPage!AnswersFollowQuestions'
  <2> SUFFICES ASSUME NEW i \in 1..Len(messages')
               PROVE  /\ messages'[i].role = "assistant" /\ i > 1
                           => messages'[i - 1] = ChatPage!Said("user", messages'[i].of)
                      /\ messages'[i].role = "user" /\ i < Len(messages')
                           => messages'[i + 1] = ChatPage!Said("assistant", messages'[i].of)
                      /\ messages'[i].role = "user" /\ i = Len(messages') => current' = messages'[i].of
    BY DEF ChatPage!AnswersFollowQuestions
  <2>1. CASE i = Len(messages')
    BY <1>1, <1>2, <1>4, <2>1
  <2>2. CASE i = Len(messages)
    BY <1>1, <1>2, <1>4, <1>5, <2>2 DEF ChatInv, ChatPage!AnswersFollowQuestions, ChatTypeOK
  <2>3. CASE i < Len(messages)
    BY <1>1, <1>2, <2>3 DEF ChatInv, ChatPage!AnswersFollowQuestions
  <2> QED
    BY <1>1, <1>2, <2>1, <2>2, <2>3
<1> QED
  BY <1>2, <1>3, <1>6

(* What the server holds of one question changes.                          *)
LEMMA Handles ==
  ASSUME ChatInv, NEW q \in 1..MaxSends, NEW r \in Handled, req' = [req EXCEPT ![q] = r],
         q > asked' => r.at = "unsent", r.at \in {"unsent", "sent"} => ~r.aborted, asked' \in Nat, asked' >= asked, r.aborted => r.at # "ok"
  PROVE  /\ req' \in [1..MaxSends -> Handled] /\ req'[q] = r
         /\ \A p \in 1..MaxSends \ {q} : req'[p] = req[p]
         /\ UnaskedIsUnsent' /\ ChatPage!AbortedIsNotAnswered'
<1>1. /\ req' \in [1..MaxSends -> Handled] /\ req'[q] = r
      /\ \A p \in 1..MaxSends \ {q} : req'[p] = req[p]
  BY DEF ChatInv, ChatTypeOK
<1>2. UnaskedIsUnsent'
  <2> SUFFICES ASSUME NEW p \in 1..MaxSends, TRUE
               PROVE  /\ p > asked' => req'[p].at = "unsent"
                      /\ req'[p].at \in {"unsent", "sent"} => ~req'[p].aborted
    BY DEF UnaskedIsUnsent
  <2>1. asked \in Nat /\ (p > asked' => p > asked)
    BY DEF ChatInv, ChatTypeOK
  <2> QED
    BY <1>1, <2>1 DEF ChatInv, UnaskedIsUnsent
<1>3. ChatPage!AbortedIsNotAnswered'
  BY <1>1 DEF ChatInv, ChatPage!AbortedIsNotAnswered
<1> QED
  BY <1>1, <1>2, <1>3

LEMMA Registered ==
  ASSUME ChatInv, NEW s \in 1..MaxSends, inFlight[s] # 0
  PROVE  /\ inFlight[s] \in 1..MaxSends /\ req[inFlight[s]].at \in {"attend", "completion"}
         /\ req[inFlight[s]].session = s /\ ~req[inFlight[s]].aborted
<1>1. inFlight[s] \in 1..MaxSends
  BY DEF ChatInv, ChatTypeOK
<1> QED
  BY <1>1 DEF ChatInv, ChatPage!TypeOK

LEMMA ChatStep == ASSUME ChatInv, ChatPage!Next PROVE ChatInv'
<1> USE ChatBounds
<1>1. CASE ChatPage!handleSend
  <2> DEFINE q == asked + 1
             r == [req[q] EXCEPT !.at = "sent", !.session = sessionId]
  <2>1. /\ q \in 1..MaxSends /\ current' = q /\ asked' = q /\ current = 0
        /\ messages' = Append(messages, ChatPage!Said("user", q)) /\ UNCHANGED <<sessionId, inFlight>>
    BY <1>1 DEF ChatPage!handleSend, ChatInv, ChatTypeOK
  <2>2. req' = [req EXCEPT ![q] = r]
    BY <1>1, <2>1 DEF ChatPage!handleSend, ChatInv, ChatTypeOK
  <2>3. req[q] \in Handled /\ req[q].at = "unsent" /\ ~req[q].aborted /\ sessionId \in 0..MaxSends
    BY <2>1 DEF ChatInv, ChatTypeOK, UnaskedIsUnsent
  <2>4. r \in Handled /\ r.at = "sent" /\ ~r.aborted
    BY <2>3 DEF Handled
  <2> HIDE DEF r
  <2>5. /\ messages' \in Seq(Sayings)
        /\ LastIsAsked' /\ ChatPage!AnswersFollowQuestions'
    BY <2>1, Speaks
  <2>6. /\ req' \in [1..MaxSends -> Handled] /\ req'[q] = r
        /\ \A p \in 1..MaxSends \ {q} : req'[p] = req[p]
        /\ UnaskedIsUnsent' /\ ChatPage!AbortedIsNotAnswered'
    <3>1. asked' \in Nat /\ asked' >= asked /\ (q > asked' => r.at = "unsent")
      BY <2>1 DEF ChatInv, ChatTypeOK
    <3>2. q \in 1..MaxSends /\ (r.at \in {"unsent", "sent"} => ~r.aborted) /\ (r.aborted => r.at # "ok")
      BY <2>1, <2>4
    <3> HIDE DEF q
    <3> QED
      BY <2>2, <2>4, <3>1, <3>2, Handles
  <2>7. ChatTypeOK'
    BY <2>1, <2>5, <2>6 DEF ChatInv, ChatTypeOK
  <2>8. ChatPage!TypeOK'
    <3> SUFFICES ASSUME NEW s \in 1..MaxSends, inFlight'[s] # 0
                 PROVE  /\ req'[inFlight'[s]].at \in {"attend", "completion"}
                        /\ req'[inFlight'[s]].session = s /\ ~req'[inFlight'[s]].aborted
      BY DEF ChatPage!TypeOK
    <3>1. inFlight'[s] = inFlight[s] /\ inFlight[s] # q
      BY <2>1, <2>3, Registered
    <3> QED
      BY <2>6, <3>1, Registered
  <2> QED
    BY <2>5, <2>6, <2>7, <2>8 DEF ChatInv
<1>2. CASE ChatPage!handleCancel \/ ChatPage!Receive \/ ChatPage!AnswerLost
  <2>1. /\ current \in 1..MaxSends /\ current' = 0 /\ UNCHANGED <<asked, req, inFlight>>
        /\ messages' = Append(messages, ChatPage!Said("assistant", current))
    BY <1>2 DEF ChatPage!handleCancel, ChatPage!Receive, ChatPage!AnswerLost, ChatPage!Note,
       ChatPage!server, ChatInv, ChatTypeOK
  <2>2. /\ messages' \in Seq(Sayings)
        /\ LastIsAsked' /\ ChatPage!AnswersFollowQuestions'
    BY <2>1, Speaks
  <2>3. sessionId' \in 0..MaxSends
    BY <1>2, <2>1 DEF ChatPage!handleCancel, ChatPage!Receive, ChatPage!AnswerLost, ChatInv, ChatTypeOK, Handled
  <2> QED
    BY <2>1, <2>2, <2>3 DEF ChatInv, ChatTypeOK, UnaskedIsUnsent, ChatPage!TypeOK, ChatPage!AbortedIsNotAnswered
<1>3. CASE ChatPage!handleClearClick \/ ChatPage!ClearTimesOut
  <2>1. /\ UNCHANGED <<asked, current, req, inFlight>>
        /\ (messages' = <<>> /\ sessionId' = 0) \/ UNCHANGED <<messages, sessionId>>
    BY <1>3 DEF ChatPage!handleClearClick, ChatPage!ClearTimesOut, ChatPage!server
  <2>2. CASE messages' = <<>> /\ sessionId' = 0
    <3>1. ChatTypeOK' /\ LastIsAsked'
      BY <2>1, <2>2 DEF ChatInv, ChatTypeOK, LastIsAsked
    <3>2. ChatPage!AnswersFollowQuestions'
      BY <2>2 DEF ChatPage!AnswersFollowQuestions
    <3> QED
      BY <2>1, <3>1, <3>2 DEF ChatInv, UnaskedIsUnsent, ChatPage!TypeOK, ChatPage!AbortedIsNotAnswered
  <2>3. CASE UNCHANGED <<messages, sessionId>>
    BY <2>1, <2>3 DEF ChatInv, ChatTypeOK, LastIsAsked, UnaskedIsUnsent, ChatPage!TypeOK,
       ChatPage!AnswersFollowQuestions, ChatPage!AbortedIsNotAnswered
  <2> QED
    BY <2>1, <2>2, <2>3
<1>4. ASSUME NEW q \in 1..MaxSends,
             ChatPage!PostChat(q) \/ ChatPage!Attended(q) \/ ChatPage!Completed(q) \/ ChatPage!DeleteChat(q)
      PROVE  ChatInv'
  <2>1. UNCHANGED <<messages, asked, current, sessionId>>
    BY <1>4 DEF ChatPage!PostChat, ChatPage!Attended, ChatPage!Completed, ChatPage!DeleteChat, ChatPage!panel
  <2>2. LastIsAsked' /\ ChatPage!AnswersFollowQuestions'
    BY <2>1 DEF ChatInv, LastIsAsked, ChatPage!AnswersFollowQuestions
  <2>3. /\ req \in [1..MaxSends -> Handled] /\ inFlight \in [1..MaxSends -> 0..MaxSends]
        /\ asked \in Nat /\ asked' = asked /\ sessionId \in 0..MaxSends
        /\ \A p \in 1..MaxSends : req[p] \in Handled
        /\ \A s \in 1..MaxSends : inFlight[s] \in 0..MaxSends
        /\ \A s \in 1..MaxSends : inFlight[s] # 0 =>
             req[inFlight[s]].at \in {"attend", "completion"} /\ req[inFlight[s]].session = s /\ ~req[inFlight[s]].aborted
    BY <2>1 DEF ChatInv, ChatTypeOK, ChatPage!TypeOK
  <2>4. \A p \in 1..MaxSends : (p > asked => req[p].at = "unsent")
                                 /\ (req[p].at \in {"unsent", "sent"} => ~req[p].aborted)
    BY DEF ChatInv, UnaskedIsUnsent
  <2>5. ASSUME NEW p \in 1..MaxSends, NEW r \in Handled, req' = [req EXCEPT ![p] = r],
               req[p].at # "unsent", r.at \notin {"unsent", "sent"}, r.aborted => r.at # "ok",
               NEW s \in 1..MaxSends, NEW i \in {0, p, inFlight[s]}, inFlight' = [inFlight EXCEPT ![s] = i],
               \A z \in 1..MaxSends : inFlight'[z] = p =>
                 r.at \in {"attend", "completion"} /\ r.session = z /\ ~r.aborted
        PROVE  ChatInv'
    <3>1. /\ req' \in [1..MaxSends -> Handled] /\ req'[p] = r
          /\ \A z \in 1..MaxSends \ {p} : req'[z] = req[z]
          /\ UnaskedIsUnsent' /\ ChatPage!AbortedIsNotAnswered'
      <4>1. asked' \in Nat /\ asked' >= asked
        BY <2>3
      <4>2. (p > asked' => r.at = "unsent") /\ (r.at \in {"unsent", "sent"} => ~r.aborted)
        BY <2>3, <2>4, <2>5
      <4>3. req' = [req EXCEPT ![p] = r] /\ (r.aborted => r.at # "ok")
        BY <2>5
      <4> QED
        BY <4>1, <4>2, <4>3, Handles
    <3>2. inFlight' \in [1..MaxSends -> 0..MaxSends]
      BY <2>3, <2>5
    <3>3. \A z \in 1..MaxSends : inFlight'[z] \in {0, p, inFlight[z]}
      BY <2>3, <2>5
    <3>4. ChatPage!TypeOK'
      <4> SUFFICES ASSUME NEW z \in 1..MaxSends, inFlight'[z] # 0
                   PROVE  /\ req'[inFlight'[z]].at \in {"attend", "completion"}
                          /\ req'[inFlight'[z]].session = z /\ ~req'[inFlight'[z]].aborted
        BY DEF ChatPage!TypeOK
      <4>1. CASE inFlight'[z] = p
        BY <2>5, <3>1, <4>1
      <4>2. CASE inFlight'[z] # p
        <5>1. inFlight'[z] = inFlight[z]
          BY <3>3, <4>2
        <5> QED
          BY <3>1, <4>2, <5>1, Registered
      <4> QED
        BY <4>1, <4>2
    <3>5. ChatTypeOK'
      BY <2>1, <3>1, <3>2 DEF ChatInv, ChatTypeOK
    <3> QED
      BY <2>2, <3>1, <3>4, <3>5 DEF ChatInv
  <2>6. req[q] \in Handled
    BY <2>3
  <2>7. CASE ChatPage!PostChat(q)
    <3> DEFINE s == IF req[q].session = 0 THEN q ELSE req[q].session
               r == [req[q] EXCEPT !.at = "attend", !.session = s]
    <3>1. req[q].at = "sent" /\ req' = [req EXCEPT ![q] = r] /\ inFlight' = [inFlight EXCEPT ![s] = q]
      BY <2>7 DEF ChatPage!PostChat
    <3>2. s \in 1..MaxSends /\ ~req[q].aborted
      BY <2>4, <2>6, <3>1 DEF Handled
    <3> HIDE DEF s
    <3>3. r \in Handled /\ r.at = "attend" /\ r.session = s /\ ~r.aborted
      <4> DEFINE r1 == [req[q] EXCEPT !.at = "attend"]
      <4>1. r1 \in Handled /\ r1.at = "attend" /\ ~r1.aborted
        BY <2>6, <3>2 DEF Handled
      <4>2. r = [r1 EXCEPT !.session = s]
        OBVIOUS
      <4> HIDE DEF r1, r
      <4> QED
        BY <3>2, <4>1, <4>2 DEF Handled
    <3> HIDE DEF r
    <3>4. \A z \in 1..MaxSends : inFlight'[z] = q => r.at \in {"attend", "completion"} /\ r.session = z /\ ~r.aborted
      <4> SUFFICES ASSUME NEW z \in 1..MaxSends, inFlight'[z] = q PROVE z = s
        BY <3>3
      <4>1. z # s => inFlight[z] = q
        BY <2>3, <3>1, <3>2
      <4> QED
        BY <3>1, <4>1, Registered
    <3>5. q \in {0, q, inFlight[s]} /\ req[q].at # "unsent" /\ r.at \notin {"unsent", "sent"} /\ (r.aborted => r.at # "ok")
      BY <3>1, <3>3
    <3> QED
      BY <2>5, <3>1, <3>2, <3>3, <3>4, <3>5
  <2>8. CASE ChatPage!Attended(q)
    <3> DEFINE r == [req[q] EXCEPT !.at = "completion"]
    <3>1. req[q].at = "attend" /\ req' = [req EXCEPT ![q] = r] /\ UNCHANGED inFlight
      BY <2>8 DEF ChatPage!Attended
    <3>2. r \in Handled /\ r.at = "completion" /\ r.session = req[q].session /\ r.aborted = req[q].aborted
      BY <2>6 DEF Handled
    <3> HIDE DEF r
    <3>3. inFlight' = [inFlight EXCEPT ![q] = inFlight[q]]
      BY <2>3, <3>1
    <3>4. \A z \in 1..MaxSends : inFlight'[z] = q => r.at \in {"attend", "completion"} /\ r.session = z /\ ~r.aborted
      BY <2>3, <3>1, <3>2, Registered
    <3>5. /\ inFlight[q] \in {0, q, inFlight[q]} /\ req[q].at # "unsent"
          /\ r.at \notin {"unsent", "sent"} /\ (r.aborted => r.at # "ok")
      BY <3>1, <3>2
    <3> QED
      BY <2>5, <3>1, <3>2, <3>3, <3>4, <3>5
  <2>9. CASE ChatPage!Completed(q)
    <3>1. PICK o \in {"aborted", "ok", "failed"} :
            /\ req[q].at = "completion" /\ (req[q].aborted => o = "aborted")
            /\ req' = [req EXCEPT ![q].at = o] /\ inFlight' = [inFlight EXCEPT ![req[q].session] = 0]
      BY <2>9 DEF ChatPage!Completed, ChatPage!Outcomes
    <3> DEFINE r == [req[q] EXCEPT !.at = o]
               s == req[q].session
    <3>2. r \in Handled /\ r.at = o /\ r.aborted = req[q].aborted /\ s \in 0..MaxSends
      BY <2>6 DEF Handled
    <3>3. req' = [req EXCEPT ![q] = r] /\ inFlight' = [inFlight EXCEPT ![s] = 0]
      BY <3>1
    <3> HIDE DEF r
    <3>4. \A z \in 1..MaxSends : inFlight'[z] # q
      <4> SUFFICES ASSUME NEW z \in 1..MaxSends, inFlight'[z] = q PROVE FALSE
        OBVIOUS
      <4>1. z = s => inFlight'[z] = 0
        BY <2>3, <3>3
      <4>2. z # s => inFlight'[z] = inFlight[z]
        BY <2>3, <3>3
      <4> QED
        BY <4>1, <4>2, Registered
    <3> HIDE DEF s
    <3>5. PICK t \in 1..MaxSends : inFlight' = [inFlight EXCEPT ![t] = IF s = 0 THEN inFlight[t] ELSE 0]
      <4>1. s = 0 => inFlight' = inFlight
        BY <2>3, <3>3
      <4>2. s = 0 => inFlight' = [inFlight EXCEPT ![q] = inFlight[q]]
        BY <2>3, <4>1
      <4>3. s # 0 => s \in 1..MaxSends
        BY <3>2
      <4> QED
        BY <3>3, <4>2, <4>3
    <3> DEFINE i == IF s = 0 THEN inFlight[t] ELSE 0
    <3>6. /\ i \in {0, q, inFlight[t]} /\ req[q].at # "unsent"
          /\ r.at \notin {"unsent", "sent"} /\ (r.aborted => r.at # "ok")
      BY <3>1, <3>2
    <3>7. inFlight' = [inFlight EXCEPT ![t] = i]
      BY <3>5
    <3>8. \A z \in 1..MaxSends : inFlight'[z] = q => r.at \in {"attend", "completion"} /\ r.session = z /\ ~r.aborted
      BY <3>4
    <3>9. r \in Handled /\ req' = [req EXCEPT ![q] = r]
      BY <3>2, <3>3
    <3> HIDE DEF i
    <3> QED
      BY <2>5, <3>6, <3>7, <3>8, <3>9, ZenonT(60)
  <2>10. CASE ChatPage!DeleteChat(q)
    <3>1. inFlight' = [inFlight EXCEPT ![q] = 0]
      BY <2>10 DEF ChatPage!DeleteChat
    <3>2. CASE inFlight[q] = 0
      <4>1. UNCHANGED <<req, inFlight>>
        BY <2>3, <2>10, <3>1, <3>2 DEF ChatPage!DeleteChat
      <4> QED
        BY <2>1, <2>2, <4>1 DEF ChatInv, ChatTypeOK, UnaskedIsUnsent, ChatPage!TypeOK, ChatPage!AbortedIsNotAnswered
    <3>3. CASE inFlight[q] # 0
      <4> DEFINE p == inFlight[q]
                 r == [req[p] EXCEPT !.aborted = TRUE]
      <4>1. p \in 1..MaxSends /\ req[p].at \in {"attend", "completion"} /\ req[p].session = q
        BY <3>3, Registered
      <4>2. req' = [req EXCEPT ![p] = r]
        BY <2>10, <3>3 DEF ChatPage!DeleteChat
      <4> HIDE DEF p
      <4>3. req[p] \in Handled
        BY <2>3, <4>1
      <4>4. r \in Handled /\ r.at \in {"attend", "completion"}
        BY <4>1, <4>3 DEF Handled
      <4> HIDE DEF r
      <4>5. \A z \in 1..MaxSends : inFlight'[z] # p
        <5> SUFFICES ASSUME NEW z \in 1..MaxSends, inFlight'[z] = p PROVE FALSE
          OBVIOUS
        <5>1. z # q /\ inFlight[z] = p
          BY <2>3, <3>1, <4>1
        <5> QED
          BY <4>1, <5>1, Registered
      <4>6. /\ 0 \in {0, p, inFlight[q]} /\ req[p].at # "unsent"
            /\ r.at \notin {"unsent", "sent"} /\ (r.aborted => r.at # "ok")
        BY <4>1, <4>4
      <4> QED
        BY <2>5, <3>1, <4>1, <4>2, <4>4, <4>5, <4>6
    <3> QED
      BY <3>2, <3>3
  <2> QED
    BY <1>4, <2>7, <2>8, <2>9, <2>10
<1> QED
  BY <1>1, <1>2, <1>3, <1>4 DEF ChatPage!Next

LEMMA ChatStays == ASSUME ChatInv, UNCHANGED slots PROVE ChatInv'
BY DEF slots, ChatInv, ChatTypeOK, LastIsAsked, UnaskedIsUnsent,
   ChatPage!TypeOK, ChatPage!AnswersFollowQuestions, ChatPage!AbortedIsNotAnswered

HIDE DEF messages, asked, current, sessionId, req, inFlight, cancelling
HIDE DEF ChatPage!Said, ChatPage!Questions, ChatPage!Running

-----------------------------------------------------------------------------
(***************************************************************************)
(* Upgrades.  An answer in flight tells of a job what was true of it, and  *)
(* the end of a job is for good; a timer starts and stops together with    *)
(* what pollRef names, except that a panel that closes leaves the name.    *)
(***************************************************************************)
jobStore == s1
status == s2
phase == s3
pollRef == s4
timers == s5
mounted == s6
posts == s7
polls == s8
USE DEF jobStore, status, phase, pollRef, timers, mounted, posts, polls

LEMMA UpgradeBounds ==
  JOB_STORE_MAX \in Nat \ {0} /\ Slots # {} /\ "none" \notin Jobs
BY PagesAssumption

Ends == {"complete", "failed"}
Statuses == {"unused", "running", "complete", "failed"}
PostShows == [is : {"free", "sent", "refused", "started"}, job : Jobs \cup {Upgrades!NoJob}]
PollShows == [is : {"free", "asked", "gone", "running", "complete", "failed"}, job : Jobs \cup {Upgrades!NoJob}]
Phases == [is : {"idle", "confirming", "upgrading", "error", "complete", "failed"}, job : Jobs \cup {Upgrades!NoJob}]

UpgradeTypeOK ==
  /\ jobStore \in Seq(Jobs) /\ status \in [Jobs -> Statuses]
  /\ phase \in Phases /\ pollRef \in Jobs \cup {Upgrades!NoJob} /\ timers \in SUBSET Jobs
  /\ mounted \in BOOLEAN /\ posts \in [Slots -> PostShows] /\ polls \in [Slots -> PollShows]

\* What an answer in flight says of its job.
AnswersAreTrue ==
  /\ \A s \in Slots : posts[s].is = "started" => posts[s].job \in Jobs
  /\ \A s \in Slots : polls[s].is # "free" => polls[s].job \in Jobs
  /\ \A s \in Slots : polls[s].is \in Ends => status[polls[s].job] = polls[s].is

\* The jobs of the store, once each.
StoreInv ==
  /\ \A i \in 1..Len(jobStore) : status[jobStore[i]] # "unused"
  /\ \A i, j \in 1..Len(jobStore) : jobStore[i] = jobStore[j] => i = j
  /\ Len(jobStore) <= JOB_STORE_MAX

UpgradeInv == /\ UpgradeTypeOK /\ AnswersAreTrue /\ StoreInv
              /\ Upgrades!PollsWhatItShows /\ Upgrades!OutcomeIsOfAJob

USE DEF Upgrades!NoJob, Upgrades!Show, Upgrades!Free, Upgrades!Refused, Ends, Statuses

LEMMA UpgradeInit == ASSUME Upgrades!Init PROVE UpgradeInv
<1> USE DEF Upgrades!Init
<1>0. jobStore \in Seq(Jobs) /\ Len(jobStore) = 0
  OBVIOUS
<1>m. JOB_STORE_MAX \in Nat
  BY UpgradeBounds
<1>1. UpgradeTypeOK
  <2>1. posts \in [Slots -> PostShows] /\ polls \in [Slots -> PollShows]
    BY DEF PostShows, PollShows
  <2>2. phase \in Phases /\ status \in [Jobs -> Statuses]
    BY DEF Phases
  <2> QED
    BY <1>0, <2>1, <2>2 DEF UpgradeTypeOK
<1>2. AnswersAreTrue /\ StoreInv
  <2>1. \A s \in Slots : posts[s].is = "free" /\ polls[s].is = "free"
    OBVIOUS
  <2> QED
    BY <1>0, <1>m, <2>1 DEF AnswersAreTrue, StoreInv
<1>3. Upgrades!PollsWhatItShows /\ Upgrades!OutcomeIsOfAJob
  BY DEF Upgrades!PollsWhatItShows, Upgrades!OutcomeIsOfAJob
<1> QED
  BY <1>1, <1>2, <1>3 DEF UpgradeInv

(* What the invariant says in the words of the page.                       *)
LEMMA UpgradeShows ==
  ASSUME UpgradeInv
  PROVE  Upgrades!TypeOK /\ Upgrades!PollsWhatItShows /\ Upgrades!OutcomeIsOfAJob
<1>0. DOMAIN jobStore = 1..Len(jobStore)
  BY LenProperties DEF UpgradeInv, UpgradeTypeOK
<1>1. Upgrades!IsInjective(jobStore) /\ DOMAIN jobStore = 1..Len(jobStore)
  BY <1>0 DEF UpgradeInv, StoreInv, Upgrades!IsInjective
<1>2. \A j \in Upgrades!ToSet(jobStore) : status[j] \in {"running", "complete", "failed"}
  <2> SUFFICES ASSUME NEW i \in 1..Len(jobStore) PROVE status[jobStore[i]] \in {"running", "complete", "failed"}
    BY <1>1 DEF Upgrades!ToSet
  <2>1. jobStore[i] \in Jobs
    BY ElementOfSeq DEF UpgradeInv, UpgradeTypeOK
  <2> QED
    BY <2>1 DEF UpgradeInv, UpgradeTypeOK, StoreInv
<1>3. phase.is \in {"idle", "confirming", "upgrading", "complete", "failed", "error"}
  BY DEF UpgradeInv, UpgradeTypeOK, Phases
<1> QED
  BY <1>1, <1>2, <1>3 DEF UpgradeInv, UpgradeTypeOK, StoreInv, Upgrades!TypeOK

(* The store and the status of the jobs, when a start is answered.         *)
LEMMA Starts ==
  ASSUME UpgradeInv, NEW a, Upgrades!StartJob(a)
  PROVE  /\ jobStore' \in Seq(Jobs) /\ status' \in [Jobs -> Statuses] /\ StoreInv'
         /\ \A j \in Jobs : status[j] \in Ends => status'[j] = status[j]
<1>0. /\ jobStore \in Seq(Jobs) /\ status \in [Jobs -> Statuses]
      /\ \A i \in 1..Len(jobStore) : status[jobStore[i]] # "unused"
      /\ \A i, j \in 1..Len(jobStore) : jobStore[i] = jobStore[j] => i = j
      /\ Len(jobStore) <= JOB_STORE_MAX
  BY DEF UpgradeInv, UpgradeTypeOK, StoreInv
<1>m. JOB_STORE_MAX \in Nat /\ JOB_STORE_MAX # 0
  BY UpgradeBounds
<1>1. CASE UNCHANGED <<jobStore, status>>
  BY <1>0, <1>1 DEF StoreInv
<1>2. ASSUME NEW j \in Jobs, status[j] = "unused", jobStore' = Upgrades!addJob(j),
             NEW st \in {"failed", "running"}, status' = [status EXCEPT ![j] = st]
      PROVE  /\ jobStore' \in Seq(Jobs) /\ status' \in [Jobs -> Statuses] /\ StoreInv'
             /\ \A i \in Jobs : status[i] \in Ends => status'[i] = status[i]
  <2> DEFINE kept == IF Len(jobStore) >= JOB_STORE_MAX THEN Tail(jobStore) ELSE jobStore
  <2>1. /\ kept \in Seq(Jobs) /\ Len(kept) < JOB_STORE_MAX
        /\ \A i \in 1..Len(kept) : kept[i] \in Jobs /\ status[kept[i]] # "unused"
        /\ \A i, k \in 1..Len(kept) : kept[i] = kept[k] => i = k
    <3>1. CASE Len(jobStore) >= JOB_STORE_MAX
      <4>1. /\ jobStore # <<>> /\ kept \in Seq(Jobs) /\ Len(kept) = Len(jobStore) - 1
            /\ \A i \in 1..Len(kept) : kept[i] = jobStore[i + 1]
        <5>1. Len(jobStore) # 0 /\ jobStore # <<>>
          BY <1>0, <1>m, <3>1
        <5> QED
          BY <1>0, <3>1, <5>1, HeadTailProperties
      <4>2. \A i \in 1..Len(jobStore) : jobStore[i] \in Jobs
        BY <1>0, ElementOfSeq
      <4>3. Len(jobStore) \in Nat
        BY <1>0, LenProperties
      <4> HIDE DEF kept
      <4>4. \A i \in 1..Len(kept) : i + 1 \in 1..Len(jobStore)
        BY <4>1, <4>3
      <4>5. Len(kept) < JOB_STORE_MAX
        BY <1>0, <1>m, <4>1, <4>3
      <4> QED
        BY <1>0, <4>1, <4>2, <4>3, <4>4, <4>5, SMTT(40)
    <3>2. CASE ~(Len(jobStore) >= JOB_STORE_MAX)
      <4>1. kept = jobStore /\ Len(jobStore) \in Nat
        BY <1>0, <3>2, LenProperties
      <4>2. \A i \in 1..Len(jobStore) : jobStore[i] \in Jobs
        BY <1>0, ElementOfSeq
      <4> HIDE DEF kept
      <4> QED
        BY <1>0, <1>m, <3>2, <4>1, <4>2
    <3> QED
      BY <3>1, <3>2
  <2>2. jobStore' = Append(kept, j)
    BY <1>2 DEF Upgrades!addJob
  <2> HIDE DEF kept
  <2>3. /\ jobStore' \in Seq(Jobs) /\ Len(jobStore') = Len(kept) + 1
        /\ jobStore'[Len(jobStore')] = j /\ \A i \in 1..Len(kept) : jobStore'[i] = kept[i]
    BY <2>1, <2>2, AppendProperties
  <2>4. status' \in [Jobs -> Statuses] /\ status'[j] = st
        /\ \A i \in Jobs \ {j} : status'[i] = status[i]
    BY <1>0, <1>2
  <2>5. \A i \in 1..Len(kept) : kept[i] # j
    BY <1>2, <2>1
  <2>6. StoreInv'
    <3>0. Len(kept) \in Nat
      BY <2>1, LenProperties
    <3>1. \A i \in 1..Len(jobStore') : i = Len(jobStore') \/ i \in 1..Len(kept)
      BY <2>3, <3>0
    <3>2. \A i \in 1..Len(jobStore') : status'[jobStore'[i]] # "unused"
      BY <1>2, <2>1, <2>3, <2>4, <2>5, <3>1
    <3>3. \A i, k \in 1..Len(jobStore') : jobStore'[i] = jobStore'[k] => i = k
      BY <2>1, <2>3, <2>5, <3>1
    <3>4. Len(jobStore') <= JOB_STORE_MAX
      BY <1>m, <2>1, <2>3, <3>0
    <3> QED
      BY <3>2, <3>3, <3>4 DEF StoreInv
  <2> QED
    BY <1>2, <2>3, <2>4, <2>6
<1> QED
  BY <1>1, <1>2 DEF Upgrades!StartJob, Upgrades!server

(* A job that ended has ended for good, so what was said of an end holds.  *)
LEMMA EndsStay ==
  ASSUME UpgradeInv, \A j \in Jobs : status[j] \in Ends => status'[j] = status[j],
         UNCHANGED <<phase, polls>>
  PROVE  /\ Upgrades!OutcomeIsOfAJob'
         /\ \A s \in Slots : polls'[s].is \in Ends => status'[polls'[s].job] = polls'[s].is
<1>1. phase.job \in Jobs \cup {Upgrades!NoJob}
  BY DEF UpgradeInv, UpgradeTypeOK, Phases
<1> QED
  BY <1>1 DEF UpgradeInv, AnswersAreTrue, Upgrades!OutcomeIsOfAJob

LEMMA UpgradeStep == ASSUME UpgradeInv, Upgrades!Next PROVE UpgradeInv'
<1>1. CASE Upgrades!OtherTabStarts
  <2>1. PICK a : Upgrades!StartJob(a)
    BY <1>1 DEF Upgrades!OtherTabStarts
  <2>2. UNCHANGED <<phase, pollRef, timers, mounted, posts, polls>>
    BY <1>1 DEF Upgrades!OtherTabStarts, Upgrades!panel
  <2>3. /\ jobStore' \in Seq(Jobs) /\ status' \in [Jobs -> Statuses] /\ StoreInv'
        /\ \A j \in Jobs : status[j] \in Ends => status'[j] = status[j]
    BY <2>1, Starts
  <2>4. Upgrades!OutcomeIsOfAJob' /\ AnswersAreTrue'
    BY <2>2, <2>3, EndsStay DEF UpgradeInv, AnswersAreTrue
  <2>5. UpgradeTypeOK' /\ Upgrades!PollsWhatItShows'
    BY <2>2, <2>3 DEF UpgradeInv, UpgradeTypeOK, Upgrades!PollsWhatItShows
  <2> QED
    BY <2>3, <2>4, <2>5 DEF UpgradeInv
<1>2. ASSUME NEW j \in Jobs, Upgrades!ChildEnds(j) PROVE UpgradeInv'
  <2>1. PICK end \in Ends : status' = [status EXCEPT ![j] = end]
    BY <1>2 DEF Upgrades!ChildEnds
  <2>2. UNCHANGED <<jobStore, phase, pollRef, timers, mounted, posts, polls>> /\ status[j] = "running"
    BY <1>2 DEF Upgrades!ChildEnds, Upgrades!panel
  <2>3. /\ status' \in [Jobs -> Statuses]
        /\ \A i \in Jobs : status[i] \in Ends => status'[i] = status[i]
        /\ \A i \in Jobs : status[i] # "unused" => status'[i] # "unused"
    BY <2>1, <2>2 DEF UpgradeInv, UpgradeTypeOK
  <2>4. Upgrades!OutcomeIsOfAJob' /\ AnswersAreTrue'
    BY <2>2, <2>3, EndsStay DEF UpgradeInv, AnswersAreTrue
  <2>5. UpgradeTypeOK' /\ Upgrades!PollsWhatItShows'
    BY <2>2, <2>3 DEF UpgradeInv, UpgradeTypeOK, Upgrades!PollsWhatItShows
  <2>6. StoreInv'
    <3>1. \A i \in 1..Len(jobStore) : jobStore[i] \in Jobs
      BY ElementOfSeq DEF UpgradeInv, UpgradeTypeOK
    <3> QED
      BY <2>2, <2>3, <3>1 DEF UpgradeInv, StoreInv
  <2> QED
    BY <2>4, <2>5, <2>6 DEF UpgradeInv
<1>3. ASSUME NEW s \in Slots, Upgrades!AnswerPost(s) PROVE UpgradeInv'
  <2>1. PICK a \in Upgrades!Answers : Upgrades!StartJob(a) /\ posts' = [posts EXCEPT ![s] = a]
    BY <1>3 DEF Upgrades!AnswerPost
  <2>2. UNCHANGED <<phase, pollRef, timers, mounted, polls>>
    BY <1>3 DEF Upgrades!AnswerPost, Upgrades!panel
  <2>3. /\ jobStore' \in Seq(Jobs) /\ status' \in [Jobs -> Statuses] /\ StoreInv'
        /\ \A j \in Jobs : status[j] \in Ends => status'[j] = status[j]
    BY <2>1, Starts
  <2>4. a \in PostShows /\ (a.is = "started" => a.job \in Jobs)
    <3>1. \A j \in Jobs : Upgrades!Show("started", j) \in PostShows /\ Upgrades!Show("started", j).job = j
      BY DEF PostShows
    <3>2. Upgrades!Refused \in PostShows /\ Upgrades!Refused.is = "refused"
      BY DEF PostShows
    <3> QED
      BY <2>1, <3>1, <3>2 DEF Upgrades!Answers
  <2>5. posts' \in [Slots -> PostShows] /\ posts'[s] = a /\ \A z \in Slots \ {s} : posts'[z] = posts[z]
    BY <2>1, <2>4 DEF UpgradeInv, UpgradeTypeOK
  <2>6. Upgrades!OutcomeIsOfAJob' /\ AnswersAreTrue'
    BY <2>2, <2>3, <2>4, <2>5, EndsStay DEF UpgradeInv, AnswersAreTrue
  <2>7. UpgradeTypeOK' /\ Upgrades!PollsWhatItShows'
    BY <2>2, <2>3, <2>5 DEF UpgradeInv, UpgradeTypeOK, Upgrades!PollsWhatItShows
  <2> QED
    BY <2>3, <2>6, <2>7 DEF UpgradeInv
<1>4. ASSUME UNCHANGED <<jobStore, status>>, UpgradeTypeOK', AnswersAreTrue',
             Upgrades!PollsWhatItShows', Upgrades!OutcomeIsOfAJob'
      PROVE  UpgradeInv'
  BY <1>4 DEF UpgradeInv, StoreInv
<1>5. ASSUME NEW s \in Slots, NEW a \in PollShows, polls' = [polls EXCEPT ![s] = a],
             UNCHANGED <<jobStore, status, phase, pollRef, timers, mounted, posts>>,
             a.is # "free" => a.job \in Jobs, a.is \in Ends => status[a.job] = a.is
      PROVE  UpgradeInv'
  <2>1. polls' \in [Slots -> PollShows] /\ polls'[s] = a /\ \A z \in Slots \ {s} : polls'[z] = polls[z]
    BY <1>5 DEF UpgradeInv, UpgradeTypeOK
  <2>2. AnswersAreTrue'
    BY <1>5, <2>1 DEF UpgradeInv, AnswersAreTrue
  <2>3. UpgradeTypeOK' /\ Upgrades!PollsWhatItShows' /\ Upgrades!OutcomeIsOfAJob'
    BY <1>5, <2>1 DEF UpgradeInv, UpgradeTypeOK, Upgrades!PollsWhatItShows, Upgrades!OutcomeIsOfAJob
  <2> QED
    BY <1>4, <1>5, <2>2, <2>3
<1>6. ASSUME NEW s \in Slots, Upgrades!AnswerPoll(s) PROVE UpgradeInv'
  <2> DEFINE j == polls[s].job
             a == Upgrades!Show(IF Upgrades!Contains(jobStore, j) THEN status[j] ELSE "gone", j)
  <2>1. j \in Jobs
    BY <1>6 DEF Upgrades!AnswerPoll, UpgradeInv, AnswersAreTrue
  <2>2. Upgrades!Contains(jobStore, j) => status[j] \in {"running", "complete", "failed"}
    BY <2>1 DEF Upgrades!Contains, UpgradeInv, UpgradeTypeOK, StoreInv
  <2>3. a \in PollShows /\ a.job = j /\ (a.is \in Ends => status[j] = a.is)
    BY <2>1, <2>2 DEF PollShows
  <2>4. /\ polls' = [polls EXCEPT ![s] = a]
        /\ UNCHANGED <<jobStore, status, phase, pollRef, timers, mounted, posts>>
    BY <1>6 DEF Upgrades!AnswerPoll, Upgrades!server, Upgrades!panel
  <2> HIDE DEF a
  <2> QED
    BY <1>5, <2>1, <2>3, <2>4
<1>7. ASSUME NEW j \in Jobs, Upgrades!Tick(j) PROVE UpgradeInv'
  <2>1. PICK s \in Slots : polls' = [polls EXCEPT ![s] = Upgrades!Show("asked", j)]
    BY <1>7 DEF Upgrades!Tick
  <2>2. UNCHANGED <<jobStore, status, phase, pollRef, timers, mounted, posts>>
    BY <1>7 DEF Upgrades!Tick, Upgrades!server, Upgrades!panel
  <2> DEFINE a == Upgrades!Show("asked", j)
  <2>3. a \in PollShows /\ a.job = j /\ a.is = "asked"
    BY DEF PollShows
  <2> HIDE DEF a
  <2> QED
    BY <1>5, <2>1, <2>2, <2>3 DEF a
<1>8. ASSUME UNCHANGED <<jobStore, status, polls>>, posts' \in [Slots -> PostShows],
             \A s \in Slots : posts'[s].is = "started" => posts'[s].job \in Jobs,
             phase' \in Phases, mounted' \in BOOLEAN, pollRef' \in Jobs \cup {Upgrades!NoJob},
             timers' \subseteq {pollRef'}, timers' \subseteq Jobs,
             \/ phase' = phase /\ (mounted' => mounted /\ timers' = timers)
             \/ phase'.is \in {"idle", "confirming", "error"}
             \/ phase'.is = "upgrading" /\ (phase'.job # Upgrades!NoJob => timers' = {phase'.job})
      PROVE  UpgradeInv'
  <2>1. UpgradeTypeOK'
    BY <1>8 DEF UpgradeInv, UpgradeTypeOK
  <2>2. AnswersAreTrue'
    BY <1>8 DEF UpgradeInv, AnswersAreTrue
  <2>3. Upgrades!PollsWhatItShows'
    BY <1>8 DEF UpgradeInv, Upgrades!PollsWhatItShows
  <2>4. Upgrades!OutcomeIsOfAJob'
    BY <1>8 DEF UpgradeInv, Upgrades!OutcomeIsOfAJob
  <2> QED
    BY <1>4, <1>8, <2>1, <2>2, <2>3, <2>4
<1>9. /\ phase \in Phases /\ mounted \in BOOLEAN /\ pollRef \in Jobs \cup {Upgrades!NoJob} /\ timers \subseteq Jobs
      /\ timers \subseteq {pollRef} /\ posts \in [Slots -> PostShows]
      /\ \A s \in Slots : posts[s].is = "started" => posts[s].job \in Jobs
      /\ \A p \in {"idle", "confirming", "upgrading", "error"} :
           /\ Upgrades!Show(p, Upgrades!NoJob) \in Phases /\ Upgrades!Show(p, Upgrades!NoJob).is = p
           /\ Upgrades!Show(p, Upgrades!NoJob).job = Upgrades!NoJob
  BY DEF UpgradeInv, UpgradeTypeOK, AnswersAreTrue, Upgrades!PollsWhatItShows, Phases
<1>10. CASE Upgrades!Confirm
  <2>1. /\ phase' = Upgrades!Show("confirming", Upgrades!NoJob)
        /\ UNCHANGED <<jobStore, status, pollRef, timers, mounted, posts, polls>>
    BY <1>10 DEF Upgrades!Confirm, Upgrades!server
  <2> QED
    BY <1>8, <1>9, <2>1
<1>11. CASE Upgrades!resetToIdle
  <2>1. /\ phase' = Upgrades!Show("idle", Upgrades!NoJob) /\ pollRef' = Upgrades!NoJob
        /\ timers' = timers \ {pollRef} /\ UNCHANGED <<jobStore, status, mounted, posts, polls>>
    BY <1>11 DEF Upgrades!resetToIdle, Upgrades!stopPolling, Upgrades!server
  <2> QED
    BY <1>8, <1>9, <2>1
<1>12. CASE Upgrades!handleUpgradeClick
  <2>1. PICK s \in Slots : posts' = [posts EXCEPT ![s] = Upgrades!Show("sent", Upgrades!NoJob)]
    BY <1>12 DEF Upgrades!handleUpgradeClick
  <2>2. /\ phase' = Upgrades!Show("upgrading", Upgrades!NoJob)
        /\ UNCHANGED <<jobStore, status, pollRef, timers, mounted, polls>>
    BY <1>12 DEF Upgrades!handleUpgradeClick, Upgrades!server
  <2> DEFINE a == Upgrades!Show("sent", Upgrades!NoJob)
  <2>3. a \in PostShows /\ a.is = "sent"
    BY DEF PostShows
  <2>4. posts' = [posts EXCEPT ![s] = a]
    BY <2>1
  <2> HIDE DEF a
  <2>5. /\ posts' \in [Slots -> PostShows]
        /\ \A z \in Slots : posts'[z].is = "started" => posts'[z].job \in Jobs
    BY <1>9, <2>3, <2>4
  <2> QED
    BY <1>8, <1>9, <2>2, <2>5
<1>13. CASE Upgrades!Unmount
  <2>1. /\ mounted' = FALSE /\ timers' = timers \ {pollRef}
        /\ UNCHANGED <<jobStore, status, phase, pollRef, posts, polls>>
    BY <1>13 DEF Upgrades!Unmount, Upgrades!server
  <2> QED
    BY <1>8, <1>9, <2>1
<1>14. ASSUME NEW s \in Slots, Upgrades!PostReturns(s) \/ Upgrades!PostLost(s) PROVE UpgradeInv'
  <2>1. /\ posts' = [posts EXCEPT ![s] = Upgrades!Free]
        /\ UNCHANGED <<jobStore, status, mounted, polls>>
    BY <1>14 DEF Upgrades!PostReturns, Upgrades!PostLost, Upgrades!server
  <2>2. Upgrades!Free \in PostShows /\ Upgrades!Free.is = "free"
    BY DEF PostShows
  <2>3. /\ posts' \in [Slots -> PostShows]
        /\ \A z \in Slots : posts'[z].is = "started" => posts'[z].job \in Jobs
    BY <1>9, <2>1, <2>2
  <2>4. CASE Upgrades!PostReturns(s) /\ posts[s].is = "started"
    <3> DEFINE j == posts[s].job
               p == Upgrades!Show("upgrading", j)
    <3>1. j \in Jobs
      BY <1>9, <2>4
    <3>2. pollRef' = j /\ timers' = {j} /\ phase' = IF mounted THEN p ELSE phase
      BY <1>9, <2>4 DEF Upgrades!PostReturns, Upgrades!SetState, Upgrades!startPolling
    <3>3. p \in Phases /\ p.is = "upgrading" /\ p.job = j
      BY <3>1 DEF Phases
    <3> HIDE DEF j, p
    <3> QED
      BY <1>8, <1>9, <2>1, <2>3, <3>1, <3>2, <3>3
  <2>5. CASE ~(Upgrades!PostReturns(s) /\ posts[s].is = "started")
    <3>1. /\ phase' = IF mounted THEN Upgrades!Show("error", Upgrades!NoJob) ELSE phase
          /\ UNCHANGED <<pollRef, timers>>
      BY <1>14, <2>5 DEF Upgrades!PostReturns, Upgrades!PostLost, Upgrades!SetState
    <3> QED
      BY <1>8, <1>9, <2>1, <2>3, <3>1
  <2> QED
    BY <2>4, <2>5
<1>15. ASSUME NEW s \in Slots, Upgrades!PollReturns(s) \/ Upgrades!PollLost(s) PROVE UpgradeInv'
  <2>1. /\ polls' = [polls EXCEPT ![s] = Upgrades!Free]
        /\ UNCHANGED <<jobStore, status, mounted, posts>>
    BY <1>15 DEF Upgrades!PollReturns, Upgrades!PollLost, Upgrades!server
  <2>2. Upgrades!Free \in PollShows /\ Upgrades!Free.is = "free"
    BY DEF PollShows
  <2>3. polls' \in [Slots -> PollShows] /\ polls'[s].is = "free" /\ \A z \in Slots \ {s} : polls'[z] = polls[z]
    BY <2>1, <2>2 DEF UpgradeInv, UpgradeTypeOK
  <2>4. AnswersAreTrue'
    BY <2>1, <2>3 DEF UpgradeInv, AnswersAreTrue
  <2>5. CASE UNCHANGED <<phase, pollRef, timers>>
    <3>1. UpgradeTypeOK' /\ Upgrades!PollsWhatItShows' /\ Upgrades!OutcomeIsOfAJob'
      BY <2>1, <2>3, <2>5 DEF UpgradeInv, UpgradeTypeOK, Upgrades!PollsWhatItShows, Upgrades!OutcomeIsOfAJob
    <3> QED
      BY <1>4, <2>1, <2>4, <3>1
  <2>6. ASSUME NEW p \in Phases, pollRef' = Upgrades!NoJob, timers' = timers \ {pollRef},
               phase' = IF mounted THEN p ELSE phase,
               p.is = "error" \/ (p.is \in Ends /\ p.job \in Jobs /\ status[p.job] = p.is)
        PROVE  UpgradeInv'
    <3>1. timers' = {}
      BY <1>9, <2>6
    <3>2. phase' \in Phases
      BY <1>9, <2>6
    <3>3. UpgradeTypeOK'
      BY <2>1, <2>3, <2>6, <3>1, <3>2 DEF UpgradeInv, UpgradeTypeOK
    <3>4. Upgrades!PollsWhatItShows'
      BY <2>1, <2>6, <3>1 DEF Upgrades!PollsWhatItShows
    <3>5. Upgrades!OutcomeIsOfAJob'
      <4>1. Upgrades!NoJob \notin Jobs
        BY UpgradeBounds
      <4> QED
        BY <2>1, <2>6, <4>1 DEF UpgradeInv, Upgrades!OutcomeIsOfAJob
    <3> QED
      BY <1>4, <2>1, <2>4, <3>3, <3>4, <3>5
  <2>7. CASE Upgrades!PollReturns(s) /\ polls[s].is \in Ends
    <3>1. polls[s] \in Phases /\ polls[s].job \in Jobs /\ status[polls[s].job] = polls[s].is
      <4>1. polls[s].job \in Jobs /\ polls[s] \in PollShows
        BY <2>7 DEF UpgradeInv, UpgradeTypeOK, AnswersAreTrue
      <4> QED
        BY <2>7, <4>1 DEF UpgradeInv, AnswersAreTrue, PollShows, Phases
    <3>2. /\ pollRef' = Upgrades!NoJob /\ timers' = timers \ {pollRef}
          /\ phase' = IF mounted THEN polls[s] ELSE phase
      BY <2>7 DEF Upgrades!PollReturns, Upgrades!stopPolling, Upgrades!SetState
    <3> QED
      BY <2>6, <2>7, <3>1, <3>2
  <2>8. CASE \/ Upgrades!PollLost(s)
             \/ Upgrades!PollReturns(s) /\ polls[s].is = "gone"
    <3> DEFINE p == Upgrades!Show("error", Upgrades!NoJob)
    <3>1. p \in Phases /\ p.is = "error"
      BY <1>9
    <3>2. /\ pollRef' = Upgrades!NoJob /\ timers' = timers \ {pollRef}
          /\ phase' = IF mounted THEN p ELSE phase
      BY <2>8 DEF Upgrades!PollLost, Upgrades!PollReturns, Upgrades!stopPolling, Upgrades!SetState
    <3> HIDE DEF p
    <3> QED
      BY <2>6, <3>1, <3>2
  <2> QED
    BY <1>15, <2>5, <2>7, <2>8 DEF Upgrades!PollReturns
<1> QED
  BY <1>1, <1>2, <1>3, <1>6, <1>7, <1>10, <1>11, <1>12, <1>13, <1>14, <1>15 DEF Upgrades!Next

LEMMA UpgradeStays == ASSUME UpgradeInv, UNCHANGED slots PROVE UpgradeInv'
BY DEF slots, UpgradeInv, UpgradeTypeOK, AnswersAreTrue, StoreInv,
   Upgrades!PollsWhatItShows, Upgrades!OutcomeIsOfAJob

HIDE DEF jobStore, status, phase, pollRef, timers, mounted, posts, polls
HIDE DEF Upgrades!NoJob, Upgrades!Show, Upgrades!Free, Upgrades!Refused, Ends, Statuses

-----------------------------------------------------------------------------
(***************************************************************************)
(* The providers' keys.  A check under way is of the key that the file     *)
(* holds, unless the key is one of those overtaken; and what a request     *)
(* found reachable had a key when it started.                              *)
(***************************************************************************)
keys == s1
written == s2
reach == s3
quota == s4
gets == s5
shown == s6
overtaken == s7
USE DEF keys, written, reach, quota, gets, shown, overtaken

Entries == [of : Nat, reachable : BOOLEAN]
Gets == [at : {"free", "sent", "checking"}, refresh : BOOLEAN, keys : [Provs -> Nat],
         todo : SUBSET Provs, up : SUBSET Provs, cached : SUBSET Provs]

KeysTypeOK ==
  /\ keys \in [Provs -> Nat] /\ written \in Nat /\ reach \in [Provs -> Entries]
  /\ gets \in [Reqs -> Gets] /\ overtaken \in SUBSET Provs
  /\ shown \in [keys : SUBSET Provs, up : SUBSET Provs]

\* A request checks keys that it read, and they are the file's.
ChecksAreOfKeys ==
  \A r \in Reqs : gets[r].at = "checking" =>
    \A p \in Provs : /\ p \in gets[r].todo \cup gets[r].up => gets[r].keys[p] # 0
                     /\ p \in gets[r].todo /\ gets[r].keys[p] # keys[p] => p \in overtaken

KeysInv == KeysTypeOK /\ ChecksAreOfKeys /\ Keys!CacheIsOfKey /\ Keys!ReachableHasKey

LEMMA KeysInit == ASSUME Keys!Init PROVE KeysInv
<1> USE DEF Keys!Init
<1>1. Keys!NoEntry \in Entries /\ Keys!NoGet \in Gets /\ Keys!NoGet.at = "free"
  BY DEF Keys!NoEntry, Keys!NoGet, Entries, Gets
<1>2. KeysTypeOK
  BY <1>1 DEF KeysTypeOK
<1>3. ChecksAreOfKeys
  BY <1>1 DEF ChecksAreOfKeys
<1>4. Keys!CacheIsOfKey /\ Keys!ReachableHasKey
  BY DEF Keys!CacheIsOfKey, Keys!ReachableHasKey
<1> QED
  BY <1>2, <1>3, <1>4 DEF KeysInv

(* One request moves, and nothing of the file.                             *)
LEMMA GetMoves ==
  ASSUME KeysInv, NEW r \in Reqs, NEW g \in Gets, gets' = [gets EXCEPT ![r] = g],
         UNCHANGED <<keys, written, overtaken>>,
         g.at = "checking" =>
           \A p \in Provs : /\ p \in g.todo \cup g.up => g.keys[p] # 0
                            /\ p \in g.todo /\ g.keys[p] # keys[p] => p \in overtaken
  PROVE  gets' \in [Reqs -> Gets] /\ ChecksAreOfKeys'
<1>1. gets' \in [Reqs -> Gets] /\ gets'[r] = g /\ \A z \in Reqs \ {r} : gets'[z] = gets[z]
  BY DEF KeysInv, KeysTypeOK
<1> QED
  BY <1>1 DEF KeysInv, ChecksAreOfKeys

LEMMA KeysStep == ASSUME KeysInv, Keys!Next PROVE KeysInv'
<1>1. ASSUME NEW p \in Provs, NEW k \in Nat, Keys!SetKeyTo(p, k), written' \in Nat PROVE KeysInv'
  <2>1. /\ keys' = [keys EXCEPT ![p] = k] /\ reach' = [reach EXCEPT ![p] = Keys!NoEntry]
        /\ UNCHANGED <<quota, gets, shown>> /\ Keys!NoEntry \in Entries
        /\ overtaken' = IF Keys!Checks(p) = {} THEN overtaken ELSE overtaken \cup {p}
    BY <1>1 DEF Keys!SetKeyTo, Keys!NoEntry, Entries
  <2>2. /\ keys' \in [Provs -> Nat] /\ reach' \in [Provs -> Entries]
        /\ reach'[p] = Keys!NoEntry
        /\ \A z \in Provs \ {p} : keys'[z] = keys[z] /\ reach'[z] = reach[z]
    BY <2>1 DEF KeysInv, KeysTypeOK
  <2>3. /\ overtaken \subseteq overtaken' /\ overtaken' \in SUBSET Provs
        /\ \A r \in Reqs : gets[r].at = "checking" /\ p \in gets[r].todo => p \in overtaken'
    BY <2>1 DEF KeysInv, KeysTypeOK, Keys!Checks
  <2>4. KeysTypeOK'
    BY <1>1, <2>1, <2>2, <2>3 DEF KeysInv, KeysTypeOK
  <2>5. ChecksAreOfKeys'
    BY <2>1, <2>2, <2>3 DEF KeysInv, ChecksAreOfKeys
  <2>6. Keys!CacheIsOfKey'
    BY <2>2, <2>3 DEF KeysInv, Keys!CacheIsOfKey
  <2>7. Keys!ReachableHasKey'
    BY <2>1 DEF KeysInv, Keys!ReachableHasKey
  <2> QED
    BY <2>4, <2>5, <2>6, <2>7 DEF KeysInv
<1>2. ASSUME NEW p \in Provs, Keys!PutKey(p) \/ Keys!DeleteKey(p) PROVE KeysInv'
  <2>1. written \in Nat
    BY DEF KeysInv, KeysTypeOK
  <2>2. CASE Keys!PutKey(p)
    <3>1. written' \in Nat /\ Keys!SetKeyTo(p, written')
      BY <2>1, <2>2 DEF Keys!PutKey
    <3> QED
      BY <1>1, <3>1
  <2>3. CASE Keys!DeleteKey(p)
    <3>1. written' \in Nat /\ Keys!SetKeyTo(p, 0)
      BY <2>1, <2>3 DEF Keys!DeleteKey
    <3> QED
      BY <1>1, <3>1
  <2> QED
    BY <1>2, <2>2, <2>3
<1>3. ASSUME NEW p \in Provs, Keys!Expire(p) PROVE KeysInv'
  <2>1. /\ reach' = [reach EXCEPT ![p] = Keys!NoEntry] /\ UNCHANGED <<keys, written, quota, gets, shown>>
        /\ Keys!NoEntry \in Entries
        /\ overtaken' = overtaken \ (IF Keys!Checks(p) = {} THEN {p} ELSE {})
    BY <1>3 DEF Keys!Expire, Keys!settings, Keys!NoEntry, Entries
  <2>2. /\ reach' \in [Provs -> Entries] /\ reach'[p] = Keys!NoEntry
        /\ \A z \in Provs \ {p} : reach'[z] = reach[z]
    BY <2>1 DEF KeysInv, KeysTypeOK
  <2>3. /\ \A z \in Provs \ {p} : z \in overtaken => z \in overtaken'
        /\ overtaken' \in SUBSET Provs
        /\ \A r \in Reqs : gets[r].at = "checking" /\ p \in gets[r].todo /\ p \in overtaken => p \in overtaken'
    BY <2>1 DEF KeysInv, KeysTypeOK, Keys!Checks
  <2>4. KeysTypeOK'
    BY <2>1, <2>2, <2>3 DEF KeysInv, KeysTypeOK
  <2>5. ChecksAreOfKeys'
    BY <2>1, <2>3 DEF KeysInv, ChecksAreOfKeys
  <2>6. Keys!CacheIsOfKey'
    BY <2>1, <2>2, <2>3 DEF KeysInv, Keys!CacheIsOfKey
  <2>7. Keys!ReachableHasKey'
    BY <2>1 DEF KeysInv, Keys!ReachableHasKey
  <2> QED
    BY <2>4, <2>5, <2>6, <2>7 DEF KeysInv
<1>4. ASSUME UNCHANGED <<keys, written, reach, gets, shown, overtaken>> PROVE KeysInv'
  BY <1>4 DEF KeysInv, KeysTypeOK, ChecksAreOfKeys, Keys!CacheIsOfKey, Keys!ReachableHasKey
<1>5. ASSUME NEW p \in Provs, Keys!GetQuota(p) \/ Keys!QuotaExpires(p) PROVE KeysInv'
  BY <1>4, <1>5 DEF Keys!GetQuota, Keys!QuotaExpires, Keys!settings
<1>6. ASSUME gets' \in [Reqs -> Gets] /\ ChecksAreOfKeys', UNCHANGED <<keys, written, reach, overtaken>>,
             shown' \in [keys : SUBSET Provs, up : SUBSET Provs], Keys!ReachableHasKey'
      PROVE  KeysInv'
  BY <1>6 DEF KeysInv, KeysTypeOK, Keys!CacheIsOfKey
<1>7. ASSUME NEW r \in Reqs, Keys!Ask(r) PROVE KeysInv'
  <2>1. PICK b \in BOOLEAN : gets' = [gets EXCEPT ![r] = [Keys!NoGet EXCEPT !.at = "sent", !.refresh = b]]
    BY <1>7 DEF Keys!Ask
  <2> DEFINE g == [Keys!NoGet EXCEPT !.at = "sent", !.refresh = b]
  <2>2. g \in Gets /\ g.at = "sent"
    BY DEF Keys!NoGet, Gets
  <2>3. UNCHANGED <<keys, written, reach, quota, shown, overtaken>> /\ gets' = [gets EXCEPT ![r] = g]
    BY <1>7, <2>1 DEF Keys!Ask, Keys!settings
  <2> HIDE DEF g
  <2>4. gets' \in [Reqs -> Gets] /\ ChecksAreOfKeys'
    BY <2>2, <2>3, GetMoves
  <2> QED
    BY <1>6, <2>3, <2>4 DEF KeysInv, KeysTypeOK, Keys!ReachableHasKey
<1>8. ASSUME NEW r \in Reqs, Keys!Start(r) PROVE KeysInv'
  <2> DEFINE present == {p \in Provs : keys[p] # 0}
             hits == {p \in present : reach[p] # Keys!NoEntry}
             up == {p \in hits : reach[p].reachable}
             todo == present \ hits
             g == [gets[r] EXCEPT !.at = "checking", !.keys = keys, !.todo = todo, !.up = up, !.cached = hits]
  <2>1. UNCHANGED <<keys, written, reach, quota, shown, overtaken>> /\ gets' = [gets EXCEPT ![r] = g]
    BY <1>8 DEF Keys!Start, Keys!settings
  <2>2. /\ todo \in SUBSET Provs /\ up \in SUBSET Provs /\ hits \in SUBSET Provs
        /\ \A p \in todo \cup up : keys[p] # 0
    OBVIOUS
  <2>3. gets[r] \in Gets /\ keys \in [Provs -> Nat]
    BY DEF KeysInv, KeysTypeOK
  <2> HIDE DEF todo, up, hits
  <2>4. g \in Gets /\ g.at = "checking" /\ g.keys = keys /\ g.todo = todo /\ g.up = up
    BY <2>2, <2>3 DEF Gets
  <2> HIDE DEF g
  <2>5. gets' \in [Reqs -> Gets] /\ ChecksAreOfKeys'
    BY <2>1, <2>2, <2>4, GetMoves
  <2> QED
    BY <1>6, <2>1, <2>5 DEF KeysInv, KeysTypeOK, Keys!ReachableHasKey
<1>9. ASSUME NEW r \in Reqs, Keys!Answer(r) PROVE KeysInv'
  <2>1. /\ gets[r].at = "checking" /\ UNCHANGED <<keys, written, reach, quota, overtaken>>
        /\ shown' = [keys |-> {p \in Provs : gets[r].keys[p] # 0}, up |-> gets[r].up]
        /\ gets' = [gets EXCEPT ![r] = Keys!NoGet]
    BY <1>9 DEF Keys!Answer, Keys!settings
  <2>2. Keys!NoGet \in Gets /\ Keys!NoGet.at = "free"
    BY DEF Keys!NoGet, Gets
  <2>3. gets' \in [Reqs -> Gets] /\ ChecksAreOfKeys'
    BY <2>1, <2>2, GetMoves
  <2>4. gets[r].up \in SUBSET Provs /\ \A p \in gets[r].up : gets[r].keys[p] # 0
    BY <2>1 DEF KeysInv, KeysTypeOK, Gets, ChecksAreOfKeys
  <2>5. shown' \in [keys : SUBSET Provs, up : SUBSET Provs] /\ Keys!ReachableHasKey'
    BY <2>1, <2>4 DEF Keys!ReachableHasKey
  <2> QED
    BY <1>6, <2>1, <2>3, <2>5
<1>10. ASSUME NEW r \in Reqs, NEW p \in Provs, Keys!Checked(r, p) PROVE KeysInv'
  <2>1. PICK ok \in BOOLEAN :
          /\ reach' = [reach EXCEPT ![p] = [of |-> gets[r].keys[p], reachable |-> ok]]
          /\ gets' = [gets EXCEPT ![r].todo = @ \ {p}, ![r].up = IF ok THEN @ \union {p} ELSE @]
    BY <1>10 DEF Keys!Checked
  <2>2. gets[r].at = "checking" /\ p \in gets[r].todo /\ UNCHANGED <<keys, written, quota, shown, overtaken>>
    BY <1>10 DEF Keys!Checked, Keys!settings
  <2> DEFINE todo == gets[r].todo \ {p}
             up == IF ok THEN gets[r].up \cup {p} ELSE gets[r].up
             g == [gets[r] EXCEPT !.todo = todo, !.up = up]
             e == [of |-> gets[r].keys[p], reachable |-> ok]
  <2>3. gets' = [gets EXCEPT ![r] = g] /\ reach' = [reach EXCEPT ![p] = e]
    BY <2>1
  <2>4. gets[r] \in Gets /\ gets[r].keys \in [Provs -> Nat] /\ gets[r].todo \in SUBSET Provs /\ gets[r].up \in SUBSET Provs
    BY DEF KeysInv, KeysTypeOK, Gets
  <2>5. \A z \in Provs : /\ z \in gets[r].todo \cup gets[r].up => gets[r].keys[z] # 0
                         /\ z \in gets[r].todo /\ gets[r].keys[z] # keys[z] => z \in overtaken
    BY <2>2 DEF KeysInv, ChecksAreOfKeys
  <2>6. todo \in SUBSET Provs /\ up \in SUBSET Provs /\ todo \subseteq gets[r].todo /\ up \subseteq gets[r].up \cup gets[r].todo
    BY <2>2, <2>4
  <2>7. e \in Entries /\ e.of = gets[r].keys[p]
    BY <2>4 DEF Entries
  <2> HIDE DEF todo, up, e
  <2>8. g \in Gets /\ g.at = "checking" /\ g.keys = gets[r].keys /\ g.todo = todo /\ g.up = up
    BY <2>2, <2>4, <2>6 DEF Gets
  <2> HIDE DEF g
  <2>9. gets' \in [Reqs -> Gets] /\ ChecksAreOfKeys'
    BY <2>2, <2>3, <2>5, <2>6, <2>8, GetMoves
  <2>10. reach' \in [Provs -> Entries] /\ reach'[p] = e /\ \A z \in Provs \ {p} : reach'[z] = reach[z]
    BY <2>3, <2>7 DEF KeysInv, KeysTypeOK
  <2>11. Keys!CacheIsOfKey'
    BY <2>2, <2>5, <2>7, <2>10 DEF KeysInv, Keys!CacheIsOfKey
  <2> QED
    BY <2>2, <2>9, <2>10, <2>11 DEF KeysInv, KeysTypeOK, Keys!ReachableHasKey
<1> QED
  BY <1>2, <1>3, <1>5, <1>7, <1>8, <1>9, <1>10 DEF Keys!Next

LEMMA KeysStays == ASSUME KeysInv, UNCHANGED slots PROVE KeysInv'
BY DEF slots, KeysInv, KeysTypeOK, ChecksAreOfKeys, Keys!CacheIsOfKey, Keys!ReachableHasKey

HIDE DEF keys, written, reach, quota, gets, shown, overtaken

-----------------------------------------------------------------------------
(***************************************************************************)
(* The history of a fact.  A version keeps the moments between which it    *)
(* was in force when it moves to the archive, and what is written later    *)
(* was not in force before: so what was in force at a moment that has been *)
(* is for good the same, and the two tables can be read one after another. *)
(***************************************************************************)
now == s1
kb == s2
archive == s3
hist == s4
asOf == s5
picked == s6
USE DEF now, kb, archive, hist, asOf, picked

LEMMA HistoryBounds ==
  MaxTime \in Nat
BY PagesAssumption

Rows == [written : Nat, from : Nat, until : Nat, rejected : BOOLEAN]
Histories == [at : {"idle", "asked", "kbRead", "archiveRead", "done"}, scoped : BOOLEAN,
              current : SUBSET Rows, history : SUBSET Rows, before : SUBSET Nat]
AsOfs == [at : {"idle", "asked", "kbRead", "done"}, t : Nat, fact : SUBSET Rows,
          right : SUBSET Nat]

HistoryTypeOK ==
  /\ now \in 0..MaxTime /\ kb \in SUBSET Rows /\ archive \in SUBSET Rows
  /\ hist \in Histories /\ asOf \in AsOfs /\ picked \in 0..History!Ever

(* The versions of the two tables: one is in force, and no two others were *)
(* at the same time.                                                       *)
TablesInv ==
  /\ \A v \in kb \cup archive : v.from = v.written /\ v.written <= now
  /\ \A v \in kb : ~v.rejected /\ v.until = History!Ever
  /\ \A v, w \in kb : v = w
  /\ \A v \in archive : IF v.rejected THEN v.until = History!Ever ELSE v.until <= now
  /\ \A v \in archive, w \in kb : ~v.rejected => v.until <= w.from
  /\ \A v, w \in archive : ~v.rejected /\ ~w.rejected /\ v # w =>
                             v.until <= w.from \/ w.until <= v.from

\* What was in force at t, as the tables have it now.
Right(t) == History!Written({v \in kb \cup archive : History!InForce(v, t)})

AsOfInv ==
  /\ asOf.at # "idle" => asOf.t <= now /\ asOf.t = picked /\ asOf.right = Right(asOf.t)
  /\ asOf.at = "kbRead" => \A v \in kb : v.from > asOf.t
  /\ asOf.at = "done" => History!Written(asOf.fact) = asOf.right

\* What a history read over one connection has, or will find in the archive.
HistInv ==
  hist.scoped =>
    /\ hist.at # "archiveRead"
    /\ hist.at = "asked" => hist.before \subseteq History!Written(kb \cup archive)
    /\ hist.at = "kbRead" => hist.before \subseteq History!Written(hist.current \cup archive)
    /\ hist.at = "done" =>
         hist.before \subseteq History!Written(hist.current \cup hist.history)

FactInv == HistoryTypeOK /\ TablesInv /\ AsOfInv /\ HistInv

LEMMA WrittenOf ==
  /\ \A S : \A w : w \in History!Written(S) <=> \E v \in S : v.written = w
  /\ \A S \in SUBSET Rows : History!Written(S) \in SUBSET Nat
  /\ \A S, T : S \subseteq T => History!Written(S) \subseteq History!Written(T)
  BY DEF History!Written, Rows

LEMMA FactInit ==
  ASSUME MaxTime \in Nat, History!Init
  PROVE  FactInv
<1> USE DEF History!Init, History!Ever, History!Never, History!NoHist, History!NoAsOf,
            History!Version
<1> DEFINE first == [written |-> 0, from |-> 0, until |-> MaxTime + 1, rejected |-> FALSE]
<1>1. kb \in {{}, {first}}
  OBVIOUS
<1>3. first \in Rows /\ first.written = 0 /\ first.from = 0 /\ first.until = MaxTime + 1
      /\ ~first.rejected
  BY DEF Rows
<1> HIDE DEF first
<1>4. kb \in SUBSET Rows /\ \A v \in kb : v = first
  BY <1>1, <1>3
<1>2. hist \in Histories /\ asOf \in AsOfs
  BY DEF Histories, AsOfs
<1>5. HistoryTypeOK /\ TablesInv
  BY <1>2, <1>3, <1>4 DEF HistoryTypeOK, TablesInv
<1> QED
  BY <1>5 DEF FactInv, AsOfInv, HistInv

(* What Iranti writes: the tables are as they should be, no version is     *)
(* lost, and what was in force at a moment that has been still is what was.*)
LEMMA WritesKeep ==
  ASSUME MaxTime \in Nat, FactInv,
         History!Supersede \/ History!Decay \/ History!Reject
  PROVE  /\ now' \in 0..MaxTime /\ kb' \in SUBSET Rows /\ archive' \in SUBSET Rows
         /\ UNCHANGED <<hist, asOf, picked>> /\ TablesInv'
         /\ now < now'
         /\ \A v \in kb' : v.from <= now => v \in kb
         /\ archive \subseteq archive'
         /\ History!Written(kb) \subseteq History!Written(kb' \cup archive')
         /\ \A v \in kb : v \in kb' \/ \E w \in archive' : w.written = v.written
         /\ \A t \in Nat : t <= now => Right(t)' = Right(t)
<1> USE DEF History!Ever, History!Version
<1>0. HistoryTypeOK /\ TablesInv /\ now \in Nat
  BY DEF FactInv, HistoryTypeOK
<1>1. now' = now + 1 /\ now' \in 0..MaxTime /\ UNCHANGED <<hist, asOf, picked>>
  BY <1>0 DEF History!Supersede, History!Decay, History!Reject
<1> DEFINE closed == {[v EXCEPT !.until = now + 1] : v \in kb}
           new == [written |-> now + 1, from |-> now + 1, until |-> MaxTime + 1, rejected |-> FALSE]
           refused == [written |-> now + 1, from |-> now + 1, until |-> MaxTime + 1, rejected |-> TRUE]
<1>2. /\ new \in Rows /\ refused \in Rows
      /\ new.from = now + 1 /\ new.written = now + 1 /\ new.until = MaxTime + 1 /\ ~new.rejected
      /\ refused.from = now + 1 /\ refused.written = now + 1 /\ refused.until = MaxTime + 1
      /\ refused.rejected
  BY <1>0, <1>1 DEF Rows
<1>3. \/ archive' = archive \cup closed /\ kb' = {new}
      \/ archive' = archive \cup closed /\ kb' = {}
      \/ archive' = archive \cup {refused} /\ kb' = kb
  BY <1>0, <1>1 DEF History!Supersede, History!Decay, History!Reject
<1>4. \A c \in closed : /\ c \in Rows /\ c.until = now + 1 /\ ~c.rejected
                        /\ \E v \in kb : c.from = v.from /\ c.written = v.written
  BY <1>0 DEF HistoryTypeOK, TablesInv, Rows
<1>5. ASSUME NEW v \in kb
      PROVE  \E c \in closed : c.from = v.from /\ c.written = v.written
  <2> DEFINE c == [v EXCEPT !.until = now + 1]
  <2>1. c \in closed
    OBVIOUS
  <2>2. v \in Rows
    BY <1>0 DEF HistoryTypeOK
  <2>3. c.from = v.from /\ c.written = v.written
    BY <2>2 DEF Rows
  <2> QED
    BY <2>1, <2>3
<1>6. \A c, d \in closed : c = d
  BY <1>0 DEF TablesInv
<1> HIDE DEF closed, new, refused
<1>7. kb' \in SUBSET Rows /\ archive' \in SUBSET Rows
  BY <1>0, <1>2, <1>3, <1>4 DEF HistoryTypeOK
<1>8. \A v \in kb \cup archive : v.from \in Nat /\ v.until \in Nat /\ v.written \in Nat
  BY <1>0 DEF HistoryTypeOK, Rows
<1>9. TablesInv'
  <2>1. \A v \in kb' \cup archive' : v.from = v.written /\ v.written <= now'
    BY <1>0, <1>1, <1>2, <1>3, <1>4, <1>8 DEF TablesInv
  <2>2. \A v \in kb' : ~v.rejected /\ v.until = MaxTime + 1
    BY <1>0, <1>2, <1>3 DEF TablesInv
  <2>3. \A v, w \in kb' : v = w
    BY <1>0, <1>3 DEF TablesInv
  <2>4. \A v \in archive' : IF v.rejected THEN v.until = MaxTime + 1 ELSE v.until <= now'
    BY <1>0, <1>1, <1>2, <1>3, <1>4, <1>8 DEF TablesInv
  <2>5. \A v \in archive', w \in kb' : ~v.rejected => v.until <= w.from
    BY <1>0, <1>1, <1>2, <1>3, <1>4, <1>8 DEF TablesInv
  <2>6. \A v, w \in archive' : ~v.rejected /\ ~w.rejected /\ v # w =>
                                 v.until <= w.from \/ w.until <= v.from
    BY <1>0, <1>2, <1>3, <1>4, <1>6 DEF TablesInv
  <2> QED
    BY <2>1, <2>2, <2>3, <2>4, <2>5, <2>6 DEF TablesInv
<1>10. /\ \A v \in kb' : v.from <= now => v \in kb
       /\ archive \subseteq archive'
       /\ \A v \in kb : v \in kb' \/ \E w \in archive' : w.written = v.written
  BY <1>0, <1>2, <1>3, <1>5
<1>11. ASSUME NEW t \in Nat, t <= now
       PROVE  Right(t)' = Right(t)
  <2> DEFINE Old == {v \in kb \cup archive : History!InForce(v, t)}
             New == {v \in kb' \cup archive' : History!InForce(v, t)}
  <2>1. \A v \in Old : \E w \in New : w.written = v.written
    BY <1>0, <1>1, <1>3, <1>4, <1>5, <1>8, <1>11 DEF History!InForce, TablesInv
  <2>2. \A v \in New : \E w \in Old : w.written = v.written
    BY <1>0, <1>1, <1>2, <1>3, <1>4, <1>8, <1>11 DEF History!InForce, TablesInv
  <2>3. History!Written(Old) = History!Written(New)
    BY <2>1, <2>2 DEF History!Written
  <2> QED
    BY <2>3 DEF Right, History!Written, History!InForce
<1>12. History!Written(kb) \subseteq History!Written(kb' \cup archive')
  BY <1>10 DEF History!Written
<1> QED
  BY <1>0, <1>1, <1>7, <1>9, <1>10, <1>11, <1>12

LEMMA RightAfter ==
  ASSUME NEW t, asOf'.t = t
  PROVE  Right(asOf.t)' = Right(t)'
  BY DEF Right, History!Written, History!InForce

LEMMA WritesSound ==
  ASSUME MaxTime \in Nat, FactInv,
         History!Supersede \/ History!Decay \/ History!Reject
  PROVE  FactInv'
<1>1. /\ now' \in 0..MaxTime /\ kb' \in SUBSET Rows /\ archive' \in SUBSET Rows
      /\ hist' = hist /\ asOf' = asOf /\ picked' = picked /\ TablesInv'
      /\ now < now'
      /\ \A v \in kb' : v.from <= now => v \in kb
      /\ archive \subseteq archive'
      /\ \A v \in kb : v \in kb' \/ \E w \in archive' : w.written = v.written
      /\ \A t \in Nat : t <= now => Right(t)' = Right(t)
  BY WritesKeep
<1>2. HistoryTypeOK /\ AsOfInv /\ HistInv /\ asOf.t \in Nat /\ now \in Nat
  BY DEF FactInv, HistoryTypeOK, AsOfs
<1>3. HistoryTypeOK'
  BY <1>1, <1>2 DEF HistoryTypeOK
<1>4. AsOfInv'
  <2>1. \A t \in Nat : t = asOf.t => Right(asOf.t)' = Right(t)'
    BY <1>1, RightAfter
  <2>2. asOf.at # "idle" => asOf'.right = Right(asOf.t)'
    BY <1>1, <1>2, <2>1 DEF AsOfInv
  <2>3. asOf.at = "kbRead" => \A v \in kb' : v.from > asOf.t
    <3> SUFFICES ASSUME asOf.at = "kbRead", NEW v \in kb' PROVE v.from > asOf.t
      OBVIOUS
    <3>1. v.from \in Nat /\ asOf.t <= now
      BY <1>1, <1>2 DEF Rows, AsOfInv
    <3>2. CASE v.from <= now
      BY <1>1, <1>2, <3>2 DEF AsOfInv
    <3>3. CASE v.from > now
      BY <1>2, <3>1, <3>3
    <3> QED
      BY <1>2, <3>1, <3>2, <3>3
  <2> QED
    BY <1>1, <1>2, <2>2, <2>3 DEF AsOfInv
<1>5. HistInv'
  <2>1. History!Written(kb \cup archive) \subseteq History!Written(kb' \cup archive')
    BY <1>1 DEF History!Written
  <2>2. History!Written(hist.current \cup archive)
          \subseteq History!Written(hist.current \cup archive')
    BY <1>1 DEF History!Written
  <2> QED
    BY <1>1, <1>2, <2>1, <2>2 DEF HistInv
<1> QED
  BY <1>1, <1>3, <1>4, <1>5 DEF FactInv

(* The queries of GET history.                                             *)
LEMMA HistoryReads ==
  ASSUME FactInv, History!AskHistory \/ History!ReadCurrent \/ History!ReadArchive
  PROVE  FactInv'
<1>1. HistoryTypeOK /\ HistInv /\ hist \in Histories
  BY DEF FactInv, HistoryTypeOK
<1>2. UNCHANGED <<now, kb, archive, asOf, picked>>
  BY DEF History!AskHistory, History!ReadCurrent, History!ReadArchive
<1>3. History!Written(kb \cup archive) \in SUBSET Nat
  BY <1>1, WrittenOf DEF HistoryTypeOK
<1>4. hist' \in Histories /\ HistInv'
  <2>1. CASE History!AskHistory
    <3>1. PICK s \in BOOLEAN :
            hist' = [History!NoHist EXCEPT !.at = "asked", !.scoped = s,
                       !.before = History!Written(History!Versions)]
      BY <2>1 DEF History!AskHistory
    <3>2. hist' = [at |-> "asked", scoped |-> s, current |-> {}, history |-> {},
                   before |-> History!Written(kb \cup archive)]
      BY <3>1 DEF History!NoHist, History!Versions
    <3>3. hist' \in Histories
      BY <1>3, <3>2 DEF Histories
    <3> QED
      BY <1>2, <3>2, <3>3 DEF HistInv
  <2>2. CASE History!ReadCurrent
    <3> DEFINE at == IF hist.at = "asked" THEN "kbRead" ELSE "done"
    <3>1. hist.at \in {"asked", "archiveRead"} /\ hist' = [hist EXCEPT !.current = kb, !.at = at]
      BY <1>1, <2>2 DEF History!ReadCurrent, Histories
    <3>2. /\ hist' \in Histories /\ hist'.at = at /\ hist'.current = kb
          /\ hist'.history = hist.history /\ hist'.before = hist.before
          /\ hist'.scoped = hist.scoped
      BY <1>1, <3>1 DEF Histories, HistoryTypeOK
    <3> QED
      BY <1>1, <1>2, <3>1, <3>2 DEF HistInv
  <2>3. CASE History!ReadArchive
    <3> DEFINE at == IF hist.at = "asked" THEN "archiveRead" ELSE "done"
    <3>1. /\ hist.at = "kbRead" \/ (hist.at = "asked" /\ ~hist.scoped)
          /\ hist' = [hist EXCEPT !.history = archive, !.at = at]
      BY <1>1, <2>3 DEF History!ReadArchive, History!ArchiveReadable, Histories
    <3>2. /\ hist' \in Histories /\ hist'.at = at /\ hist'.current = hist.current
          /\ hist'.history = archive /\ hist'.before = hist.before
          /\ hist'.scoped = hist.scoped
      BY <1>1, <3>1 DEF Histories, HistoryTypeOK
    <3> QED
      BY <1>1, <1>2, <3>1, <3>2 DEF HistInv
  <2> QED
    BY <2>1, <2>2, <2>3
<1> QED
  BY <1>1, <1>2, <1>4 DEF FactInv, HistoryTypeOK, TablesInv, AsOfInv, Right

(* Of the versions in force at one moment there is one.                    *)
LEMMA OneInForce ==
  ASSUME MaxTime \in Nat, FactInv, NEW t \in Nat, t <= now
  PROVE  /\ \A v, w \in kb \cup archive :
              History!InForce(v, t) /\ History!InForce(w, t) => v = w
         /\ \A v \in kb : History!InForce(v, t) <=> v.from <= t
         /\ \A v \in archive :
              History!InForce(v, t) <=> v.from <= t /\ v.until # History!Ever /\ v.until > t
<1>1. HistoryTypeOK /\ TablesInv /\ now \in 0..MaxTime
  BY DEF FactInv, HistoryTypeOK
<1>2. \A v \in kb \cup archive : v.from \in Nat /\ v.until \in Nat /\ v.rejected \in BOOLEAN
  BY <1>1 DEF HistoryTypeOK, Rows
<1> USE DEF TablesInv, History!InForce, History!Ever
<1>3. \A v \in kb : History!InForce(v, t) <=> v.from <= t
  BY <1>1, <1>2
<1>4. \A v \in archive :
         History!InForce(v, t) <=> v.from <= t /\ v.until # History!Ever /\ v.until > t
  BY <1>1, <1>2
<1>5. ASSUME NEW v \in kb \cup archive, NEW w \in kb \cup archive,
             History!InForce(v, t), History!InForce(w, t)
      PROVE  v = w
  BY <1>1, <1>2, <1>5
<1> QED
  BY <1>3, <1>4, <1>5

LEMMA LatestOfOne ==
  ASSUME NEW S, NEW v \in S, \A w \in S : w = v, v.from \in Nat
  PROVE  History!Latest(S) = {v}
  BY DEF History!Latest

(* The queries of GET query?asOf, and the picker.                          *)
LEMMA AsOfReads ==
  ASSUME MaxTime \in Nat, FactInv,
         \/ History!AsOfCurrent \/ History!AsOfArchive \/ History!handlePickerClear
         \/ \E t \in 0..MaxTime : History!Pick(t)
  PROVE  FactInv'
<1>1. /\ HistoryTypeOK /\ AsOfInv /\ asOf \in AsOfs /\ now \in 0..MaxTime
      /\ kb \in SUBSET Rows /\ archive \in SUBSET Rows
  BY DEF FactInv, HistoryTypeOK
<1>2. UNCHANGED <<now, kb, archive, hist>>
  BY DEF History!AsOfCurrent, History!AsOfArchive, History!handlePickerClear, History!Pick
<1>3. \A t \in Nat : Right(t) \in SUBSET Nat /\ Right(t)' = Right(t)
  BY <1>1, <1>2 DEF Right, History!Written, History!InForce, Rows
<1>4. asOf' \in AsOfs /\ picked' \in 0..History!Ever /\ AsOfInv'
  <2>1. CASE History!handlePickerClear
    <3>1. asOf' = History!NoAsOf /\ picked' = History!Ever
      BY <2>1 DEF History!handlePickerClear, History!Never
    <3>2. asOf' \in AsOfs /\ asOf'.at = "idle"
      BY <3>1 DEF History!NoAsOf, AsOfs
    <3> QED
      BY <3>1, <3>2 DEF AsOfInv, History!Ever
  <2>2. ASSUME NEW t \in 0..MaxTime, History!Pick(t)
        PROVE  asOf' \in AsOfs /\ picked' \in 0..History!Ever /\ AsOfInv'
    <3>1. /\ t <= now /\ picked' = t
          /\ asOf' = [History!NoAsOf EXCEPT !.at = "asked", !.t = t, !.right = Right(t)]
      BY <2>2 DEF History!Pick, Right, History!Written, History!Versions
    <3>2. asOf' = [at |-> "asked", t |-> t, fact |-> {}, right |-> Right(t)]
      BY <3>1 DEF History!NoAsOf
    <3> HIDE DEF AsOfs
    <3>3. asOf' \in AsOfs
      BY <1>3, <3>2 DEF AsOfs
    <3>4. Right(t)' = Right(t)
      BY <1>3
    <3>5. asOf'.right = Right(asOf.t)' /\ asOf'.at = "asked" /\ asOf'.t = t
      BY <3>2, <3>4, RightAfter
    <3> QED
      BY <1>2, <3>1, <3>2, <3>3, <3>5 DEF AsOfInv, History!Ever
  <2>3. ASSUME asOf.at \in {"asked", "kbRead"}, picked' = picked,
               NEW fact \in SUBSET Rows, NEW at \in {"kbRead", "done"},
               asOf' = [asOf EXCEPT !.at = at, !.fact = fact],
               at = "kbRead" => \A v \in kb : v.from > asOf.t,
               at = "done" => History!Written(fact) = asOf.right
        PROVE  asOf' \in AsOfs /\ picked' \in 0..History!Ever /\ AsOfInv'
    <3>1. /\ asOf' \in AsOfs /\ asOf'.at = at /\ asOf'.fact = fact /\ asOf'.t = asOf.t
          /\ asOf'.right = asOf.right
      BY <1>1, <2>3 DEF AsOfs
    <3>2. asOf'.right = Right(asOf.t)'
      <4>1. PICK t \in Nat : t = asOf.t
        BY <1>1 DEF AsOfs
      <4>2. asOf.right = Right(t) /\ Right(t)' = Right(t)
        BY <1>1, <1>3, <2>3, <4>1 DEF AsOfInv
      <4> QED
        BY <3>1, <4>1, <4>2, RightAfter
    <3> QED
      BY <1>1, <1>2, <2>3, <3>1, <3>2 DEF AsOfInv, HistoryTypeOK
  <2>4. CASE History!AsOfCurrent
    <3> DEFINE S == {v \in kb : v.from <= asOf.t /\ v.until > asOf.t}
    <3>1. /\ asOf.at = "asked" /\ picked' = picked
          /\ asOf' = IF S = {} THEN [asOf EXCEPT !.at = "kbRead"]
                     ELSE [asOf EXCEPT !.at = "done", !.fact = History!Latest(S)]
      BY <2>4 DEF History!AsOfCurrent
    <3>2. asOf.t \in Nat /\ asOf.t <= now /\ asOf.right = Right(asOf.t) /\ asOf.fact \in SUBSET Rows
      BY <1>1, <3>1 DEF AsOfInv, AsOfs
    <3>3. \A v \in kb : v.until = MaxTime + 1 /\ v.from \in Nat
      BY <1>1 DEF FactInv, TablesInv, History!Ever, Rows
    <3>4. S = {v \in kb : v.from <= asOf.t}
      BY <1>1, <3>2, <3>3
    <3>5. CASE S = {}
      <4>1. asOf' = [asOf EXCEPT !.at = "kbRead", !.fact = asOf.fact]
        BY <1>1, <3>1, <3>5 DEF AsOfs
      <4>2. \A v \in kb : v.from > asOf.t
        BY <3>2, <3>3, <3>4, <3>5
      <4> QED
        BY <2>3, <3>1, <3>2, <4>1, <4>2
    <3>6. CASE S # {}
      <4>1. PICK v \in S : TRUE
        BY <3>6
      <4>2. \A w \in S : w = v
        BY <4>1 DEF FactInv, TablesInv
      <4>3. History!Latest(S) = {v}
        BY <3>3, <4>1, <4>2, LatestOfOne
      <4>4. {w \in kb \cup archive : History!InForce(w, asOf.t)} = {v}
        BY <3>2, <3>4, <4>1, OneInForce
      <4>5. History!Written({v}) = asOf.right
        BY <3>2, <4>4 DEF Right
      <4>6. {v} \in SUBSET Rows /\ asOf' = [asOf EXCEPT !.at = "done", !.fact = {v}]
        BY <1>1, <3>1, <3>6, <4>1, <4>3
      <4> QED
        BY <2>3, <3>1, <4>5, <4>6
    <3> QED
      BY <3>5, <3>6
  <2>5. CASE History!AsOfArchive
    <3> DEFINE S == {v \in archive :
                       v.from <= asOf.t /\ v.until # History!Ever /\ v.until > asOf.t}
    <3>1. /\ asOf.at = "kbRead" /\ picked' = picked
          /\ asOf' = [asOf EXCEPT !.at = "done", !.fact = IF S = {} THEN {} ELSE History!Latest(S)]
      BY <2>5 DEF History!AsOfArchive
    <3>2. /\ asOf.t \in Nat /\ asOf.t <= now /\ asOf.right = Right(asOf.t)
          /\ \A v \in kb : v.from > asOf.t
      BY <1>1, <3>1 DEF AsOfInv, AsOfs
    <3>3. \A v \in kb \cup archive : v.from \in Nat
      BY <1>1 DEF Rows
    <3>4. {w \in kb \cup archive : History!InForce(w, asOf.t)} = S
      BY <3>2, <3>3, OneInForce
    <3>5. History!Written(S) = asOf.right
      BY <3>2, <3>4 DEF Right
    <3>6. S # {} => History!Latest(S) = S
      <4> SUFFICES ASSUME NEW v \in S PROVE History!Latest(S) = S
        OBVIOUS
      <4>1. \A w \in S : w = v
        BY <3>2, <3>4, OneInForce
      <4>2. History!Latest(S) = {v}
        BY <3>3, <4>1, LatestOfOne
      <4> QED
        BY <4>1, <4>2
    <3>7. S \in SUBSET Rows /\ asOf' = [asOf EXCEPT !.at = "done", !.fact = S]
      BY <1>1, <3>1, <3>6
    <3> HIDE DEF S
    <3> QED
      BY <2>3, <3>1, <3>5, <3>7
  <2> QED
    BY <2>1, <2>2, <2>4, <2>5
<1> QED
  BY <1>1, <1>2, <1>4 DEF FactInv, HistoryTypeOK, TablesInv, HistInv

LEMMA FactStep ==
  ASSUME MaxTime \in Nat, FactInv, [History!Next]_History!vars
  PROVE  FactInv'
<1>1. CASE UNCHANGED History!vars
  BY <1>1 DEF History!vars, FactInv, HistoryTypeOK, TablesInv, AsOfInv, HistInv, Right,
     History!InForce
<1> QED
  BY <1>1, WritesSound, HistoryReads, AsOfReads DEF History!Next

(* What the page marks when the tables have not changed since it read them *)
(* is found among the same versions that the server looks through.         *)
LEMMA FactShows ==
  ASSUME MaxTime \in Nat, FactInv
  PROVE  History!AsOfFindsFact /\ History!HistoryIsWhole /\ History!MarkIsInForce
<1>1. HistoryTypeOK /\ TablesInv /\ AsOfInv /\ HistInv /\ now \in 0..MaxTime
  BY DEF FactInv, HistoryTypeOK
<1>2. History!AsOfFindsFact
  BY <1>1 DEF AsOfInv, History!AsOfFindsFact
<1>3. History!HistoryIsWhole
  BY <1>1 DEF HistInv, History!HistoryIsWhole, History!Intervals
<1>4. History!MarkIsInForce
  <2> SUFFICES ASSUME hist.at = "done", hist.current \cup hist.history = kb \cup archive,
                      asOf.at # "idle", \A v \in archive : ~v.rejected
               PROVE  History!Marked = Right(picked)
    BY DEF History!MarkIsInForce, History!Intervals, History!Versions, Right, History!Written
  <2>1. picked = asOf.t /\ picked \in Nat /\ picked <= now /\ asOf.right = Right(picked)
    BY <1>1 DEF AsOfInv, HistoryTypeOK, AsOfs
  <2>2. picked # History!Never
    BY <1>1, <2>1 DEF History!Never, History!Ever
  <2>3. CASE asOf.at = "done"
    BY <1>1, <2>1, <2>2, <2>3 DEF History!Marked, AsOfInv
  <2>4. CASE asOf.at # "done"
    <3> DEFINE S == {v \in kb \cup archive : v.from <= picked /\ picked < v.until}
               C == S \cap hist.current
    <3>1. S = {v \in kb \cup archive : History!InForce(v, picked)}
      BY <1>1 DEF TablesInv, History!InForce
    <3>2. Right(picked) = History!Written(S)
      BY <3>1 DEF Right
    <3>3. \A v, w \in S : v = w
      BY <2>1, <3>1, OneInForce
    <3>4. \A v \in S : v.from \in Nat
      BY <1>1 DEF HistoryTypeOK, Rows
    <3>5. History!Marked = IF S = {} THEN {} ELSE History!Written(IF C # {} THEN C ELSE History!Latest(S))
      BY <2>2, <2>4 DEF History!Marked, History!findMatchingIntervalId, History!Intervals
    <3>6. S # {} => History!Latest(S) = S
      <4> SUFFICES ASSUME NEW v \in S PROVE History!Latest(S) = S
        OBVIOUS
      <4>1. History!Latest(S) = {v} /\ S = {v}
        BY <3>3, <3>4, LatestOfOne
      <4> QED
        BY <4>1
    <3>7. C # {} => C = S
      BY <3>3
    <3>8. History!Written({}) = {}
      BY DEF History!Written
    <3> HIDE DEF S, C
    <3> QED
      BY <3>2, <3>5, <3>6, <3>7, <3>8
  <2> QED
    BY <2>3, <2>4
<1> QED
  BY <1>2, <1>3, <1>4

LEMMA FactStays == ASSUME FactInv, UNCHANGED slots PROVE FactInv'
BY FactStep, HistoryBounds DEF slots, History!vars, now, kb, archive, hist, asOf, picked

HIDE DEF now, kb, archive, hist, asOf, picked

-----------------------------------------------------------------------------
(***************************************************************************)
(* The live feed.  What is in the list and in the buffer was sent, and is  *)
(* there once; a buffer that has dropped an event is longer than the list  *)
(* can be, so that emptying it into the list fills that.                   *)
(***************************************************************************)
reached == s3
received == s4
events == s8
buffer == s9
bufferDropped == s10
drawn == s11
tailed == s15
raced == s16
USE DEF reached, received, events, buffer, bufferDropped, drawn, tailed, raced

LEMMA FeedBounds ==
  MAX_EVENTS_IN_DOM \in Nat \ {0} /\ MAX_PAUSE_BUFFER \in Nat /\ MAX_PAUSE_BUFFER >= MAX_EVENTS_IN_DOM
BY PagesAssumption

Once(s) == \A i, j \in 1..Len(s) : s[i] = s[j] => i = j
Apart(s, t) == \A i \in 1..Len(s), j \in 1..Len(t) : s[i] # t[j]
Within(s, n) == \A i \in 1..Len(s) : s[i] <= n
Has(s, x) == \E i \in 1..Len(s) : s[i] = x

FeedClean ==
  /\ received \in SUBSET Nat /\ events \in Seq(Nat) /\ buffer \in Seq(Nat)
  /\ Within(events, reached) /\ Within(buffer, reached)
  /\ Once(events) /\ Once(buffer) /\ Apart(buffer, events)
  /\ Len(events) <= MAX_EVENTS_IN_DOM
  /\ bufferDropped => Len(buffer) >= MAX_PAUSE_BUFFER
  /\ \/ \A x \in received : Has(events, x) \/ Has(buffer, x)
     \/ Len(events) = MAX_EVENTS_IN_DOM \/ bufferDropped

FeedInv == /\ s1 \in Nat /\ reached \in Nat /\ reached <= s1
           /\ ~tailed /\ ~raced => FeedClean

LEMMA FeedInit == ASSUME Feed!Init PROVE FeedInv
<1>1. MAX_EVENTS_IN_DOM \in Nat
  BY FeedBounds
<1> QED
  BY <1>1 DEF Feed!Init, FeedInv, FeedClean, Once, Apart, Within, Has

LEMMA FeedHasAll == ASSUME FeedInv PROVE Feed!NothingLost
<1> SUFFICES ASSUME ~tailed, ~raced
             PROVE  /\ Feed!IsInjective(events \o buffer)
                    /\ received \subseteq Feed!Range(events \o buffer) \/ Len(events) = MAX_EVENTS_IN_DOM \/ bufferDropped
  BY DEF Feed!NothingLost
<1>1. FeedClean
  BY DEF FeedInv
<1> DEFINE s == events \o buffer
<1>2. events \in Seq(Nat) /\ buffer \in Seq(Nat) /\ Len(events) \in Nat /\ Len(buffer) \in Nat
  BY <1>1 DEF FeedClean
<1>3. /\ DOMAIN s = 1..(Len(events) + Len(buffer))
      /\ \A i \in DOMAIN s : IF i <= Len(events) THEN s[i] = events[i]
                             ELSE i - Len(events) \in 1..Len(buffer) /\ s[i] = buffer[i - Len(events)]
  BY <1>2
<1>4. /\ \A i \in 1..Len(events) : i \in DOMAIN s /\ s[i] = events[i]
      /\ \A i \in 1..Len(buffer) : i + Len(events) \in DOMAIN s /\ s[i + Len(events)] = buffer[i]
  BY <1>2
<1> HIDE DEF s
<1>5. Feed!IsInjective(s)
  <2> SUFFICES ASSUME NEW i \in DOMAIN s, NEW j \in DOMAIN s, s[i] = s[j] PROVE i = j
    BY DEF Feed!IsInjective
  <2> QED
    <3>1. i \in 1..(Len(events) + Len(buffer)) /\ j \in 1..(Len(events) + Len(buffer))
      BY <1>3
    <3>2. CASE i <= Len(events) /\ j <= Len(events)
      <4>1. i \in 1..Len(events) /\ j \in 1..Len(events) /\ events[i] = events[j]
        BY <1>2, <1>3, <3>1, <3>2
      <4> QED
        BY <1>1, <4>1 DEF FeedClean, Once
    <3>3. CASE i > Len(events) /\ j > Len(events)
      <4> DEFINE v == i - Len(events)
                 w == j - Len(events)
      <4>1. v \in 1..Len(buffer) /\ w \in 1..Len(buffer) /\ buffer[v] = buffer[w]
        BY <1>2, <1>3, <3>1, <3>3
      <4> HIDE DEF v, w
      <4>2. v = w
        BY <1>1, <4>1 DEF FeedClean, Once
      <4> QED
        BY <1>2, <3>1, <4>2 DEF v, w
    <3>4. ASSUME NEW k \in DOMAIN s, NEW l \in DOMAIN s, k <= Len(events), l > Len(events), s[k] = s[l] PROVE FALSE
      <4> DEFINE w == l - Len(events)
      <4>1. k \in 1..Len(events) /\ w \in 1..Len(buffer) /\ events[k] = buffer[w]
        BY <1>2, <1>3, <3>4, SMTT(40)
      <4> HIDE DEF w
      <4> QED
        BY <1>1, <4>1 DEF FeedClean, Apart
    <3> QED
      BY <1>2, <3>1, <3>2, <3>3, <3>4
<1>6. \A x \in received : Has(events, x) \/ Has(buffer, x) => x \in Feed!Range(s)
  BY <1>4 DEF Has, Feed!Range
<1> QED
  BY <1>1, <1>5, <1>6 DEF FeedClean, s

(* The list t is b in front of s, cut after n.                             *)
FrontOf(t, b, s, n) ==
  /\ t \in Seq(Nat) /\ Once(t) /\ Len(t) <= n
  /\ \A x : Has(t, x) => Has(b, x) \/ Has(s, x)
  /\ Len(t) = n \/ (Len(t) = Len(b) + Len(s) /\ \A x : Has(b, x) \/ Has(s, x) => Has(t, x))

LEMMA InFront ==
  ASSUME NEW b \in Seq(Nat), NEW s \in Seq(Nat), Once(b), Once(s), Apart(b, s), NEW n \in Nat, NEW a \in Nat,
         Within(b, a), Within(s, a), NEW t, t = Feed!Newest(n, b \o s)
  PROVE  FrontOf(t, b, s, n) /\ Within(t, a)
<1> DEFINE u == b \o s
<1>1. /\ u \in Seq(Nat) /\ Len(u) = Len(b) + Len(s) /\ Len(b) \in Nat /\ Len(s) \in Nat
      /\ \A i \in 1..Len(u) : IF i <= Len(b) THEN u[i] = b[i]
                              ELSE i - Len(b) \in 1..Len(s) /\ u[i] = s[i - Len(b)]
      /\ \A i \in 1..Len(b) : i \in 1..Len(u) /\ u[i] = b[i]
      /\ \A i \in 1..Len(s) : i + Len(b) \in 1..Len(u) /\ u[i + Len(b)] = s[i]
  OBVIOUS
<1> HIDE DEF u
<1>2. Once(u) /\ Within(u, a)
  <2>0. \A i \in 1..Len(u) : \/ i \in 1..Len(b) /\ u[i] = b[i]
                             \/ i > Len(b) /\ i - Len(b) \in 1..Len(s) /\ u[i] = s[i - Len(b)]
    BY <1>1, SMTT(60)
  <2>1. Within(u, a)
    BY <2>0 DEF Within
  <2>2. ASSUME NEW i \in 1..Len(u), NEW j \in 1..Len(u), u[i] = u[j] PROVE i = j
    <3>1. CASE i \in 1..Len(b) /\ j \in 1..Len(b)
      <4>1. b[i] = b[j]
        BY <1>1, <2>0, <2>2, <3>1
      <4> QED
        BY <3>1, <4>1 DEF Once
    <3>2. CASE i \notin 1..Len(b) /\ j \notin 1..Len(b)
      <4> DEFINE v == i - Len(b)
                 w == j - Len(b)
      <4>1. v \in 1..Len(s) /\ w \in 1..Len(s) /\ s[v] = s[w]
        BY <2>0, <2>2, <3>2
      <4> HIDE DEF v, w
      <4>2. v = w
        BY <4>1 DEF Once
      <4> QED
        BY <1>1, <4>2 DEF v, w
    <3>3. ASSUME NEW k \in 1..Len(u), NEW l \in 1..Len(u), k \in 1..Len(b), l \notin 1..Len(b), u[k] = u[l] PROVE FALSE
      <4> DEFINE w == l - Len(b)
      <4>1. w \in 1..Len(s) /\ b[k] = s[w]
        BY <1>1, <2>0, <3>3
      <4> HIDE DEF w
      <4> QED
        BY <3>3, <4>1 DEF Apart
    <3> QED
      BY <2>2, <3>1, <3>2, <3>3
  <2> QED
    BY <2>1, <2>2 DEF Once
<1>3. \A x : Has(u, x) <=> Has(b, x) \/ Has(s, x)
  <2>1. ASSUME NEW x, Has(u, x) PROVE Has(b, x) \/ Has(s, x)
    <3>1. PICK i \in 1..Len(u) : u[i] = x
      BY <2>1 DEF Has
    <3>2. CASE i <= Len(b)
      <4>1. i \in 1..Len(b) /\ u[i] = b[i]
        BY <1>1, <3>1, <3>2, SMTT(40)
      <4> QED
        BY <3>1, <4>1 DEF Has
    <3>3. CASE ~(i <= Len(b))
      <4>1. i - Len(b) \in 1..Len(s) /\ u[i] = s[i - Len(b)]
        BY <1>1, <3>1, <3>3
      <4> QED
        BY <3>1, <4>1 DEF Has
    <3> QED
      BY <3>2, <3>3
  <2>2. ASSUME NEW x, Has(b, x) \/ Has(s, x) PROVE Has(u, x)
    BY <1>1, <2>2, ZenonT(60) DEF Has
  <2> QED
    BY <2>1, <2>2
<1> DEFINE m == IF Len(u) > n THEN n ELSE Len(u)
<1>4. m \in Nat /\ m <= Len(u) /\ m <= n /\ (m = n \/ m = Len(u))
  BY <1>1
<1>5. t = SubSeq(u, 1, m)
  BY DEF Feed!Newest, u
<1> HIDE DEF m
<1>6. t \in Seq(Nat) /\ Len(t) = m /\ \A i \in 1..m : t[i] = u[i] /\ i \in 1..Len(u)
  BY <1>1, <1>4, <1>5, SubSeqProperties
<1>7. Once(t) /\ Within(t, a)
  <2>1. \A i \in 1..Len(t) : i \in 1..Len(u) /\ t[i] = u[i]
    BY <1>6
  <2>2. Once(t)
    BY <1>2, <2>1 DEF Once
  <2>3. Within(t, a)
    BY <1>2, <2>1 DEF Within
  <2> QED
    BY <2>2, <2>3
<1>8. \A x : Has(t, x) => Has(u, x)
  BY <1>6 DEF Has
<1>9. m = Len(u) => \A x : Has(u, x) => Has(t, x)
  BY <1>6 DEF Has
<1> QED
  BY <1>1, <1>3, <1>4, <1>6, <1>7, <1>8, <1>9 DEF FrontOf

LEMMA Pushed ==
  ASSUME NEW s \in Seq(Nat), Once(s), NEW n \in Nat, NEW a \in Nat, Within(s, a),
         NEW t, t = Feed!Newest(n, <<a + 1>> \o s)
  PROVE  FrontOf(t, <<a + 1>>, s, n) /\ Within(t, a + 1)
<1> DEFINE c == a + 1
           b == <<c>>
<1>1. c \in Nat /\ c > a
  OBVIOUS
<1> HIDE DEF c
<1>2. b \in Seq(Nat) /\ Len(b) = 1 /\ b[1] = c
  BY <1>1
<1>3. t = Feed!Newest(n, b \o s)
  BY DEF c
<1> HIDE DEF b
<1>4. \A i \in 1..Len(s) : s[i] \in Nat /\ s[i] <= a
  BY DEF Within
<1>5. Once(b) /\ Within(b, c) /\ Within(s, c) /\ Apart(b, s)
  BY <1>1, <1>2, <1>4, SMTT(40) DEF Once, Within, Apart
<1>6. FrontOf(t, b, s, n) /\ Within(t, c)
  BY <1>1, <1>2, <1>3, <1>5, InFront
<1> QED
  BY <1>6 DEF b, c

(* The drawing of a handler that has not been overtaken is what there is.  *)
LEMMA Flushes ==
  ASSUME FeedClean, Feed!flushBuffer, ~raced', UNCHANGED <<reached, received>>, reached \in Nat
  PROVE  FeedClean'
<1>0. MAX_EVENTS_IN_DOM \in Nat /\ MAX_PAUSE_BUFFER \in Nat /\ MAX_PAUSE_BUFFER >= MAX_EVENTS_IN_DOM
  BY FeedBounds
<1>1. drawn = Feed!State(buffer, s6, s7)
  BY DEF Feed!flushBuffer
<1>2. drawn.buffer = buffer
  BY <1>1 DEF Feed!State
<1>3. events' = Feed!Newest(MAX_EVENTS_IN_DOM, buffer \o events) /\ buffer' = <<>> /\ bufferDropped' = FALSE
  BY <1>2 DEF Feed!flushBuffer
<1>a. FrontOf(events', buffer, events, MAX_EVENTS_IN_DOM) /\ Within(events', reached)
  BY <1>0, <1>3, InFront DEF FeedClean
<1>4. /\ events' \in Seq(Nat) /\ Once(events') /\ Within(events', reached) /\ Len(events') <= MAX_EVENTS_IN_DOM
      /\ \/ Len(events') = MAX_EVENTS_IN_DOM
         \/ /\ Len(events') = Len(buffer) + Len(events)
            /\ \A x : Has(buffer, x) \/ Has(events, x) => Has(events', x)
  BY <1>a DEF FrontOf
<1>5. \/ \A x \in received : Has(events', x)
      \/ Len(events') = MAX_EVENTS_IN_DOM
  <2> SUFFICES ASSUME Len(events') # MAX_EVENTS_IN_DOM PROVE \A x \in received : Has(events', x)
    OBVIOUS
  <2>1. /\ Len(events') = Len(buffer) + Len(events) /\ Len(buffer) \in Nat /\ Len(events) \in Nat
        /\ Len(events') < MAX_EVENTS_IN_DOM
        /\ \A x : Has(buffer, x) \/ Has(events, x) => Has(events', x)
    BY <1>0, <1>4 DEF FeedClean
  <2>2. Len(events) # MAX_EVENTS_IN_DOM /\ ~(Len(buffer) >= MAX_PAUSE_BUFFER)
    BY <1>0, <2>1
  <2> QED
    BY <2>1, <2>2 DEF FeedClean
<1>6. buffer' \in Seq(Nat) /\ Within(buffer', reached) /\ Once(buffer') /\ Apart(buffer', events')
  BY <1>3 DEF Within, Once, Apart
<1>7. reached' = reached /\ received' \in SUBSET Nat /\ received' = received
  BY DEF FeedClean
<1> DEFINE all(e, b, r) == \A x \in r : Has(e, x) \/ Has(b, x)
<1>8. all(events', buffer', received') \/ Len(events') = MAX_EVENTS_IN_DOM
  BY <1>5, <1>7
<1>9. /\ received' \in SUBSET Nat /\ events' \in Seq(Nat) /\ buffer' \in Seq(Nat)
      /\ Within(events', reached') /\ Within(buffer', reached')
      /\ Once(events') /\ Once(buffer') /\ Apart(buffer', events')
      /\ Len(events') <= MAX_EVENTS_IN_DOM
      /\ bufferDropped' => Len(buffer') >= MAX_PAUSE_BUFFER
  BY <1>3, <1>4, <1>6, <1>7
<1> QED
  BY <1>8, <1>9 DEF FeedClean, Within, Once, Apart, Has

(* An event that arrives goes to the end of the buffer, or to the front of *)
(* the list.                                                               *)
LEMMA Buffers ==
  ASSUME FeedClean, reached \in Nat, reached' = reached + 1, received' = received \union {reached'}, UNCHANGED events,
         buffer' = Append(IF Len(buffer) >= MAX_PAUSE_BUFFER THEN Tail(buffer) ELSE buffer, reached'),
         bufferDropped' = (bufferDropped \/ Len(buffer) >= MAX_PAUSE_BUFFER)
  PROVE  FeedClean'
<1>0. MAX_EVENTS_IN_DOM \in Nat \ {0} /\ MAX_PAUSE_BUFFER \in Nat /\ MAX_PAUSE_BUFFER >= MAX_EVENTS_IN_DOM
  BY FeedBounds
<1>1. buffer \in Seq(Nat) /\ Len(buffer) \in Nat /\ events \in Seq(Nat)
  BY DEF FeedClean
<1> DEFINE full == Len(buffer) >= MAX_PAUSE_BUFFER
           kept == IF full THEN Tail(buffer) ELSE buffer
           k == IF full THEN 1 ELSE 0
<1>2. /\ kept \in Seq(Nat) /\ k \in {0, 1} /\ Len(kept) = Len(buffer) - k /\ Len(kept) \in Nat
      /\ \A i \in 1..Len(kept) : i + k \in 1..Len(buffer) /\ kept[i] = buffer[i + k]
      /\ full <=> k = 1
  <2>1. CASE full
    <3>1. buffer # <<>>
      BY <1>0, <1>1, <2>1
    <3> QED
      BY <1>1, <2>1, <3>1, HeadTailProperties
  <2>2. CASE ~full
    BY <1>1, <2>2
  <2> QED
    BY <2>1, <2>2
<1>3. buffer' = Append(kept, reached + 1) /\ (bufferDropped' <=> bufferDropped \/ k = 1)
  BY <1>2
<1> HIDE DEF kept, k
<1>4. /\ buffer' \in Seq(Nat) /\ Len(buffer') = Len(kept) + 1
      /\ \A i \in 1..Len(buffer') : \/ i = Len(buffer') /\ buffer'[i] = reached + 1
                                    \/ i < Len(buffer') /\ i + k \in 1..Len(buffer) /\ buffer'[i] = buffer[i + k]
      /\ buffer'[Len(buffer')] = reached + 1
  <2>1. /\ buffer' \in Seq(Nat) /\ Len(buffer') = Len(kept) + 1 /\ buffer'[Len(kept) + 1] = reached + 1
        /\ \A i \in 1..Len(kept) : buffer'[i] = kept[i]
    <3> DEFINE e == reached + 1
    <3>1. e \in Nat /\ kept \in Seq(Nat) /\ buffer' = Append(kept, e)
      BY <1>2, <1>3
    <3> HIDE DEF e, full
    <3>2. /\ Append(kept, e) \in Seq(Nat) /\ Len(Append(kept, e)) = Len(kept) + 1
          /\ \A i \in 1..Len(kept) : Append(kept, e)[i] = kept[i]
          /\ Append(kept, e)[Len(kept) + 1] = e
      BY <3>1, AppendProperties
    <3> QED
      BY <3>1, <3>2 DEF e
  <2>2. ASSUME NEW i \in 1..Len(buffer')
        PROVE  \/ i = Len(buffer') /\ buffer'[i] = reached + 1
               \/ i < Len(buffer') /\ i + k \in 1..Len(buffer) /\ buffer'[i] = buffer[i + k]
    <3>1. CASE i = Len(kept) + 1
      BY <2>1, <3>1
    <3>2. CASE i # Len(kept) + 1
      <4>0. Len(kept) \in Nat /\ Len(buffer') = Len(kept) + 1 /\ i \in 1..(Len(kept) + 1)
        BY <1>2, <2>1, <2>2
      <4>1. i \in 1..Len(kept) /\ i < Len(buffer')
        BY <3>2, <4>0
      <4>2. buffer'[i] = kept[i] /\ kept[i] = buffer[i + k] /\ i + k \in 1..Len(buffer)
        BY <1>2, <2>1, <4>1
      <4> QED
        BY <4>1, <4>2
    <3> QED
      BY <3>1, <3>2
  <2> QED
    BY <2>1, <2>2
<1>5. /\ \A i \in 1..Len(buffer) : buffer[i] \in Nat /\ buffer[i] <= reached
      /\ \A i \in 1..Len(events) : events[i] \in Nat /\ events[i] <= reached
  BY <1>1, SMTT(40) DEF FeedClean, Within
<1>6. Once(buffer')
  <2> SUFFICES ASSUME NEW i \in 1..Len(buffer'), NEW j \in 1..Len(buffer'), buffer'[i] = buffer'[j] PROVE i = j
    BY DEF Once
  <2>1. CASE i = Len(buffer') \/ j = Len(buffer')
    <3>1. \A n \in 1..Len(buffer') : n # Len(buffer') => buffer'[n] # reached + 1
      <4> SUFFICES ASSUME NEW n \in 1..Len(buffer'), n # Len(buffer') PROVE buffer'[n] # reached + 1
        OBVIOUS
      <4>1. n + k \in 1..Len(buffer) /\ buffer'[n] = buffer[n + k]
        BY <1>4
      <4>2. buffer[n + k] \in Nat /\ buffer[n + k] <= reached
        BY <1>5, <4>1
      <4> QED
        BY <4>1, <4>2, SMTT(40)
    <3> QED
      BY <1>4, <2>1, <3>1
  <2>2. CASE i # Len(buffer') /\ j # Len(buffer')
    <3> DEFINE v == i + k
               w == j + k
    <3>1. v \in 1..Len(buffer) /\ w \in 1..Len(buffer) /\ buffer[v] = buffer[w]
      BY <1>4, <2>2
    <3> HIDE DEF v, w
    <3>2. v = w
      BY <3>1 DEF FeedClean, Once
    <3> QED
      BY <1>2, <3>2 DEF v, w
  <2> QED
    BY <2>1, <2>2
<1>7. Apart(buffer', events)
  <2> SUFFICES ASSUME NEW i \in 1..Len(buffer'), NEW j \in 1..Len(events), buffer'[i] = events[j] PROVE FALSE
    BY DEF Apart
  <2>1. CASE i = Len(buffer')
    BY <1>4, <1>5, <2>1, SMTT(40)
  <2>2. CASE i # Len(buffer')
    <3> DEFINE v == i + k
    <3>1. v \in 1..Len(buffer) /\ buffer[v] = events[j]
      BY <1>4, <2>2
    <3> HIDE DEF v
    <3> QED
      BY <3>1 DEF FeedClean, Apart
  <2> QED
    BY <2>1, <2>2
<1>8. Within(buffer', reached + 1) /\ Within(events, reached + 1)
  BY <1>4, <1>5, SMTT(40) DEF Within
<1>9. bufferDropped' => Len(buffer') >= MAX_PAUSE_BUFFER
  BY <1>0, <1>1, <1>2, <1>3, <1>4 DEF FeedClean
<1>10. (\A x \in received' : Has(events, x) \/ Has(buffer', x)) \/ Len(events) = MAX_EVENTS_IN_DOM \/ bufferDropped'
  <2> SUFFICES ASSUME Len(events) # MAX_EVENTS_IN_DOM, ~bufferDropped' PROVE \A x \in received' : Has(events, x) \/ Has(buffer', x)
    OBVIOUS
  <2>1. k = 0 /\ ~bufferDropped
    BY <1>2, <1>3
  <2>2. \A i \in 1..Len(buffer) : i \in 1..Len(buffer') /\ buffer'[i] = buffer[i]
    BY <1>2, <1>4, <2>1
  <2>3. \A x : Has(buffer, x) => Has(buffer', x)
    BY <2>2 DEF Has
  <2>4. Has(buffer', reached + 1)
    <3>1. Len(buffer') \in 1..Len(buffer')
      BY <1>2, <1>4
    <3> QED
      BY <1>4, <3>1 DEF Has
  <2>5. \A x \in received : Has(events, x) \/ Has(buffer, x)
    BY <2>1 DEF FeedClean
  <2> QED
    BY <2>3, <2>4, <2>5
<1>11. /\ received' \in SUBSET Nat /\ events' \in Seq(Nat) /\ buffer' \in Seq(Nat)
       /\ Within(events', reached') /\ Within(buffer', reached')
       /\ Once(events') /\ Once(buffer') /\ Apart(buffer', events')
       /\ Len(events') <= MAX_EVENTS_IN_DOM
       /\ bufferDropped' => Len(buffer') >= MAX_PAUSE_BUFFER
       /\ (\A x \in received' : Has(events', x) \/ Has(buffer', x)) \/ Len(events') = MAX_EVENTS_IN_DOM \/ bufferDropped'
  BY <1>1, <1>4, <1>6, <1>7, <1>8, <1>9, <1>10 DEF FeedClean
<1> QED
  BY <1>11 DEF FeedClean, Within, Once, Apart, Has

LEMMA Lists ==
  ASSUME FeedClean, reached \in Nat, reached' = reached + 1, received' = received \union {reached'}, UNCHANGED <<buffer, bufferDropped>>,
         events' = Feed!Newest(MAX_EVENTS_IN_DOM, <<reached'>> \o events)
  PROVE  FeedClean'
<1>0. MAX_EVENTS_IN_DOM \in Nat
  BY FeedBounds
<1>1. /\ buffer \in Seq(Nat) /\ events \in Seq(Nat) /\ Len(events) \in Nat /\ Once(events) /\ Within(events, reached)
      /\ Once(buffer) /\ (bufferDropped => Len(buffer) >= MAX_PAUSE_BUFFER)
  BY DEF FeedClean
<1>2. /\ \A i \in 1..Len(buffer) : buffer[i] \in Nat /\ buffer[i] <= reached
      /\ buffer' = buffer /\ bufferDropped' = bufferDropped
  BY <1>1 DEF FeedClean, Within
<1> DEFINE t == events'
           old == events
<1>a. FrontOf(t, <<reached + 1>>, old, MAX_EVENTS_IN_DOM) /\ Within(t, reached + 1)
  <2>1. t = Feed!Newest(MAX_EVENTS_IN_DOM, <<reached + 1>> \o old)
    OBVIOUS
  <2> HIDE DEF t
  <2> QED
    BY <1>0, <1>1, <2>1, Pushed
<1>3. /\ t \in Seq(Nat) /\ Once(t) /\ Within(t, reached + 1) /\ Len(t) <= MAX_EVENTS_IN_DOM
      /\ \A x : Has(t, x) => x = reached + 1 \/ Has(old, x)
      /\ Len(t) = MAX_EVENTS_IN_DOM \/ (Len(t) = 1 + Len(old) /\ Has(t, reached + 1) /\ \A x : Has(old, x) => Has(t, x))
  <2> DEFINE c == reached + 1
             b == <<c>>
  <2>1. Len(b) = 1 /\ b[1] = c
    OBVIOUS
  <2>2. FrontOf(t, b, old, MAX_EVENTS_IN_DOM)
    BY <1>a
  <2> HIDE DEF b, c, t, old
  <2>3. \A x : Has(b, x) <=> x = c
    BY <2>1 DEF Has
  <2>4. /\ t \in Seq(Nat) /\ Once(t) /\ Len(t) <= MAX_EVENTS_IN_DOM
        /\ \A x : Has(t, x) => x = c \/ Has(old, x)
        /\ Len(t) = MAX_EVENTS_IN_DOM \/ (Len(t) = 1 + Len(old) /\ Has(t, c) /\ \A x : Has(old, x) => Has(t, x))
    BY <2>1, <2>2, <2>3 DEF FrontOf
  <2> QED
    BY <1>a, <2>4 DEF c
<1>4. Apart(buffer, t)
  <2> HIDE DEF t
  <2> SUFFICES ASSUME NEW i \in 1..Len(buffer), NEW j \in 1..Len(t), buffer[i] = t[j] PROVE FALSE
    BY DEF Apart
  <2>1. t[j] = reached + 1 \/ Has(events, t[j])
    BY <1>3 DEF Has
  <2>2. CASE t[j] = reached + 1
    BY <1>2, <2>2
  <2>3. CASE Has(events, t[j])
    BY <2>3 DEF Has, FeedClean, Apart
  <2> QED
    BY <2>1, <2>2, <2>3
<1>5. (\A x \in received' : Has(t, x) \/ Has(buffer, x)) \/ Len(t) = MAX_EVENTS_IN_DOM \/ bufferDropped
  <2> HIDE DEF t
  <2> SUFFICES ASSUME Len(t) # MAX_EVENTS_IN_DOM, ~bufferDropped PROVE \A x \in received' : Has(t, x) \/ Has(buffer, x)
    OBVIOUS
  <2>1. Len(t) = 1 + Len(events) /\ Has(t, reached + 1) /\ \A x : Has(events, x) => Has(t, x)
    BY <1>3
  <2>2. Len(events) # MAX_EVENTS_IN_DOM
    BY <1>0, <1>1, <1>3, <2>1
  <2>3. \A x \in received : Has(events, x) \/ Has(buffer, x)
    BY <2>2 DEF FeedClean
  <2> QED
    BY <2>1, <2>3
<1>6. received' \in SUBSET Nat
  BY DEF FeedClean
<1>7. Within(buffer, reached + 1)
  BY <1>2 DEF Within
<1>8. /\ received' \in SUBSET Nat /\ t \in Seq(Nat) /\ buffer' \in Seq(Nat)
      /\ Within(t, reached') /\ Within(buffer', reached')
      /\ Once(t) /\ Once(buffer') /\ Apart(buffer', t)
      /\ Len(t) <= MAX_EVENTS_IN_DOM
      /\ bufferDropped' => Len(buffer') >= MAX_PAUSE_BUFFER
  <2>1. buffer' = buffer /\ bufferDropped' = bufferDropped /\ reached' = reached + 1
    BY <1>2
  <2> HIDE DEF t
  <2> QED
    BY <1>1, <1>3, <1>4, <1>6, <1>7, <2>1
<1>9. (\A x \in received' : Has(t, x) \/ Has(buffer', x)) \/ Len(t) = MAX_EVENTS_IN_DOM \/ bufferDropped'
  BY <1>2, <1>5
<1> QED
  BY <1>8, <1>9 DEF FeedClean, Within, Once, Apart, Has

LEMMA FeedStays ==
  ASSUME FeedClean, UNCHANGED <<reached, received, events, buffer, bufferDropped>>
  PROVE  FeedClean'
BY DEF FeedClean, Within, Once, Apart, Has

LEMMA FeedStep == ASSUME FeedInv, Feed!Next PROVE FeedInv'
<1> USE DEF Feed!page, Feed!history
<1>0. s1 \in Nat /\ reached \in Nat /\ reached <= s1 /\ (~tailed /\ ~raced => FeedClean)
  BY DEF FeedInv
<1>1. ASSUME UNCHANGED <<received, events, buffer, bufferDropped>>, reached' = reached \/ received = {}, reached' >= reached, reached' <= s1', s1' \in Nat, reached' \in Nat,
             UNCHANGED tailed, UNCHANGED raced
      PROVE  FeedInv'
  <2>1. CASE reached' = reached
    BY <1>0, <1>1, <2>1, FeedStays DEF FeedInv
  <2>2. CASE received = {}
    <3>1. FeedClean => FeedClean'
      <4> SUFFICES ASSUME FeedClean PROVE FeedClean'
        OBVIOUS
      <4>1. Within(events, reached') /\ Within(buffer, reached')
        <5>1. events \in Seq(Nat) /\ buffer \in Seq(Nat) /\ Within(events, reached) /\ Within(buffer, reached)
          BY DEF FeedClean
        <5>2. \A i \in 1..Len(events) : events[i] \in Nat
          BY <5>1
        <5>3. \A i \in 1..Len(buffer) : buffer[i] \in Nat
          BY <5>1
        <5> QED
          BY <1>0, <1>1, <5>1, <5>2, <5>3 DEF Within
      <4> QED
        BY <1>1, <4>1 DEF FeedClean, Within, Once, Apart, Has
    <3> QED
      BY <1>0, <1>1, <3>1 DEF FeedInv
  <2> QED
    BY <1>1, <2>1, <2>2
<1>2. ASSUME tailed' \/ raced', s1' \in Nat, reached' \in Nat, reached' <= s1'
      PROVE  FeedInv'
  BY <1>2 DEF FeedInv
<1>3. ASSUME Feed!flushBuffer, UNCHANGED <<s1, reached, received, tailed>>
      PROVE  FeedInv'
  <2>1. CASE tailed' \/ raced'
    BY <1>0, <1>2, <1>3, <2>1
  <2>2. CASE ~tailed' /\ ~raced'
    <3>1. ~tailed /\ ~raced
      BY <1>3, <2>2 DEF Feed!flushBuffer
    <3> QED
      BY <1>0, <1>3, <2>2, <3>1, Flushes DEF FeedInv
  <2> QED
    BY <2>1, <2>2
<1>4. CASE Feed!Insert \/ Feed!connect \/ Feed!Cut
  <2>1. CASE Feed!Insert
    BY <1>0, <1>1, <2>1 DEF Feed!Insert
  <2>2. CASE Feed!connect
    BY <1>0, <1>1, <2>2 DEF Feed!connect
  <2>3. CASE Feed!Cut
    BY <1>0, <1>1, <2>3 DEF Feed!Cut
  <2> QED
    BY <1>4, <2>1, <2>2, <2>3
<1>5. CASE Feed!onmessage
  <2>1. /\ reached < s1 /\ reached' = reached + 1 /\ received' = received \union {reached'} /\ UNCHANGED <<s1, tailed, raced>>
        /\ \/ /\ buffer' = Append(IF Len(buffer) >= MAX_PAUSE_BUFFER THEN Tail(buffer) ELSE buffer, reached')
              /\ bufferDropped' = (bufferDropped \/ Len(buffer) >= MAX_PAUSE_BUFFER)
              /\ UNCHANGED events
           \/ /\ events' = Feed!Newest(MAX_EVENTS_IN_DOM, <<reached'>> \o events) /\ UNCHANGED <<buffer, bufferDropped>>
    BY <1>5 DEF Feed!onmessage
  <2>2. FeedClean => FeedClean'
    BY <1>0, <2>1, Buffers, Lists
  <2> QED
    BY <1>0, <2>1, <2>2 DEF FeedInv
<1>6. CASE Feed!Draw \/ Feed!handleListMouseEnter \/ Feed!ReadTail \/ Feed!TailFails
  <2>1. UNCHANGED <<s1, reached, received, events, buffer, bufferDropped, tailed, raced>>
    BY <1>6 DEF Feed!Draw, Feed!handleListMouseEnter, Feed!ReadTail, Feed!TailFails
  <2> QED
    BY <1>0, <1>1, <2>1
<1>7. CASE Feed!handleBadgeToggle \/ Feed!handleResume \/ Feed!handleListMouseLeave
  <2>1. UNCHANGED <<s1, reached, received, tailed>> /\ (Feed!flushBuffer \/ Feed!Unflushed)
    BY <1>7 DEF Feed!handleBadgeToggle, Feed!handleResume, Feed!handleListMouseLeave, Feed!Resumed
  <2>2. CASE Feed!Unflushed
    BY <1>0, <1>1, <2>1, <2>2 DEF Feed!Unflushed
  <2> QED
    BY <1>3, <2>1, <2>2
<1>8. ASSUME NEW m \in {"live", "tail"}, Feed!SetMode(m) PROVE FeedInv'
  <2>1. UNCHANGED <<s1, reached, received, events, buffer, bufferDropped, tailed, raced>>
    BY <1>8 DEF Feed!SetMode
  <2> QED
    BY <1>0, <1>1, <2>1
<1>9. CASE Feed!ListTail
  BY <1>0, <1>2, <1>9 DEF Feed!ListTail
<1> QED
  BY <1>4, <1>5, <1>6, <1>7, <1>8, <1>9 DEF Feed!Next

LEMMA FeedStill == ASSUME FeedInv, UNCHANGED slots PROVE FeedInv'
BY DEF slots, FeedInv, FeedClean, Once, Apart, Within, Has

HIDE DEF reached, received, events, buffer, bufferDropped, drawn, tailed, raced

-----------------------------------------------------------------------------
(***************************************************************************)
(* The settings of the providers.  While a save is under way its part of   *)
(* the draft is what is saved or what the data says, since the panel does  *)
(* not let it be edited and an answer puts the data there; once it is      *)
(* reported, the file has it until someone writes that part.               *)
(***************************************************************************)
file == s1
routeData == s2
routeReq == s3
inst == s4
draft == s5
saves == s6
saved == s7
USE DEF file, routeData, routeReq, inst, draft, saves, saved

LEMMA RoutingBounds ==
  /\ FirstInst \in Insts
  /\ Legacy \in EnvNames /\ RoutedProvs \cup {Claude, NoProv, Detected} \subseteq EnvNames \ {Legacy}
  /\ EnvFiles \subseteq [def : EnvNames, chain : Seq(EnvNames), routing : EnvNames]
BY PagesAssumption

Parts == {"def", "chain", "routing"}
Kinds == {"def", "chain", "routing", "normalize"}

IsSettings(c) == c = [p \in Parts |-> c[p]] /\ c["chain"] \in Seq(EnvNames)
\* A value of part q that the page works with: the old name is gone.
Current(q, v) == (q = "def" => v # Legacy) /\ (q = "chain" => v \in Seq(EnvNames \ {Legacy}))
IsDraft(d) == d = [p \in Parts |-> d[p]] /\ \A q \in Parts : Current(q, d[q])
IsSave(j) == DOMAIN j = {"at", "of", "value", "base", "clean"} /\ j.of \in Insts /\ IsSettings(j.base)
IsGet(r) == DOMAIN r = {"at", "read"} /\ IsSettings(r.read)

RoutingTypeOK ==
  /\ file = [i \in Insts |-> file[i]] /\ routeData = [i \in Insts |-> routeData[i]] /\ routeReq = [i \in Insts |-> routeReq[i]]
  /\ \A i \in Insts : IsSettings(file[i]) /\ IsSettings(routeData[i]) /\ IsGet(routeReq[i])
  /\ inst \in Insts /\ IsDraft(draft)
  /\ saves = [k \in Kinds |-> saves[k]] /\ \A k \in Kinds : IsSave(saves[k])
  /\ saved = [q \in Parts |-> saved[q]]

\* Part q of draft d, with c as the data, when v was saved.
Follows(d, c, q, v) == d # Routing!NoData => d[q] = v \/ d[q] = Routing!Read(c)[q]
SavesInv ==
  \A q \in Parts : saves[q].at # "idle" =>
    /\ Current(q, saves[q].value)
    /\ saves[q].clean => Follows(draft, routeData[inst], q, saves[q].value)
    /\ saves[q].clean /\ saves[q].at = "written" => file[saves[q].of][q] = saves[q].value
SavedInv ==
  \A q \in Parts : saved[q].at # "idle" =>
    /\ saved[q].of = inst /\ Current(q, saved[q].value) /\ file[inst][q] = saved[q].value
    /\ routeReq[inst].at = "read" => routeReq[inst].read[q] = saved[q].value
    /\ Follows(draft, routeData[inst], q, saved[q].value)

\* The three states of a file that nobody else writes while it is normalized.
Tidied(a, c, base) ==
  /\ a = "sent" => c = base
  /\ a = "chain" => c = [base EXCEPT !.def = Routing!normalizeProviderId(base.def)]
  /\ a = "renamed" => c = Routing!Renamed(base)
NormalizeInv ==
  LET j == saves["normalize"] IN j.clean => Tidied(j.at, file[j.of], j.base)

RoutingInv == /\ RoutingTypeOK /\ SavesInv /\ SavedInv /\ NormalizeInv
              /\ Routing!SavedIsShown

-----------------------------------------------------------------------------
(* What the settings say.                                                  *)
LEMMA NamesAreKnown ==
  /\ Claude \in EnvNames /\ Claude # Legacy /\ NoProv # Legacy /\ NoProv \in EnvNames /\ Detected # Legacy
  /\ \A v \in EnvNames : Routing!normalizeProviderId(v) \in EnvNames \ {Legacy}
  /\ \A v : v # Legacy => Routing!normalizeProviderId(v) = v
BY RoutingBounds DEF Routing!normalizeProviderId

LEMMA NoDataIs == IsSettings(Routing!NoData) /\ IsDraft(Routing!NoData)
<1> DEFINE d == Routing!NoData
<1>1. d = [p \in Parts |-> d[p]] /\ d["def"] = NoProv /\ d["chain"] = <<NoProv>>
  BY DEF Routing!NoData, Parts
<1>2. <<NoProv>> \in Seq(EnvNames \ {Legacy}) /\ <<NoProv>> \in Seq(EnvNames)
  BY NamesAreKnown
<1> HIDE DEF d
<1> QED
  BY <1>1, <1>2, NamesAreKnown DEF IsSettings, IsDraft, Current, d

\* Each part is read from its own part of the file.
ReadPart(q, v) == IF q = "def" THEN IF v = NoProv THEN Detected ELSE Routing!normalizeProviderId(v)
                  ELSE IF q = "chain" THEN [k \in DOMAIN v |-> Routing!normalizeProviderId(v[k])] ELSE v

LEMMA ReadByPart ==
  ASSUME NEW c, IsSettings(c)
  PROVE  /\ \A q \in Parts : Routing!Read(c)[q] = ReadPart(q, c[q]) /\ Current(q, Routing!Read(c)[q])
         /\ Routing!Read(c) = [p \in Parts |-> Routing!Read(c)[p]]
<1>0. c.def = c["def"] /\ c.chain = c["chain"] /\ c.routing = c["routing"]
  OBVIOUS
<1> DEFINE r == Routing!Read(c)
<1>1. r["def"] = ReadPart("def", c["def"]) /\ r["chain"] = ReadPart("chain", c["chain"]) /\ r["routing"] = ReadPart("routing", c["routing"])
  BY <1>0 DEF Routing!Read, ReadPart
<1>2. r = [p \in Parts |-> r[p]]
  BY DEF Routing!Read, Parts
<1>3. r["def"] # Legacy
  BY <1>1, NamesAreKnown DEF ReadPart, Routing!normalizeProviderId
<1>4. r["chain"] \in Seq(EnvNames \ {Legacy})
  <2> DEFINE v == c["chain"]
             w == [k \in 1..Len(v) |-> Routing!normalizeProviderId(v[k])]
  <2>1. v \in Seq(EnvNames) /\ DOMAIN v = 1..Len(v) /\ Len(v) \in Nat
    BY DEF IsSettings
  <2>2. r["chain"] = w
    BY <1>1, <2>1 DEF ReadPart
  <2>3. \A k \in 1..Len(v) : v[k] \in EnvNames
    BY <2>1
  <2>4. w \in [1..Len(v) -> EnvNames \ {Legacy}]
    BY <2>3, NamesAreKnown
  <2> HIDE DEF v, w
  <2> QED
    BY <2>1, <2>2, <2>4
<1> HIDE DEF r
<1> QED
  BY <1>1, <1>2, <1>3, <1>4 DEF Parts, Current, r

LEMMA CurrentReads ==
  ASSUME NEW q \in Parts, NEW v, Current(q, v)
  PROVE  ReadPart(q, v) = v \/ (v = NoProv /\ ReadPart(q, v) = Detected)
<1>1. CASE q = "chain"
  <2>1. v \in Seq(EnvNames \ {Legacy}) /\ v = [k \in DOMAIN v |-> v[k]]
    BY <1>1 DEF Current
  <2>2. \A k \in DOMAIN v : Routing!normalizeProviderId(v[k]) = v[k]
    BY <2>1, NamesAreKnown
  <2>3. [k \in DOMAIN v |-> Routing!normalizeProviderId(v[k])] = v
    BY <2>1, <2>2
  <2> QED
    BY <1>1, <2>3 DEF ReadPart
<1>2. CASE q # "chain"
  BY <1>2, NamesAreKnown DEF Parts, Current, ReadPart
<1> QED
  BY <1>1, <1>2

\* What a draft becomes that follows the data.
Goes(d, f, old, new) ==
  f # Routing!NoData => \A q \in Parts :
    f[q] = Routing!Read(new)[q] \/ (d # Routing!NoData /\ f[q] = d[q] /\ Routing!Read(old)[q] = Routing!Read(new)[q])
LEMMA DraftFollows ==
  ASSUME NEW d, IsDraft(d), NEW old, IsSettings(old), NEW new, IsSettings(new), NEW moved \in BOOLEAN
  PROVE  IsDraft(Routing!Follow(d, old, new, moved)) /\ Goes(d, Routing!Follow(d, old, new, moved), old, new)
<1> DEFINE f == Routing!Follow(d, old, new, moved)
           r == Routing!Read(new)
           o == Routing!Read(old)
           m == [q \in Parts |-> IF o[q] # r[q] \/ (moved /\ q # "def") THEN r[q] ELSE d[q]]
<1>1. f = IF new = Routing!NoData THEN Routing!NoData ELSE IF d = Routing!NoData THEN r ELSE m
  BY Zenon DEF Routing!Follow, Routing!Parts, Parts
<1>2. IsDraft(r) /\ IsDraft(d)
  BY ReadByPart DEF IsDraft
<1> HIDE DEF f, r, o
<1>3. \A q \in Parts : m[q] = r[q] \/ (m[q] = d[q] /\ o[q] = r[q])
  OBVIOUS
<1>4. m = [q \in Parts |-> m[q]]
  OBVIOUS
<1> HIDE DEF m
<1>5. IsDraft(m)
  BY <1>2, <1>3, <1>4, Zenon DEF IsDraft
<1>6. IsDraft(f)
  BY <1>1, <1>2, <1>5, NoDataIs
<1>7. f # Routing!NoData => \A q \in Parts : f[q] = r[q] \/ (d # Routing!NoData /\ f[q] = d[q] /\ o[q] = r[q])
  BY <1>1, <1>3
<1> QED
  BY <1>6, <1>7, Zenon DEF f, r, o, Goes

SameSave(j, n) == IsSave(n) /\ n.of = j.of /\ n.value = j.value /\ n.base = j.base
LEMMA SaveKept ==
  ASSUME NEW j, IsSave(j), NEW a
  PROVE  /\ SameSave(j, [j EXCEPT !.at = a]) /\ [j EXCEPT !.at = a].at = a /\ [j EXCEPT !.at = a].clean = j.clean
         /\ SameSave(j, [j EXCEPT !.clean = FALSE]) /\ ~[j EXCEPT !.clean = FALSE].clean /\ [j EXCEPT !.clean = FALSE].at = j.at
<1> DEFINE n == [j EXCEPT !.at = a]
           c == [j EXCEPT !.clean = FALSE]
<1>0. {"at", "clean"} \subseteq DOMAIN j
  BY DEF IsSave
<1>1. DOMAIN n = DOMAIN j /\ n["at"] = a /\ \A x \in DOMAIN j : x # "at" => n[x] = j[x]
  BY <1>0, Zenon
<1>2. DOMAIN c = DOMAIN j /\ c["clean"] = FALSE /\ \A x \in DOMAIN j : x # "clean" => c[x] = j[x]
  BY <1>0, Zenon
<1> HIDE DEF n, c
<1>3. SameSave(j, n) /\ n.at = a /\ n.clean = j.clean
  BY <1>1 DEF SameSave, IsSave
<1>4. SameSave(j, c) /\ ~c.clean /\ c.at = j.at
  BY <1>2 DEF SameSave, IsSave
<1> QED
  BY <1>3, <1>4 DEF n, c

LEMMA NoSaveIs == IsSave(Routing!NoJob) /\ Routing!NoJob.at = "idle"
<1>1. FirstInst \in Insts
  BY RoutingBounds
<1> QED
  BY <1>1, NoDataIs DEF IsSave, Routing!NoJob

LEMMA NoGetIs ==
  /\ IsGet(Routing!NoReq) /\ Routing!NoReq.at = "idle"
  /\ IsGet(Routing!Sent) /\ Routing!Sent.at = "sent"
  /\ LET r == [Routing!NoReq EXCEPT !.at = "failed"] IN IsGet(r) /\ r.at = "failed"
<1>1. /\ Routing!NoReq = [at |-> "idle", read |-> Routing!NoData]
      /\ Routing!Sent = [at |-> "sent", read |-> Routing!NoData]
      /\ [Routing!NoReq EXCEPT !.at = "failed"] = [at |-> "failed", read |-> Routing!NoData]
  BY DEF Routing!NoReq, Routing!Sent
<1> QED
  BY <1>1, NoDataIs DEF IsGet

LEMMA RoutingInit == ASSUME Routing!Init PROVE RoutingInv
<1>1. FirstInst \in Insts /\ file \in [Insts -> EnvFiles]
  BY RoutingBounds DEF Routing!Init
<1>2. ASSUME NEW i \in Insts PROVE IsSettings(file[i])
  <2>1. file[i] \in [def : EnvNames, chain : Seq(EnvNames), routing : EnvNames]
    BY <1>1, RoutingBounds
  <2>2. file[i] = [p \in Parts |-> file[i][p]] /\ file[i]["chain"] \in Seq(EnvNames)
    BY <2>1 DEF Parts
  <2> QED
    BY <2>2 DEF IsSettings
<1>3. /\ routeData = [i \in Insts |-> Routing!NoData] /\ inst = FirstInst /\ draft = Routing!NoData
      /\ routeReq = [i \in Insts |-> IF i = FirstInst THEN Routing!Sent ELSE Routing!NoReq]
      /\ saves = [k \in Kinds |-> Routing!NoJob] /\ saved = [q \in Parts |-> Routing!NoJob]
  BY DEF Routing!Init, Routing!Kinds, Routing!Parts, Kinds, Parts
<1>4. RoutingTypeOK
  <2>1. \A i \in Insts : IsSettings(routeData[i]) /\ IsGet(routeReq[i])
    BY <1>3, NoDataIs, NoGetIs
  <2>2. file = [i \in Insts |-> file[i]] /\ routeData = [i \in Insts |-> routeData[i]] /\ routeReq = [i \in Insts |-> routeReq[i]]
    BY <1>1, <1>3
  <2>3. saves = [k \in Kinds |-> saves[k]] /\ (\A k \in Kinds : IsSave(saves[k])) /\ saved = [q \in Parts |-> saved[q]]
    BY <1>3, NoSaveIs
  <2> QED
    BY <1>1, <1>2, <1>3, <2>1, <2>2, <2>3, NoDataIs DEF RoutingTypeOK
<1>5. (\A q \in Parts : saves[q].at = "idle" /\ saved[q].at = "idle") /\ saves["normalize"].at = "idle"
  BY <1>3, NoSaveIs DEF Parts, Kinds
<1>6. SavesInv /\ SavedInv /\ NormalizeInv
  BY <1>5 DEF SavesInv, SavedInv, NormalizeInv, Tidied
<1>7. Routing!SavedIsShown
  BY <1>5 DEF Routing!SavedIsShown, Routing!Parts, Parts
<1> QED
  BY <1>4, <1>6, <1>7 DEF RoutingInv

LEMMA RoutingPassed == ASSUME RoutingInv PROVE Routing!SavedIsShown /\ Routing!NormalizeOnlyRenames
BY DEF RoutingInv, NormalizeInv, Tidied, Routing!NormalizeOnlyRenames

-----------------------------------------------------------------------------
(* What the steps keep.                                                    *)
LEMMA WritesSettings ==
  ASSUME RoutingTypeOK, NEW i \in Insts, NEW q \in Parts, NEW v, q = "chain" => v \in Seq(EnvNames),
         NEW k, NEW at, Routing!Writes(i, q, v, k, at)
  PROVE  /\ file' = [m \in Insts |-> file'[m]] /\ file'[i][q] = v
         /\ \A m \in Insts : IsSettings(file'[m]) /\ (m # i => file'[m] = file[m])
         /\ \A m \in Insts, p \in Parts : m # i \/ p # q => file'[m][p] = file[m][p]
<1> DEFINE c == [file[i] EXCEPT ![q] = v]
<1>0. file' = [file EXCEPT ![i][q] = v]
  BY Zenon DEF Routing!Writes
<1>1. file = [m \in Insts |-> file[m]] /\ file[i] = [p \in Parts |-> file[i][p]] /\ file[i]["chain"] \in Seq(EnvNames)
  BY DEF RoutingTypeOK, IsSettings
<1>2. c = [p \in Parts |-> c[p]] /\ c[q] = v /\ \A p \in Parts : p # q => c[p] = file[i][p]
  BY <1>1, Zenon
<1>3. file' = [file EXCEPT ![i] = c]
  BY <1>0, <1>1
<1> HIDE DEF c
<1>4. IsSettings(c)
  BY <1>1, <1>2 DEF IsSettings, Parts
<1>5. file' = [m \in Insts |-> file'[m]] /\ file'[i] = c /\ \A m \in Insts : m # i => file'[m] = file[m]
  BY <1>1, <1>3, Zenon
<1>6. \A m \in Insts : IsSettings(file[m])
  BY DEF RoutingTypeOK
<1>7. \A m \in Insts : IsSettings(file'[m])
  BY <1>4, <1>5, <1>6, Zenon
<1>8. \A m \in Insts, p \in Parts : m # i \/ p # q => file'[m][p] = file[m][p]
  BY <1>2, <1>5, Zenon
<1>9. file'[i][q] = v
  BY <1>2, <1>5, Zenon
<1> QED
  BY <1>5, <1>7, <1>8, <1>9 DEF c

LEMMA WritesSaves ==
  ASSUME RoutingTypeOK, NEW i \in Insts, NEW q \in Parts, NEW k, NEW at,
         NEW v, Routing!Writes(i, q, v, k, at)
  PROVE  /\ saves' = [h \in Kinds |-> saves'[h]]
         /\ \A h \in Kinds :
              /\ IsSave(saves'[h]) /\ saves'[h].of = saves[h].of /\ saves'[h].value = saves[h].value
              /\ saves'[h].base = saves[h].base
              /\ saves'[h].clean => saves[h].clean
              /\ h = k => saves'[h].at = at
              /\ h # k => /\ saves'[h].at = saves[h].at
                          /\ saves'[h].clean => h \notin {q, "normalize"} \/ saves[h].of # i
<1>1. \A h \in Kinds : IsSave(saves[h])
  BY DEF RoutingTypeOK
<1>0. saves' = [h \in Kinds |-> IF h = k THEN [saves[h] EXCEPT !.at = at]
                                 ELSE IF h \in {q, "normalize"} /\ saves[h].of = i
                                      THEN [saves[h] EXCEPT !.clean = FALSE] ELSE saves[h]]
  BY Zenon DEF Routing!Writes, Routing!Kinds, Routing!Parts, Kinds
<1>2. saves' = [h \in Kinds |-> saves'[h]]
  BY <1>0, Zenon
<1>3. ASSUME NEW h \in Kinds
      PROVE  /\ IsSave(saves'[h]) /\ saves'[h].of = saves[h].of /\ saves'[h].value = saves[h].value
             /\ saves'[h].base = saves[h].base
             /\ saves'[h].clean => saves[h].clean
             /\ h = k => saves'[h].at = at
             /\ h # k => /\ saves'[h].at = saves[h].at
                         /\ saves'[h].clean => h \notin {q, "normalize"} \/ saves[h].of # i
  <2> DEFINE a == [saves[h] EXCEPT !.at = at]
             c == [saves[h] EXCEPT !.clean = FALSE]
  <2>1. saves'[h] = IF h = k THEN a ELSE IF h \in {q, "normalize"} /\ saves[h].of = i THEN c ELSE saves[h]
    BY <1>0, Zenon
  <2>2. /\ SameSave(saves[h], a) /\ a.at = at /\ a.clean = saves[h].clean
        /\ SameSave(saves[h], c) /\ ~c.clean /\ c.at = saves[h].at
    BY <1>1, SaveKept, Zenon
  <2> HIDE DEF a, c
  <2>3. CASE h = k
    BY <2>1, <2>2, <2>3, Zenon DEF SameSave
  <2>4. CASE h # k /\ h \in {q, "normalize"} /\ saves[h].of = i
    BY <2>1, <2>2, <2>4, Zenon DEF SameSave
  <2>5. CASE h # k /\ ~(h \in {q, "normalize"} /\ saves[h].of = i)
    BY <1>1, <2>1, <2>5, Zenon DEF SameSave
  <2> QED
    BY <2>3, <2>4, <2>5, Zenon
<1> QED
  BY <1>2, <1>3, Zenon

\* A write by the save of that part, by the banner's button, or by others.
LEMMA SettingsWritten ==
  ASSUME RoutingInv, NEW i \in Insts, NEW q \in Parts, NEW v, q = "chain" => v \in Seq(EnvNames),
         NEW k, NEW at, Routing!Writes(i, q, v, k, at),
         k \in Parts => k = q /\ saves[q].of = i /\ saves[q].value = v /\ saves[q].at # "idle"
  PROVE  /\ RoutingTypeOK' /\ SavesInv' /\ SavedInv' /\ Routing!SavedIsShown'
         /\ k # "normalize" => NormalizeInv'
         /\ saves'["normalize"].of = saves["normalize"].of /\ saves'["normalize"].base = saves["normalize"].base
         /\ saves'["normalize"].clean => saves["normalize"].clean
         /\ k = "normalize" => saves'["normalize"].at = at
<1>0. Parts \subseteq Kinds /\ "normalize" \in Kinds /\ "normalize" \notin Parts
  BY DEF Parts, Kinds
<1>1. /\ saved' = [saved EXCEPT ![q] = IF @.of = i THEN Routing!NoJob ELSE @]
      /\ routeData' = routeData /\ routeReq' = routeReq /\ inst' = inst /\ draft' = draft
  BY Zenon DEF Routing!Writes
<1>2. RoutingTypeOK /\ SavesInv /\ SavedInv /\ NormalizeInv /\ Routing!SavedIsShown
  BY DEF RoutingInv
<1>3. /\ file' = [m \in Insts |-> file'[m]] /\ file'[i][q] = v
      /\ \A m \in Insts : IsSettings(file'[m]) /\ (m # i => file'[m] = file[m])
      /\ \A m \in Insts, p \in Parts : m # i \/ p # q => file'[m][p] = file[m][p]
  BY <1>2, WritesSettings, Zenon
<1>4. /\ saves' = [h \in Kinds |-> saves'[h]]
      /\ \A h \in Kinds :
           /\ IsSave(saves'[h]) /\ saves'[h].of = saves[h].of /\ saves'[h].value = saves[h].value
           /\ saves'[h].base = saves[h].base
           /\ saves'[h].clean => saves[h].clean
           /\ h = k => saves'[h].at = at
           /\ h # k => /\ saves'[h].at = saves[h].at
                       /\ saves'[h].clean => h \notin {q, "normalize"} \/ saves[h].of # i
  BY <1>2, WritesSaves
<1>5. saved = [p \in Parts |-> saved[p]] /\ \A h \in Kinds : IsSave(saves[h])
  BY <1>2 DEF RoutingTypeOK
<1>6. /\ saved' = [p \in Parts |-> saved'[p]]
      /\ \A p \in Parts : saved'[p].at # "idle" => saved'[p] = saved[p] /\ (p # q \/ saved[p].of # i)
  <2> DEFINE n == IF saved[q].of = i THEN Routing!NoJob ELSE saved[q]
  <2>1. saved' = [saved EXCEPT ![q] = n]
    BY <1>1
  <2>2. n.at # "idle" => n = saved[q] /\ saved[q].of # i
    BY NoSaveIs
  <2> HIDE DEF n
  <2> QED
    BY <1>5, <2>1, <2>2
<1>7. RoutingTypeOK'
  BY <1>1, <1>2, <1>3, <1>4, <1>6, Zenon DEF RoutingTypeOK
<1>8. SavesInv'
  <2> SUFFICES ASSUME NEW h \in Parts, saves'[h].at # "idle"
               PROVE  /\ Current(h, saves'[h].value)
                      /\ saves'[h].clean => Follows(draft', routeData'[inst'], h, saves'[h].value)
                      /\ saves'[h].clean /\ saves'[h].at = "written" => file'[saves'[h].of][h] = saves'[h].value
    BY Zenon DEF SavesInv
  <2>1. /\ saves'[h].of = saves[h].of /\ saves'[h].value = saves[h].value /\ IsSave(saves[h])
        /\ saves'[h].clean => saves[h].clean
        /\ h # k => /\ saves'[h].at = saves[h].at
                    /\ saves'[h].clean => h # q \/ saves[h].of # i
    BY <1>0, <1>4, <1>5, Zenon
  <2>2. saves[h].at # "idle" /\ (h = k => h = q /\ saves[h].of = i /\ saves[h].value = v)
    BY <2>1, Zenon
  <2>3. /\ Current(h, saves[h].value)
        /\ saves[h].clean => Follows(draft, routeData[inst], h, saves[h].value)
        /\ saves[h].clean /\ saves[h].at = "written" => file[saves[h].of][h] = saves[h].value
    BY <1>2, <2>2, Zenon DEF SavesInv
  <2>4. Follows(draft, routeData[inst], h, saves[h].value) => Follows(draft', routeData'[inst'], h, saves'[h].value)
    BY <1>1, <2>1, Zenon DEF Follows
  <2>5. ASSUME saves'[h].clean, saves'[h].at = "written" PROVE file'[saves'[h].of][h] = saves'[h].value
    <3>1. CASE h = k
      BY <1>3, <2>1, <2>2, <3>1, Zenon
    <3>2. CASE h # k
      <4>1. saves[h].of \in Insts
        BY <2>1 DEF IsSave
      <4>2. file'[saves[h].of][h] = file[saves[h].of][h]
        BY <1>3, <2>1, <2>5, <3>2, <4>1, ZenonT(60)
      <4> QED
        BY <2>1, <2>3, <2>5, <3>2, <4>2, Zenon
    <3> QED
      BY <3>1, <3>2
  <2> QED
    BY <2>1, <2>3, <2>4, <2>5, Zenon
<1>9. SavedInv'
  <2> SUFFICES ASSUME NEW h \in Parts, saved'[h].at # "idle"
               PROVE  /\ saved'[h].of = inst' /\ Current(h, saved'[h].value) /\ file'[inst'][h] = saved'[h].value
                      /\ routeReq'[inst'].at = "read" => routeReq'[inst'].read[h] = saved'[h].value
                      /\ Follows(draft', routeData'[inst'], h, saved'[h].value)
    BY Zenon DEF SavedInv
  <2>1. saved'[h] = saved[h] /\ (h # q \/ saved[h].of # i)
    BY <1>6, Zenon
  <2>2. /\ saved[h].of = inst /\ Current(h, saved[h].value) /\ file[inst][h] = saved[h].value
        /\ routeReq[inst].at = "read" => routeReq[inst].read[h] = saved[h].value
        /\ Follows(draft, routeData[inst], h, saved[h].value)
    BY <1>2, <2>1, Zenon DEF SavedInv
  <2>3. inst \in Insts
    BY <1>2 DEF RoutingTypeOK
  <2>4. file'[inst][h] = file[inst][h]
    BY <1>3, <2>1, <2>2, <2>3, Zenon
  <2>5. Follows(draft', routeData'[inst'], h, saved'[h].value)
    BY <1>1, <2>1, <2>2, Zenon DEF Follows
  <2> QED
    BY <1>1, <2>1, <2>2, <2>4, <2>5, Zenon
<1>10. Routing!SavedIsShown'
  <2> SUFFICES ASSUME NEW h \in Parts, saved'[h].at # "idle", draft' # Routing!NoData, routeReq'[inst'].at = "idle"
               PROVE  draft'[h] = saved'[h].value \/ (saved'[h].value = NoProv /\ draft'[h] = Detected)
    BY Zenon DEF Routing!SavedIsShown, Routing!Parts, Parts
  <2>1. saved'[h] = saved[h]
    BY <1>6, Zenon
  <2> QED
    BY <1>1, <1>2, <2>1, Zenon DEF Routing!SavedIsShown, Routing!Parts, Parts
<1>11. k # "normalize" => NormalizeInv'
  <2> DEFINE n == "normalize"
  <2> SUFFICES ASSUME k # n, saves'[n].clean
               PROVE  Tidied(saves'[n].at, file'[saves'[n].of], saves'[n].base)
    BY Zenon DEF NormalizeInv, Tidied, Routing!normalizeProviderId, Routing!Renamed, Routing!Read
  <2>1. /\ saves'[n].at = saves[n].at /\ saves'[n].of = saves[n].of /\ saves'[n].base = saves[n].base
        /\ saves[n].clean /\ saves[n].of # i /\ saves[n].of \in Insts
    <3>1. saves[n].of \in Insts
      BY <1>0, <1>5 DEF IsSave
    <3> QED
      BY <1>0, <1>4, <3>1, Zenon
  <2>2. file'[saves[n].of] = file[saves[n].of]
    BY <1>3, <2>1, Zenon
  <2>3. Tidied(saves[n].at, file[saves[n].of], saves[n].base)
    BY <1>2, <2>1 DEF NormalizeInv
  <2> QED
    BY <2>1, <2>2, <2>3, Zenon
<1>12. /\ saves'["normalize"].of = saves["normalize"].of /\ saves'["normalize"].base = saves["normalize"].base
       /\ saves'["normalize"].clean => saves["normalize"].clean
       /\ k = "normalize" => saves'["normalize"].at = at
  BY <1>0, <1>4, Zenon
<1> QED
  BY <1>7, <1>8, <1>9, <1>10, <1>11, <1>12, Zenon

\* A draft that followed a save follows it in new data.
LEMMA FollowsOn ==
  ASSUME NEW d, IsDraft(d), NEW old, IsSettings(old), NEW new, IsSettings(new), NEW moved \in BOOLEAN,
         NEW q \in Parts, NEW v, Follows(d, old, q, v)
  PROVE  Follows(Routing!Follow(d, old, new, moved), new, q, v)
<1> DEFINE f == Routing!Follow(d, old, new, moved)
<1>1. Goes(d, f, old, new)
  BY DraftFollows
<1> HIDE DEF f
<1>2. Follows(f, new, q, v)
  BY <1>1, Zenon DEF Follows, Goes
<1> QED
  BY <1>2 DEF f

\* The saves, when no file is written and none starts.
LEMMA SavesStay ==
  ASSUME SavesInv, NormalizeInv, file' = file,
         \A h \in Kinds : saves'[h] = saves[h] \/ saves'[h].at = "idle",
         \A q \in Parts : \A v : Follows(draft, routeData[inst], q, v) => Follows(draft', routeData'[inst'], q, v)
  PROVE  SavesInv' /\ NormalizeInv'
<1>0. Parts \subseteq Kinds /\ "normalize" \in Kinds
  BY DEF Parts, Kinds
<1>1. ASSUME NEW h \in Parts, saves'[h].at # "idle"
      PROVE  /\ Current(h, saves'[h].value)
             /\ saves'[h].clean => Follows(draft', routeData'[inst'], h, saves'[h].value)
             /\ saves'[h].clean /\ saves'[h].at = "written" => file'[saves'[h].of][h] = saves'[h].value
  <2>1. saves'[h] = saves[h]
    BY <1>0, <1>1, Zenon
  <2>2. /\ Current(h, saves[h].value)
        /\ saves[h].clean => Follows(draft, routeData[inst], h, saves[h].value)
        /\ saves[h].clean /\ saves[h].at = "written" => file[saves[h].of][h] = saves[h].value
    BY <1>1, <2>1, Zenon DEF SavesInv
  <2> QED
    BY <2>1, <2>2, Zenon
<1>2. SavesInv'
  BY <1>1, Zenon DEF SavesInv
<1> DEFINE n == "normalize"
<1>3. ASSUME saves'[n].clean PROVE Tidied(saves'[n].at, file'[saves'[n].of], saves'[n].base)
  <2>1. CASE saves'[n] = saves[n]
    BY <1>3, <2>1, Zenon DEF NormalizeInv
  <2>2. CASE saves'[n].at = "idle"
    BY <2>2, Zenon DEF Tidied
  <2> QED
    BY <1>0, <2>1, <2>2
<1>4. NormalizeInv'
  BY <1>3, Zenon DEF NormalizeInv, Tidied, Routing!normalizeProviderId, Routing!Renamed, Routing!Read
<1> QED
  BY <1>2, <1>4

\* What was reported, when no file is written and the view stays.
LEMMA SavedStays ==
  ASSUME RoutingTypeOK, SavedInv, Routing!SavedIsShown, file' = file, inst' = inst,
         \A q \in Parts : saved'[q].at # "idle" =>
           /\ saved'[q] = saved[q]
           /\ \A v : Follows(draft, routeData[inst], q, v) => Follows(draft', routeData'[inst], q, v)
           /\ routeReq'[inst].at = "idle" /\ draft' # Routing!NoData =>
                routeReq[inst].at = "idle" /\ draft'[q] = draft[q] /\ draft # Routing!NoData,
         routeReq'[inst].at = "read" => routeReq'[inst] = routeReq[inst] \/ routeReq'[inst].read = file[inst]
  PROVE  SavedInv' /\ Routing!SavedIsShown'
<1>1. ASSUME NEW q \in Parts, saved'[q].at # "idle"
      PROVE  /\ saved'[q].of = inst' /\ Current(q, saved'[q].value) /\ file'[inst'][q] = saved'[q].value
             /\ routeReq'[inst'].at = "read" => routeReq'[inst'].read[q] = saved'[q].value
             /\ Follows(draft', routeData'[inst'], q, saved'[q].value)
             /\ draft' # Routing!NoData /\ routeReq'[inst'].at = "idle" =>
                  draft'[q] = saved'[q].value \/ (saved'[q].value = NoProv /\ draft'[q] = Detected)
  <2>1. /\ saved'[q] = saved[q]
        /\ \A v : Follows(draft, routeData[inst], q, v) => Follows(draft', routeData'[inst], q, v)
        /\ routeReq'[inst].at = "idle" /\ draft' # Routing!NoData =>
             routeReq[inst].at = "idle" /\ draft'[q] = draft[q] /\ draft # Routing!NoData
    BY <1>1, Zenon
  <2>2. /\ saved[q].of = inst /\ Current(q, saved[q].value) /\ file[inst][q] = saved[q].value
        /\ routeReq[inst].at = "read" => routeReq[inst].read[q] = saved[q].value
        /\ Follows(draft, routeData[inst], q, saved[q].value)
    BY <1>1, <2>1, Zenon DEF SavedInv
  <2>3. draft # Routing!NoData /\ routeReq[inst].at = "idle" =>
          draft[q] = saved[q].value \/ (saved[q].value = NoProv /\ draft[q] = Detected)
    BY <1>1, <2>1, Zenon DEF Routing!SavedIsShown, Routing!Parts, Parts
  <2>4. routeReq'[inst].at = "read" => routeReq'[inst].read[q] = saved'[q].value
    BY <2>1, <2>2, Zenon
  <2>5. Follows(draft', routeData'[inst], q, saved'[q].value)
    BY <2>1, <2>2, Zenon
  <2> QED
    BY <2>1, <2>2, <2>3, <2>4, <2>5, Zenon
<1>2. SavedInv'
  BY <1>1, Zenon DEF SavedInv
<1>3. Routing!SavedIsShown'
  BY <1>1, Zenon DEF Routing!SavedIsShown, Routing!Parts, Parts
<1> QED
  BY <1>2, <1>3

LEMMA EditKeeps ==
  ASSUME RoutingInv, NEW q \in Parts, NEW v, Current(q, v), Routing!Edit(q, v)
  PROVE  RoutingInv'
<1>1. /\ draft # Routing!NoData /\ saves[q].at = "idle"
      /\ draft' = [draft EXCEPT ![q] = v] /\ saved' = [saved EXCEPT ![q] = Routing!NoJob]
      /\ file' = file /\ routeData' = routeData /\ routeReq' = routeReq /\ inst' = inst /\ saves' = saves
  BY Zenon DEF Routing!Edit
<1>2. RoutingTypeOK /\ SavesInv /\ SavedInv /\ NormalizeInv /\ Routing!SavedIsShown
  BY DEF RoutingInv
<1>3. draft = [p \in Parts |-> draft[p]] /\ saved = [p \in Parts |-> saved[p]] /\ \A p \in Parts : Current(p, draft[p])
  BY <1>2 DEF RoutingTypeOK, IsDraft
<1>4. /\ draft' = [p \in Parts |-> draft'[p]] /\ draft'[q] = v /\ \A p \in Parts : p # q => draft'[p] = draft[p]
      /\ saved' = [p \in Parts |-> saved'[p]] /\ saved'[q] = Routing!NoJob /\ \A p \in Parts : p # q => saved'[p] = saved[p]
  BY <1>1, <1>3, Zenon
<1>5. IsDraft(draft')
  BY <1>3, <1>4, Zenon DEF IsDraft
<1>6. RoutingTypeOK'
  BY <1>1, <1>2, <1>4, <1>5, Zenon DEF RoutingTypeOK, IsDraft
<1>7. ASSUME NEW p \in Parts, p # q, NEW w, Follows(draft, routeData[inst], p, w)
      PROVE  Follows(draft', routeData'[inst'], p, w)
  BY <1>1, <1>4, <1>7, Zenon DEF Follows
<1>8. SavesInv'
  <2> SUFFICES ASSUME NEW h \in Parts, saves'[h].at # "idle"
               PROVE  /\ Current(h, saves'[h].value)
                      /\ saves'[h].clean => Follows(draft', routeData'[inst'], h, saves'[h].value)
                      /\ saves'[h].clean /\ saves'[h].at = "written" => file'[saves'[h].of][h] = saves'[h].value
    BY Zenon DEF SavesInv
  <2>1. h # q /\ saves'[h] = saves[h]
    BY <1>1, Zenon
  <2>2. /\ Current(h, saves[h].value)
        /\ saves[h].clean => Follows(draft, routeData[inst], h, saves[h].value)
        /\ saves[h].clean /\ saves[h].at = "written" => file[saves[h].of][h] = saves[h].value
    BY <1>2, <2>1, Zenon DEF SavesInv
  <2> QED
    BY <1>1, <1>7, <2>1, <2>2, Zenon
<1>9. NormalizeInv'
  BY <1>1, <1>2 DEF NormalizeInv, Tidied, Routing!normalizeProviderId, Routing!Renamed, Routing!Read
<1>10. ASSUME NEW p \in Parts, saved'[p].at # "idle" PROVE p # q /\ saved'[p] = saved[p]
  BY <1>4, <1>10, NoSaveIs
<1>11. SavedInv' /\ Routing!SavedIsShown'
  <2>1. \A p \in Parts : saved'[p].at # "idle" =>
           /\ saved'[p] = saved[p]
           /\ \A w : Follows(draft, routeData[inst], p, w) => Follows(draft', routeData'[inst], p, w)
           /\ routeReq'[inst].at = "idle" /\ draft' # Routing!NoData =>
                routeReq[inst].at = "idle" /\ draft'[p] = draft[p] /\ draft # Routing!NoData
    BY <1>1, <1>4, <1>7, <1>10, Zenon
  <2>2. routeReq'[inst].at = "read" => routeReq'[inst] = routeReq[inst] \/ routeReq'[inst].read = file[inst]
    BY <1>1
  <2> QED
    BY <1>1, <1>2, <2>1, <2>2, SavedStays, Zenon
<1> QED
  BY <1>6, <1>8, <1>9, <1>11, Zenon DEF RoutingInv

LEMMA StartsKeep ==
  ASSUME RoutingInv, NEW k \in Kinds, NEW v, NEW clean, Routing!Starts(k, v, clean),
         k \in Parts => Current(k, v) /\ (clean => Follows(draft, routeData[inst], k, v)),
         k = "normalize" /\ clean => routeData[inst] = file[inst]
  PROVE  RoutingInv'
<1> DEFINE n == [at |-> "sent", of |-> inst, value |-> v,
                 base |-> IF k = "normalize" THEN routeData[inst] ELSE Routing!NoData, clean |-> clean]
<1>1. /\ saves' = [saves EXCEPT ![k] = n]
      /\ file' = file /\ routeData' = routeData /\ routeReq' = routeReq /\ inst' = inst /\ draft' = draft /\ saved' = saved
  BY Zenon DEF Routing!Starts
<1>2. RoutingTypeOK /\ SavesInv /\ SavedInv /\ NormalizeInv /\ Routing!SavedIsShown
  BY DEF RoutingInv
<1>3. /\ saves = [h \in Kinds |-> saves[h]] /\ inst \in Insts /\ IsSettings(routeData[inst])
      /\ \A h \in Kinds : IsSave(saves[h])
  BY <1>2 DEF RoutingTypeOK
<1>4. /\ IsSave(n) /\ n.at = "sent" /\ n.of = inst /\ n.value = v /\ n.clean = clean
      /\ k = "normalize" => n.base = routeData[inst]
  BY <1>3, NoDataIs, Zenon DEF IsSave
<1> HIDE DEF n
<1>5. saves' = [h \in Kinds |-> saves'[h]] /\ saves'[k] = n /\ \A h \in Kinds : h # k => saves'[h] = saves[h]
  BY <1>1, <1>3, Zenon
<1>6. RoutingTypeOK'
  BY <1>1, <1>2, <1>3, <1>4, <1>5, Zenon DEF RoutingTypeOK
<1>7. SavesInv'
  <2> SUFFICES ASSUME NEW h \in Parts, saves'[h].at # "idle"
               PROVE  /\ Current(h, saves'[h].value)
                      /\ saves'[h].clean => Follows(draft', routeData'[inst'], h, saves'[h].value)
                      /\ saves'[h].clean /\ saves'[h].at = "written" => file'[saves'[h].of][h] = saves'[h].value
    BY Zenon DEF SavesInv
  <2>1. CASE h = k
    BY <1>1, <1>4, <1>5, <2>1, Zenon
  <2>2. CASE h # k
    <3>1. saves'[h] = saves[h]
      BY <1>5, <2>2 DEF Parts, Kinds
    <3>2. /\ Current(h, saves[h].value)
          /\ saves[h].clean => Follows(draft, routeData[inst], h, saves[h].value)
          /\ saves[h].clean /\ saves[h].at = "written" => file[saves[h].of][h] = saves[h].value
      BY <1>2, <3>1, Zenon DEF SavesInv
    <3> QED
      BY <1>1, <3>1, <3>2, Zenon
  <2> QED
    BY <2>1, <2>2
<1>8. NormalizeInv'
  <2> DEFINE m == "normalize"
  <2>1. ASSUME saves'[m].clean PROVE Tidied(saves'[m].at, file'[saves'[m].of], saves'[m].base)
    <3>1. CASE k = m
      BY <1>1, <1>4, <1>5, <2>1, <3>1, Zenon DEF Tidied
    <3>2. CASE k # m
      <4>1. saves'[m] = saves[m]
        BY <1>5, <3>2 DEF Kinds
      <4> QED
        BY <1>1, <1>2, <2>1, <4>1, Zenon DEF NormalizeInv
    <3> QED
      BY <3>1, <3>2
  <2> QED
    BY <2>1, Zenon DEF NormalizeInv, Tidied, Routing!normalizeProviderId, Routing!Renamed, Routing!Read
<1>9. SavedInv' /\ Routing!SavedIsShown'
  <2>1. SavedInv'
    BY <1>1, <1>2, ZenonT(60) DEF SavedInv, Follows, Current, Routing!Read, Routing!normalizeProviderId
  <2>2. Routing!SavedIsShown'
    BY <1>1, <1>2, Zenon DEF Routing!SavedIsShown, Routing!Parts
  <2> QED
    BY <2>1, <2>2
<1> QED
  BY <1>6, <1>7, <1>8, <1>9, Zenon DEF RoutingInv

\* The query of an instance that others read, and the draft: every request.
LEMMA SelectKeeps == ASSUME RoutingInv, NEW i \in Insts, Routing!SelectInstance(i) PROVE RoutingInv'
<1>1. /\ inst' = i /\ draft' = Routing!Follow(draft, routeData[inst], routeData[i], TRUE)
      /\ routeReq' = [routeReq EXCEPT ![i] = Routing!Sent] \/ routeReq' = routeReq
      /\ saved' = [q \in Parts |-> Routing!NoJob]
      /\ file' = file /\ routeData' = routeData /\ saves' = saves
  BY Zenon DEF Routing!SelectInstance, Routing!Parts, Parts
<1>2. RoutingTypeOK /\ SavesInv /\ SavedInv /\ NormalizeInv /\ Routing!SavedIsShown
  BY DEF RoutingInv
<1>3. /\ routeReq = [m \in Insts |-> routeReq[m]] /\ inst \in Insts /\ IsDraft(draft)
      /\ IsSettings(routeData[inst]) /\ IsSettings(routeData[i])
      /\ \A m \in Insts : IsGet(routeReq[m])
  BY <1>2 DEF RoutingTypeOK
<1>4. IsDraft(draft') /\ \A q \in Parts : \A v : Follows(draft, routeData[inst], q, v) => Follows(draft', routeData'[inst'], q, v)
  <2>1. IsDraft(Routing!Follow(draft, routeData[inst], routeData[i], TRUE))
    BY <1>3, DraftFollows
  <2>2. \A q \in Parts : \A v : Follows(draft, routeData[inst], q, v) =>
          Follows(Routing!Follow(draft, routeData[inst], routeData[i], TRUE), routeData[i], q, v)
    BY <1>3, FollowsOn
  <2> QED
    BY <1>1, <2>1, <2>2, Zenon
<1>5. routeReq' = [m \in Insts |-> routeReq'[m]] /\ \A m \in Insts : IsGet(routeReq'[m])
  BY <1>1, <1>3, NoGetIs
<1>6. \A q \in Parts : saved'[q].at = "idle"
  BY <1>1, NoSaveIs
<1>7. RoutingTypeOK'
  BY <1>1, <1>2, <1>4, <1>5, Zenon DEF RoutingTypeOK
<1>8. SavesInv' /\ NormalizeInv'
  BY <1>1, <1>2, <1>4, SavesStay, Zenon
<1>9. SavedInv' /\ Routing!SavedIsShown'
  BY <1>6, Zenon DEF SavedInv, Routing!SavedIsShown, Routing!Parts, Parts
<1> QED
  BY <1>7, <1>8, <1>9, Zenon DEF RoutingInv

\* The requests move, and nothing comes with them.
LEMMA GetKeeps ==
  ASSUME RoutingInv, NEW i \in Insts, Routing!GetServed(i) \/ Routing!GetFails(i) \/ Routing!Refetch
  PROVE  RoutingInv'
<1>1. file' = file /\ routeData' = routeData /\ inst' = inst /\ draft' = draft /\ saves' = saves /\ saved' = saved
  BY Zenon DEF Routing!GetServed, Routing!GetFails, Routing!Refetch
<1>2. RoutingTypeOK /\ SavesInv /\ SavedInv /\ NormalizeInv /\ Routing!SavedIsShown
  BY DEF RoutingInv
<1>3. /\ routeReq = [m \in Insts |-> routeReq[m]] /\ inst \in Insts
      /\ \A m \in Insts : IsGet(routeReq[m]) /\ IsSettings(file[m])
  BY <1>2 DEF RoutingTypeOK
<1>4. PICK m \in Insts : \E r : /\ routeReq' = [routeReq EXCEPT ![m] = r] /\ IsGet(r)
                                /\ r.at # "idle" /\ (r.at = "read" => r.read = file[m])
  <2>1. CASE Routing!GetServed(i)
    <3> DEFINE g == [at |-> "read", read |-> file[i]]
    <3>1. routeReq' = [routeReq EXCEPT ![i] = g]
      BY <2>1, Zenon DEF Routing!GetServed
    <3>2. IsGet(g) /\ g.at = "read" /\ g.read = file[i]
      BY <1>3 DEF IsGet
    <3> HIDE DEF g
    <3> QED
      BY <3>1, <3>2
  <2>2. CASE Routing!GetFails(i)
    <3> DEFINE g == [Routing!NoReq EXCEPT !.at = "failed"]
    <3>1. routeReq' = [routeReq EXCEPT ![i] = g]
      BY <2>2, Zenon DEF Routing!GetFails
    <3>2. IsGet(g) /\ g.at = "failed"
      BY NoGetIs
    <3> HIDE DEF g
    <3> QED
      BY <3>1, <3>2
  <2>3. CASE Routing!Refetch
    <3>1. routeReq' = [routeReq EXCEPT ![inst] = Routing!Sent]
      BY <2>3, Zenon DEF Routing!Refetch
    <3> QED
      BY <1>3, <3>1, NoGetIs
  <2> QED
    BY <2>1, <2>2, <2>3
<1>5. /\ routeReq' = [h \in Insts |-> routeReq'[h]] /\ (\A h \in Insts : IsGet(routeReq'[h]))
      /\ routeReq'[inst] = routeReq[inst] \/ (routeReq'[inst].at # "idle" /\ (routeReq'[inst].at = "read" => routeReq'[inst].read = file[inst]))
  BY <1>3, <1>4, Zenon
<1>6. RoutingTypeOK'
  BY <1>1, <1>2, <1>5, Zenon DEF RoutingTypeOK
<1>7. SavesInv' /\ NormalizeInv'
  BY <1>1, <1>2, SavesStay, Zenon
<1>8. SavedInv' /\ Routing!SavedIsShown'
  <2>1. \A p \in Parts : saved'[p].at # "idle" =>
           /\ saved'[p] = saved[p]
           /\ \A w : Follows(draft, routeData[inst], p, w) => Follows(draft', routeData'[inst], p, w)
           /\ routeReq'[inst].at = "idle" /\ draft' # Routing!NoData =>
                routeReq[inst].at = "idle" /\ draft'[p] = draft[p] /\ draft # Routing!NoData
    BY <1>1, <1>5, Zenon
  <2>2. routeReq'[inst].at = "read" => routeReq'[inst] = routeReq[inst] \/ routeReq'[inst].read = file[inst]
    BY <1>5, Zenon
  <2> QED
    BY <1>1, <1>2, <2>1, <2>2, SavedStays, Zenon
<1> QED
  BY <1>6, <1>7, <1>8, Zenon DEF RoutingInv

\* The settings that were read come to the page.
LEMMA AnswerKeeps == ASSUME RoutingInv, NEW i \in Insts, Routing!GetAnswered(i) PROVE RoutingInv'
<1> DEFINE c == routeReq[i].read
           f == Routing!Follow(draft, routeData[inst], c, FALSE)
<1>1. /\ routeReq[i].at = "read" /\ routeReq' = [routeReq EXCEPT ![i] = Routing!NoReq]
      /\ routeData' = [routeData EXCEPT ![i] = c]
      /\ i = inst => draft' = f
      /\ i # inst => draft' = draft
      /\ file' = file /\ inst' = inst /\ saves' = saves /\ saved' = saved
  BY Zenon DEF Routing!GetAnswered, Routing!Shows
<1>2. RoutingTypeOK /\ SavesInv /\ SavedInv /\ NormalizeInv /\ Routing!SavedIsShown
  BY DEF RoutingInv
<1>3. /\ routeReq = [m \in Insts |-> routeReq[m]] /\ routeData = [m \in Insts |-> routeData[m]]
      /\ inst \in Insts /\ IsDraft(draft) /\ IsSettings(c)
      /\ \A m \in Insts : IsGet(routeReq[m]) /\ IsSettings(routeData[m])
  BY <1>2 DEF RoutingTypeOK, IsGet
<1>4. /\ IsDraft(f) /\ \A q \in Parts : \A v : Follows(draft, routeData[inst], q, v) => Follows(f, c, q, v)
      /\ f # Routing!NoData => \A q \in Parts :
           f[q] = Routing!Read(c)[q] \/ (draft # Routing!NoData /\ f[q] = draft[q] /\ Routing!Read(routeData[inst])[q] = Routing!Read(c)[q])
  <2>1. IsDraft(f) /\ Goes(draft, f, routeData[inst], c)
    BY <1>3, DraftFollows
  <2>2. \A q \in Parts : \A v : Follows(draft, routeData[inst], q, v) => Follows(f, c, q, v)
    BY <1>3, FollowsOn
  <2> QED
    BY <2>1, <2>2, Zenon DEF Goes
<1>5. \A q \in Parts : Routing!Read(c)[q] = ReadPart(q, c[q])
  BY <1>3, ReadByPart
<1> HIDE DEF f, c
<1>6. /\ routeReq' = [m \in Insts |-> routeReq'[m]] /\ (\A m \in Insts : IsGet(routeReq'[m]))
      /\ routeData' = [m \in Insts |-> routeData'[m]] /\ (\A m \in Insts : IsSettings(routeData'[m]))
      /\ routeData'[i] = c /\ routeReq'[i].at = "idle"
      /\ \A m \in Insts : m # i => routeData'[m] = routeData[m] /\ routeReq'[m] = routeReq[m]
  BY <1>1, <1>3, NoGetIs, Zenon
<1>7. IsDraft(draft')
  BY <1>1, <1>3, <1>4
<1>8. RoutingTypeOK'
  BY <1>1, <1>2, <1>6, <1>7, Zenon DEF RoutingTypeOK
<1>9. \A q \in Parts : \A v : Follows(draft, routeData[inst], q, v) => Follows(draft', routeData'[inst'], q, v)
  <2>1. CASE i = inst
    <3>1. draft' = f /\ routeData'[inst'] = c
      BY <1>1, <1>6, <2>1, Zenon
    <3>2. \A q \in Parts : \A v : Follows(draft, routeData[inst], q, v) => Follows(f, c, q, v)
      BY <1>4
    <3> QED
      BY <3>1, <3>2
  <2>2. CASE i # inst
    BY <1>1, <1>3, <1>6, <2>2, Zenon
  <2> QED
    BY <2>1, <2>2, Zenon
<1>10. SavesInv' /\ NormalizeInv'
  BY <1>1, <1>2, <1>9, SavesStay, ZenonT(60)
<1>11. CASE i # inst
  <2>1. \A p \in Parts : saved'[p].at # "idle" =>
           /\ saved'[p] = saved[p]
           /\ \A w : Follows(draft, routeData[inst], p, w) => Follows(draft', routeData'[inst], p, w)
           /\ routeReq'[inst].at = "idle" /\ draft' # Routing!NoData =>
                routeReq[inst].at = "idle" /\ draft'[p] = draft[p] /\ draft # Routing!NoData
    BY <1>1, <1>3, <1>6, <1>9, <1>11, Zenon
  <2>2. routeReq'[inst].at = "read" => routeReq'[inst] = routeReq[inst] \/ routeReq'[inst].read = file[inst]
    BY <1>3, <1>6, <1>11, Zenon
  <2>3. SavedInv' /\ Routing!SavedIsShown'
    BY <1>1, <1>2, <2>1, <2>2, SavedStays, Zenon
  <2> QED
    BY <1>8, <1>10, <2>3, Zenon DEF RoutingInv
<1>12. CASE i = inst
  <2>1. ASSUME NEW q \in Parts, saved[q].at # "idle"
        PROVE  /\ saved[q].of = inst /\ Current(q, saved[q].value) /\ file[inst][q] = saved[q].value
               /\ Follows(draft, routeData[inst], q, saved[q].value) /\ c[q] = saved[q].value
    BY <1>1, <1>2, <1>12, <2>1, Zenon DEF SavedInv, c
  <2>2. SavedInv'
    BY <1>1, <1>6, <1>9, <1>12, <2>1, Zenon DEF SavedInv
  <2>3. ASSUME NEW q \in Parts, saved[q].at # "idle", f # Routing!NoData
        PROVE  f[q] = saved[q].value \/ (saved[q].value = NoProv /\ f[q] = Detected)
    <3> DEFINE v == saved[q].value
    <3>1. Routing!Read(c)[q] = ReadPart(q, v) /\ Current(q, v)
      BY <1>5, <2>1, <2>3, Zenon
    <3>2. ReadPart(q, v) = v \/ (v = NoProv /\ ReadPart(q, v) = Detected)
      BY <3>1, CurrentReads
    <3>3. f[q] = Routing!Read(c)[q] \/ f[q] = v
      BY <1>4, <2>1, <2>3, Zenon DEF Follows
    <3> QED
      BY <3>1, <3>2, <3>3, Zenon
  <2>4. Routing!SavedIsShown'
    BY <1>1, <1>12, <2>3, Zenon DEF Routing!SavedIsShown, Routing!Parts, Parts
  <2> QED
    BY <1>8, <1>10, <2>2, <2>4, Zenon DEF RoutingInv
<1> QED
  BY <1>11, <1>12

\* A save is reported, or fails.
LEMMA EndKeeps ==
  ASSUME RoutingInv, NEW k \in Kinds,
         (k \in Parts /\ Routing!SaveAnswered(k)) \/ (k = "normalize" /\ Routing!NormalizeAnswered) \/ Routing!SaveFails(k)
  PROVE  RoutingInv'
<1>1. /\ saves' = [saves EXCEPT ![k] = Routing!NoJob]
      /\ file' = file /\ routeData' = routeData /\ inst' = inst /\ draft' = draft
      /\ routeReq' = routeReq \/ routeReq' = [m \in Insts |-> IF m = inst THEN Routing!Sent ELSE Routing!NoReq]
      /\ \/ saved' = saved
         \/ /\ k \in Parts /\ saves[k].at = "written"
            /\ routeReq' = [m \in Insts |-> IF m = inst THEN Routing!Sent ELSE Routing!NoReq]
            /\ saved' = [saved EXCEPT ![k] = IF saves[k].clean /\ saves[k].of = inst THEN saves[k] ELSE Routing!NoJob]
  BY Zenon DEF Routing!SaveAnswered, Routing!NormalizeAnswered, Routing!SaveFails, Routing!Ended, Routing!onSuccess
<1>2. RoutingTypeOK /\ SavesInv /\ SavedInv /\ NormalizeInv /\ Routing!SavedIsShown
  BY DEF RoutingInv
<1>3. /\ saves = [h \in Kinds |-> saves[h]] /\ (\A h \in Kinds : IsSave(saves[h])) /\ inst \in Insts
      /\ saved = [q \in Parts |-> saved[q]] /\ routeReq = [m \in Insts |-> routeReq[m]]
      /\ \A m \in Insts : IsGet(routeReq[m])
  BY <1>2 DEF RoutingTypeOK
<1>4. /\ saves' = [h \in Kinds |-> saves'[h]] /\ (\A h \in Kinds : IsSave(saves'[h]))
      /\ \A h \in Kinds : saves'[h] = saves[h] \/ saves'[h].at = "idle"
  BY <1>1, <1>3, NoSaveIs, Zenon
<1>5. /\ routeReq' = [m \in Insts |-> routeReq'[m]] /\ (\A m \in Insts : IsGet(routeReq'[m]))
      /\ routeReq'[inst] = routeReq[inst] \/ routeReq'[inst].at = "sent"
  BY <1>1, <1>3, NoGetIs
<1>6. saved' = [q \in Parts |-> saved'[q]]
  BY <1>1, <1>3, Zenon
<1>7. RoutingTypeOK'
  BY <1>1, <1>2, <1>4, <1>5, <1>6, Zenon DEF RoutingTypeOK
<1>8. SavesInv' /\ NormalizeInv'
  BY <1>1, <1>2, <1>4, SavesStay, Zenon
<1>9. CASE saved' = saved
  <2>1. \A p \in Parts : saved'[p].at # "idle" =>
           /\ saved'[p] = saved[p]
           /\ \A w : Follows(draft, routeData[inst], p, w) => Follows(draft', routeData'[inst], p, w)
           /\ routeReq'[inst].at = "idle" /\ draft' # Routing!NoData =>
                routeReq[inst].at = "idle" /\ draft'[p] = draft[p] /\ draft # Routing!NoData
    BY <1>1, <1>5, <1>9
  <2>2. routeReq'[inst].at = "read" => routeReq'[inst] = routeReq[inst] \/ routeReq'[inst].read = file[inst]
    BY <1>5
  <2>3. SavedInv' /\ Routing!SavedIsShown'
    BY <1>1, <1>2, <2>1, <2>2, SavedStays, Zenon
  <2> QED
    BY <1>7, <1>8, <2>3, Zenon DEF RoutingInv
<1>10. CASE saved' # saved
  <2>1. /\ k \in Parts /\ saves[k].at = "written" /\ routeReq'[inst] = Routing!Sent
        /\ saved' = [saved EXCEPT ![k] = IF saves[k].clean /\ saves[k].of = inst THEN saves[k] ELSE Routing!NoJob]
    BY <1>1, <1>3, <1>10, Zenon
  <2>2. routeReq'[inst].at = "sent"
    BY <2>1, NoGetIs
  <2>3. \A p \in Parts : p # k => saved'[p] = saved[p]
    BY <1>3, <2>1, Zenon
  <2>4. saved'[k].at # "idle" => saved'[k] = saves[k] /\ saves[k].clean /\ saves[k].of = inst
    BY <1>3, <2>1, NoSaveIs
  <2>5. /\ Current(k, saves[k].value)
        /\ saves[k].clean => Follows(draft, routeData[inst], k, saves[k].value)
        /\ saves[k].clean => file[saves[k].of][k] = saves[k].value
    <3>1. saves[k].at # "idle"
      BY <2>1
    <3> QED
      BY <1>2, <2>1, <3>1, Zenon DEF SavesInv
  <2>6. ASSUME NEW p \in Parts, saved'[p].at # "idle"
        PROVE  /\ saved'[p].of = inst' /\ Current(p, saved'[p].value) /\ file'[inst'][p] = saved'[p].value
               /\ Follows(draft', routeData'[inst'], p, saved'[p].value)
    <3>1. CASE p = k
      BY <1>1, <2>4, <2>5, <2>6, <3>1, Zenon
    <3>2. CASE p # k
      <4>1. saved'[p] = saved[p]
        BY <2>3, <3>2
      <4>2. /\ saved[p].of = inst /\ Current(p, saved[p].value) /\ file[inst][p] = saved[p].value
            /\ Follows(draft, routeData[inst], p, saved[p].value)
        BY <1>2, <2>6, <4>1, Zenon DEF SavedInv
      <4> QED
        BY <1>1, <4>1, <4>2, Zenon
    <3> QED
      BY <3>1, <3>2
  <2>7. routeReq'[inst'].at # "idle" /\ routeReq'[inst'].at # "read"
    BY <1>1, <2>2
  <2>8. SavedInv' /\ Routing!SavedIsShown'
    BY <2>6, <2>7, Zenon DEF SavedInv, Routing!SavedIsShown, Routing!Parts, Parts
  <2> QED
    BY <1>7, <1>8, <2>8, Zenon DEF RoutingInv
<1> QED
  BY <1>9, <1>10

\* The routes write.
LEMMA PutKeeps == ASSUME RoutingInv, NEW q \in Parts, Routing!PutPart(q) PROVE RoutingInv'
<1>1. saves[q].at = "sent" /\ Routing!Writes(saves[q].of, q, saves[q].value, q, "written")
  BY Zenon DEF Routing!PutPart
<1>2. saves[q].at # "idle"
  BY <1>1
<1>3. q # "normalize" /\ q \in Kinds
  BY DEF Parts, Kinds
<1>4. saves[q].of \in Insts
  BY <1>3 DEF RoutingInv, RoutingTypeOK, IsSave
<1>5. Current(q, saves[q].value)
  BY <1>2, Zenon DEF RoutingInv, SavesInv
<1>6. q = "chain" => saves[q].value \in Seq(EnvNames)
  BY <1>5, NamesAreKnown DEF Current
<1>7. RoutingTypeOK' /\ SavesInv' /\ SavedInv' /\ Routing!SavedIsShown' /\ NormalizeInv'
  BY <1>1, <1>2, <1>3, <1>4, <1>6, SettingsWritten, Zenon
<1> QED
  BY <1>7, Zenon DEF RoutingInv

LEMMA OthersKeep ==
  ASSUME RoutingInv, NEW i \in Insts, NEW q \in Parts, NEW v, q = "chain" => v \in Seq(EnvNames), Routing!Others(i, q, v)
  PROVE  RoutingInv'
<1>1. Routing!Writes(i, q, v, "nobody", "idle")
  BY Zenon DEF Routing!Others
<1> DEFINE k == "nobody"
<1>2. k # "normalize" /\ (k \in Parts => k = q /\ saves[q].of = i /\ saves[q].value = v /\ saves[q].at # "idle")
  BY DEF Parts
<1>3. Routing!Writes(i, q, v, k, "idle")
  BY <1>1
<1> HIDE DEF k
<1>4. RoutingTypeOK' /\ SavesInv' /\ SavedInv' /\ Routing!SavedIsShown' /\ NormalizeInv'
  BY <1>2, <1>3, SettingsWritten, Zenon
<1> QED
  BY <1>4, Zenon DEF RoutingInv

LEMMA NormalizeKeeps ==
  ASSUME RoutingInv, Routing!NormalizeDefault \/ Routing!NormalizeChain
  PROVE  RoutingInv'
<1> DEFINE n == "normalize"
           j == saves[n]
           i == j.of
<1>0. n \in Kinds /\ n \notin Parts /\ {"def", "chain"} \subseteq Parts
  BY DEF Kinds, Parts
<1>1. RoutingTypeOK /\ SavesInv /\ SavedInv /\ NormalizeInv /\ Routing!SavedIsShown
  BY DEF RoutingInv
<1>2. /\ IsSave(j) /\ i \in Insts /\ IsSettings(j.base) /\ IsSettings(file[i])
      /\ saves = [h \in Kinds |-> saves[h]] /\ \A h \in Kinds : IsSave(saves[h])
  BY <1>0, <1>1 DEF RoutingTypeOK, IsSave
<1>3. j.clean => Tidied(j.at, file[i], j.base)
  BY <1>1 DEF NormalizeInv
<1>4. ASSUME NEW q \in Parts, NEW v, q = "chain" => v \in Seq(EnvNames), NEW at,
             Routing!Writes(i, q, v, n, at), j.clean => Tidied(at, [file[i] EXCEPT ![q] = v], j.base)
      PROVE  RoutingInv'
  <2>1. /\ RoutingTypeOK' /\ SavesInv' /\ SavedInv' /\ Routing!SavedIsShown'
        /\ saves'[n].of = saves[n].of /\ saves'[n].base = saves[n].base /\ (saves'[n].clean => saves[n].clean)
        /\ saves'[n].at = at
    <3> HIDE DEF n, j, i
    <3>1. i \in Insts /\ (n \in Parts => n = q /\ saves[q].of = i /\ saves[q].value = v /\ saves[q].at # "idle")
      BY <1>0, <1>2
    <3>2. /\ RoutingTypeOK' /\ SavesInv' /\ SavedInv' /\ Routing!SavedIsShown'
          /\ saves'["normalize"].of = saves["normalize"].of /\ saves'["normalize"].base = saves["normalize"].base
          /\ saves'["normalize"].clean => saves["normalize"].clean
          /\ n = "normalize" => saves'["normalize"].at = at
      BY <1>4, <3>1, SettingsWritten, Zenon
    <3> QED
      BY <3>2, Zenon DEF n
  <2>2. file'[i] = [file[i] EXCEPT ![q] = v]
    <3>1. file' = [file EXCEPT ![i][q] = v]
      BY <1>4, Zenon DEF Routing!Writes
    <3>2. file = [m \in Insts |-> file[m]]
      BY <1>1 DEF RoutingTypeOK
    <3> QED
      BY <1>2, <3>1, <3>2
  <2>3. saves'[n].clean => Tidied(saves'[n].at, file'[saves'[n].of], saves'[n].base)
    BY <1>4, <2>1, <2>2, Zenon
  <2>4. NormalizeInv'
    BY <2>3, Zenon DEF NormalizeInv, Tidied, Routing!normalizeProviderId, Routing!Renamed, Routing!Read
  <2> QED
    BY <2>1, <2>4, Zenon DEF RoutingInv
<1>5. ASSUME NEW at, saves' = [saves EXCEPT ![n].at = at],
             file' = file, routeData' = routeData, routeReq' = routeReq, inst' = inst, draft' = draft, saved' = saved,
             j.clean => Tidied(at, file[i], j.base)
      PROVE  RoutingInv'
  <2> DEFINE m == [j EXCEPT !.at = at]
  <2> HIDE DEF j
  <2>1. SameSave(j, m) /\ m.at = at /\ m.clean = j.clean
    BY <1>2, SaveKept, ZenonT(60)
  <2>2. saves' = [saves EXCEPT ![n] = m]
    BY <1>0, <1>2, <1>5 DEF j
  <2> HIDE DEF m
  <2>3. saves' = [h \in Kinds |-> saves'[h]] /\ saves'[n] = m /\ \A h \in Kinds : h # n => saves'[h] = saves[h]
    BY <1>0, <1>2, <2>2, Zenon
  <2>4. RoutingTypeOK'
    BY <1>1, <1>2, <1>5, <2>1, <2>3, Zenon DEF RoutingTypeOK, SameSave
  <2>5. \A h \in Parts : saves'[h] = saves[h]
    BY <1>0, <2>3 DEF Parts, Kinds
  <2>6. SavesInv'
    <3> SUFFICES ASSUME NEW h \in Parts, saves'[h].at # "idle"
                 PROVE  /\ Current(h, saves'[h].value)
                        /\ saves'[h].clean => Follows(draft', routeData'[inst'], h, saves'[h].value)
                        /\ saves'[h].clean /\ saves'[h].at = "written" => file'[saves'[h].of][h] = saves'[h].value
      BY Zenon DEF SavesInv
    <3>1. saves'[h] = saves[h]
      BY <2>5
    <3>2. /\ Current(h, saves[h].value)
          /\ saves[h].clean => Follows(draft, routeData[inst], h, saves[h].value)
          /\ saves[h].clean /\ saves[h].at = "written" => file[saves[h].of][h] = saves[h].value
      BY <1>1, <3>1, Zenon DEF SavesInv
    <3> QED
      BY <1>5, <3>1, <3>2, Zenon
  <2>7. saves'[n].clean => Tidied(saves'[n].at, file'[saves'[n].of], saves'[n].base)
    BY <1>5, <2>1, <2>3, Zenon DEF j, SameSave
  <2>8. NormalizeInv'
    BY <2>7, Zenon DEF NormalizeInv, Tidied, Routing!normalizeProviderId, Routing!Renamed, Routing!Read
  <2>9. SavedInv'
    BY <1>1, <1>5, ZenonT(60) DEF SavedInv, Follows, Current, Routing!Read, Routing!normalizeProviderId
  <2>10. Routing!SavedIsShown'
    BY <1>1, <1>5, Zenon DEF Routing!SavedIsShown, Routing!Parts
  <2> QED
    BY <2>4, <2>6, <2>8, <2>9, <2>10, Zenon DEF RoutingInv
<1>6. CASE Routing!NormalizeDefault
  <2>1. j.at = "sent"
    BY <1>6, Zenon DEF Routing!NormalizeDefault
  <2>2. j.clean => file[i] = j.base
    BY <1>3, <2>1 DEF Tidied
  <2>3. CASE j.base.def = Legacy
    <3>1. Routing!Writes(i, "def", Claude, n, "chain")
      BY <1>6, <2>3, Zenon DEF Routing!NormalizeDefault
    <3>2. j.clean => Tidied("chain", [file[i] EXCEPT !["def"] = Claude], j.base)
      BY <2>2, <2>3 DEF Tidied, Routing!normalizeProviderId
    <3> QED
      BY <1>0, <1>4, <3>1, <3>2
  <2>4. CASE j.base.def # Legacy
    <3>1. /\ saves' = [saves EXCEPT ![n].at = "chain"] /\ file' = file /\ routeData' = routeData /\ routeReq' = routeReq
          /\ inst' = inst /\ draft' = draft /\ saved' = saved
      BY <1>6, <2>4, Zenon DEF Routing!NormalizeDefault
    <3>2. j.base = [j.base EXCEPT !.def = j.base.def]
      BY <1>2 DEF IsSettings
    <3>3. j.clean => Tidied("chain", file[i], j.base)
      BY <2>2, <2>4, <3>2 DEF Tidied, Routing!normalizeProviderId
    <3> QED
      BY <1>5, <3>1, <3>3
  <2> QED
    BY <2>3, <2>4
<1>7. CASE Routing!NormalizeChain
  <2> DEFINE b == j.base
             d == [b EXCEPT !.def = Routing!normalizeProviderId(b.def)]
  <2>1. j.at = "chain"
    BY <1>7, Zenon DEF Routing!NormalizeChain
  <2>2. j.clean => file[i] = d
    BY <1>3, <2>1 DEF Tidied
  <2>3. Routing!Renamed(b) = [d EXCEPT !["chain"] = Routing!Renamed(b).chain]
    <3>1. b = [p \in Parts |-> b[p]] /\ {"def", "chain"} \subseteq DOMAIN b
      BY <1>2 DEF IsSettings, Parts
    <3> HIDE DEF j
    <3> HIDE DEF b
    <3>2. Routing!Renamed(b) = [b EXCEPT !.def = Routing!normalizeProviderId(b.def), !.chain = Routing!Read(b).chain]
      BY Zenon DEF Routing!Renamed
    <3>3. Routing!Renamed(b).chain = Routing!Read(b).chain
      BY <3>1, <3>2
    <3> QED
      BY <3>1, <3>2, <3>3
  <2>4. CASE Legacy \in Routing!Range(b.chain)
    <3>1. Routing!Writes(i, "chain", Routing!Renamed(b).chain, n, "renamed")
      BY <1>7, <2>4, Zenon DEF Routing!NormalizeChain
    <3>2. Routing!Renamed(b).chain \in Seq(EnvNames)
      <4> HIDE DEF j
      <4>1. IsSettings(b)
        BY <1>2
      <4> HIDE DEF b
      <4>2. Routing!Renamed(b).chain = Routing!Read(b).chain
        BY <4>1 DEF IsSettings, Parts, Routing!Renamed
      <4>3. Current("chain", Routing!Read(b)["chain"])
        BY <1>0, <4>1, ReadByPart
      <4>4. Routing!Read(b)["chain"] \in Seq(EnvNames)
        BY <4>3 DEF Current
      <4> QED
        BY <4>2, <4>4
    <3>3. j.clean => Tidied("renamed", [file[i] EXCEPT !["chain"] = Routing!Renamed(b).chain], b)
      BY <2>2, <2>3, Zenon DEF Tidied
    <3> QED
      BY <1>0, <1>4, <3>1, <3>2, <3>3, Zenon
  <2>5. CASE Legacy \notin Routing!Range(b.chain)
    <3>1. /\ saves' = [saves EXCEPT ![n].at = "renamed"] /\ file' = file /\ routeData' = routeData /\ routeReq' = routeReq
          /\ inst' = inst /\ draft' = draft /\ saved' = saved
      BY <1>7, <2>5, Zenon DEF Routing!NormalizeChain
    <3>2. d = Routing!Renamed(b)
      <4> HIDE DEF j
      <4>1. IsSettings(b)
        BY <1>2
      <4> HIDE DEF b
      <4>2. Routing!Renamed(b).chain = Routing!Read(b).chain
        BY <4>1 DEF IsSettings, Parts, Routing!Renamed
      <4>3. Routing!Read(b).chain = [k \in DOMAIN b.chain |-> Routing!normalizeProviderId(b.chain[k])]
        BY DEF Routing!Read
      <4>4. \A k \in DOMAIN b.chain : b.chain[k] # Legacy
        BY <2>5, Zenon DEF Routing!Range
      <4>5. \A k \in DOMAIN b.chain : Routing!normalizeProviderId(b.chain[k]) = b.chain[k]
        BY <4>4, Zenon DEF Routing!normalizeProviderId
      <4>6. b.chain = [k \in DOMAIN b.chain |-> b.chain[k]]
        <5> DEFINE v == b.chain
        <5>1. v \in Seq(EnvNames)
          BY <4>1 DEF IsSettings
        <5> HIDE DEF v
        <5>2. v = [k \in DOMAIN v |-> v[k]]
          BY <5>1
        <5> QED
          BY <5>2 DEF v
      <4>7. Routing!Renamed(b).chain = b.chain
        BY <4>2, <4>3, <4>5, <4>6
      <4>8. [d EXCEPT !["chain"] = b.chain] = d
        BY <4>1 DEF IsSettings, Parts
      <4> QED
        BY <2>3, <4>7, <4>8
    <3>3. j.clean => Tidied("renamed", file[i], b)
      BY <2>2, <3>2, Zenon DEF Tidied
    <3> QED
      BY <1>5, <3>1, <3>3
  <2> QED
    BY <2>4, <2>5
<1> QED
  BY <1>6, <1>7

\* What the buttons make of the draft they were pressed on.
LEMMA EditsKeep ==
  ASSUME RoutingInv,
         \/ \E p \in RoutedProvs \cup {NoProv} : Routing!selectDefault(p)
         \/ \E p \in RoutedProvs : Routing!handleAddChainItem(p)
         \/ \E n \in 1..MaxChain : Routing!handleRemoveChainItem(n) \/ Routing!handleMoveUp(n) \/ Routing!handleMoveDown(n)
         \/ \E m \in Models \cup {NoProv} : Routing!handleChange(m)
  PROVE  RoutingInv'
<1> DEFINE l == draft.chain
           S == EnvNames \ {Legacy}
<1>1. l \in Seq(S) /\ {"def", "chain", "routing"} \subseteq Parts
  BY DEF RoutingInv, RoutingTypeOK, IsDraft, Current, Parts
<1>2. RoutedProvs \cup {NoProv} \subseteq S
  BY RoutingBounds
<1> HIDE DEF l, S
<1>3. ASSUME NEW p \in RoutedProvs \cup {NoProv}, Routing!selectDefault(p) PROVE RoutingInv'
  <2>1. Routing!Edit("def", p)
    BY <1>3, Zenon DEF Routing!selectDefault
  <2>2. Current("def", p)
    BY <1>2 DEF Current, S
  <2> QED
    BY <1>1, <2>1, <2>2, EditKeeps
<1>4. ASSUME NEW v, v \in Seq(S), Routing!Edit("chain", v) PROVE RoutingInv'
  <2>1. Current("chain", v)
    BY <1>4 DEF Current, S
  <2> QED
    BY <1>1, <1>4, <2>1, EditKeeps
<1>5. ASSUME NEW p \in RoutedProvs, Routing!handleAddChainItem(p) PROVE RoutingInv'
  <2>1. Routing!Edit("chain", Append(l, p))
    BY <1>5, Zenon DEF Routing!handleAddChainItem, l
  <2>2. Append(l, p) \in Seq(S)
    BY <1>1, <1>2
  <2> QED
    BY <1>4, <2>1, <2>2
<1>6. ASSUME NEW n \in 1..MaxChain, Routing!handleRemoveChainItem(n) PROVE RoutingInv'
  <2>1. n \in DOMAIN l /\ Routing!Edit("chain", SubSeq(l, 1, n - 1) \o SubSeq(l, n + 1, Len(l)))
    BY <1>6, Zenon DEF Routing!handleRemoveChainItem, l
  <2>2. SubSeq(l, 1, n - 1) \in Seq(S) /\ SubSeq(l, n + 1, Len(l)) \in Seq(S)
    BY <1>1, <2>1
  <2>3. SubSeq(l, 1, n - 1) \o SubSeq(l, n + 1, Len(l)) \in Seq(S)
    BY <2>2
  <2> QED
    BY <1>4, <2>1, <2>3
<1>7. ASSUME NEW n, Routing!handleMoveUp(n) PROVE RoutingInv'
  <2> DEFINE v == [l EXCEPT ![n] = l[n - 1], ![n - 1] = l[n]]
  <2>1. n \in 2..Len(l) /\ Routing!Edit("chain", v)
    BY <1>7, Zenon DEF Routing!handleMoveUp, l
  <2>2. v \in Seq(S)
    BY <1>1, <2>1
  <2> HIDE DEF v
  <2> QED
    BY <1>4, <2>1, <2>2
<1>8. ASSUME NEW n \in 1..MaxChain, Routing!handleMoveDown(n) PROVE RoutingInv'
  BY <1>7, <1>8, Zenon DEF Routing!handleMoveDown
<1>9. ASSUME NEW m, Routing!handleChange(m) PROVE RoutingInv'
  <2>1. Routing!Edit("routing", m)
    BY <1>9, Zenon DEF Routing!handleChange
  <2>2. Current("routing", m)
    BY DEF Current
  <2> QED
    BY <1>1, <2>1, <2>2, EditKeeps
<1> QED
  BY <1>3, <1>5, <1>6, <1>7, <1>8, <1>9

LEMMA SavesStart ==
  ASSUME RoutingInv,
         \/ Routing!handleSetDefault \/ Routing!handleSaveChain \/ Routing!handleSave \/ Routing!handleResetAll
         \/ Routing!handleNormalizeClaudeProviderIds
  PROVE  RoutingInv'
<1>1. /\ {"def", "chain", "routing"} \subseteq Parts \cap Kinds /\ "normalize" \in Kinds \ Parts
      /\ \A q \in Parts : q # "normalize"
  BY DEF Parts, Kinds
<1>2. IsDraft(draft) /\ IsSettings(routeData[inst])
  BY DEF RoutingInv, RoutingTypeOK
<1>3. ASSUME NEW q \in Parts, Routing!Starts(q, draft[q], TRUE) PROVE RoutingInv'
  <2>1. Current(q, draft[q]) /\ Follows(draft, routeData[inst], q, draft[q])
    BY <1>2 DEF IsDraft, Follows
  <2>2. q \in Kinds /\ q # "normalize"
    BY DEF Parts, Kinds
  <2> QED
    BY <1>3, <2>1, <2>2, StartsKeep, Zenon
<1>4. CASE Routing!handleSetDefault \/ Routing!handleSaveChain \/ Routing!handleSave
  <2>1. Routing!Starts("def", draft["def"], TRUE) \/ Routing!Starts("chain", draft["chain"], TRUE) \/ Routing!Starts("routing", draft["routing"], TRUE)
    BY <1>4, Zenon DEF Routing!handleSetDefault, Routing!handleSaveChain, Routing!handleSave
  <2> QED
    BY <1>1, <1>3, <2>1
<1>5. CASE Routing!handleResetAll
  <2> DEFINE clean == draft.routing = routeData[inst].routing
             q == "routing"
  <2>1. Routing!Starts(q, NoProv, clean)
    BY <1>5, Zenon DEF Routing!handleResetAll
  <2>2. Routing!Read(routeData[inst])["routing"] = routeData[inst]["routing"]
    BY DEF Routing!Read
  <2>3. clean => Follows(draft, routeData[inst], q, NoProv)
    BY <2>2 DEF Follows
  <2>4. Current(q, NoProv) /\ q \in Kinds /\ q # "normalize"
    BY <1>1 DEF Current
  <2> HIDE DEF clean, q
  <2> QED
    BY <2>1, <2>3, <2>4, StartsKeep, Zenon
<1>6. CASE Routing!handleNormalizeClaudeProviderIds
  <2> DEFINE clean == routeData[inst] = file[inst]
             k == "normalize"
  <2>1. Routing!Starts(k, NoProv, clean)
    BY <1>6, Zenon DEF Routing!handleNormalizeClaudeProviderIds
  <2>2. k \in Kinds /\ k \notin Parts /\ (clean => routeData[inst] = file[inst])
    BY <1>1
  <2> HIDE DEF clean, k
  <2> QED
    BY <2>1, <2>2, StartsKeep, Zenon
<1> QED
  BY <1>4, <1>5, <1>6

LEMMA RoutingStep == ASSUME RoutingInv, Routing!Next PROVE RoutingInv'
<1>1. ASSUME NEW i \in Insts, Routing!SelectInstance(i) \/ Routing!GetServed(i) \/ Routing!GetAnswered(i) \/ Routing!GetFails(i)
      PROVE  RoutingInv'
  BY <1>1, SelectKeeps, GetKeeps, AnswerKeeps
<1>2. CASE \/ \E p \in RoutedProvs \cup {NoProv} : Routing!selectDefault(p)
           \/ \E p \in RoutedProvs : Routing!handleAddChainItem(p)
           \/ \E n \in 1..MaxChain : Routing!handleRemoveChainItem(n) \/ Routing!handleMoveUp(n) \/ Routing!handleMoveDown(n)
           \/ \E m \in Models \cup {NoProv} : Routing!handleChange(m)
  BY <1>2, EditsKeep, Zenon
<1>3. CASE \/ Routing!handleSetDefault \/ Routing!handleSaveChain \/ Routing!handleSave \/ Routing!handleResetAll
           \/ Routing!handleNormalizeClaudeProviderIds
  BY <1>3, SavesStart, Zenon
<1>4. CASE Routing!NormalizeDefault \/ Routing!NormalizeChain
  BY <1>4, NormalizeKeeps
<1>5. "normalize" \in Kinds /\ Parts \subseteq Kinds /\ {"def", "chain", "routing"} \subseteq Parts
  BY DEF Kinds, Parts
<1>6. CASE Routing!NormalizeAnswered
  BY <1>5, <1>6, EndKeeps
<1>7. ASSUME NEW q \in Parts, Routing!PutPart(q) \/ Routing!SaveAnswered(q) PROVE RoutingInv'
  BY <1>5, <1>7, PutKeeps, EndKeeps
<1>8. ASSUME NEW k \in Kinds, Routing!SaveFails(k) PROVE RoutingInv'
  BY <1>8, EndKeeps
<1>9. CASE Routing!Refetch
  <2>1. FirstInst \in Insts
    BY RoutingBounds
  <2> QED
    BY <1>9, <2>1, GetKeeps
<1>10. ASSUME NEW i \in Insts,
              \/ Routing!Others(i, "def", Legacy) \/ Routing!Others(i, "chain", <<Legacy>>)
              \/ \E m \in Models : Routing!Others(i, "routing", m)
       PROVE  RoutingInv'
  <2>1. <<Legacy>> \in Seq(EnvNames)
    BY RoutingBounds
  <2> QED
    BY <1>5, <1>10, <2>1, OthersKeep
<1> QED
  BY <1>1, <1>2, <1>3, <1>4, <1>6, <1>7, <1>8, <1>9, <1>10, Zenon DEF Routing!Next, Routing!Parts, Routing!Kinds, Parts, Kinds

LEMMA RoutingStays == ASSUME RoutingInv, UNCHANGED slots PROVE RoutingInv'
BY DEF slots, RoutingInv, RoutingTypeOK, SavesInv, SavedInv, NormalizeInv, Tidied, Routing!SavedIsShown

HIDE DEF file, routeData, routeReq, inst, draft, saves, saved

-----------------------------------------------------------------------------
(***************************************************************************)
(* The forms of the instances page.  Past a step of the form that creates  *)
(* an instance its fields have passed their checks, whatever suggestion    *)
(* replaces a port; and a field of a form that configures one shows what   *)
(* the list says, or what is shown for a missing provider, until the       *)
(* operator touches it.                                                    *)
(***************************************************************************)
port == s1
portList == s4
selected == s5
form == s6
formReqs == s7
provList == s11
USE DEF port, portList, selected, form, formReqs, provList

LEMMA FormBounds ==
  IsFiniteSet(FormNames) /\ FirstName \in FormNames /\ StartPort \in Nat \ {0} /\ FormPorts \subseteq Nat
BY PagesAssumption

\* A form over the list of ports l and of providers v, and what it has asked of
\* the server.
FormOK(f, l, v) ==
  /\ "kind" \in DOMAIN f
  /\ f.kind = "create" => /\ {"step", "name", "port", "url"} \subseteq DOMAIN f /\ f.step \in 1..4 /\ f.port \in Nat
                          /\ f.step >= 2 => f.name # Forms!Blank /\ f.port # 0
                          /\ f.step >= 3 => f.url # Forms!Blank
  /\ f.kind = "configure" => /\ {"of", "port", "provider", "typed", "restart"} \subseteq DOMAIN f
                             /\ f.of \in FormNames /\ f.port \in Nat
                             /\ "port" \notin f.typed => f.port = l[f.of]
                             /\ "provider" \notin f.typed => f.provider = Forms!Shown(v[f.of])
FormRequestOK(r) ==
  /\ {"kind", "at", "live"} \subseteq DOMAIN r
  /\ r.kind = "create" => /\ {"name", "port", "url"} \subseteq DOMAIN r /\ r.port \in Nat
                          /\ r.name # Forms!Blank /\ r.port # 0 /\ r.url # Forms!Blank
  /\ r.kind = "configure" => "port" \in DOMAIN r /\ r.port \in Nat

FormsInv == /\ port \in [FormNames -> Nat] /\ portList \in [FormNames -> Nat] /\ selected \in FormNames
            /\ FormOK(form, portList, provList) /\ \A r \in formReqs : FormRequestOK(r)

LEMMA FormsPassed == ASSUME FormsInv PROVE Forms!CreatesWhatPassed /\ Forms!ConfigureRevertsNothing
<1>1. Forms!CreatesWhatPassed
  BY DEF FormsInv, FormRequestOK, Forms!CreatesWhatPassed
<1>2. Forms!ConfigureRevertsNothing
  <2> SUFFICES ASSUME form.kind = "configure"
               PROVE  /\ Forms!PortSent # 0 => "port" \in form.typed
                      /\ Forms!ProviderSent # Forms!NoProvider =>
                           \/ "provider" \in form.typed
                           \/ (provList[form.of] = Forms!NoProvider /\ Forms!ProviderSent = Forms!Default)
    BY Zenon DEF Forms!ConfigureRevertsNothing
  <2>1. FormOK(form, portList, provList)
    BY DEF FormsInv
  <2>2. /\ "port" \notin form.typed => form.port = portList[form.of]
        /\ "provider" \notin form.typed => form.provider = Forms!Shown(provList[form.of])
    BY <2>1 DEF FormOK
  <2>3. Forms!PortSent # 0 => "port" \in form.typed
    BY <2>2 DEF Forms!PortSent
  <2>4. CASE "provider" \notin form.typed
    <3>1. CASE provList[form.of] = Forms!NoProvider
      BY <2>2, <2>3, <2>4, <3>1 DEF Forms!ProviderSent, Forms!Shown
    <3>2. CASE provList[form.of] # Forms!NoProvider
      BY <2>2, <2>3, <2>4, <3>2 DEF Forms!ProviderSent, Forms!Shown
    <3> QED
      BY <3>1, <3>2
  <2> QED
    BY <2>3, <2>4
<1> QED
  BY <1>1, <1>2

(* The port that is suggested is one: there are more to choose from than   *)
(* there are names.                                                        *)
LEMMA HasLeast == ASSUME NEW S \in SUBSET Nat, S # {} PROVE \E x \in S : \A y \in S : x <= y
<1>1. IsWellFoundedOn(OpToRel(<, Nat), Nat)
  BY NatLessThanWellFounded
<1>2. PICK x \in S : \A y \in S : <<y, x>> \notin OpToRel(<, Nat)
  BY <1>1, WFMin
<1>3. \A y \in S : ~(y < x)
  BY <1>2 DEF OpToRel
<1> QED
  BY <1>3

LEMMA SuggestedIsPort == ASSUME NEW l \in [FormNames -> Nat] PROVE Forms!Suggested(l) \in Nat \ {0}
<1> DEFINE N == Cardinality(FormNames)
           R == StartPort..(StartPort + N)
           S == {p \in R : \A n \in FormNames : l[n] # p}
<1>1. IsFiniteSet(FormNames) /\ N \in Nat /\ StartPort \in Nat \ {0}
  BY FormBounds, FS_CardinalityType
<1>2. R \subseteq Nat \ {0}
  BY <1>1
<1>3. IsFiniteSet(R) /\ Cardinality(R) = N + 1
  <2> HIDE DEF N
  <2>1. StartPort \in Int /\ StartPort + N \in Int /\ ~(StartPort > StartPort + N)
    BY <1>1
  <2> QED
    BY <1>1, <2>1, FS_Interval
<1>4. S # {}
  <2> SUFFICES ASSUME S = {} PROVE FALSE
    OBVIOUS
  <2> DEFINE f == [p \in R |-> CHOOSE n \in FormNames : l[n] = p]
  <2>1. \A p \in R : \E n \in FormNames : l[n] = p
    OBVIOUS
  <2>2. \A p \in R : f[p] \in FormNames /\ l[f[p]] = p
    BY <2>1
  <2>3. f \in [R -> FormNames]
    BY <2>2
  <2>4. Cardinality(FormNames) < Cardinality(R)
    BY <1>1, <1>3
  <2> HIDE DEF f, R, N, S
  <2>5. \E x, y \in R : x # y /\ f[x] = f[y]
    BY <1>1, <1>3, <2>3, <2>4, FS_PigeonHole
  <2> QED
    BY <2>2, <2>5
<1> HIDE DEF R
<1>5. \E x \in S : \A y \in S : x <= y
  BY <1>2, <1>4, HasLeast
<1>6. Forms!Suggested(l) \in S
  <2>1. Forms!Suggested(l) = Forms!Min(S)
    BY Zenon DEF Forms!Suggested, R, Forms!Cardinality, Cardinality
  <2> HIDE DEF S
  <2> QED
    BY <1>5, <2>1 DEF Forms!Min
<1> QED
  BY <1>2, <1>6

LEMMA FormsInit == ASSUME Forms!Init PROVE FormsInv
<1>1. FirstName \in FormNames /\ StartPort \in Nat
  BY FormBounds
<1>2. port \in [FormNames -> Nat] /\ portList = port /\ selected = FirstName /\ formReqs = {}
  BY <1>1 DEF Forms!Init
<1>3. FormOK(form, portList, provList)
  BY DEF Forms!Init, Forms!Closed, FormOK
<1> QED
  BY <1>1, <1>2, <1>3 DEF FormsInv

(* A request keeps what was asked for while it is served and left behind.  *)
LEMMA RequestKept ==
  ASSUME NEW r, FormRequestOK(r)
  PROVE  FormRequestOK([r EXCEPT !.live = FALSE]) /\ FormRequestOK([r EXCEPT !.at = "done"])
<1> DEFINE q == [r EXCEPT !.live = FALSE]
           d == [r EXCEPT !.at = "done"]
<1>1. DOMAIN q = DOMAIN r /\ \A x \in DOMAIN r : x # "live" => q[x] = r[x]
  BY Zenon
<1>2. DOMAIN d = DOMAIN r /\ \A x \in DOMAIN r : x # "at" => d[x] = r[x]
  BY Zenon
<1> HIDE DEF q, d
<1>3. FormRequestOK(q)
  BY <1>1 DEF FormRequestOK
<1>4. FormRequestOK(d)
  BY <1>2 DEF FormRequestOK
<1> QED
  BY <1>3, <1>4 DEF q, d

LEMMA OrphansKept ==
  ASSUME NEW R, \A r \in R : FormRequestOK(r), NEW f
  PROVE  \A r \in Forms!Orphans(f, R) : FormRequestOK(r)
BY RequestKept DEF Forms!Orphans

(* What an edit, a request and a form over a new list keep.                *)
LEMMA Edited ==
  ASSUME FormsInv, NEW f, FormOK(f, portList, provList), Forms!Edit(f)
  PROVE  FormsInv'
<1>1. /\ form' = f /\ formReqs' = Forms!Orphans(f, formReqs) /\ UNCHANGED <<port, portList, provList, selected>>
  BY DEF Forms!Edit, Forms!world, Forms!page
<1>2. \A r \in formReqs' : FormRequestOK(r)
  BY <1>1, OrphansKept DEF FormsInv
<1>3. FormOK(form, portList, provList)'
  BY <1>1 DEF FormOK
<1> QED
  BY <1>1, <1>2, <1>3 DEF FormsInv

LEMMA FormAsked ==
  ASSUME FormsInv, NEW r, FormRequestOK(Forms!Sent(r)), Forms!Send(r)
  PROVE  FormsInv'
<1>1. /\ formReqs' = formReqs \cup {Forms!Sent(r)} /\ UNCHANGED <<port, portList, provList, selected, form>>
  BY DEF Forms!Send, Forms!world, Forms!page
<1>2. FormOK(form, portList, provList)'
  BY <1>1 DEF FormsInv, FormOK
<1> QED
  BY <1>1, <1>2 DEF FormsInv

LEMMA SentKeeps ==
  ASSUME NEW r, "kind" \in DOMAIN r
  PROVE  LET q == Forms!Sent(r) IN
           {"kind", "at", "live"} \cup DOMAIN r \subseteq DOMAIN q /\ \A x \in DOMAIN r : q[x] = r[x]
BY DEF Forms!Sent

LEMMA FormsStep == ASSUME FormsInv, Forms!Next PROVE FormsInv'
<1>0. /\ port \in [FormNames -> Nat] /\ portList \in [FormNames -> Nat] /\ selected \in FormNames
      /\ FormOK(form, portList, provList) /\ (\A r \in formReqs : FormRequestOK(r)) /\ "kind" \in DOMAIN form
  BY DEF FormsInv, FormOK
<1>a. ASSUME NEW f, "kind" \in DOMAIN f, f.kind \notin {"create", "configure"}
      PROVE  FormOK(f, portList, provList)
  BY <1>a DEF FormOK
<1>b. ASSUME NEW n \in FormNames, NEW l \in [FormNames -> Nat], NEW v
      PROVE  FormOK(Forms!ConfigureOf(n, l, v), l, v)
  BY <1>b DEF FormOK, Forms!ConfigureOf
<1>c. ASSUME NEW r, "kind" \in DOMAIN r, r.kind \notin {"create", "configure"}, Forms!Send(r)
      PROVE  FormsInv'
  <2>1. FormRequestOK(Forms!Sent(r))
    BY <1>c, SentKeeps DEF FormRequestOK
  <2> QED
    BY <1>c, <2>1, FormAsked
<1>1. CASE Forms!ListArrives
  <2> DEFINE provs == s10
  <2>1. /\ portList' = port /\ provList' = provs /\ form' = Forms!FormFollows(port, provs) /\ formReqs' = Forms!Orphans(form', formReqs)
        /\ UNCHANGED <<port, selected>>
    BY <1>1 DEF Forms!ListArrives, Forms!world
  <2>2. FormOK(Forms!FormFollows(port, provs), port, provs)
    <3>1. CASE form.kind = "create"
      <4>1. Forms!FormFollows(port, provs) = Forms!CreateFollows(port)
        BY <3>1 DEF Forms!FormFollows
      <4>2. CASE Forms!CreateFollows(port) = form
        BY <1>0, <3>1, <4>1, <4>2 DEF FormOK
      <4>3. CASE Forms!CreateFollows(port) = [form EXCEPT !.port = Forms!Suggested(port)]
        <5> DEFINE p == Forms!Suggested(port)
                   q == [form EXCEPT !.port = p]
        <5>1. p \in Nat \ {0}
          BY <1>0, SuggestedIsPort
        <5>2. "port" \in DOMAIN form
          BY <1>0, <3>1 DEF FormOK
        <5> HIDE DEF p
        <5>3. DOMAIN q = DOMAIN form /\ q.port = p /\ \A x \in DOMAIN form : x # "port" => q[x] = form[x]
          BY <5>2, Zenon
        <5>4. Forms!FormFollows(port, provs) = q
          BY <4>1, <4>3 DEF p
        <5> HIDE DEF q
        <5>5. FormOK(q, port, provs)
          BY <1>0, <3>1, <5>1, <5>3 DEF FormOK
        <5> QED
          BY <5>4, <5>5
      <4> QED
        BY <4>2, <4>3 DEF Forms!CreateFollows
    <3>2. CASE form.kind = "none"
      <4>1. Forms!FormFollows(port, provs) = form
        BY <3>2 DEF Forms!FormFollows
      <4> QED
        BY <1>0, <3>2, <4>1 DEF FormOK
    <3>3. CASE form.kind \notin {"create", "none"} /\ port[selected] = 0
      <4>1. Forms!FormFollows(port, provs) = Forms!Closed
        BY <3>3 DEF Forms!FormFollows
      <4> QED
        BY <4>1 DEF FormOK, Forms!Closed
    <3>4. CASE form.kind = "configure" /\ port[selected] # 0
      <4>1. Forms!FormFollows(port, provs) = Forms!ConfigureFollows(port, provs)
        BY <3>4 DEF Forms!FormFollows
      <4>2. form.of \in FormNames
        BY <1>0, <3>4 DEF FormOK
      <4>3. CASE port[form.of] = portList[form.of] /\ provs[form.of] = provList[form.of]
        BY <1>0, <3>4, <4>1, <4>3 DEF FormOK, Forms!ConfigureFollows
      <4>4. CASE ~(port[form.of] = portList[form.of] /\ provs[form.of] = provList[form.of])
        BY <1>0, <1>b, <4>1, <4>2, <4>4 DEF Forms!ConfigureFollows
      <4> QED
        BY <4>3, <4>4
    <3>5. CASE form.kind \notin {"create", "none", "configure"} /\ port[selected] # 0
      <4>1. Forms!FormFollows(port, provs) = form
        BY <3>5 DEF Forms!FormFollows
      <4> QED
        BY <1>0, <3>5, <4>1 DEF FormOK
    <3> QED
      BY <3>1, <3>2, <3>3, <3>4, <3>5
  <2>3. FormOK(form, portList, provList)'
    BY <2>1, <2>2 DEF FormOK
  <2>4. \A r \in formReqs' : FormRequestOK(r)
    BY <1>0, <2>1, OrphansKept
  <2> QED
    BY <1>0, <2>1, <2>3, <2>4 DEF FormsInv
<1>2. CASE Forms!Close \/ Forms!OpenBind \/ Forms!OpenRebind \/ Forms!OpenKeyForm \/ Forms!AskRevoke
  <2>1. \E f : "kind" \in DOMAIN f /\ f.kind \notin {"create", "configure"} /\ Forms!Edit(f)
    <3>1. CASE Forms!Close
      BY <3>1 DEF Forms!Close, Forms!Closed
    <3>2. CASE Forms!OpenBind
      BY <3>2 DEF Forms!OpenBind
    <3>3. CASE Forms!OpenRebind
      BY <3>3 DEF Forms!OpenRebind
    <3>4. CASE Forms!OpenKeyForm
      BY <3>4 DEF Forms!OpenKeyForm
    <3>5. CASE Forms!AskRevoke
      BY <3>5 DEF Forms!AskRevoke
    <3> QED
      BY <1>2, <3>1, <3>2, <3>3, <3>4, <3>5
  <2> QED
    BY <1>a, <2>1, Edited
<1>3. ASSUME NEW r \in formReqs, Forms!Serve(r) PROVE FormsInv'
  <2>1. /\ formReqs' = (formReqs \ {r}) \cup {[r EXCEPT !.at = "done"]} /\ UNCHANGED <<portList, provList, selected, form>>
        /\ port' = IF r.kind \in {"create", "configure"} /\ r.port # 0 THEN [port EXCEPT ![r.name] = r.port] ELSE port
    BY <1>3 DEF Forms!Serve, Forms!page
  <2>2. FormRequestOK(r) /\ (r.kind \in {"create", "configure"} => r.port \in Nat)
    BY <1>0 DEF FormRequestOK
  <2>3. port' \in [FormNames -> Nat]
    BY <1>0, <2>1, <2>2
  <2>4. FormRequestOK([r EXCEPT !.at = "done"])
    BY <2>2, RequestKept
  <2> DEFINE d == [r EXCEPT !.at = "done"]
  <2>5. formReqs' = (formReqs \ {r}) \cup {d} /\ FormRequestOK(d)
    BY <2>1, <2>4
  <2> HIDE DEF d
  <2>6. FormOK(form, portList, provList)'
    BY <1>0, <2>1 DEF FormOK
  <2> QED
    BY <1>0, <2>1, <2>3, <2>5, <2>6 DEF FormsInv
<1>4. ASSUME NEW r \in formReqs, Forms!Refused(r) PROVE FormsInv'
  <2>1. formReqs' = formReqs \ {r} /\ UNCHANGED <<port, portList, provList, selected, form>>
    BY <1>4 DEF Forms!Refused, Forms!world, Forms!page
  <2>2. FormOK(form, portList, provList)'
    BY <1>0, <2>1 DEF FormOK
  <2> QED
    BY <1>0, <2>1, <2>2 DEF FormsInv
<1>5. ASSUME NEW r \in formReqs, Forms!Answered(r) PROVE FormsInv'
  <2>1. /\ formReqs' = Forms!Orphans(form', formReqs \ {r}) /\ UNCHANGED <<port, portList, provList, selected>>
        /\ form' \in {form, Forms!Closed, [form EXCEPT !.restart = TRUE]}
    BY <1>5 DEF Forms!Answered, Forms!world, Forms!page
  <2>2. FormOK(form', portList, provList)
    <3>1. CASE form' = form
      BY <1>0, <3>1
    <3>2. CASE form' = Forms!Closed
      BY <3>2 DEF FormOK, Forms!Closed
    <3>3. CASE form' = [form EXCEPT !.restart = TRUE]
      <4>1. DOMAIN form' = DOMAIN form /\ \A x \in DOMAIN form : x # "restart" => form'[x] = form[x]
        BY <3>3, Zenon
      <4> QED
        BY <1>0, <4>1 DEF FormOK
    <3> QED
      BY <2>1, <3>1, <3>2, <3>3
  <2>3. FormOK(form, portList, provList)'
    BY <2>1, <2>2 DEF FormOK
  <2>4. \A q \in formReqs' : FormRequestOK(q)
    BY <1>0, <2>1, OrphansKept
  <2> QED
    BY <1>0, <2>1, <2>3, <2>4 DEF FormsInv
<1>6. ASSUME NEW n \in FormNames, Forms!Select(n) PROVE FormsInv'
  <2>1. /\ selected' = n /\ UNCHANGED <<port, portList, provList>>
        /\ \/ form' = Forms!ConfigureOf(n, portList, provList) /\ formReqs' = {[r EXCEPT !.live = FALSE] : r \in formReqs}
           \/ UNCHANGED <<form, formReqs>>
    BY <1>6 DEF Forms!Select, Forms!world
  <2>2. FormOK(form', portList, provList)
    BY <1>0, <1>b, <2>1
  <2>3. FormOK(form, portList, provList)'
    BY <2>1, <2>2 DEF FormOK
  <2>4. \A r \in formReqs' : FormRequestOK(r)
    <3>1. CASE formReqs' = {[r EXCEPT !.live = FALSE] : r \in formReqs}
      BY <1>0, <3>1, RequestKept, Zenon
    <3>2. CASE formReqs' = formReqs
      BY <1>0, <3>2
    <3> QED
      BY <2>1, <3>1, <3>2
  <2> QED
    BY <1>0, <2>1, <2>3, <2>4 DEF FormsInv
<1>7. ASSUME NEW n \in FormNames, NEW p \in FormPorts \cup {0}, Forms!Change(n, p) PROVE FormsInv'
  <2>1. port' = [port EXCEPT ![n] = p] /\ UNCHANGED <<portList, provList, selected, form, formReqs>>
    BY <1>7 DEF Forms!Change, Forms!page
  <2>2. port' \in [FormNames -> Nat]
    BY <1>0, <2>1, FormBounds
  <2>3. FormOK(form, portList, provList)'
    BY <1>0, <2>1 DEF FormOK
  <2> QED
    BY <1>0, <2>1, <2>2, <2>3 DEF FormsInv
<1>22. ASSUME NEW n \in FormNames, NEW v \in FormProvs, Forms!ChangeProvider(n, v) PROVE FormsInv'
  <2>1. UNCHANGED <<port, portList, provList, selected, form, formReqs>>
    BY <1>22 DEF Forms!ChangeProvider, Forms!page
  <2>2. FormOK(form, portList, provList)'
    BY <1>0, <2>1 DEF FormOK
  <2> QED
    BY <1>0, <2>1, <2>2 DEF FormsInv
\* The fields of a form that was opened to create an instance.
<1>d. form.kind = "create" =>
        /\ {"step", "name", "port", "url"} \subseteq DOMAIN form /\ form.step \in 1..4 /\ form.port \in Nat
        /\ form.step >= 2 => form.name # Forms!Blank /\ form.port # 0
        /\ form.step >= 3 => form.url # Forms!Blank
  BY <1>0 DEF FormOK
<1>8. CASE Forms!OpenCreate
  <2> DEFINE q == [kind |-> "create", step |-> 1, name |-> Forms!Blank, port |-> Forms!Suggested(portList), url |-> Forms!Blank]
  <2>1. Forms!Suggested(portList) \in Nat
    BY <1>0, SuggestedIsPort
  <2>2. FormOK(q, portList, provList)
    BY <2>1 DEF FormOK
  <2>3. Forms!Edit(q)
    BY <1>8 DEF Forms!OpenCreate
  <2> HIDE DEF q
  <2> QED
    BY <2>2, <2>3, Edited
<1>9. ASSUME NEW n \in FormNames, Forms!TypeName(n) PROVE FormsInv'
  <2> DEFINE q == [form EXCEPT !.name = n]
  <2>1. form.kind = "create" /\ form.step = 1 /\ Forms!Edit(q)
    BY <1>9 DEF Forms!TypeName, Forms!AtStep
  <2>2. DOMAIN q = DOMAIN form /\ \A x \in DOMAIN form : x # "name" => q[x] = form[x]
    BY Zenon
  <2> HIDE DEF q
  <2>3. FormOK(q, portList, provList)
    BY <1>0, <1>d, <2>1, <2>2 DEF FormOK
  <2> QED
    BY <2>1, <2>3, Edited
<1>10. ASSUME NEW p \in FormPorts \cup {0}, Forms!TypePort(p) PROVE FormsInv'
  <2> DEFINE q == [form EXCEPT !.port = p]
  <2>1. form.kind = "create" /\ form.step = 1 /\ Forms!Edit(q)
    BY <1>10 DEF Forms!TypePort, Forms!AtStep
  <2>2. "port" \in DOMAIN form /\ p \in Nat
    BY <1>d, <2>1, FormBounds
  <2>3. DOMAIN q = DOMAIN form /\ q.port = p /\ \A x \in DOMAIN form : x # "port" => q[x] = form[x]
    BY <2>2, Zenon
  <2> HIDE DEF q
  <2>4. FormOK(q, portList, provList)
    BY <1>0, <1>d, <2>1, <2>2, <2>3 DEF FormOK
  <2> QED
    BY <2>1, <2>4, Edited
<1>11. ASSUME NEW u, Forms!effectiveDbUrl(u) PROVE FormsInv'
  <2> DEFINE q == [form EXCEPT !.url = u]
  <2>1. form.kind = "create" /\ form.step = 2 /\ Forms!Edit(q)
    BY <1>11 DEF Forms!effectiveDbUrl, Forms!AtStep
  <2>2. DOMAIN q = DOMAIN form /\ \A x \in DOMAIN form : x # "url" => q[x] = form[x]
    BY Zenon
  <2> HIDE DEF q
  <2>3. FormOK(q, portList, provList)
    BY <1>0, <1>d, <2>1, <2>2 DEF FormOK
  <2> QED
    BY <2>1, <2>3, Edited
<1>12. CASE Forms!handleNext
  <2> DEFINE k == form.step + 1
             q == [form EXCEPT !.step = k]
  <2>1. /\ form.kind = "create" /\ form.step < 4
        /\ form.step = 1 => form.name # Forms!Blank /\ form.port # 0
        /\ form.step = 2 => form.url # Forms!Blank
        /\ Forms!Edit(q)
    BY <1>12 DEF Forms!handleNext, Forms!validateStep1, Forms!validateStep2
  <2>2. "step" \in DOMAIN form /\ k \in 1..4
    BY <1>d, <2>1
  <2>3. DOMAIN q = DOMAIN form /\ q.step = k /\ \A x \in DOMAIN form : x # "step" => q[x] = form[x]
    BY <2>2, Zenon
  <2> HIDE DEF q
  <2>4. FormOK(q, portList, provList)
    BY <1>0, <1>d, <2>1, <2>2, <2>3 DEF FormOK
  <2> QED
    BY <2>1, <2>4, Edited
<1>13. CASE Forms!handleBack
  <2> DEFINE k == form.step - 1
             q == [form EXCEPT !.step = k]
  <2>1. form.kind = "create" /\ form.step > 1 /\ Forms!Edit(q)
    BY <1>13 DEF Forms!handleBack
  <2>2. "step" \in DOMAIN form /\ k \in 1..4
    BY <1>d, <2>1
  <2>3. DOMAIN q = DOMAIN form /\ q.step = k /\ \A x \in DOMAIN form : x # "step" => q[x] = form[x]
    BY <2>2, Zenon
  <2> HIDE DEF q
  <2>4. FormOK(q, portList, provList)
    BY <1>0, <1>d, <2>1, <2>2, <2>3 DEF FormOK
  <2> QED
    BY <2>1, <2>4, Edited
<1>14. CASE Forms!handleCreate
  <2> DEFINE r == [kind |-> "create", name |-> form.name, port |-> form.port, url |-> form.url]
  <2>1. form.kind = "create" /\ form.step = 4 /\ Forms!Send(r)
    BY <1>14 DEF Forms!handleCreate, Forms!AtStep
  <2>2. {"kind", "name", "port", "url"} = DOMAIN r /\ r.kind = "create" /\ r.name = form.name /\ r.port = form.port /\ r.url = form.url
    OBVIOUS
  <2> HIDE DEF r
  <2>3. FormRequestOK(Forms!Sent(r))
    BY <1>d, <2>1, <2>2, SentKeeps DEF FormRequestOK
  <2> QED
    BY <2>1, <2>3, FormAsked
\* The fields of a form that configures one.
<1>f. form.kind = "configure" =>
        /\ {"of", "port", "provider", "typed", "restart"} \subseteq DOMAIN form
        /\ form.of \in FormNames /\ form.port \in Nat
        /\ "port" \notin form.typed => form.port = portList[form.of]
        /\ "provider" \notin form.typed => form.provider = Forms!Shown(provList[form.of])
  BY <1>0 DEF FormOK
<1>15. CASE Forms!OpenConfigure
  BY <1>0, <1>15, <1>b, Edited DEF Forms!OpenConfigure
<1>16. ASSUME NEW p \in FormPorts \cup {0}, Forms!TypeField(p) PROVE FormsInv'
  <2> DEFINE t == form.typed \cup {"port"}
             q == [form EXCEPT !.port = p, !.typed = t]
  <2>1. form.kind = "configure" /\ Forms!Edit(q)
    BY <1>16 DEF Forms!TypeField
  <2>2. {"port", "typed"} \subseteq DOMAIN form /\ p \in Nat
    BY <1>f, <2>1, FormBounds
  <2>3. "port" \in t /\ ("provider" \notin t => "provider" \notin form.typed)
    OBVIOUS
  <2> HIDE DEF t
  <2>4. DOMAIN q = DOMAIN form /\ q.port = p /\ q.typed = t /\ \A x \in DOMAIN form : x \notin {"port", "typed"} => q[x] = form[x]
    BY <2>2, Zenon
  <2> HIDE DEF q
  <2>5. FormOK(q, portList, provList)
    BY <1>0, <1>f, <2>1, <2>2, <2>3, <2>4 DEF FormOK
  <2> QED
    BY <2>1, <2>5, Edited
<1>21. ASSUME NEW v \in FormProvs, Forms!ChooseProvider(v) PROVE FormsInv'
  <2> DEFINE t == form.typed \cup {"provider"}
             q == [form EXCEPT !.provider = v, !.typed = t]
  <2>1. form.kind = "configure" /\ Forms!Edit(q)
    BY <1>21 DEF Forms!ChooseProvider
  <2>2. {"provider", "typed"} \subseteq DOMAIN form
    BY <1>f, <2>1
  <2>3. "provider" \in t /\ ("port" \notin t => "port" \notin form.typed)
    OBVIOUS
  <2> HIDE DEF t
  <2>4. DOMAIN q = DOMAIN form /\ q.typed = t /\ \A x \in DOMAIN form : x \notin {"provider", "typed"} => q[x] = form[x]
    BY <2>2, Zenon
  <2> HIDE DEF q
  <2>5. FormOK(q, portList, provList)
    BY <1>0, <1>f, <2>1, <2>3, <2>4 DEF FormOK
  <2> QED
    BY <2>1, <2>5, Edited
<1>17. CASE Forms!handleConfigure
  <2> DEFINE v == Forms!ProviderSent
             p == Forms!PortSent
             r == [kind |-> "configure", name |-> form.of, port |-> p, provider |-> v]
  <2>1. form.kind = "configure" /\ (Forms!Edit(Forms!Closed) \/ Forms!Send(r))
    BY <1>17 DEF Forms!handleConfigure
  <2>2. CASE Forms!Edit(Forms!Closed)
    <3>1. FormOK(Forms!Closed, portList, provList)
      BY DEF FormOK, Forms!Closed
    <3> QED
      BY <2>2, <3>1, Edited
  <2>3. CASE Forms!Send(r)
    <3>1. p \in Nat
      BY <1>f, <2>1 DEF Forms!PortSent
    <3> HIDE DEF p, v
    <3>2. {"kind", "name", "port", "provider"} = DOMAIN r /\ r.kind = "configure" /\ r.port = p
      OBVIOUS
    <3>3. Forms!Send(r)
      BY <2>3
    <3> HIDE DEF r
    <3>4. FormRequestOK(Forms!Sent(r))
      BY <3>1, <3>2, SentKeeps DEF FormRequestOK
    <3> QED
      BY <3>3, <3>4, FormAsked
  <2> QED
    BY <2>1, <2>2, <2>3
<1>18. CASE Forms!handleRestartNow \/ Forms!handleBind \/ Forms!handleRebind \/ Forms!handleCreateKey \/ Forms!handleRevoke
  <2>1. \E r : "kind" \in DOMAIN r /\ r.kind \notin {"create", "configure"} /\ Forms!Send(r)
    <3>1. CASE Forms!handleRestartNow
      BY <3>1 DEF Forms!handleRestartNow
    <3>2. CASE Forms!handleBind
      BY <3>2 DEF Forms!handleBind
    <3>3. CASE Forms!handleRebind
      BY <3>3 DEF Forms!handleRebind
    <3>4. CASE Forms!handleCreateKey
      BY <3>4 DEF Forms!handleCreateKey
    <3>5. CASE Forms!handleRevoke
      BY <3>5 DEF Forms!handleRevoke
    <3> QED
      BY <1>18, <3>1, <3>2, <3>3, <3>4, <3>5
  <2> QED
    BY <1>c, <2>1
<1>19. ASSUME NEW p \in Paths, Forms!TypePath(p) \/ Forms!ChooseProject(p) PROVE FormsInv'
  <2> DEFINE q == [form EXCEPT !.path = p]
  <2>1. form.kind \notin {"create", "configure"} /\ Forms!Edit(q)
    BY <1>19 DEF Forms!TypePath, Forms!ChooseProject
  <2>2. DOMAIN q = DOMAIN form /\ \A x \in DOMAIN form : x # "path" => q[x] = form[x]
    BY Zenon
  <2> HIDE DEF q
  <2> QED
    BY <1>0, <1>a, <2>1, <2>2, Edited
<1>20. ASSUME NEW n \in FormNames, Forms!ChooseTarget(n) PROVE FormsInv'
  <2> DEFINE q == [form EXCEPT !.target = n]
  <2>1. form.kind \notin {"create", "configure"} /\ Forms!Edit(q)
    BY <1>20 DEF Forms!ChooseTarget
  <2>2. DOMAIN q = DOMAIN form /\ \A x \in DOMAIN form : x # "target" => q[x] = form[x]
    BY Zenon
  <2> HIDE DEF q
  <2> QED
    BY <1>0, <1>a, <2>1, <2>2, Edited
<1> QED
  BY <1>1, <1>2, <1>3, <1>4, <1>5, <1>6, <1>7, <1>8, <1>9, <1>10, <1>11, <1>12, <1>13, <1>14, <1>15, <1>16,
     <1>17, <1>18, <1>19, <1>20, <1>21, <1>22 DEF Forms!Next

LEMMA FormsStays == ASSUME FormsInv, UNCHANGED slots PROVE FormsInv'
BY DEF slots, FormsInv, FormOK, FormRequestOK

HIDE DEF port, portList, selected, form, formReqs, provList

-----------------------------------------------------------------------------
(***************************************************************************)
(* The pages together.                                                     *)
(***************************************************************************)
PagesInv ==
  /\ page = "upgrade" => UpgradeInv
  /\ page = "chat" => ChatInv
  /\ page = "providers" => KeysInv
  /\ page = "history" => FactInv
  /\ page = "feed" => FeedInv
  /\ page = "routing" => RoutingInv
  /\ page = "forms" => FormsInv

\* A behaviour stays on its page, and a step of it is a step of that page.
LEMMA StepIsOfPage ==
  ASSUME [CoreNext]_<<page, slots>>
  PROVE  /\ page' = page
         /\ \/ UNCHANGED slots
            \/ /\ page = "upgrade" => Upgrades!Next
               /\ page = "chat" => ChatPage!Next
               /\ page = "providers" => Keys!Next
               /\ page = "history" => History!Next
               /\ page = "feed" => Feed!Next
               /\ page = "routing" => Routing!Next
               /\ page = "forms" => Forms!Next
<1>1. CASE UNCHANGED <<page, slots>>
  BY <1>1
<1>2. CASE CoreNext
  <2>1. /\ page' = page
        /\ page = "upgrade" => Upgrades!Next
        /\ page = "chat" => ChatPage!Next
        /\ page = "providers" => Keys!Next
        /\ page = "history" => History!Next
    BY <1>2, Zenon DEF CoreNext
  <2>2. /\ page = "feed" => Feed!Next
        /\ page = "routing" => Routing!Next
        /\ page = "forms" => Forms!Next
    BY <1>2, Zenon DEF CoreNext
  <2> QED
    BY <2>1, <2>2
<1> QED
  BY <1>1, <1>2

LEMMA PagesInit == CoreInit => PagesInv
BY UpgradeInit, ChatInit, KeysInit, FactInit, HistoryBounds, FeedInit, RoutingInit, FormsInit
   DEF CoreInit, PagesInv

LEMMA PagesStep == PagesInv /\ [CoreNext]_<<page, slots>> => PagesInv'
<1> SUFFICES ASSUME PagesInv, [CoreNext]_<<page, slots>> PROVE PagesInv'
  OBVIOUS
<1>1. page' = page
  BY StepIsOfPage
<1>2. page = "upgrade" => UpgradeInv'
  BY StepIsOfPage, UpgradeStep, UpgradeStays DEF PagesInv
<1>3. page = "chat" => ChatInv'
  BY StepIsOfPage, ChatStep, ChatStays DEF PagesInv
<1>4. page = "providers" => KeysInv'
  BY StepIsOfPage, KeysStep, KeysStays DEF PagesInv
<1>5. page = "history" => FactInv'
  BY StepIsOfPage, FactStep, FactStays, HistoryBounds DEF PagesInv
<1>6. page = "feed" => FeedInv'
  BY StepIsOfPage, FeedStep, FeedStill DEF PagesInv
<1>7. page = "routing" => RoutingInv'
  BY StepIsOfPage, RoutingStep, RoutingStays DEF PagesInv
<1>8. page = "forms" => FormsInv'
  BY StepIsOfPage, FormsStep, FormsStays DEF PagesInv
<1> QED
  BY <1>1, <1>2, <1>3, <1>4, <1>5, <1>6, <1>7, <1>8 DEF PagesInv

(***************************************************************************)
(* The upgrade panel polls for the job that it shows, and what it says of  *)
(* the end of an upgrade is what became of a job, for every number of jobs *)
(* that the store can hold (routes/control-plane/upgrade.ts).              *)
(***************************************************************************)
THEOREM UpgradesPollTrue == CoreSpec => []PollsWhatItShows
<1>1. PagesInv => PollsWhatItShows
  BY UpgradeShows DEF PagesInv, PollsWhatItShows
<1> QED
  BY <1>1, PagesInit, PagesStep, PTL DEF CoreSpec

(***************************************************************************)
(* The live feed lists or buffers every event it was sent, once, unless it *)
(* says that it dropped some, for every size of the list and of a buffer   *)
(* that is no smaller (ActivityStream.tsx).                                *)
(***************************************************************************)
THEOREM FeedLosesNothing == CoreSpec => []NothingLost
<1>1. PagesInv => NothingLost
  BY FeedHasAll DEF PagesInv, NothingLost
<1> QED
  BY <1>1, PagesInit, PagesStep, PTL DEF CoreSpec

(***************************************************************************)
(* The history of a fact is true at every moment asked for, though its two *)
(* tables are read one after the other (routes/control-plane/kb.ts).       *)
(***************************************************************************)
THEOREM HistoryTrue == CoreSpec => []HistoryIsTrue
<1>1. PagesInv => HistoryIsTrue
  BY FactShows, HistoryBounds DEF PagesInv, HistoryIsTrue
<1> QED
  BY <1>1, PagesInit, PagesStep, PTL DEF CoreSpec

(***************************************************************************)
(* Every answer is taken for what was asked, on each of the four pages that *)
(* edit what they ask for while an answer is under way.                    *)
(***************************************************************************)
THEOREM AnswersFound == CoreSpec => []AnswersFindTheirRequest
<1>1. PagesInv => AnswersFindTheirRequest
  BY RoutingPassed, FormsPassed
     DEF PagesInv, AnswersFindTheirRequest, ChatInv, KeysInv
<1> QED
  BY <1>1, PagesInit, PagesStep, PTL DEF CoreSpec
=============================================================================
