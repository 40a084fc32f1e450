----------------------------- MODULE UpgradeJobs -----------------------------
(* Upgrades of one instance: the job store of routes/control-plane/upgrade.ts *)
(* and the panel of UpgradeSection.tsx that starts a job and polls it every   *)
(* two seconds.  Requests of the panel overtake one another, other tabs start *)
(* jobs of their own, the panel can be closed, and the store forgets its      *)
(* oldest job when it is full.                                                *)
EXTENDS Naturals, Sequences, FiniteSets, SequencesExt

CONSTANTS Jobs,            \* job identifiers (crypto.randomUUID)
          JOB_STORE_MAX,   \* 50 in the code
          Slots            \* requests of one kind the panel has in flight, a bound

VARIABLES jobStore,   \* the keys of the Map, oldest first
          status,     \* job |-> its status, "unused" before it is made
          phase,      \* what the panel shows: [is, job]
          pollRef,    \* the job of the timer pollRef holds, or NoJob
          timers,     \* jobs of the timers that tick
          mounted,
          posts,      \* slot |-> the POST in flight and its answer
          polls       \* slot |-> the GET in flight and its answer

vars == <<jobStore, status, phase, pollRef, timers, mounted, posts, polls>>
server == <<jobStore, status>>
panel == <<phase, pollRef, timers, mounted>>

NoJob == "none"
Free == [is |-> "free", job |-> NoJob]
Show(is, j) == [is |-> is, job |-> j]

Init == /\ jobStore = <<>> /\ status = [j \in Jobs |-> "unused"]
        /\ phase = Show("idle", NoJob) /\ pollRef = NoJob /\ timers = {} /\ mounted = TRUE
        /\ posts = [s \in Slots |-> Free] /\ polls = [s \in Slots |-> Free]
------------------------------------------------------------------------------
(* The server. *)

\* The store after addJob: the oldest job is evicted when the store is full,
\* whether it still runs or not.
addJob(j) == Append(IF Len(jobStore) >= JOB_STORE_MAX THEN Tail(jobStore) ELSE jobStore, j)

\* POST /:name/upgrade and its answer: refused without a command line tool or
\* when spawn throws (the job stays, failed), else the job whose child runs.
Refused == Show("refused", NoJob)
StartJob(answer) ==
    \/ answer = Refused /\ UNCHANGED server
    \/ \E j \in Jobs :
         /\ status[j] = "unused"
         /\ jobStore' = addJob(j)
         /\ \/ status' = [status EXCEPT ![j] = "failed"] /\ answer = Refused
            \/ status' = [status EXCEPT ![j] = "running"] /\ answer = Show("started", j)

Answers == {Refused} \union {Show("started", j) : j \in Jobs}

AnswerPost(s) == /\ posts[s].is = "sent"
                 /\ \E a \in Answers : StartJob(a) /\ posts' = [posts EXCEPT ![s] = a]
                 /\ UNCHANGED <<panel, polls>>

OtherTabStarts == /\ \E a \in Answers \ {Refused} : StartJob(a)
                  /\ UNCHANGED <<panel, posts, polls>>

\* The 'exit' handler by exit code, and the 'error' handler.
ChildEnds(j) == /\ status[j] = "running"
                /\ \E end \in {"complete", "failed"} : status' = [status EXCEPT ![j] = end]
                /\ UNCHANGED <<jobStore, panel, posts, polls>>

\* GET /:name/upgrade/:jobId
AnswerPoll(s) ==
    /\ polls[s].is = "asked"
    /\ LET j == polls[s].job
       IN  polls' = [polls EXCEPT ![s] = Show(IF Contains(jobStore, j) THEN status[j] ELSE "gone", j)]
    /\ UNCHANGED <<server, panel, posts>>
------------------------------------------------------------------------------
(* The panel. *)

\* The buttons that a phase renders: Upgrade & Restart, Upgrade, and the ones
\* that reset (Cancel, Done, Try again); none while an upgrade goes on.
Offered == CASE phase.is = "idle" -> {"start"}
             [] phase.is = "confirming" -> {"upgrade", "reset"}
             [] phase.is = "upgrading" -> {}
             [] OTHER -> {"reset"}

\* stopPolling clears the timer that pollRef holds, whichever job it polls.
stopPollingRef == pollRef' = NoJob /\ UNCHANGED timers \* mutant: without clearInterval
stopPolling == pollRef' = NoJob /\ timers' = timers \ {pollRef}
startPolling(j) == pollRef' = j /\ timers' = (timers \ {pollRef}) \union {j}

Confirm == /\ mounted /\ "start" \in Offered /\ phase' = Show("confirming", NoJob)
           /\ UNCHANGED <<server, pollRef, timers, mounted, posts, polls>>

resetToIdle == /\ mounted /\ "reset" \in Offered
               /\ stopPolling /\ phase' = Show("idle", NoJob)
               /\ UNCHANGED <<server, mounted, posts, polls>>

\* handleUpgradeClick up to its await.
handleUpgradeClick == /\ mounted /\ "upgrade" \in Offered
                      /\ phase' = Show("upgrading", NoJob)
                      /\ \E s \in Slots : /\ posts[s] = Free
                                          /\ posts' = [posts EXCEPT ![s] = Show("sent", NoJob)]
                      /\ UNCHANGED <<server, pollRef, timers, mounted, polls>>

\* The rest of it; setState does nothing once the panel is gone, startPolling does.
SetState(p) == phase' = IF mounted THEN p ELSE phase
PostReturns(s) ==
    /\ posts[s].is \in {"started", "refused"}
    /\ posts' = [posts EXCEPT ![s] = Free]
    /\ IF posts[s].is = "started"
       THEN SetState(Show("upgrading", posts[s].job)) /\ startPolling(posts[s].job)
       ELSE SetState(Show("error", NoJob)) /\ UNCHANGED <<pollRef, timers>>
    /\ UNCHANGED <<server, mounted, polls>>

PostLost(s) == /\ posts[s] # Free
               /\ posts' = [posts EXCEPT ![s] = Free] /\ SetState(Show("error", NoJob))
               /\ UNCHANGED <<server, pollRef, timers, mounted, polls>>

Tick(j) == /\ j \in timers
           /\ \E s \in Slots : polls[s] = Free /\ polls' = [polls EXCEPT ![s] = Show("asked", j)]
           /\ UNCHANGED <<server, panel, posts>>

\* The answer to a poll: the job still runs, it ended, it is gone.
PollReturns(s) ==
    /\ polls[s].is \notin {"free", "asked"}
    /\ polls' = [polls EXCEPT ![s] = Free]
    /\ \/ polls[s].is = "running" /\ UNCHANGED <<phase, pollRef, timers>>
       \/ polls[s].is \in {"complete", "failed"} /\ stopPolling /\ SetState(polls[s])
       \/ polls[s].is = "gone" /\ stopPolling /\ SetState(Show("error", NoJob))
    /\ UNCHANGED <<server, mounted, posts>>

PollLost(s) == /\ polls[s] # Free
               /\ polls' = [polls EXCEPT ![s] = Free]
               /\ stopPolling /\ SetState(Show("error", NoJob))
               /\ UNCHANGED <<server, mounted, posts>>

\* The effect's cleanup stops the timer and leaves pollRef as it is.
Unmount == /\ mounted /\ mounted' = FALSE /\ timers' = timers \ {pollRef}
           /\ UNCHANGED <<server, phase, pollRef, posts, polls>>
------------------------------------------------------------------------------
Next == \/ OtherTabStarts \/ \E j \in Jobs : ChildEnds(j) \/ Tick(j)
        \/ \E s \in Slots : \/ AnswerPost(s) \/ AnswerPoll(s) \/ PostReturns(s) \/ PostLost(s)
                            \/ PollReturns(s) \/ PollLost(s)
        \/ Confirm \/ resetToIdle \/ handleUpgradeClick \/ Unmount

\* Timers tick, requests are answered or fail, and an upgrade ends.
Posting(s) == AnswerPost(s) \/ PostReturns(s)
Polling(s) == AnswerPoll(s) \/ PollReturns(s)
Fairness == /\ \A j \in Jobs : WF_vars(ChildEnds(j)) /\ WF_vars(Tick(j))
            /\ \A s \in Slots : WF_vars(Posting(s)) /\ WF_vars(Polling(s))

Spec == Init /\ [][Next]_vars /\ Fairness
------------------------------------------------------------------------------
(* Properties. *)

\* The jobs the store keeps are distinct, made, and never more than its limit.
TypeOK == /\ \A j \in ToSet(jobStore) : status[j] \in {"running", "complete", "failed"}
          /\ IsInjective(jobStore) /\ Len(jobStore) <= JOB_STORE_MAX
          /\ pollRef \in Jobs \union {NoJob} /\ timers \subseteq Jobs
          /\ phase.is \in {"idle", "confirming", "upgrading", "complete", "failed", "error"}

\* At most one timer ticks, the one pollRef can stop, and a panel that shows an
\* upgrade polls that upgrade: answers of an earlier upgrade that come late and
\* starts that overtake one another leave no other timer behind.
PollsWhatItShows == /\ timers \subseteq {pollRef}
                    /\ (mounted /\ phase.is = "upgrading" /\ phase.job # NoJob) => timers = {phase.job}

\* A panel that says the upgrade is complete or has failed polled a job that
\* ended that way, though it may be one it started before.
OutcomeIsOfAJob == phase.is \in {"complete", "failed"} => (phase.job # NoJob /\ status[phase.job] = phase.is)

\* What comes to an end: an upgrade shown as going on, which ends, or is evicted
\* and its poll answered 404, or is given up; and the ticking of timers, also of
\* one that a start answered after the panel closed has left behind.
Waits == (IF phase.is = "upgrading" /\ mounted THEN {1} ELSE {}) \union (IF timers # {} THEN {2} ELSE {})
===============================================================================
