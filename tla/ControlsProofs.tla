--------------------------- MODULE ControlsProofs ----------------------------
(***************************************************************************)
(* What the operator does comes about, proved for every value of the       *)
(* constants: the start and stop of an instance (Lifecycle), and what the  *)
(* pages of Controls promise.  A behaviour stays on one page, so each page *)
(* has its own inductive invariant, over names for the slots that it uses; *)
(* the theorems at the end put the pages together.                         *)
(***************************************************************************)
EXTENDS Lifecycle, Controls, SequenceTheorems, FiniteSetTheorems, WellFoundedInduction, TLAPS

-----------------------------------------------------------------------------
(***************************************************************************)
(* Start and stop of an instance, for any number of processes, of requests *)
(* and of processes that end by themselves, and for both platforms.        *)
(***************************************************************************)

(* The processes that have been up or have ended.  None of them is born or *)
(* boots again, and of those only the ones that are up can be terminated.  *)
Booted == {p \in Procs : status[p] \notin {"unborn", "booting"}}

(* Every pid the control plane or the runtime metadata knows has had the   *)
(* port, so that no signal is on its way to a process that still boots.    *)
KnownHaveBooted ==
  /\ runtime # NoProc => runtime \in Booted
  /\ tracked # NoProc => tracked \in Booted
  /\ \A r \in StartCalls : pc[r] = "confirmed" => child[r] \in Booted
  /\ \A r \in StopCalls : /\ entry[r] # NoProc => entry[r] \in Booted
                          /\ found[r] \subseteq Booted
  /\ signals \subseteq Up

(* What StopSignalsAll says holds from the moment the signals are sent.    *)
Signalled(r) ==
  \A p \in found[r] \cap Live :
    p \in signals \/ (windows /\ entry[r] \notin Live \cup {NoProc})

StopsSignalled ==
  \A r \in StopCalls : pc[r] \in {"forgetting", "stopped"} => Signalled(r)

LifecycleInv == TypeOK /\ KnownHaveBooted /\ StopsSignalled
-----------------------------------------------------------------------------
Statuses == {"unborn", "booting", "up", "exited", "signalled"}

(* What every step does to the processes: one that has been up never boots *)
(* again, one that has ended stays ended, and the signal on its way to a   *)
(* process is lost only when that process ends.                            *)
Ageing ==
  /\ Booted \subseteq Booted'
  /\ Booted \cap Live' \subseteq Live
  /\ signals \cap Live' \subseteq signals'
  /\ windows' = windows

(* The part of the state that only the processes change is well formed.    *)
ProcsOK ==
  /\ windows \in BOOLEAN
  /\ status \in [Procs -> Statuses]
  /\ killed \subseteq Procs
  /\ signals \subseteq Up
  /\ runtime \in Procs \cup {NoProc}
  /\ runtime # NoProc => runtime \in Booted

LEMMA InvIsProcsOK ==
  ASSUME LifecycleInv
  PROVE  ProcsOK
BY DEF LifecycleInv, TypeOK, KnownHaveBooted, ProcsOK, Statuses

(* The processes of a state in which nothing about them changes.           *)
LEMMA StillProcs ==
  ASSUME ProcsOK, UNCHANGED <<windows, status, killed, signals, runtime>>
  PROVE  ProcsOK' /\ Ageing
BY DEF ProcsOK, Ageing, Booted, Live, Up

(* Ending the processes of a set keeps them well formed.                   *)
LEMMA EndingKeeps ==
  ASSUME ProcsOK, NEW S \in SUBSET Live, NEW how \in Endings,
         status' = [p \in Procs |-> IF p \in S THEN how ELSE status[p]],
         signals' = signals \ S,
         UNCHANGED <<windows, killed, runtime>>
  PROVE  Ageing /\ ProcsOK'
<1>0. how \in {"exited", "signalled"}
  BY DEF Endings
<1>1. Ageing
  BY <1>0 DEF ProcsOK, Ageing, Booted, Live, Up, Statuses
<1>2. ProcsOK'
  BY <1>0 DEF ProcsOK, Booted, Live, Up, Statuses
<1> QED
  BY <1>1, <1>2

(* So does starting the instance again.                                    *)
LEMMA InstanceRestartKeeps ==
  ASSUME ProcsOK, NEW q \in Procs, InstanceRestart(q)
  PROVE  Ageing /\ ProcsOK' /\ signals' = {}
<1>0. PICK how \in {"exited", "signalled"} :
        status' = [p \in Procs |-> IF p = q THEN "booting"
                                   ELSE IF p \in Up THEN how ELSE status[p]]
  BY DEF InstanceRestart, Endings
<1>1. status[q] = "unborn" /\ UNCHANGED <<windows, killed, runtime>>
      /\ signals' = {}
  BY DEF InstanceRestart, ProcsOK
<1>2. Ageing
  BY <1>0, <1>1 DEF ProcsOK, Ageing, Booted, Live, Up, Statuses
<1>3. ProcsOK'
  BY <1>0, <1>1 DEF ProcsOK, Booted, Live, Up, Statuses
<1> QED
  BY <1>1, <1>2, <1>3

LEMMA InstanceRestartFailsKeeps ==
  ASSUME ProcsOK, InstanceRestartFails
  PROVE  Ageing /\ ProcsOK'
<1>0. PICK ended \in {{}, Up}, how \in Endings :
        /\ status' = [p \in Procs |-> IF p \in ended THEN how ELSE status[p]]
        /\ signals' = signals \ ended
  BY DEF InstanceRestartFails
<1>1. ended \in SUBSET Live
  BY DEF Up, Live
<1>2. UNCHANGED <<windows, killed, runtime>>
  BY DEF InstanceRestartFails
<1> QED
  BY <1>0, <1>1, <1>2, EndingKeeps

(* Every step of the specification is one of these: the instance's        *)
(* processes move, and the handlers do not; or a handler takes a step, in  *)
(* which it may also move the processes.                                   *)
LEMMA StepKeepsProcs ==
  ASSUME LifecycleInv, [Next]_vars
  PROVE  Ageing /\ ProcsOK'
<1>0. ProcsOK
  BY InvIsProcsOK
<1> DEFINE Still == UNCHANGED <<windows, status, killed, signals, runtime>>
<1>st. Still => Ageing /\ ProcsOK'
  BY <1>0, StillProcs
<1>1. ASSUME NEW p \in Procs, Boot(p)
      PROVE  Ageing /\ ProcsOK'
  <2>1. /\ status[p] = "booting"
        /\ UNCHANGED <<windows, killed, signals>>
        /\ \/ /\ Up = {} /\ status' = [status EXCEPT ![p] = "up"] /\ runtime' = p
           \/ /\ status' = [status EXCEPT ![p] = "exited"] /\ runtime' = runtime
    BY <1>1 DEF Boot
  <2>2. Ageing
    BY <1>0, <2>1 DEF ProcsOK, Ageing, Booted, Live, Up, Statuses
  <2>3. ProcsOK'
    BY <1>0, <2>1 DEF ProcsOK, Booted, Live, Up, Statuses
  <2> QED
    BY <2>2, <2>3
<1>2. ASSUME NEW p \in Procs, Terminated(p) \/ Ended(p)
      PROVE  Ageing /\ ProcsOK'
  <2>1. PICK how \in Endings : status' = [status EXCEPT ![p] = how]
    BY <1>2 DEF Terminated, Ended
  <2>2. /\ {p} \in SUBSET Live /\ signals' = signals \ {p}
        /\ UNCHANGED <<windows, killed, runtime>>
    BY <1>2 DEF Terminated, Ended
  <2>3. status' = [u \in Procs |-> IF u \in {p} THEN how ELSE status[u]]
    BY <1>0, <2>1 DEF ProcsOK
  <2> QED
    BY <1>0, <2>2, <2>3, EndingKeeps
<1>3. CASE OperatorRestart
  BY <1>0, <1>3, InstanceRestartKeeps DEF OperatorRestart
<1>4. ASSUME NEW r \in StartCalls, StartStep(r)
      PROVE  Ageing /\ ProcsOK'
  <2>1. CASE StartRequest(r) \/ Probe(r) \/ waitForConfirmedStart(r)
             \/ ConfirmationFails(r) \/ Track(r) \/ waitForRuntimeReady(r)
    BY <2>1, <1>st DEF StartRequest, Probe, waitForConfirmedStart,
       ConfirmationFails, Track, waitForRuntimeReady, procVars
  <2>2. CASE Spawn(r)
    <3>1. CASE status' = status
      BY <2>2, <3>1, <1>st DEF Spawn
    <3>2. ASSUME NEW p \in Procs, status[p] = "unborn",
                 status' = [status EXCEPT ![p] = "booting"]
          PROVE  Ageing /\ ProcsOK'
      <4>1. UNCHANGED <<windows, killed, signals, runtime>>
        BY <2>2 DEF Spawn
      <4>2. Ageing
        BY <1>0, <3>2, <4>1 DEF ProcsOK, Ageing, Booted, Live, Up, Statuses
      <4>3. ProcsOK'
        BY <1>0, <3>2, <4>1 DEF ProcsOK, Booted, Live, Up, Statuses
      <4> QED
        BY <4>2, <4>3
    <3> QED
      BY <2>2, <3>1, <3>2 DEF Spawn
  <2>3. CASE recoverInvalidRuntime(r)
    BY <1>0, <2>3, InstanceRestartKeeps, InstanceRestartFailsKeeps
       DEF recoverInvalidRuntime
  <2> QED
    BY <1>4, <2>1, <2>2, <2>3 DEF StartStep
<1>5. ASSUME NEW r \in StopCalls, StopRequest(r) \/ ReadStatus(r)
      PROVE  Ageing /\ ProcsOK'
  BY <1>5, <1>st DEF StopRequest, ReadStatus, procVars
<1>6. ASSUME NEW r \in StopCalls, Terminate(r)
      PROVE  Ageing /\ ProcsOK'
  <2>1. found[r] \subseteq Booted /\ found[r] \subseteq Procs
        /\ (entry[r] # NoProc => entry[r] \in Booted)
    BY DEF LifecycleInv, KnownHaveBooted, TypeOK
  <2>2. Reached(r) \subseteq Booted
    BY <2>1 DEF Reached
  <2>3. /\ UNCHANGED <<windows, status, runtime>>
        /\ signals' = signals \cup (Reached(r) \cap Live)
        /\ killed' \in {killed, killed \cup ({entry[r]} \cap Reached(r) \cap Live)}
    BY <1>6 DEF Terminate
  <2>4. Reached(r) \cap Live \subseteq Up
    BY <2>2 DEF Booted, Live, Up
  <2>5. Ageing
    BY <2>3 DEF Ageing, Booted, Live
  <2>6. ProcsOK'
    BY <1>0, <2>3, <2>4 DEF ProcsOK, Booted, Live, Up
  <2> QED
    BY <2>5, <2>6
<1>7. ASSUME NEW r \in RestartCalls, Restart(r)
      PROVE  Ageing /\ ProcsOK'
  BY <1>0, <1>7, InstanceRestartKeeps, InstanceRestartFailsKeeps DEF Restart
<1>8. ASSUME NEW r \in StopCalls \cup RestartCalls, Forget(r)
      PROVE  Ageing /\ ProcsOK'
  BY <1>8, <1>st DEF Forget, procVars
<1>9. CASE ControlPlaneRestart
  BY <1>9, <1>st DEF ControlPlaneRestart, procVars
<1>10. CASE UNCHANGED vars
  BY <1>10, <1>st DEF vars
<1> QED
  BY <1>1, <1>2, <1>3, <1>4, <1>5, <1>6, <1>7, <1>8, <1>9, <1>10 DEF Next

(* The state of the handlers.                                              *)
Places ==
  Answers \cup {"idle", "probing", "spawning", "confirming", "confirmed",
               "recovering", "waiting", "reading", "terminating", "forgetting"}

HandlersOK ==
  /\ tracked \in Procs \cup {NoProc}
  /\ pc \in [Requests -> Places]
  /\ child \in [StartCalls -> Procs \cup {NoProc}]
  /\ entry \in [StopCalls -> Procs \cup {NoProc}]
  /\ found \in [StopCalls -> SUBSET Procs]
  /\ ends \in 0..MaxEnds

LEMMA StepKeepsHandlers ==
  ASSUME LifecycleInv, [Next]_vars
  PROVE  HandlersOK'
<1>0. HandlersOK /\ runtime \in Procs \cup {NoProc} /\ MaxEnds \in Nat
  BY LifecycleAssumption DEF LifecycleInv, TypeOK, HandlersOK, Places
<1> USE DEF Requests
<1>1. CASE \E p \in Procs : Boot(p) \/ Terminated(p)
  BY <1>0, <1>1 DEF HandlersOK, Boot, Terminated
<1>2. CASE OperatorRestart \/ \E p \in Procs : Ended(p)
  BY <1>0, <1>2 DEF HandlersOK, OperatorRestart, Ended
<1>3. ASSUME NEW r \in StartCalls, StartStep(r)
      PROVE  HandlersOK'
  <2>1. CASE Spawn(r)
    BY <1>0, <2>1 DEF HandlersOK, Spawn, Goto, Places, Answers
  <2>2. CASE recoverInvalidRuntime(r) \/ waitForRuntimeReady(r)
    BY <1>0, <2>2 DEF HandlersOK, recoverInvalidRuntime, waitForRuntimeReady,
       Goto, Places, Answers, procVars
  <2>3. CASE StartRequest(r) \/ Probe(r) \/ waitForConfirmedStart(r)
             \/ ConfirmationFails(r) \/ Track(r)
    BY <1>0, <2>3 DEF HandlersOK, StartRequest, Probe, waitForConfirmedStart,
       ConfirmationFails, Track, Goto, Places, Answers, procVars
  <2> QED
    BY <1>3, <2>1, <2>2, <2>3 DEF StartStep
<1>4. ASSUME NEW r \in StopCalls, StopRequest(r) \/ Terminate(r)
      PROVE  HandlersOK'
  BY <1>0, <1>4 DEF HandlersOK, StopRequest, Terminate, Goto, Places, Answers, procVars
<1>5. ASSUME NEW r \in StopCalls, ReadStatus(r)
      PROVE  HandlersOK'
  <2>1. PICK pid \in {runtime, NoProc} :
          /\ found' = [found EXCEPT ![r] = {pid, entry[r]} \ {NoProc}]
          /\ Goto(r, IF {pid, entry[r]} \ {NoProc} = {}
                     THEN "notTracked" ELSE "terminating")
    BY <1>5 DEF ReadStatus
  <2>2. {pid, entry[r]} \ {NoProc} \in SUBSET Procs
    BY <1>0, <2>1 DEF HandlersOK
  <2>3. UNCHANGED <<tracked, child, entry, ends>>
    BY <1>5 DEF ReadStatus, procVars
  <2>4. found' \in [StopCalls -> SUBSET Procs]
    BY <1>0, <2>1, <2>2 DEF HandlersOK
  <2>5. pc' \in [Requests -> Places]
    BY <1>0, <2>1 DEF HandlersOK, Goto, Places, Answers
  <2> QED
    BY <1>0, <2>3, <2>4, <2>5 DEF HandlersOK
<1>6. ASSUME NEW r \in RestartCalls, Restart(r)
      PROVE  HandlersOK'
  BY <1>0, <1>6 DEF HandlersOK, Restart, Goto, Places, Answers
<1>7. ASSUME NEW r \in StopCalls \cup RestartCalls, Forget(r)
      PROVE  HandlersOK'
  BY <1>0, <1>7 DEF HandlersOK, Forget, Goto, Places, Answers, procVars
<1>8. CASE ControlPlaneRestart
  BY <1>0, <1>8 DEF HandlersOK, ControlPlaneRestart, Places, Answers, procVars
<1>9. CASE UNCHANGED vars
  BY <1>0, <1>9 DEF HandlersOK, vars
<1> QED
  BY <1>1, <1>2, <1>3, <1>4, <1>5, <1>6, <1>7, <1>8, <1>9 DEF Next

(* A pid that a step writes down is one of a process that has booted.      *)
LEMMA StepKnowsBooted ==
  ASSUME LifecycleInv, [Next]_vars
  PROVE  KnownHaveBooted'
<1>0. /\ HandlersOK /\ runtime \in Procs \cup {NoProc}
      /\ runtime # NoProc => runtime \in Booted
      /\ tracked # NoProc => tracked \in Booted
      /\ \A r \in StartCalls : pc[r] = "confirmed" => child[r] \in Booted
      /\ \A r \in StopCalls : /\ entry[r] # NoProc => entry[r] \in Booted
                              /\ found[r] \subseteq Booted
  BY DEF LifecycleInv, TypeOK, HandlersOK, KnownHaveBooted, Places
<1>1. /\ Booted \subseteq Booted' /\ signals' \subseteq Up'
      /\ runtime' # NoProc => runtime' \in Booted'
  BY StepKeepsProcs DEF Ageing, ProcsOK
<1>2. Up \subseteq Booted
  BY DEF Up, Booted
<1> DEFINE Confirmed == \A r \in StartCalls :
             pc'[r] = "confirmed" => child'[r] \in Booted
           Stops == \A r \in StopCalls :
             /\ entry'[r] # NoProc => entry'[r] \in Booted
             /\ found'[r] \subseteq Booted
           Tracked == tracked' # NoProc => tracked' \in Booted
<1>3. SUFFICES Tracked /\ Confirmed /\ Stops
  BY <1>1 DEF KnownHaveBooted
<1>4. CASE UNCHANGED <<tracked, pc, child, entry, found>>
  BY <1>0, <1>4
<1>5. ASSUME NEW s \in StartCalls, StartStep(s)
      PROVE  Tracked /\ Confirmed /\ Stops
  <2> USE DEF HandlersOK, Requests
  <2>1. CASE Spawn(s)
    BY <1>0, <2>1 DEF Spawn, Goto
  <2>2. CASE recoverInvalidRuntime(s) \/ waitForRuntimeReady(s)
    BY <1>0, <2>2 DEF recoverInvalidRuntime, waitForRuntimeReady, Goto
  <2>3. CASE waitForConfirmedStart(s)
    BY <1>0, <1>2, <2>3 DEF waitForConfirmedStart, Goto
  <2>4. CASE StartRequest(s) \/ Probe(s) \/ ConfirmationFails(s) \/ Track(s)
    BY <1>0, <2>4 DEF StartRequest, Probe, ConfirmationFails, Track, Goto
  <2> QED
    BY <1>5, <2>1, <2>2, <2>3, <2>4 DEF StartStep
<1>6. ASSUME NEW s \in StopCalls, StopRequest(s) \/ ReadStatus(s) \/ Terminate(s)
      PROVE  Tracked /\ Confirmed /\ Stops
  <2> USE DEF HandlersOK, Requests
  <2>0. \A r \in StartCalls : pc'[r] = pc[r] /\ child'[r] = child[r]
    BY <1>0, <1>6, LifecycleAssumption DEF StopRequest, ReadStatus, Terminate, Goto
  <2>1. CASE StopRequest(s)
    BY <1>0, <2>0, <2>1 DEF StopRequest
  <2>2. CASE ReadStatus(s)
    <3>1. PICK pid \in {runtime, NoProc} :
            found' = [found EXCEPT ![s] = {pid, entry[s]} \ {NoProc}]
      BY <2>2 DEF ReadStatus
    <3>2. {pid, entry[s]} \ {NoProc} \subseteq Booted
      BY <1>0, <3>1
    <3>3. UNCHANGED <<tracked, entry>>
      BY <2>2 DEF ReadStatus
    <3> QED
      BY <1>0, <2>0, <3>1, <3>2, <3>3
  <2>3. CASE Terminate(s)
    BY <1>0, <2>0, <2>3 DEF Terminate
  <2> QED
    BY <1>6, <2>1, <2>2, <2>3
<1>7. ASSUME NEW s \in StopCalls \cup RestartCalls, Forget(s) \/ Restart(s)
      PROVE  Tracked /\ Confirmed /\ Stops
  BY <1>0, <1>7 DEF Forget, Restart, Goto, HandlersOK, Requests
<1>8. CASE ControlPlaneRestart
  BY <1>0, <1>8 DEF ControlPlaneRestart, Answers, Requests
<1> QED
  BY <1>4, <1>5, <1>6, <1>7, <1>8
     DEF Next, Boot, Terminated, Ended, OperatorRestart, vars

(* A request that has been signalled stays so while the processes age.     *)
LEMMA SignalledLasts ==
  ASSUME LifecycleInv, NEW r \in StopCalls, Ageing, Signalled(r),
         entry'[r] = entry[r], found'[r] = found[r]
  PROVE  Signalled(r)'
<1>1. found[r] \subseteq Booted /\ (entry[r] # NoProc => entry[r] \in Booted)
  BY DEF LifecycleInv, KnownHaveBooted
<1>2. SUFFICES ASSUME NEW p \in found[r] \cap Live'
               PROVE  p \in signals' \/ (windows' /\ entry[r] \notin Live' \cup {NoProc})
  BY DEF Signalled
<1>3. p \in Live
  BY <1>1, <1>2 DEF Ageing
<1>4. CASE p \in signals
  BY <1>2, <1>4 DEF Ageing
<1>5. CASE windows /\ entry[r] \notin Live \cup {NoProc}
  BY <1>1, <1>5 DEF Ageing
<1> QED
  BY <1>2, <1>3, <1>4, <1>5 DEF Signalled

LEMMA StepKeepsSignalled ==
  ASSUME LifecycleInv, [Next]_vars
  PROVE  StopsSignalled'
<1>1. Ageing /\ HandlersOK
  BY StepKeepsProcs DEF LifecycleInv, TypeOK, HandlersOK, Places
<1>2. SUFFICES ASSUME NEW r \in StopCalls, pc'[r] \in {"forgetting", "stopped"}
               PROVE  Signalled(r)'
  BY DEF StopsSignalled
<1>3. pc \in [Requests -> Places] /\ r \in Requests /\ r \notin StartCalls
      /\ r \notin RestartCalls
  BY <1>1, LifecycleAssumption DEF HandlersOK, Requests
<1>4. CASE /\ pc[r] \in {"forgetting", "stopped"}
           /\ entry'[r] = entry[r] /\ found'[r] = found[r]
  BY <1>1, <1>4, SignalledLasts DEF LifecycleInv, StopsSignalled
<1>5. CASE Terminate(r)
  <2>1. SUFFICES ASSUME NEW p \in found[r] \cap Live, p \notin signals'
                 PROVE  windows /\ entry[r] \notin Live \cup {NoProc}
    BY <1>5 DEF Terminate, Signalled, Live
  <2>2. p \notin Reached(r)
    BY <1>5, <2>1 DEF Terminate
  <2> QED
    BY <2>1, <2>2 DEF Reached
<1>6. CASE /\ ~Terminate(r)
           /\ \E s \in StopCalls : StopRequest(s) \/ ReadStatus(s) \/ Terminate(s)
  <2>1. PICK s \in StopCalls : StopRequest(s) \/ ReadStatus(s) \/ Terminate(s)
    BY <1>6
  <2>2. CASE s = r
    BY <1>1, <1>2, <1>3, <1>6, <2>1, <2>2
       DEF StopRequest, ReadStatus, Goto, HandlersOK, Requests
  <2>3. CASE s # r
    BY <1>1, <1>2, <1>3, <1>4, <2>1, <2>3
       DEF StopRequest, ReadStatus, Terminate, Goto, HandlersOK, Requests
  <2> QED
    BY <2>2, <2>3
<1>7. CASE \E s \in StartCalls : StartStep(s)
  <2>1. PICK s \in StartCalls : StartStep(s)
    BY <1>7
  <2>2. UNCHANGED <<entry, found>> /\ pc'[r] = pc[r]
    BY <1>1, <1>3, <2>1 DEF StartStep, StartRequest, Probe, Spawn, Goto,
       waitForConfirmedStart, ConfirmationFails, Track, recoverInvalidRuntime,
       waitForRuntimeReady, HandlersOK
  <2> QED
    BY <1>2, <1>4, <2>2
<1>8. CASE \E s \in RestartCalls : Restart(s)
  BY <1>1, <1>2, <1>3, <1>4, <1>8 DEF Restart, Goto, HandlersOK
<1>9. CASE \E s \in StopCalls \cup RestartCalls : Forget(s)
  <2>1. PICK s \in StopCalls \cup RestartCalls : Forget(s)
    BY <1>9
  <2>2. pc[r] \in {"forgetting", "stopped"} /\ UNCHANGED <<entry, found>>
    BY <1>1, <1>2, <1>3, <2>1 DEF Forget, Goto, HandlersOK, Requests
  <2> QED
    BY <1>4, <2>2
<1>10. CASE ControlPlaneRestart
  BY <1>2, <1>3, <1>4, <1>10 DEF ControlPlaneRestart
<1>11. CASE UNCHANGED <<pc, entry, found>>
  BY <1>2, <1>4, <1>11
<1> QED
  BY <1>5, <1>6, <1>7, <1>8, <1>9, <1>10, <1>11
     DEF Next, Boot, Terminated, Ended, OperatorRestart, vars
-----------------------------------------------------------------------------
LEMMA InitLifecycleInv == Init => LifecycleInv
<1> SUFFICES ASSUME Init
             PROVE  LifecycleInv
  OBVIOUS
<1>1. TypeOK
  BY LifecycleAssumption DEF Init, TypeOK, Answers
<1>2. KnownHaveBooted
  BY DEF Init, KnownHaveBooted, Requests
<1>3. StopsSignalled
  BY DEF Init, StopsSignalled, Requests
<1> QED
  BY <1>1, <1>2, <1>3 DEF LifecycleInv

LEMMA StepLifecycleInv == LifecycleInv /\ [Next]_vars => LifecycleInv'
<1> SUFFICES ASSUME LifecycleInv, [Next]_vars
             PROVE  LifecycleInv'
  OBVIOUS
<1>1. TypeOK'
  BY StepKeepsProcs, StepKeepsHandlers
     DEF ProcsOK, HandlersOK, TypeOK, Places, Statuses, Up, Live, Answers
<1> QED
  BY <1>1, StepKnowsBooted, StepKeepsSignalled DEF LifecycleInv

LEMMA LifecycleInvariance == Spec => []LifecycleInv
<1> QED
  BY InitLifecycleInv, StepLifecycleInv, PTL DEF Spec

(* Every variable of the lifecycle has its type; in particular a signal is *)
(* on its way only to a process that lives.                                *)
THEOREM TypeCorrect == Spec => []TypeOK
<1>1. LifecycleInv => TypeOK
  BY DEF LifecycleInv
<1> QED
  BY <1>1, LifecycleInvariance, PTL

(* managedProcesses never holds a process that was only spawned, whatever  *)
(* the starts, stops and restarts that overlap.                            *)
THEOREM OnlyConfirmedAreTracked == Spec => []TrackedWasConfirmed
<1>1. LifecycleInv => TrackedWasConfirmed
  BY DEF LifecycleInv, KnownHaveBooted, TrackedWasConfirmed, Booted
<1> QED
  BY <1>1, LifecycleInvariance, PTL

(* A stop that has answered "stopped" leaves neither the process of the    *)
(* map nor that of the runtime metadata running without a signal on its    *)
(* way, but for the tracked process that taskkill did not find.            *)
THEOREM StoppedMeansSignalled == Spec => []StopSignalsAll
<1>1. LifecycleInv => StopSignalsAll
  BY DEF LifecycleInv, StopsSignalled, Signalled, StopSignalsAll
<1> QED
  BY <1>1, LifecycleInvariance, PTL

(* A start is refused only when a process of the instance runs, or the one *)
(* of the map was ended by a signal that nothing here sent.                *)
THEOREM RefusedMeansRunning == Spec => ConflictMeansRunning
<1>1. ASSUME LifecycleInv, [Next]_vars, NEW r \in StartCalls,
             pc[r] # "conflict", pc'[r] = "conflict"
      PROVE  Live # {} \/ (tracked # NoProc /\ status[tracked] = "signalled")
  <2>1. pc \in [Requests -> Places] /\ r \in Requests
        /\ status \in [Procs -> Statuses] /\ Requests # {}
    BY <1>1 DEF LifecycleInv, TypeOK, Requests, Places, Statuses
  <2>2. CASE StartRequest(r)
    <3>1. tracked # NoProc /\ isAlive(tracked)
      BY <1>1, <2>1, <2>2 DEF StartRequest, Goto
    <3>2. tracked \in Booted
      BY <1>1, <3>1 DEF LifecycleInv, KnownHaveBooted
    <3> QED
      BY <2>1, <3>1, <3>2 DEF isAlive, Booted, Live, Statuses
  <2>3. CASE Probe(r)
    BY <1>1, <2>1, <2>3 DEF Probe, Goto, Up, Live
  <2>4. ASSUME ~StartRequest(r), ~Probe(r)
        PROVE  FALSE
    <3> USE DEF Goto, Places, Answers
    <3>1. CASE \E s \in StartCalls : StartStep(s)
      BY <1>1, <2>1, <2>4, <3>1 DEF StartStep, StartRequest, Probe, Spawn,
         waitForConfirmedStart, ConfirmationFails, Track, waitForRuntimeReady,
         recoverInvalidRuntime, Requests
    <3>2. CASE \E s \in StopCalls : StopRequest(s) \/ ReadStatus(s) \/ Terminate(s)
      BY <1>1, <2>1, <3>2 DEF StopRequest, ReadStatus, Terminate, Requests
    <3>3. CASE \E s \in StopCalls \cup RestartCalls : Forget(s) \/ Restart(s)
      BY <1>1, <2>1, <3>3 DEF Forget, Restart, Requests
    <3>4. CASE ControlPlaneRestart
      BY <1>1, <2>1, <3>4 DEF ControlPlaneRestart
    <3>5. CASE UNCHANGED pc
      BY <1>1, <3>5
    <3> QED
      BY <1>1, <3>1, <3>2, <3>3, <3>4, <3>5
         DEF Next, Boot, Terminated, Ended, OperatorRestart, vars
  <2> QED
    BY <2>2, <2>3, <2>4
<1>2. LifecycleInv /\ [Next]_vars =>
        [\A r \in StartCalls : pc[r] # "conflict" /\ pc'[r] = "conflict" =>
           Live # {} \/ (tracked # NoProc /\ status[tracked] = "signalled")]_vars
  BY <1>1
<1> QED
  BY <1>2, LifecycleInvariance, PTL DEF Spec, ConflictMeansRunning

-----------------------------------------------------------------------------
(***************************************************************************)
(* The instances.  A question is open only over an instance that is shown, *)
(* so what is asked for has a name; and a list that is on its way was read *)
(* after every action that has asked for it.                               *)
(***************************************************************************)
exists == s1
up == s2
own == s3
acted == s5
instanceList == s6
listReq == s7
question == s11
typed == s12
instanceReqs == s13
due == s15
USE DEF exists, up, own, acted, instanceList, listReq, question, typed, instanceReqs, due

LEMMA ListBounds ==
  Count \in Nat \ {0}
BY ControlsAssumption

InstanceRequests == [owner : {"controls", "card", "delete", "create"}, kind : {"start", "stop", "delete", "create"},
                     name : Listed!Names, typed : Nat, at : {"sent", "done", "refused"}, live : BOOLEAN, no : Nat]
InstanceLists == [rows : SUBSET Listed!Names, up : SUBSET Listed!Names, asOf : Nat]
ListRequests == [at : {"none", "asked", "read"}, rows : SUBSET Listed!Names, up : SUBSET Listed!Names,
                 asOf : Nat, pick : Nat]

ListedTypeOK ==
  /\ exists \in SUBSET Listed!Names /\ up \in SUBSET Listed!Names /\ own \in Nat /\ acted \in Nat /\ due \in Nat
  /\ instanceList \in InstanceLists /\ listReq \in ListRequests
  /\ question \in {"none", "stop", "delete"} /\ typed \in Nat /\ instanceReqs \in SUBSET InstanceRequests

\* Every refresh that was due has been read by the answer under way or shown.
ListIsRead == due <= acted /\ (listReq.at = "read" => listReq.asOf >= due)
QuestionIsOfShown == question # "none" => Listed!Shown

ListedInv == /\ ListedTypeOK /\ ListIsRead /\ QuestionIsOfShown
             /\ Listed!ActionIsListed /\ Listed!DeletesWhatWasTyped

LEMMA ListedInit == ASSUME Listed!Init PROVE ListedInv
<1> USE DEF Listed!Init, Listed!None
<1>1. Listed!NoList \in InstanceLists
  BY DEF Listed!NoList, InstanceLists
<1>2. Listed!Asking(0) \in ListRequests /\ Listed!Asking(0).at = "asked"
  BY DEF Listed!Asking, Listed!NoRequest, ListRequests
<1>3. ListedTypeOK
  BY <1>1, <1>2 DEF ListedTypeOK
<1>4. ListIsRead /\ Listed!ActionIsListed
  BY <1>2 DEF ListIsRead, Listed!ActionIsListed
<1>5. QuestionIsOfShown /\ Listed!DeletesWhatWasTyped
  BY DEF QuestionIsOfShown, Listed!DeletesWhatWasTyped
<1> QED
  BY <1>3, <1>4, <1>5 DEF ListedInv

(* What the steps do to the requests, to the list and to the question.     *)
ReqsOK == instanceReqs \in SUBSET InstanceRequests /\ Listed!DeletesWhatWasTyped
ListOK == /\ acted \in Nat /\ due \in Nat /\ instanceList \in InstanceLists /\ listReq \in ListRequests
          /\ ListIsRead /\ Listed!ActionIsListed
WorldOK == exists \in SUBSET Listed!Names /\ up \in SUBSET Listed!Names /\ own \in Nat
QuestionOK == question \in {"none", "stop", "delete"} /\ typed \in Nat /\ QuestionIsOfShown

LEMMA ListedParts == ListedInv <=> ReqsOK /\ ListOK /\ WorldOK /\ QuestionOK
BY DEF ListedInv, ListedTypeOK, ReqsOK, ListOK, WorldOK, QuestionOK

LEMMA ListedFromParts == ASSUME ReqsOK', ListOK', WorldOK', QuestionOK' PROVE ListedInv'
BY DEF ListedInv, ListedTypeOK, ReqsOK, ListOK, WorldOK, QuestionOK

\* A form that goes leaves its requests behind.
LEMMA LeftBehind ==
  ASSUME NEW R \in SUBSET InstanceRequests, \A r \in R : r.kind = "delete" => r.typed = r.name,
         instanceReqs' = {[r EXCEPT !.live = FALSE] : r \in R}
  PROVE  ReqsOK'
<1>1. \A r \in R : LET q == [r EXCEPT !.live = FALSE] IN
        q \in InstanceRequests /\ (q.kind = "delete" => q.typed = q.name)
  BY DEF InstanceRequests
<1> QED
  BY <1>1 DEF ReqsOK, Listed!DeletesWhatWasTyped

LEMMA PanelStays ==
  ASSUME ListedInv, Listed!PanelFollows
  PROVE  ReqsOK' /\ QuestionOK'
<1>1. CASE Listed!Shown'
  BY <1>1 DEF Listed!PanelFollows, Listed!panel, ListedInv, ListedTypeOK, ReqsOK, QuestionOK,
              QuestionIsOfShown, Listed!DeletesWhatWasTyped
<1>2. CASE ~Listed!Shown'
  <2>1. /\ question' = "none" /\ typed' = Listed!None
        /\ instanceReqs' = {[r EXCEPT !.live = FALSE] : r \in instanceReqs}
    BY <1>2 DEF Listed!PanelFollows, Listed!Unmounted
  <2>2. ReqsOK'
    BY <2>1, LeftBehind DEF ListedInv, ListedTypeOK, Listed!DeletesWhatWasTyped
  <2> QED
    BY <2>1, <2>2 DEF QuestionOK, QuestionIsOfShown, Listed!None
<1> QED
  BY <1>1, <1>2

\* What stands still, group by group.
LEMMA ViewStays ==
  ASSUME UNCHANGED <<Listed!view, s9, s10>>
  PROVE  /\ Listed!Shown' = Listed!Shown
         /\ ListedInv /\ UNCHANGED <<question, typed>> => QuestionOK'
         /\ ListedInv /\ UNCHANGED <<acted, due>> => ListOK'
<1>1. UNCHANGED <<instanceList, listReq, s8, s9, s10>>
  BY DEF Listed!view
<1>2. Listed!Shown' = Listed!Shown
  BY <1>1, Zenon DEF Listed!Shown, Listed!selectedId, Listed!None
<1>3. ListedInv /\ UNCHANGED <<question, typed>> => QuestionOK'
  BY <1>2, Zenon DEF ListedInv, ListedTypeOK, QuestionOK, QuestionIsOfShown
<1>4. ListedInv /\ UNCHANGED <<acted, due>> => ListOK'
  BY <1>1 DEF ListedInv, ListedTypeOK, ListOK, ListIsRead, Listed!ActionIsListed
<1> QED
  BY <1>2, <1>3, <1>4

LEMMA Asked ==
  ASSUME ListedInv, NEW pick \in Nat, Listed!Refetch(pick), UNCHANGED <<acted, instanceList>>, due' \in {due, acted}
  PROVE  ListOK'
<1>1. listReq' \in ListRequests /\ listReq'.at = "asked"
  BY DEF Listed!Refetch, Listed!Asking, Listed!NoRequest, ListRequests, Listed!None
<1> QED
  BY <1>1 DEF ListedInv, ListedTypeOK, ListOK, ListIsRead, Listed!ActionIsListed

LEMMA Sent ==
  ASSUME ListedInv, NEW owner \in {"controls", "card", "delete", "create"},
         NEW kind \in {"start", "stop", "delete", "create"}, NEW n \in Listed!Names,
         Listed!Send(owner, kind, n), kind = "delete" => typed = n
  PROVE  ReqsOK' /\ own' \in Nat
<1> DEFINE r == [owner |-> owner, kind |-> kind, name |-> n, typed |-> typed, at |-> "sent", live |-> TRUE, no |-> own]
<1>1. instanceReqs' = instanceReqs \cup {r} /\ own' = own + 1
  BY DEF Listed!Send
<1>2. r \in InstanceRequests /\ (r.kind = "delete" => r.typed = r.name)
  BY DEF ListedInv, ListedTypeOK, InstanceRequests
<1> HIDE DEF r
<1> QED
  BY <1>1, <1>2 DEF ListedInv, ListedTypeOK, ReqsOK, Listed!DeletesWhatWasTyped

LEMMA ListedStep == ASSUME ListedInv, Listed!Next PROVE ListedInv'
<1> USE DEF Listed!world
<1>0. ReqsOK /\ ListOK /\ WorldOK /\ QuestionOK
  BY ListedParts
<1>a. UNCHANGED instanceReqs => ReqsOK'
  BY <1>0 DEF ReqsOK, Listed!DeletesWhatWasTyped
<1>b. UNCHANGED <<exists, up, own>> => WorldOK'
  BY <1>0 DEF WorldOK
<1>c. Listed!Shown => Listed!selectedId \in Listed!Names
  BY <1>0 DEF Listed!Shown, ListOK, InstanceLists
<1>d. question # "none" => Listed!selectedId \in Listed!Names
  BY <1>0, <1>c DEF QuestionOK, QuestionIsOfShown
<1>e. \A r \in instanceReqs : r \in InstanceRequests /\ r.name \in Listed!Names /\ r.name \in Nat
  BY <1>0 DEF ReqsOK, InstanceRequests, Listed!Names
<1>1. CASE Listed!Load
  <2>1. /\ listReq' = [listReq EXCEPT !.at = "read", !.rows = exists, !.up = up, !.asOf = acted]
        /\ UNCHANGED <<exists, up, own, acted, instanceList, s8, s9, s10, question, typed, instanceReqs, due>>
    BY <1>1 DEF Listed!Load, Listed!panel
  <2>2. listReq' \in ListRequests /\ listReq'.at = "read" /\ listReq'.asOf = acted
    BY <1>0, <2>1 DEF ListOK, WorldOK, ListRequests
  <2>3. ListOK'
    BY <1>0, <2>1, <2>2 DEF ListOK, ListIsRead, Listed!ActionIsListed
  <2>4. Listed!Shown' = Listed!Shown
    BY <2>1, Zenon DEF Listed!Shown, Listed!selectedId, Listed!None
  <2>5. QuestionOK'
    BY <1>0, <2>1, <2>4, Zenon DEF QuestionOK, QuestionIsOfShown
  <2> QED
    BY <1>a, <1>b, <2>1, <2>3, <2>5, ListedFromParts
<1>2. CASE Listed!Receive
  <2>1. /\ listReq.at = "read" /\ listReq' = Listed!NoRequest /\ UNCHANGED <<exists, up, own, acted, due>>
        /\ instanceList' = [rows |-> listReq.rows, up |-> listReq.up, asOf |-> listReq.asOf] /\ Listed!PanelFollows
    BY <1>2 DEF Listed!Receive
  <2>2. listReq' \in ListRequests /\ listReq'.at = "none" /\ instanceList' \in InstanceLists /\ instanceList'.asOf = listReq.asOf
    BY <1>0, <2>1 DEF ListOK, ListRequests, InstanceLists, Listed!NoRequest, Listed!None
  <2>3. ListOK'
    BY <1>0, <2>1, <2>2 DEF ListOK, ListIsRead, Listed!ActionIsListed
  <2> QED
    BY <1>b, <2>1, <2>3, PanelStays, ListedFromParts
<1>3. CASE Listed!Fail
  <2>1. /\ listReq' = Listed!NoRequest /\ due' = 0
        /\ UNCHANGED <<exists, up, own, acted, instanceList>> /\ Listed!PanelFollows
    BY <1>3 DEF Listed!Fail
  <2>2. listReq' \in ListRequests /\ listReq'.at = "none"
    BY <2>1 DEF ListRequests, Listed!NoRequest, Listed!None
  <2>3. ListOK'
    BY <1>0, <2>1, <2>2 DEF ListOK, ListIsRead, InstanceLists, Listed!ActionIsListed
  <2> QED
    BY <1>b, <2>1, <2>3, PanelStays, ListedFromParts
<1>f. \A pick \in Nat : Listed!Refetch(pick) /\ UNCHANGED <<acted, instanceList>> /\ due' \in {due, acted} => ListOK'
  BY Asked
<1>g. UNCHANGED <<instanceList, s8, s9, s10, question, typed>> => QuestionOK'
  <2> SUFFICES ASSUME UNCHANGED <<instanceList, s8, s9, s10, question, typed>> PROVE QuestionOK'
    OBVIOUS
  <2>1. Listed!Shown' = Listed!Shown
    BY Zenon DEF Listed!Shown, Listed!selectedId, Listed!None
  <2> QED
    BY <1>0, <2>1, Zenon DEF QuestionOK, QuestionIsOfShown
<1>4. CASE Listed!Refresh
  BY <1>4, <1>a, <1>b, <1>f, <1>g, ListedFromParts DEF Listed!Refresh, Listed!panel, Listed!None
<1>5. CASE Listed!TimerFires
  BY <1>5, <1>a, <1>b, <1>f, <1>g, ListedFromParts DEF Listed!TimerFires, Listed!panel, Listed!None
<1>6. ASSUME NEW n \in Listed!Names, Listed!Select(n) PROVE ListedInv'
  <2>1. UNCHANGED <<exists, up, own, acted, instanceList, listReq, due>> /\ Listed!PanelFollows
    BY <1>6 DEF Listed!Select, Listed!view
  <2>2. ListOK'
    BY <1>0, <2>1 DEF ListOK, ListIsRead, Listed!ActionIsListed
  <2> QED
    BY <1>b, <2>1, <2>2, PanelStays, ListedFromParts
<1>7. ASSUME NEW n \in Listed!Names, Listed!handleCreate(n) PROVE ListedInv'
  <2>1. /\ Listed!Send("create", "create", n)
        /\ UNCHANGED <<exists, up, acted, Listed!view, s9, s10, question, typed, due>>
    BY <1>7 DEF Listed!handleCreate, Listed!panel
  <2>2. ReqsOK' /\ own' \in Nat
    BY <2>1, Sent
  <2> QED
    BY <1>0, <2>1, <2>2, ViewStays, ListedFromParts DEF WorldOK
<1>8. ASSUME NEW n \in Listed!Names, Listed!Change(n) PROVE ListedInv'
  <2>1. /\ UNCHANGED <<own, acted, Listed!view, s9, s10, question, typed, instanceReqs, due>>
        /\ \/ up' = (up \ {n}) \cup ({n} \ up) /\ UNCHANGED exists
           \/ exists' = (exists \ {n}) \cup ({n} \ exists) /\ UNCHANGED up
    BY <1>8 DEF Listed!Change, Listed!panel
  <2>2. WorldOK'
    BY <1>0, <2>1 DEF WorldOK
  <2> QED
    BY <1>0, <1>a, <2>1, <2>2, ViewStays, ListedFromParts
<1>9. ASSUME NEW o \in {"controls", "card"}, Listed!handleStart(o) PROVE ListedInv'
  <2>1. /\ Listed!Shown /\ Listed!Send(o, "start", Listed!selectedId)
        /\ UNCHANGED <<exists, up, acted, Listed!view, s9, s10, question, typed, due>>
    BY <1>9 DEF Listed!handleStart, Listed!panel
  <2>2. ReqsOK' /\ own' \in Nat
    BY <1>c, <2>1, Sent
  <2> QED
    BY <1>0, <2>1, <2>2, ViewStays, ListedFromParts DEF WorldOK
<1>10. CASE Listed!AskStop
  <2>1. /\ Listed!Shown /\ question' = "stop"
        /\ UNCHANGED <<exists, up, own, acted, Listed!view, s9, s10, typed, instanceReqs, due>>
    BY <1>10 DEF Listed!AskStop
  <2>2. QuestionOK'
    BY <1>0, <2>1, ViewStays, Zenon DEF QuestionOK, QuestionIsOfShown
  <2> QED
    BY <1>0, <1>a, <1>b, <2>1, <2>2, ViewStays, ListedFromParts
<1>11. CASE Listed!handleStopConfirm
  <2>1. /\ question = "stop" /\ question' = "none"
        /\ \/ Listed!Send("controls", "stop", Listed!selectedId)
           \/ UNCHANGED <<own, instanceReqs>>
        /\ UNCHANGED <<exists, up, acted, Listed!view, s9, s10, typed, due>>
    BY <1>11 DEF Listed!handleStopConfirm
  <2>2. ReqsOK' /\ own' \in Nat
    <3>1. CASE Listed!Send("controls", "stop", Listed!selectedId)
      BY <1>d, <2>1, <3>1, Sent
    <3>2. CASE UNCHANGED <<own, instanceReqs>>
      BY <1>0, <1>a, <3>2 DEF WorldOK
    <3> QED
      BY <2>1, <3>1, <3>2
  <2>3. QuestionOK'
    BY <1>0, <2>1 DEF QuestionOK, QuestionIsOfShown
  <2> QED
    BY <1>0, <2>1, <2>2, <2>3, ViewStays, ListedFromParts DEF WorldOK
<1>12. CASE Listed!AskDelete \/ Listed!Cancel
  <2>1. /\ question' = "none" \/ (question' = "delete" /\ Listed!Shown)
        /\ typed' \in Nat
        /\ UNCHANGED <<exists, up, own, acted, Listed!view, s9, s10, instanceReqs, due>>
    <3>1. Count \in Nat
      BY ListBounds
    <3>2. CASE Listed!AskDelete
      BY <3>1, <3>2 DEF Listed!AskDelete, Listed!Names
    <3>3. CASE Listed!Cancel
      BY <3>3 DEF Listed!Cancel, Listed!None
    <3> QED
      BY <1>12, <3>2, <3>3
  <2>2. QuestionOK'
    <3>1. CASE question' = "none"
      BY <2>1, <3>1 DEF QuestionOK, QuestionIsOfShown
    <3>2. CASE question' = "delete" /\ Listed!Shown
      BY <2>1, <3>2, ViewStays, Zenon DEF QuestionOK, QuestionIsOfShown
    <3> QED
      BY <2>1, <3>1, <3>2
  <2> QED
    BY <1>0, <1>a, <1>b, <2>1, <2>2, ViewStays, ListedFromParts
<1>13. CASE Listed!handleDelete
  <2>1. /\ question = "delete" /\ typed = Listed!selectedId /\ Listed!Send("delete", "delete", Listed!selectedId)
        /\ UNCHANGED <<exists, up, acted, Listed!view, s9, s10, question, typed, due>>
    BY <1>13 DEF Listed!handleDelete, Listed!panel
  <2>2. ReqsOK' /\ own' \in Nat
    BY <1>d, <2>1, Sent
  <2> QED
    BY <1>0, <2>1, <2>2, ViewStays, ListedFromParts DEF WorldOK
<1>14. ASSUME NEW r \in instanceReqs, Listed!Serve(r) PROVE ListedInv'
  <2>0. UNCHANGED <<own, Listed!view, s9, s10, question, typed, due>>
    BY <1>14 DEF Listed!Serve, Listed!panel
  <2>1. PICK ok \in BOOLEAN :
          /\ instanceReqs' = (instanceReqs \ {r}) \cup {[r EXCEPT !.at = IF ok THEN "done" ELSE "refused"]}
          /\ acted' = IF ok THEN acted + 1 ELSE acted
          /\ exists' = IF ~ok THEN exists ELSE CASE r.kind = "delete" -> exists \ {r.name}
                                                 [] r.kind = "create" -> exists \cup {r.name} [] OTHER -> exists
          /\ up' = IF ~ok THEN up ELSE CASE r.kind = "start" -> up \cup {r.name}
                                         [] r.kind = "stop" -> up \ {r.name} [] OTHER -> up
    BY <1>14 DEF Listed!Serve
  <2> DEFINE q == [r EXCEPT !.at = IF ok THEN "done" ELSE "refused"]
  <2>2. q \in InstanceRequests /\ (q.kind = "delete" => q.typed = q.name)
    BY <1>0, <1>e DEF InstanceRequests, ReqsOK, Listed!DeletesWhatWasTyped
  <2>3. instanceReqs' = (instanceReqs \ {r}) \cup {q}
    BY <2>1
  <2> HIDE DEF q
  <2>4. ReqsOK'
    BY <1>0, <2>2, <2>3 DEF ReqsOK, Listed!DeletesWhatWasTyped
  <2>5. WorldOK'
    BY <1>0, <1>e, <2>0, <2>1 DEF WorldOK
  <2>6. acted' \in Nat /\ acted' >= acted /\ UNCHANGED <<instanceList, listReq, due>>
    BY <1>0, <2>0, <2>1 DEF ListOK, Listed!view
  <2>7. ListOK'
    BY <1>0, <2>6 DEF ListOK, ListIsRead, Listed!ActionIsListed
  <2> QED
    BY <2>0, <2>4, <2>5, <2>7, ViewStays, ListedFromParts
<1>15. ASSUME NEW r \in instanceReqs, Listed!Refused(r) PROVE ListedInv'
  <2>1. /\ instanceReqs' = instanceReqs \ {r}
        /\ UNCHANGED <<exists, up, own, acted, Listed!view, s9, s10, question, typed, due>>
    BY <1>15 DEF Listed!Refused, Listed!panel
  <2>2. ReqsOK'
    BY <1>0, <2>1 DEF ReqsOK, Listed!DeletesWhatWasTyped
  <2> QED
    BY <1>0, <1>b, <2>1, <2>2, ViewStays, ListedFromParts
<1>16. ASSUME NEW r \in instanceReqs, Listed!Started(r) PROVE ListedInv'
  <2>1. /\ instanceReqs' = instanceReqs \ {r}
        /\ UNCHANGED <<exists, up, own, acted, instanceList, s8, s9, s10, question, typed>>
        /\ UNCHANGED <<listReq, due>> \/ (Listed!Refetch(0) /\ due' = acted)
    BY <1>16 DEF Listed!Started, Listed!panel, Listed!None
  <2>2. ReqsOK'
    BY <1>0, <2>1 DEF ReqsOK, Listed!DeletesWhatWasTyped
  <2>3. UNCHANGED <<listReq, due>> => ListOK'
    BY <1>0, <2>1 DEF ListOK, ListIsRead, Listed!ActionIsListed
  <2> QED
    BY <1>b, <1>f, <1>g, <2>1, <2>2, <2>3, ListedFromParts
<1>17. ASSUME NEW r \in instanceReqs, Listed!Deleted(r) PROVE ListedInv'
  <2>1. /\ Listed!Refetch(0) /\ due' = acted /\ UNCHANGED <<exists, up, own, acted, instanceList>>
        /\ instanceReqs' = IF Listed!Shown' THEN instanceReqs \ {r} ELSE {[q EXCEPT !.live = FALSE] : q \in instanceReqs \ {r}}
        /\ IF r.live \/ ~Listed!Shown' THEN question' = "none" /\ typed' = 0 ELSE UNCHANGED <<question, typed>>
    BY <1>17 DEF Listed!Deleted, Listed!panel, Listed!None
  <2>2. ReqsOK'
    <3>1. CASE instanceReqs' = instanceReqs \ {r}
      BY <1>0, <3>1 DEF ReqsOK, Listed!DeletesWhatWasTyped
    <3>2. CASE instanceReqs' = {[q EXCEPT !.live = FALSE] : q \in instanceReqs \ {r}}
      <4>1. instanceReqs \ {r} \in SUBSET InstanceRequests /\ \A q \in instanceReqs \ {r} : q.kind = "delete" => q.typed = q.name
        BY <1>0 DEF ReqsOK, Listed!DeletesWhatWasTyped
      <4> QED
        BY <3>2, <4>1, LeftBehind
    <3> QED
      BY <2>1, <3>1, <3>2
  <2>3. QuestionOK'
    <3>1. CASE question' = "none" /\ typed' = 0
      BY <3>1 DEF QuestionOK, QuestionIsOfShown
    <3>2. CASE Listed!Shown' /\ UNCHANGED <<question, typed>>
      BY <1>0, <3>2 DEF QuestionOK, QuestionIsOfShown
    <3> QED
      BY <2>1, <3>1, <3>2
  <2> QED
    BY <1>b, <1>f, <2>1, <2>2, <2>3, ListedFromParts
<1>18. ASSUME NEW r \in instanceReqs, Listed!Created(r) PROVE ListedInv'
  <2>1. /\ instanceReqs' = instanceReqs \ {r} /\ Listed!Refetch(r.name) /\ due' = acted
        /\ UNCHANGED <<exists, up, own, acted, instanceList, s8, s9, s10, question, typed>>
    BY <1>18 DEF Listed!Created, Listed!panel
  <2>2. ReqsOK'
    BY <1>0, <2>1 DEF ReqsOK, Listed!DeletesWhatWasTyped
  <2> QED
    BY <1>b, <1>e, <1>f, <1>g, <2>1, <2>2, ListedFromParts
<1> QED
  BY <1>1, <1>2, <1>3, <1>4, <1>5, <1>6, <1>7, <1>8, <1>9, <1>10, <1>11, <1>12, <1>13, <1>14, <1>15, <1>16,
     <1>17, <1>18 DEF Listed!Next

LEMMA ListedStays == ASSUME ListedInv, UNCHANGED slots PROVE ListedInv'
BY DEF slots, ListedInv, ListedTypeOK, ListIsRead, QuestionIsOfShown, Listed!ActionIsListed,
   Listed!DeletesWhatWasTyped, Listed!Shown, Listed!selectedId, Listed!None

HIDE DEF exists, up, own, acted, instanceList, listReq, question, typed, instanceReqs, due

-----------------------------------------------------------------------------
(***************************************************************************)
(* The registration with Codex.  A request has seen whatever Codex had     *)
(* since it was sent; and an answer to a tab that was told of a success    *)
(* says what Codex has.                                                    *)
(***************************************************************************)
installed == s1
registered == s2
late == s3
request == s4
seen == s5
fetch == s6
codexData == s7
failed == s8
acts == s9
told == s10
USE DEF installed, registered, late, request, seen, fetch, codexData, failed, acts, told

CodexRequests == [kind : {"none", "setup", "remove"},
                  at : {"idle", "resolve", "command", "check", "fallback", "answered"},
                  inspected : BOOLEAN, ok : BOOLEAN]

CodexTypeOK ==
  /\ registered \in BOOLEAN /\ request \in [Tabs -> CodexRequests] /\ seen \in [Tabs -> SUBSET BOOLEAN]
  /\ fetch \in [Tabs -> {"none", "sent", "registered", "unregistered", "unknown", "missing", "error"}]
  /\ codexData \in [Tabs -> {"none", "registered", "unregistered", "unknown", "missing"}]
  /\ failed \in [Tabs -> BOOLEAN] /\ told \in [Tabs -> BOOLEAN]

\* A request under way has seen what Codex has now, and only a removal checks.
SeenIsTrue ==
  \A t \in Tabs : /\ request[t].at # "idle" => registered \in seen[t] /\ request[t].kind # "none"
                  /\ request[t].at \in {"check", "fallback"} => request[t].kind = "remove"

\* What is on its way to a tab that was told, and what it shows.
ToldIsShown ==
  \A t \in Tabs : told[t] =>
    /\ fetch[t] \in {"registered", "unregistered"} => (fetch[t] = "registered") = registered

CodexInv == CodexTypeOK /\ SeenIsTrue /\ ToldIsShown /\ Codex!OkIsTrue /\ Codex!DoneIsShown

LEMMA CodexInit == ASSUME Codex!Init PROVE CodexInv
<1> USE DEF Codex!Init
<1>1. Codex!Idle \in CodexRequests /\ Codex!Idle.at = "idle"
  BY DEF Codex!Idle, CodexRequests
<1>2. CodexTypeOK
  BY <1>1 DEF CodexTypeOK
<1>3. SeenIsTrue
  BY <1>1 DEF SeenIsTrue
<1>4. Codex!OkIsTrue
  BY <1>1 DEF Codex!OkIsTrue
<1>5. ToldIsShown /\ Codex!DoneIsShown
  BY DEF ToldIsShown, Codex!DoneIsShown
<1> QED
  BY <1>2, <1>3, <1>4, <1>5 DEF CodexInv

(* What Codex has changes, or stays.                                       *)
CodexChanges == Codex!Stays \/ \E v \in BOOLEAN : Codex!Becomes(v)

LEMMA CodexWorld ==
  ASSUME CodexInv, CodexChanges
  PROVE  /\ registered' \in BOOLEAN /\ seen' \in [Tabs -> SUBSET BOOLEAN] /\ told' \in [Tabs -> BOOLEAN]
         /\ \A t \in Tabs : request[t].at # "idle" => registered' \in seen'[t]
         /\ \A t \in Tabs : seen[t] \subseteq seen'[t]
         /\ \A t \in Tabs : told'[t] => told[t] /\ registered' = registered
<1>1. CASE Codex!Stays
  BY <1>1 DEF Codex!Stays, CodexInv, CodexTypeOK, SeenIsTrue
<1>2. ASSUME NEW v \in BOOLEAN, Codex!Becomes(v)
      PROVE  /\ registered' \in BOOLEAN /\ seen' \in [Tabs -> SUBSET BOOLEAN] /\ told' \in [Tabs -> BOOLEAN]
             /\ \A t \in Tabs : request[t].at # "idle" => registered' \in seen'[t]
             /\ \A t \in Tabs : seen[t] \subseteq seen'[t]
             /\ \A t \in Tabs : told'[t] => told[t] /\ registered' = registered
  <2>1. registered' = v /\ seen \in [Tabs -> SUBSET BOOLEAN]
    BY <1>2 DEF Codex!Becomes, CodexInv, CodexTypeOK
  <2>2. seen' = [t \in Tabs |-> IF request[t].at = "idle" THEN seen[t] ELSE seen[t] \cup {v}]
    BY <1>2 DEF Codex!Becomes
  <2>3. told' = [t \in Tabs |-> told[t] /\ v = registered]
    BY <1>2 DEF Codex!Becomes
  <2>4. told' \in [Tabs -> BOOLEAN]
    BY <2>3, Zenon
  <2>5. \A t \in Tabs : told'[t] => told[t] /\ v = registered
    BY <2>3, Zenon
  <2>6. seen' \in [Tabs -> SUBSET BOOLEAN]
    BY <2>1, <2>2
  <2>7. \A t \in Tabs : (request[t].at # "idle" => v \in seen'[t]) /\ seen[t] \subseteq seen'[t]
    BY <2>2
  <2> QED
    BY <2>1, <2>4, <2>5, <2>6, <2>7
<1> QED
  BY <1>1, <1>2 DEF CodexChanges

(* A request goes on, while Codex is changed or not.                       *)
LEMMA CodexGoesOn ==
  ASSUME CodexInv, CodexChanges, UNCHANGED <<installed, fetch, codexData, failed>>,
         NEW t \in Tabs, NEW q \in CodexRequests, request' = [request EXCEPT ![t] = q],
         request[t].at # "idle", q.kind = request[t].kind, q.at \in {"check", "fallback"} => q.kind = "remove",
         q.at = "answered" /\ q.ok /\ q.inspected /\ installed => (q.kind = "setup") \in seen'[t]
  PROVE  CodexInv'
<1>1. /\ registered' \in BOOLEAN /\ seen' \in [Tabs -> SUBSET BOOLEAN] /\ told' \in [Tabs -> BOOLEAN]
      /\ \A z \in Tabs : request[z].at # "idle" => registered' \in seen'[z]
      /\ \A z \in Tabs : seen[z] \subseteq seen'[z]
      /\ \A z \in Tabs : told'[z] => told[z] /\ registered' = registered
  BY CodexWorld
<1>2. request' \in [Tabs -> CodexRequests] /\ request'[t] = q /\ \A z \in Tabs \ {t} : request'[z] = request[z]
  BY DEF CodexInv, CodexTypeOK
<1>3. CodexTypeOK'
  BY <1>1, <1>2 DEF CodexInv, CodexTypeOK
<1>4. SeenIsTrue'
  BY <1>1, <1>2 DEF CodexInv, SeenIsTrue
<1>5. ToldIsShown'
  BY <1>1 DEF CodexInv, ToldIsShown
<1>6. Codex!DoneIsShown'
  BY <1>1 DEF CodexInv, Codex!DoneIsShown
<1>7. Codex!OkIsTrue'
  <2> SUFFICES ASSUME NEW z \in Tabs, request'[z].at = "answered", request'[z].ok, request'[z].inspected, installed
               PROVE  (request'[z].kind = "setup") \in seen'[z]
    BY DEF Codex!OkIsTrue
  <2>1. CASE z = t
    BY <1>2, <2>1
  <2>2. CASE z # t
    <3>1. (request[z].kind = "setup") \in seen[z]
      BY <1>2, <2>2 DEF CodexInv, Codex!OkIsTrue
    <3> QED
      BY <1>1, <1>2, <2>2, <3>1
  <2> QED
    BY <2>1, <2>2
<1> QED
  BY <1>3, <1>4, <1>5, <1>6, <1>7 DEF CodexInv

(* Codex is changed by what no request waits for.                          *)
LEMMA CodexElsewhere ==
  ASSUME CodexInv, CodexChanges, UNCHANGED <<installed, request, fetch, codexData, failed>>
  PROVE  CodexInv'
<1>1. /\ registered' \in BOOLEAN /\ seen' \in [Tabs -> SUBSET BOOLEAN] /\ told' \in [Tabs -> BOOLEAN]
      /\ \A z \in Tabs : request[z].at # "idle" => registered' \in seen'[z]
      /\ \A z \in Tabs : seen[z] \subseteq seen'[z]
      /\ \A z \in Tabs : told'[z] => told[z] /\ registered' = registered
  BY CodexWorld
<1>2. CodexTypeOK'
  BY <1>1 DEF CodexInv, CodexTypeOK
<1>3. SeenIsTrue'
  BY <1>1 DEF CodexInv, SeenIsTrue
<1>4. ToldIsShown'
  BY <1>1 DEF CodexInv, ToldIsShown
<1>5. Codex!DoneIsShown'
  BY <1>1 DEF CodexInv, Codex!DoneIsShown
<1>6. Codex!OkIsTrue'
  BY <1>1 DEF CodexInv, Codex!OkIsTrue
<1> QED
  BY <1>2, <1>3, <1>4, <1>5, <1>6 DEF CodexInv

LEMMA CodexStep == ASSUME CodexInv, Codex!Next PROVE CodexInv'
<1>0. /\ request \in [Tabs -> CodexRequests] /\ seen \in [Tabs -> SUBSET BOOLEAN] /\ registered \in BOOLEAN
      /\ \A t \in Tabs : request[t] \in CodexRequests
      /\ \A t \in Tabs : request[t].at # "idle" => registered \in seen[t] /\ request[t].kind # "none"
      /\ \A t \in Tabs : request[t].at \in {"check", "fallback"} => request[t].kind = "remove"
  BY DEF CodexInv, CodexTypeOK, SeenIsTrue
<1>1. ASSUME NEW t \in Tabs, NEW at \in {"command", "check", "fallback"}, Codex!At(t, at), CodexChanges,
             request[t].at # "idle", at \in {"check", "fallback"} => request[t].kind = "remove",
             UNCHANGED <<installed, fetch, codexData, failed>>
      PROVE  CodexInv'
  <2> DEFINE q == [request[t] EXCEPT !.at = at]
  <2>1. q \in CodexRequests /\ q.at = at /\ q.kind = request[t].kind
    BY <1>0 DEF CodexRequests
  <2>2. request' = [request EXCEPT ![t] = q]
    BY <1>1 DEF Codex!At
  <2> HIDE DEF q
  <2> QED
    BY <1>1, <2>1, <2>2, CodexGoesOn
<1>2. ASSUME NEW t \in Tabs, NEW ok \in BOOLEAN, NEW inspected \in BOOLEAN, Codex!Answer(t, ok, inspected),
             CodexChanges, request[t].at # "idle", UNCHANGED <<installed, fetch, codexData, failed>>,
             ok /\ inspected /\ installed => (request[t].kind = "setup") \in seen'[t]
      PROVE  CodexInv'
  <2> DEFINE q == [request[t] EXCEPT !.at = "answered", !.ok = ok, !.inspected = inspected]
  <2>1. q \in CodexRequests /\ q.at = "answered" /\ q.kind = request[t].kind /\ q.ok = ok /\ q.inspected = inspected
    BY <1>0 DEF CodexRequests
  <2>2. request' = [request EXCEPT ![t] = q]
    BY <1>2 DEF Codex!Answer
  <2> HIDE DEF q
  <2>3. q.at = "answered" /\ q.ok /\ q.inspected /\ installed => (q.kind = "setup") \in seen'[t]
    BY <1>2, <2>1
  <2> QED
    BY <1>2, <2>1, <2>2, <2>3, CodexGoesOn
<1>3. Codex!Stays => CodexChanges /\ \A t \in Tabs : request[t].at # "idle" => registered \in seen'[t]
  BY <1>0 DEF CodexChanges, Codex!Stays
<1>4. \A v \in BOOLEAN : Codex!Becomes(v) =>
        CodexChanges /\ \A t \in Tabs : request[t].at # "idle" => v \in seen'[t]
  BY DEF CodexChanges, Codex!Becomes
<1>5. ASSUME NEW t \in Tabs, Codex!Resolve(t) PROVE CodexInv'
  <2>1. /\ request[t].at = "resolve" /\ Codex!Stays /\ UNCHANGED <<installed, fetch, codexData, failed>>
        /\ \/ Codex!At(t, "command")
           \/ Codex!Answer(t, request[t].kind = "remove", ~installed)
    BY <1>5 DEF Codex!Resolve, Codex!panel
  <2>2. CodexChanges /\ request[t].at # "idle"
    BY <1>3, <2>1
  <2>3. CASE Codex!At(t, "command")
    BY <1>1, <2>1, <2>2, <2>3
  <2>4. CASE Codex!Answer(t, request[t].kind = "remove", ~installed)
    <3>1. (request[t].kind = "remove") \in BOOLEAN /\ (~installed) \in BOOLEAN
      OBVIOUS
    <3>2. (request[t].kind = "remove") /\ ~installed /\ installed => (request[t].kind = "setup") \in seen'[t]
      OBVIOUS
    <3> QED
      BY <1>2, <2>1, <2>2, <2>4, <3>1, <3>2
  <2> QED
    BY <2>1, <2>3, <2>4
<1>6. ASSUME NEW t \in Tabs, Codex!RunCommand(t) PROVE CodexInv'
  <2> DEFINE set == request[t].kind = "setup"
  <2>0. set \in BOOLEAN
    OBVIOUS
  <2>1. /\ request[t].at = "command" /\ UNCHANGED <<installed, fetch, codexData, failed>>
        /\ (Codex!Becomes(set) /\ Codex!Ended(t, TRUE)) \/ (Codex!Stays /\ Codex!Ended(t, FALSE))
    BY <1>6 DEF Codex!RunCommand, Codex!panel
  <2>2. \A done \in BOOLEAN : Codex!Ended(t, done) =>
          \/ set /\ Codex!Answer(t, done, TRUE)
          \/ ~set /\ Codex!At(t, "check")
    BY DEF Codex!Ended
  <2>3. ASSUME CodexChanges, Codex!At(t, "check"), ~set PROVE CodexInv'
    <3>1. request[t].kind = "remove"
      BY <1>0, <2>1, <2>3 DEF CodexRequests
    <3> QED
      BY <1>1, <2>1, <2>3, <3>1
  <2>4. CASE Codex!Becomes(set) /\ Codex!Ended(t, TRUE)
    <3>1. CodexChanges /\ set \in seen'[t]
      BY <1>4, <2>0, <2>1, <2>4
    <3>2. CASE set /\ Codex!Answer(t, TRUE, TRUE)
      BY <1>2, <2>1, <3>1, <3>2
    <3> QED
      BY <2>2, <2>3, <2>4, <3>1, <3>2
  <2>5. CASE Codex!Stays /\ Codex!Ended(t, FALSE)
    <3>1. CodexChanges
      BY <1>3, <2>5
    <3>2. CASE Codex!Answer(t, FALSE, TRUE)
      BY <1>2, <2>1, <3>1, <3>2
    <3> QED
      BY <2>2, <2>3, <2>5, <3>1, <3>2
  <2> QED
    BY <2>1, <2>4, <2>5
<1>7. ASSUME NEW t \in Tabs, Codex!Check(t) PROVE CodexInv'
  <2>1. /\ request[t].at = "check" /\ Codex!Stays /\ UNCHANGED <<installed, fetch, codexData, failed>>
        /\ \E heard \in Codex!Inspect : IF heard = "registered" THEN Codex!At(t, "fallback")
                                        ELSE Codex!Answer(t, TRUE, heard = "unregistered")
    BY <1>7 DEF Codex!Check, Codex!panel
  <2>2. CodexChanges /\ request[t].at # "idle" /\ request[t].kind = "remove" /\ registered \in seen'[t]
    BY <1>0, <1>3, <2>1
  <2>3. CASE Codex!At(t, "fallback")
    BY <1>1, <2>1, <2>2, <2>3
  <2>4. CASE Codex!Answer(t, TRUE, FALSE)
    BY <1>2, <2>1, <2>2, <2>4
  <2>5. CASE Codex!Answer(t, TRUE, TRUE) /\ ~registered
    <3>1. (request[t].kind = "setup") = FALSE /\ registered = FALSE
      BY <1>0, <2>2, <2>5, SMTT(40)
    <3>2. (request[t].kind = "setup") \in seen'[t]
      BY <2>2, <3>1
    <3> QED
      BY <1>2, <2>1, <2>2, <2>5, <3>2
  <2>6. PICK heard \in Codex!Inspect : IF heard = "registered" THEN Codex!At(t, "fallback")
                                       ELSE Codex!Answer(t, TRUE, heard = "unregistered")
    BY <2>1
  <2>7. heard \in {IF registered THEN "registered" ELSE "unregistered", "unknown"}
    BY <2>6 DEF Codex!Inspect
  <2>8. CASE heard = "registered"
    BY <2>3, <2>6, <2>8
  <2>9. CASE heard # "registered"
    <3>1. Codex!Answer(t, TRUE, heard = "unregistered")
      BY <2>6, <2>9
    <3>2. CASE heard = "unregistered"
      <4>1. (heard = "unregistered") = TRUE
        BY <3>2
      <4>2. Codex!Answer(t, TRUE, TRUE)
        BY <3>1, <4>1 DEF Codex!Answer
      <4> QED
        BY <2>5, <2>7, <3>2, <4>2
    <3>3. CASE heard # "unregistered"
      <4>1. (heard = "unregistered") = FALSE
        BY <3>3
      <4>2. Codex!Answer(t, TRUE, FALSE)
        BY <3>1, <4>1 DEF Codex!Answer
      <4> QED
        BY <2>4, <4>2
    <3> QED
      BY <3>2, <3>3
  <2> QED
    BY <2>8, <2>9
<1>8. ASSUME NEW t \in Tabs, Codex!Fallback(t) PROVE CodexInv'
  <2>1. /\ request[t].at = "fallback" /\ UNCHANGED <<installed, fetch, codexData, failed>>
        /\ \/ Codex!Becomes(FALSE) /\ Codex!Answer(t, TRUE, TRUE)
           \/ Codex!Stays /\ Codex!Answer(t, ~registered, TRUE)
           \/ Codex!Stays /\ Codex!Answer(t, FALSE, TRUE)
    BY <1>8 DEF Codex!Fallback, Codex!panel
  <2>2. request[t].at # "idle" /\ request[t].kind = "remove"
    BY <1>0, <2>1
  <2>3. CASE Codex!Becomes(FALSE) /\ Codex!Answer(t, TRUE, TRUE)
    BY <1>2, <1>4, <2>1, <2>2, <2>3
  <2>4. CASE Codex!Stays /\ Codex!Answer(t, ~registered, TRUE)
    <3>1. CodexChanges /\ registered \in seen'[t] /\ (~registered) \in BOOLEAN
      BY <1>3, <2>2, <2>4
    <3>2. ~registered => (request[t].kind = "setup") \in seen'[t]
      BY <1>0, <2>2, <3>1
    <3> QED
      BY <1>2, <2>1, <2>2, <2>4, <3>1, <3>2
  <2>5. CASE Codex!Stays /\ Codex!Answer(t, FALSE, TRUE)
    BY <1>2, <1>3, <2>1, <2>2, <2>5
  <2> QED
    BY <2>1, <2>3, <2>4, <2>5
<1>9. ASSUME NEW t \in Tabs, Codex!Get(t) PROVE CodexInv'
  <2>1. /\ fetch[t] = "sent" /\ UNCHANGED <<installed, registered, request, seen, codexData, failed, told>>
        /\ \E r \in (IF installed THEN Codex!Inspect ELSE {}) \cup {"missing", "error"} :
             fetch' = [fetch EXCEPT ![t] = r]
    BY <1>9 DEF Codex!Get, Codex!server
  <2>2. PICK r \in (IF installed THEN Codex!Inspect ELSE {}) \cup {"missing", "error"} :
             fetch' = [fetch EXCEPT ![t] = r]
    BY <2>1
  <2>3. /\ r \in {"registered", "unregistered", "unknown", "missing", "error"}
        /\ r \in {"registered", "unregistered"} => (r = "registered") = registered
    BY <1>0, <2>2 DEF Codex!Inspect
  <2>4. /\ fetch' \in [Tabs -> {"none", "sent", "registered", "unregistered", "unknown", "missing", "error"}]
        /\ fetch'[t] = r /\ \A z \in Tabs \ {t} : fetch'[z] = fetch[z]
    BY <2>2, <2>3 DEF CodexInv, CodexTypeOK
  <2>5. CodexTypeOK' /\ SeenIsTrue' /\ Codex!OkIsTrue'
    BY <2>1, <2>4 DEF CodexInv, CodexTypeOK, SeenIsTrue, Codex!OkIsTrue
  <2>6. ToldIsShown'
    BY <2>1, <2>3, <2>4 DEF CodexInv, ToldIsShown
  <2>7. Codex!DoneIsShown'
    BY <2>1, <2>3, <2>4 DEF CodexInv, Codex!DoneIsShown
  <2> QED
    BY <2>5, <2>6, <2>7 DEF CodexInv
<1>10. ASSUME NEW t \in Tabs, NEW k \in Codex!Kinds, Codex!Act(t, k) PROVE CodexInv'
  <2> DEFINE q == [Codex!Idle EXCEPT !.kind = k, !.at = "resolve"]
  <2>1. q \in CodexRequests /\ q.at = "resolve" /\ q.kind # "none"
    BY DEF CodexRequests, Codex!Idle, Codex!Kinds
  <2>2. /\ request' = [request EXCEPT ![t] = q] /\ seen' = [seen EXCEPT ![t] = {registered}]
        /\ told' = [told EXCEPT ![t] = FALSE] /\ UNCHANGED <<installed, registered, fetch, codexData, failed>>
    BY <1>10 DEF Codex!Act, Codex!server, Codex!panel
  <2> HIDE DEF q
  <2>3. /\ request' \in [Tabs -> CodexRequests] /\ request'[t] = q /\ \A z \in Tabs \ {t} : request'[z] = request[z]
        /\ seen' \in [Tabs -> SUBSET BOOLEAN] /\ seen'[t] = {registered} /\ \A z \in Tabs \ {t} : seen'[z] = seen[z]
        /\ told' \in [Tabs -> BOOLEAN] /\ told'[t] = FALSE /\ \A z \in Tabs \ {t} : told'[z] = told[z]
    BY <1>0, <2>1, <2>2 DEF CodexInv, CodexTypeOK
  <2>4. CodexTypeOK'
    BY <2>2, <2>3 DEF CodexInv, CodexTypeOK
  <2>5. SeenIsTrue' /\ Codex!OkIsTrue'
    BY <2>1, <2>2, <2>3 DEF CodexInv, SeenIsTrue, Codex!OkIsTrue
  <2>6. ToldIsShown'
    BY <2>2, <2>3 DEF CodexInv, ToldIsShown
  <2>7. Codex!DoneIsShown'
    BY <2>2, <2>3 DEF CodexInv, Codex!DoneIsShown
  <2> QED
    BY <2>4, <2>5, <2>6, <2>7 DEF CodexInv
<1>11. ASSUME NEW t \in Tabs, Codex!Receive(t) \/ Codex!Lost(t) PROVE CodexInv'
  <2>0. Codex!Idle \in CodexRequests /\ Codex!Idle.at = "idle"
    BY DEF Codex!Idle, CodexRequests
  <2>1. /\ request' = [request EXCEPT ![t] = Codex!Idle] /\ seen' = [seen EXCEPT ![t] = {}]
        /\ UNCHANGED <<installed, registered, codexData, failed>>
    BY <1>11 DEF Codex!Receive, Codex!Lost, Codex!server, Codex!panel
  <2>2. \/ UNCHANGED <<fetch, told>>
        \/ /\ fetch' = (IF request[t].ok THEN [fetch EXCEPT ![t] = "sent"] ELSE fetch)
           /\ told' = [told EXCEPT ![t] = request[t].ok /\ registered = (request[t].kind = "setup")]
    BY <1>11 DEF Codex!Receive, Codex!Lost, Codex!panel
  <2>3. /\ request' \in [Tabs -> CodexRequests] /\ request'[t] = Codex!Idle /\ \A z \in Tabs \ {t} : request'[z] = request[z]
        /\ seen' \in [Tabs -> SUBSET BOOLEAN] /\ \A z \in Tabs \ {t} : seen'[z] = seen[z]
    BY <1>0, <2>0, <2>1
  <2>4. SeenIsTrue' /\ Codex!OkIsTrue'
    BY <2>0, <2>1, <2>3 DEF CodexInv, SeenIsTrue, Codex!OkIsTrue
  <2>5. /\ fetch' \in [Tabs -> {"none", "sent", "registered", "unregistered", "unknown", "missing", "error"}]
        /\ told' \in [Tabs -> BOOLEAN]
        /\ \A z \in Tabs : \/ fetch'[z] = fetch[z] /\ (told'[z] => told[z])
                           \/ fetch'[z] = "sent" \/ ~told'[z]
    <3>1. CASE UNCHANGED <<fetch, told>>
      BY <3>1 DEF CodexInv, CodexTypeOK
    <3>2. ASSUME fetch' = (IF request[t].ok THEN [fetch EXCEPT ![t] = "sent"] ELSE fetch),
                 told' = [told EXCEPT ![t] = request[t].ok /\ registered = (request[t].kind = "setup")]
          PROVE  /\ fetch' \in [Tabs -> {"none", "sent", "registered", "unregistered", "unknown", "missing", "error"}]
                 /\ told' \in [Tabs -> BOOLEAN]
                 /\ \A z \in Tabs : \/ fetch'[z] = fetch[z] /\ (told'[z] => told[z])
                                    \/ fetch'[z] = "sent" \/ ~told'[z]
      <4>0. fetch \in [Tabs -> {"none", "sent", "registered", "unregistered", "unknown", "missing", "error"}]
            /\ told \in [Tabs -> BOOLEAN]
        BY DEF CodexInv, CodexTypeOK
      <4>1. fetch' \in [Tabs -> {"none", "sent", "registered", "unregistered", "unknown", "missing", "error"}]
        BY <3>2, <4>0
      <4>2. /\ \A z \in Tabs \ {t} : fetch'[z] = fetch[z]
            /\ request[t].ok => fetch'[t] = "sent"
        BY <3>2, <4>0
      <4>3. told' \in [Tabs -> BOOLEAN]
        BY <3>2, <4>0, Zenon
      <4>4. (\A z \in Tabs \ {t} : told'[z] = told[z]) /\ (told'[t] => request[t].ok)
        BY <3>2, <4>0, Zenon
      <4> QED
        BY <4>1, <4>2, <4>3, <4>4
    <3> QED
      BY <2>2, <3>1, <3>2
  <2>6. CodexTypeOK'
    BY <2>1, <2>3, <2>5 DEF CodexInv, CodexTypeOK
  <2>7. ToldIsShown'
    BY <2>1, <2>5 DEF CodexInv, ToldIsShown
  <2>8. Codex!DoneIsShown'
    BY <2>1, <2>5 DEF CodexInv, Codex!DoneIsShown
  <2> QED
    BY <2>4, <2>6, <2>7, <2>8 DEF CodexInv
<1>12. ASSUME NEW t \in Tabs, Codex!Load(t) \/ Codex!Refocus(t) PROVE CodexInv'
  <2>1. /\ UNCHANGED <<installed, registered, request, seen, told>>
        /\ fetch' = [fetch EXCEPT ![t] = IF fetch[t] = "none" THEN "sent" ELSE "none"]
    BY <1>12 DEF Codex!Load, Codex!Refocus, Codex!server
  <2>2. \/ Codex!Refocus(t) /\ UNCHANGED <<codexData, failed>> /\ fetch[t] = "none"
        \/ /\ fetch[t] \notin {"none", "sent"} /\ failed' = [failed EXCEPT ![t] = fetch[t] = "error"]
           /\ codexData' = (IF fetch[t] = "error" THEN codexData ELSE [codexData EXCEPT ![t] = fetch[t]])
    BY <1>12 DEF Codex!Load, Codex!Refocus
  <2>3. /\ fetch \in [Tabs -> {"none", "sent", "registered", "unregistered", "unknown", "missing", "error"}]
        /\ codexData \in [Tabs -> {"none", "registered", "unregistered", "unknown", "missing"}]
        /\ failed \in [Tabs -> BOOLEAN]
    BY DEF CodexInv, CodexTypeOK
  <2>4. /\ fetch' \in [Tabs -> {"none", "sent", "registered", "unregistered", "unknown", "missing", "error"}]
        /\ fetch'[t] = IF fetch[t] = "none" THEN "sent" ELSE "none"
        /\ \A z \in Tabs \ {t} : fetch'[z] = fetch[z]
    BY <2>1, <2>3
  <2>5. SeenIsTrue' /\ Codex!OkIsTrue'
    BY <2>1 DEF CodexInv, SeenIsTrue, Codex!OkIsTrue
  <2>6. ToldIsShown'
    BY <2>1, <2>4 DEF CodexInv, ToldIsShown
  <2>7. /\ codexData' \in [Tabs -> {"none", "registered", "unregistered", "unknown", "missing"}]
        /\ failed' \in [Tabs -> BOOLEAN]
        /\ \A z \in Tabs \ {t} : codexData'[z] = codexData[z] /\ failed'[z] = failed[z]
        /\ fetch'[t] = "none" => failed'[t] = (fetch[t] = "error") /\ (fetch[t] # "error" => codexData'[t] = fetch[t])
    <3>1. CASE Codex!Refocus(t) /\ UNCHANGED <<codexData, failed>> /\ fetch[t] = "none"
      BY <2>3, <2>4, <3>1
    <3>2. ASSUME fetch[t] \notin {"none", "sent"}, failed' = [failed EXCEPT ![t] = fetch[t] = "error"],
                 codexData' = (IF fetch[t] = "error" THEN codexData ELSE [codexData EXCEPT ![t] = fetch[t]])
          PROVE  /\ codexData' \in [Tabs -> {"none", "registered", "unregistered", "unknown", "missing"}]
                 /\ failed' \in [Tabs -> BOOLEAN]
                 /\ \A z \in Tabs \ {t} : codexData'[z] = codexData[z] /\ failed'[z] = failed[z]
                 /\ failed'[t] = (fetch[t] = "error") /\ (fetch[t] # "error" => codexData'[t] = fetch[t])
      <4>1. failed' \in [Tabs -> BOOLEAN] /\ (\A z \in Tabs \ {t} : failed'[z] = failed[z]) /\ failed'[t] = (fetch[t] = "error")
        BY <2>3, <3>2, Zenon
      <4>2. /\ codexData' \in [Tabs -> {"none", "registered", "unregistered", "unknown", "missing"}]
            /\ \A z \in Tabs \ {t} : codexData'[z] = codexData[z]
            /\ fetch[t] # "error" => codexData'[t] = fetch[t]
        BY <2>3, <3>2
      <4> QED
        BY <4>1, <4>2
    <3> QED
      BY <2>2, <3>1, <3>2
  <2>8. CodexTypeOK'
    BY <2>1, <2>4, <2>7 DEF CodexInv, CodexTypeOK
  <2>9. Codex!DoneIsShown'
    <3> SUFFICES ASSUME NEW z \in Tabs, told'[z], fetch'[z] = "none", ~failed'[z],
                        codexData'[z] \in {"registered", "unregistered"}
                 PROVE  (codexData'[z] = "registered") = registered'
      BY DEF Codex!DoneIsShown
    <3>1. CASE z # t
      BY <2>1, <2>4, <2>7, <3>1 DEF CodexInv, Codex!DoneIsShown
    <3>2. CASE z = t
      <4>1. ~(fetch[t] = "error")
        BY <2>7, <3>2
      <4>2. codexData'[t] = fetch[t]
        BY <2>7, <3>2, <4>1
      <4> QED
        BY <2>1, <3>2, <4>2 DEF CodexInv, ToldIsShown
    <3> QED
      BY <3>1, <3>2
  <2> QED
    BY <2>5, <2>6, <2>8, <2>9 DEF CodexInv
<1>13. ASSUME NEW k \in Codex!Kinds, Codex!LateEffect(k) PROVE CodexInv'
  <2>1. Codex!Becomes(k = "setup") /\ (k = "setup") \in BOOLEAN /\ UNCHANGED <<installed, request, fetch, codexData, failed>>
    BY <1>13 DEF Codex!LateEffect, Codex!panel
  <2> QED
    BY <1>4, <2>1, CodexElsewhere
<1>14. CASE Codex!Elsewhere
  <2>1. Codex!Becomes(~registered) /\ (~registered) \in BOOLEAN /\ UNCHANGED <<installed, request, fetch, codexData, failed>>
    BY <1>14 DEF Codex!Elsewhere, Codex!panel
  <2> QED
    BY <1>4, <2>1, CodexElsewhere
<1> QED
  BY <1>5, <1>6, <1>7, <1>8, <1>9, <1>10, <1>11, <1>12, <1>13, <1>14 DEF Codex!Next

LEMMA CodexStays == ASSUME CodexInv, UNCHANGED slots PROVE CodexInv'
BY DEF slots, CodexInv, CodexTypeOK, SeenIsTrue, ToldIsShown, Codex!OkIsTrue, Codex!DoneIsShown

HIDE DEF installed, registered, late, request, seen, fetch, codexData, failed, acts, told

-----------------------------------------------------------------------------
(***************************************************************************)
(* The archive.  While the requests of the page are made one at a time and *)
(* nobody else sets a flag, one that was answered with success tells what  *)
(* the flag is now, and else what the page shows of it is true: what it    *)
(* remembers, unless an effect went without its answer, and the queue of   *)
(* the bound instance, unless a write is not followed by a read of it.     *)
(* What a fetch under way has read is then the flag, and an answer in the  *)
(* cache that is not stale is it too, whichever instance is selected.      *)
(***************************************************************************)
flags == s1
sel == s2
remembered == s3
queue == s4
row == s6
item == s7
slips == s10
USE DEF flags, sel, remembered, queue, row, item, slips

LEMMA ArchiveBounds == Bound \in ArchiveInsts
BY ControlsAssumption

Flaggings == [kind : {"none", "flag", "unflag"}, at : {"idle", "sent", "answered"}, ok : BOOLEAN, inst : ArchiveInsts]
QueueActions ==
  [kind : {"none", "unflag", "restore"}, at : {"idle", "sent", "answered", "waiting"}, ok : BOOLEAN, inst : ArchiveInsts]
Queues == [data : {"none", "flagged", "empty"}, failed : BOOLEAN, stale : BOOLEAN, fetch : {"no", "sent", "flagged", "empty"}]

ArchiveTypeOK ==
  /\ flags \in [ArchiveInsts -> BOOLEAN] /\ sel \in ArchiveInsts
  /\ remembered \in {"nothing", "flagged", "unflagged"} /\ queue \in [ArchiveInsts -> Queues]
  /\ row \in Flaggings /\ item \in QueueActions /\ slips \subseteq Archive!Slips

\* Nothing else moves the flag meanwhile.
Undisturbed == "elsewhere" \notin slips /\ "crossed" \notin slips
RowTells == row.at = "answered" /\ row.ok
ItemTells == (item.at = "answered" /\ item.ok) \/ item.at = "waiting"

AnswerTells ==
  Undisturbed => /\ row.at = "idle" \/ item.at = "idle"
                 /\ RowTells => flags[Bound] = (row.kind = "flag")
                 /\ ItemTells => ~flags[Bound]
PageTells ==
  Undisturbed /\ ~RowTells /\ ~ItemTells /\ "lost" \notin slips /\ remembered # "nothing"
    => (remembered = "flagged") = flags[Bound]

\* What a query q, of the selected instance or of another, says of a flag f.
QueueTells(q, shown, f) ==
  /\ q.fetch \in {"flagged", "empty"} => (q.fetch = "flagged") = f
  /\ q.fetch = "no" /\ ~q.stale => (q.data = "flagged") = f
  /\ shown /\ q.fetch = "no" /\ ~q.failed => (q.data = "flagged") = f
QueuesTell ==
  Undisturbed /\ ~RowTells /\ ~ItemTells /\ "unread" \notin slips => QueueTells(queue[Bound], sel = Bound, flags[Bound])
\* What is not there is stale, and so is what is fetched.
StaleIsFetched == \A i \in ArchiveInsts : queue[i].fetch # "no" \/ queue[i].data = "none" => queue[i].stale

ArchiveInv == ArchiveTypeOK /\ AnswerTells /\ PageTells /\ QueuesTell /\ StaleIsFetched

LEMMA ArchiveInit == ASSUME Archive!Init PROVE ArchiveInv
<1> USE DEF Archive!Init, Archive!Idle, Archive!Unasked, Archive!Fetch
<1>1. ArchiveTypeOK
  BY ArchiveBounds DEF ArchiveTypeOK, Flaggings, QueueActions, Queues
<1>2. StaleIsFetched /\ (\A i \in ArchiveInsts : queue[i].stale /\ (i = sel => queue[i].fetch = "sent"))
  BY DEF StaleIsFetched
<1>3. AnswerTells /\ PageTells
  BY DEF AnswerTells, PageTells, RowTells, ItemTells
<1>4. queue[Bound].fetch \in {"no", "sent"}
  BY ArchiveBounds
<1> QED
  BY <1>1, <1>2, <1>3, <1>4, ArchiveBounds DEF ArchiveInv, QueuesTell, QueueTells

LEMMA ArchiveShows == ASSUME ArchiveInv PROVE Archive!RememberedIsTrue /\ Archive!QueueFollowsFlags
BY DEF ArchiveInv, PageTells, QueuesTell, QueueTells, Undisturbed, RowTells, ItemTells, Archive!RememberedIsTrue,
   Archive!QueueFollowsFlags, Archive!Quiet

\* A query comes to another state: whatever it was, or one of these.
LEMMA QueryFetched ==
  ASSUME NEW q \in Queues, q.fetch # "no" \/ q.data = "none" => q.stale
  PROVE  /\ Archive!Fetch(q) \in Queues /\ Archive!Fetch(q).fetch # "no" /\ Archive!Fetch(q).stale = q.stale
         /\ Archive!Fetch(q).fetch = (IF q.fetch = "no" THEN "sent" ELSE q.fetch)
         /\ LET r == Archive!Restarted(q)
            IN r \in Queues /\ r.stale /\ r.fetch # "no" /\ (q.fetch = "no" \/ q.data # "none" => r.fetch = "sent")
BY DEF Queues, Archive!Fetch, Archive!Restarted

\* A step of a query or of the selection, that moves no flag and no request.
LEMMA QueriesMove ==
  ASSUME ArchiveInv, UNCHANGED <<flags, remembered, row, item, slips>>, sel' \in ArchiveInsts,
         queue' \in [ArchiveInsts -> Queues], StaleIsFetched',
         \A f \in BOOLEAN : QueueTells(queue[Bound], sel = Bound, f) => QueueTells(queue'[Bound], sel' = Bound, f)
  PROVE  ArchiveInv'
<1> USE DEF ArchiveInv
<1>1. ArchiveTypeOK'
  BY DEF ArchiveTypeOK
<1>2. AnswerTells' /\ PageTells'
  BY DEF AnswerTells, PageTells, Undisturbed, RowTells, ItemTells
<1>3. flags[Bound] \in BOOLEAN
  BY ArchiveBounds DEF ArchiveTypeOK
<1>4. QueuesTell'
  BY <1>3 DEF QueuesTell, Undisturbed, RowTells, ItemTells
<1> QED
  BY <1>1, <1>2, <1>4

\* One query comes to be q.
LEMMA QueryMoves ==
  ASSUME ArchiveInv, NEW i \in ArchiveInsts, NEW q \in Queues, UNCHANGED <<flags, remembered, row, item, slips, sel>>,
         queue' = [queue EXCEPT ![i] = q], q.fetch # "no" \/ q.data = "none" => q.stale,
         \A f \in BOOLEAN : i = Bound /\ QueueTells(queue[Bound], sel = Bound, f) => QueueTells(q, sel = Bound, f)
  PROVE  ArchiveInv'
<1>1. queue \in [ArchiveInsts -> Queues] /\ sel \in ArchiveInsts
  BY DEF ArchiveInv, ArchiveTypeOK
<1>2. queue' \in [ArchiveInsts -> Queues] /\ (\A j \in ArchiveInsts : queue'[j] = IF j = i THEN q ELSE queue[j])
  BY <1>1
<1>3. StaleIsFetched'
  BY <1>2 DEF ArchiveInv, StaleIsFetched
<1>4. \A f \in BOOLEAN : QueueTells(queue[Bound], sel = Bound, f) => QueueTells(queue'[Bound], sel' = Bound, f)
  BY <1>2, ArchiveBounds
<1> QED
  BY <1>1, <1>2, <1>3, <1>4, QueriesMove

\* A click, or the answer to nothing: no flag, query or selection moves.
LEMMA ClickMoves ==
  ASSUME ArchiveInv, UNCHANGED <<flags, remembered, queue, sel>>, row' \in Flaggings, item' \in QueueActions,
         slips' \subseteq Archive!Slips, slips \subseteq slips',
         Undisturbed' => row'.at = "idle" \/ item'.at = "idle",
         RowTells' <=> RowTells, ItemTells' <=> ItemTells, RowTells => row' = row
  PROVE  ArchiveInv'
<1> USE DEF ArchiveInv
<1>1. ArchiveTypeOK' /\ StaleIsFetched'
  BY DEF ArchiveTypeOK, StaleIsFetched
<1>2. Undisturbed' => Undisturbed
  BY DEF Undisturbed
<1>3. AnswerTells'
  BY <1>2 DEF AnswerTells
<1>4. PageTells' /\ QueuesTell'
  BY <1>2 DEF PageTells, QueuesTell
<1> QED
  BY <1>1, <1>3, <1>4

\* A request that has told its flag f is remembered, with the queue asked again.
LEMMA PageRemembers ==
  ASSUME ArchiveInv, NEW f \in {"flagged", "unflagged"}, NEW i \in ArchiveInsts, Archive!Remember(f, i),
         UNCHANGED <<flags, sel>>, row' \in Flaggings, item' \in QueueActions,
         Undisturbed => flags[Bound] = (f = "flagged") /\ row'.at = "idle" /\ item'.at = "idle",
         row'.at = "idle" \/ row' = row, item'.at = "idle" \/ item' = item
  PROVE  ArchiveInv'
<1> DEFINE follows == i = Bound /\ (queue[i].fetch = "no" \/ (i = sel /\ queue[i].data # "none"))
<1>1. /\ remembered' = f /\ queue' = Archive!Invalidated(i)
      /\ slips' = (slips \ {"lost"}) \cup IF follows THEN {} ELSE {"unread"}
  BY DEF Archive!Remember
<1>2. /\ queue \in [ArchiveInsts -> Queues] /\ sel \in ArchiveInsts /\ slips \subseteq Archive!Slips
      /\ flags \in [ArchiveInsts -> BOOLEAN]
  BY DEF ArchiveInv, ArchiveTypeOK
<1> DEFINE q == IF i = sel THEN Archive!Restarted(queue[i]) ELSE [queue[i] EXCEPT !.stale = TRUE]
<1>3. queue[i] \in Queues /\ (queue[i].fetch # "no" \/ queue[i].data = "none" => queue[i].stale)
  BY <1>2 DEF ArchiveInv, StaleIsFetched
<1>4. q \in Queues /\ q.stale
  <2>1. CASE i = sel
    BY <1>3, <2>1, QueryFetched
  <2>2. CASE i # sel
    BY <1>3, <2>2 DEF Queues
  <2> QED
    BY <2>1, <2>2
<1>5. follows => q.fetch = "sent" \/ (q.fetch = "no" /\ i # sel)
  <2>1. CASE i = sel
    BY <1>3, <2>1, QueryFetched
  <2>2. CASE i # sel
    BY <1>3, <2>2 DEF Queues
  <2> QED
    BY <2>1, <2>2
<1>6. queue' = [queue EXCEPT ![i] = q]
  BY <1>1 DEF Archive!Invalidated
<1> HIDE DEF q
<1>7. queue' \in [ArchiveInsts -> Queues] /\ \A j \in ArchiveInsts : queue'[j] = IF j = i THEN q ELSE queue[j]
  BY <1>2, <1>4, <1>6
<1>8. StaleIsFetched'
  BY <1>4, <1>7 DEF ArchiveInv, StaleIsFetched
<1>9. slips' \subseteq Archive!Slips /\ (Undisturbed' => Undisturbed) /\ ("unread" \notin slips' => follows)
  BY <1>1, <1>2 DEF Archive!Slips, Undisturbed
<1>10. ArchiveTypeOK'
  BY <1>1, <1>2, <1>7, <1>9 DEF ArchiveTypeOK
<1>11. PageTells'
  BY <1>1, <1>9 DEF PageTells
<1>12. AnswerTells'
  BY <1>9 DEF AnswerTells, RowTells, ItemTells
<1>13. QueuesTell'
  <2>1. follows => queue'[Bound] = q
    BY <1>7, ArchiveBounds
  <2> QED
    BY <1>4, <1>5, <1>9, <2>1 DEF QueuesTell, QueueTells
<1> QED
  BY <1>8, <1>10, <1>11, <1>12, <1>13 DEF ArchiveInv

\* A route serves a request: what it did and did not answer is a slip.
LEMMA RouteServes ==
  ASSUME ArchiveInv, NEW ok \in BOOLEAN, NEW k \in {"none", "flag", "unflag", "restore"}, Archive!Serves(k, ok),
         UNCHANGED <<remembered, queue, sel>>, row' \in Flaggings, item' \in QueueActions,
         Undisturbed => /\ row'.at = "idle" \/ item'.at = "idle"
                        /\ RowTells' => ok /\ k = row'.kind
                        /\ ItemTells' => ok /\ k # "flag"
                        /\ ok => RowTells' \/ ItemTells'
                        /\ ~RowTells /\ ~ItemTells
  PROVE  ArchiveInv'
<1> USE ArchiveBounds
<1>1. flags \in [ArchiveInsts -> BOOLEAN] /\ slips \subseteq Archive!Slips
  BY DEF ArchiveInv, ArchiveTypeOK
<1>2. CASE Archive!Effect(k) /\ slips' = slips \cup IF ok THEN {} ELSE {"lost", "unread"}
  <2>1. flags' \in [ArchiveInsts -> BOOLEAN] /\ flags'[Bound] = (k = "flag")
    BY <1>1, <1>2 DEF Archive!Effect
  <2>2. slips' \subseteq Archive!Slips /\ (Undisturbed' => Undisturbed) /\ (ok \/ {"lost", "unread"} \subseteq slips')
    BY <1>1, <1>2 DEF Archive!Slips, Undisturbed
  <2>3. ArchiveTypeOK' /\ StaleIsFetched'
    BY <2>1, <2>2 DEF ArchiveInv, ArchiveTypeOK, StaleIsFetched
  <2>4. AnswerTells'
    BY <2>1, <2>2 DEF AnswerTells
  <2>5. PageTells' /\ QueuesTell'
    BY <2>2 DEF PageTells, QueuesTell
  <2> QED
    BY <2>3, <2>4, <2>5 DEF ArchiveInv
<1>3. CASE ~ok /\ UNCHANGED <<flags, slips>>
  <2>1. ArchiveTypeOK' /\ StaleIsFetched'
    BY <1>3 DEF ArchiveInv, ArchiveTypeOK, StaleIsFetched
  <2>2. Undisturbed' <=> Undisturbed
    BY <1>3 DEF Undisturbed
  <2>3. AnswerTells'
    BY <1>3, <2>2 DEF AnswerTells
  <2>4. PageTells' /\ QueuesTell'
    BY <1>3, <2>2 DEF ArchiveInv, PageTells, QueuesTell
  <2> QED
    BY <2>1, <2>3, <2>4 DEF ArchiveInv
<1> QED
  BY <1>2, <1>3 DEF Archive!Serves

LEMMA ArchiveStep == ASSUME ArchiveInv, Archive!Next PROVE ArchiveInv'
<1> USE ArchiveBounds
<1>a. /\ flags \in [ArchiveInsts -> BOOLEAN] /\ sel \in ArchiveInsts /\ queue \in [ArchiveInsts -> Queues]
      /\ row \in Flaggings /\ item \in QueueActions /\ slips \subseteq Archive!Slips
  BY DEF ArchiveInv, ArchiveTypeOK
<1>b. Archive!Idle \in Flaggings \cap QueueActions /\ Archive!Idle.at = "idle"
  BY DEF Archive!Idle, Flaggings, QueueActions
<1>c. \A i \in ArchiveInsts : queue[i] \in Queues /\ (queue[i].fetch # "no" \/ queue[i].data = "none" => queue[i].stale)
  BY <1>a DEF ArchiveInv, StaleIsFetched
<1>d. Undisturbed => row.at = "idle" \/ item.at = "idle"
  BY DEF ArchiveInv, AnswerTells
<1>1. CASE Archive!ShowNoteAndFlag \/ Archive!handleUnflag
  <2>a. \A k \in {"flag", "unflag"} : Archive!Ask(k) \in Flaggings /\ Archive!Ask(k).at = "sent"
    BY <1>a DEF Archive!Ask, Flaggings
  <2>b. row' = Archive!Ask("flag") \/ row' = Archive!Ask("unflag")
    BY <1>1 DEF Archive!ShowNoteAndFlag, Archive!handleUnflag
  <2>c. /\ row.at = "idle" /\ UNCHANGED <<flags, sel, remembered, queue, item>>
        /\ slips' = slips \cup IF item.at = "idle" THEN {} ELSE {"crossed"}
    BY <1>1 DEF Archive!ShowNoteAndFlag, Archive!handleUnflag, Archive!Starts
  <2>1. /\ row.at = "idle" /\ row'.at = "sent" /\ row' \in Flaggings /\ UNCHANGED <<flags, sel, remembered, queue, item>>
        /\ slips' = slips \cup IF item.at = "idle" THEN {} ELSE {"crossed"}
    BY <2>a, <2>b, <2>c
  <2>2. slips' \subseteq Archive!Slips /\ slips \subseteq slips' /\ (Undisturbed' => item'.at = "idle")
    BY <1>a, <2>1 DEF Archive!Slips, Undisturbed
  <2>3. ~RowTells /\ ~RowTells' /\ (ItemTells' <=> ItemTells)
    BY <2>1 DEF RowTells, ItemTells
  <2>4. UNCHANGED <<flags, remembered, queue, sel>> /\ row' \in Flaggings /\ item' \in QueueActions
    BY <1>a, <2>1
  <2>5. (RowTells' <=> RowTells) /\ (ItemTells' <=> ItemTells) /\ (RowTells => row' = row)
    BY <2>3
  <2>6. Undisturbed' => row'.at = "idle" \/ item'.at = "idle"
    BY <2>2
  <2> QED
    BY <2>2, <2>4, <2>5, <2>6, ClickMoves
<1>2. CASE Archive!handleClearFlag \/ Archive!handleRestore
  <2>a. \A k \in {"unflag", "restore"} : Archive!Ask(k) \in QueueActions /\ Archive!Ask(k).at = "sent"
    BY <1>a DEF Archive!Ask, QueueActions
  <2>b. item' = Archive!Ask("unflag") \/ item' = Archive!Ask("restore")
    BY <1>2 DEF Archive!handleClearFlag, Archive!handleRestore
  <2>c. /\ item.at = "idle" /\ UNCHANGED <<flags, sel, remembered, queue, row>>
        /\ slips' = slips \cup IF row.at = "idle" THEN {} ELSE {"crossed"}
    BY <1>2 DEF Archive!handleClearFlag, Archive!handleRestore, Archive!Starts
  <2>1. /\ item.at = "idle" /\ item'.at = "sent" /\ item' \in QueueActions /\ UNCHANGED <<flags, sel, remembered, queue, row>>
        /\ slips' = slips \cup IF row.at = "idle" THEN {} ELSE {"crossed"}
    BY <2>a, <2>b, <2>c
  <2>2. slips' \subseteq Archive!Slips /\ slips \subseteq slips' /\ (Undisturbed' => row'.at = "idle")
    BY <1>a, <2>1 DEF Archive!Slips, Undisturbed
  <2>3. ~ItemTells /\ ~ItemTells' /\ (RowTells' <=> RowTells) /\ row' = row
    BY <2>1 DEF RowTells, ItemTells
  <2>4. UNCHANGED <<flags, remembered, queue, sel>> /\ row' \in Flaggings /\ item' \in QueueActions
    BY <1>a, <2>1
  <2>5. (RowTells' <=> RowTells) /\ (ItemTells' <=> ItemTells) /\ (RowTells => row' = row)
    BY <2>3
  <2>6. Undisturbed' => row'.at = "idle" \/ item'.at = "idle"
    BY <2>2
  <2> QED
    BY <2>2, <2>4, <2>5, <2>6, ClickMoves
<1>3. CASE Archive!OpenRestore \/ Archive!CancelRestore
  <2>1. UNCHANGED <<flags, sel, remembered, queue, row, item, slips>>
    BY <1>3 DEF Archive!OpenRestore, Archive!CancelRestore
  <2> QED
    BY <1>a, <1>d, <2>1, ClickMoves DEF Undisturbed, RowTells, ItemTells
<1>4. CASE Archive!RowAnswered
  <2>1. row.at = "answered" /\ row' = Archive!Idle /\ UNCHANGED <<flags, sel, item>>
    BY <1>4 DEF Archive!RowAnswered
  <2>2. CASE row.ok
    <3> DEFINE f == IF row.kind = "flag" THEN "flagged" ELSE "unflagged"
    <3>1. Archive!Remember(f, row.inst)
      BY <1>4, <2>2 DEF Archive!RowAnswered, Archive!handleFlagged
    <3>2. row.inst \in ArchiveInsts /\ f \in {"flagged", "unflagged"} /\ (f = "flagged") = (row.kind = "flag")
      BY <1>a DEF Flaggings
    <3>3. Undisturbed => flags[Bound] = (row.kind = "flag") /\ item.at = "idle"
      BY <2>1, <2>2 DEF ArchiveInv, AnswerTells, RowTells
    <3> HIDE DEF f
    <3> QED
      BY <1>a, <1>b, <2>1, <3>1, <3>2, <3>3, PageRemembers
  <2>3. CASE ~row.ok
    <3>1. UNCHANGED <<remembered, queue, slips>>
      BY <1>4, <2>3 DEF Archive!RowAnswered
    <3> QED
      BY <1>a, <1>b, <2>1, <2>3, <3>1, ClickMoves DEF RowTells, ItemTells
  <2> QED
    BY <2>2, <2>3
<1>5. ASSUME (item.at = "answered" /\ item.ok) \/ item.at = "waiting", item' = Archive!Idle,
             Archive!handleQueueUnflagged, UNCHANGED <<flags, sel, row>>
      PROVE  ArchiveInv'
  <2>1. Archive!Remember("unflagged", item.inst) /\ item.inst \in ArchiveInsts
    BY <1>5, <1>a DEF Archive!handleQueueUnflagged, QueueActions
  <2>2. Undisturbed => ~flags[Bound] /\ row.at = "idle"
    BY <1>5 DEF ArchiveInv, AnswerTells, ItemTells
  <2>3. Undisturbed => flags[Bound] = ("unflagged" = "flagged")
    BY <1>a, <2>2
  <2> QED
    BY <1>5, <1>a, <1>b, <2>1, <2>2, <2>3, PageRemembers
<1>6. CASE Archive!ItemAnswered
  <2>1. CASE item.kind = "unflag"
    BY <1>5, <1>6, <2>1 DEF Archive!ItemAnswered
  <2>2. CASE item.kind # "unflag"
    <3>1. /\ item.at = "answered" /\ item.ok /\ item' = [item EXCEPT !.at = "waiting"]
          /\ UNCHANGED <<flags, sel, remembered, queue, row, slips>>
      BY <1>6, <2>2 DEF Archive!ItemAnswered
    <3>2. item' \in QueueActions /\ item'.at = "waiting"
      BY <1>a, <3>1 DEF QueueActions
    <3> QED
      BY <1>a, <1>d, <3>1, <3>2, ClickMoves DEF Undisturbed, RowTells, ItemTells
  <2> QED
    BY <2>1, <2>2
<1>7. CASE Archive!ItemRefused
  <2>1. item.at = "answered" /\ ~item.ok /\ item' = Archive!Idle /\ UNCHANGED <<flags, sel, remembered, queue, row, slips>>
    BY <1>7 DEF Archive!ItemRefused
  <2> QED
    BY <1>a, <1>b, <2>1, ClickMoves DEF RowTells, ItemTells
<1>8. CASE Archive!RestoredTimeout
  BY <1>5, <1>8 DEF Archive!RestoredTimeout
<1>9. ASSUME NEW i \in ArchiveInsts, Archive!ListFlagged(i) PROVE ArchiveInv'
  <2> DEFINE q == [queue[i] EXCEPT !.fetch = IF flags[i] THEN "flagged" ELSE "empty"]
  <2>1. /\ queue[i].fetch = "sent" /\ queue' = [queue EXCEPT ![i] = q]
        /\ slips' = slips \ (IF i = Bound THEN {"unread"} ELSE {}) /\ UNCHANGED <<flags, sel, remembered, row, item>>
    BY <1>9 DEF Archive!ListFlagged
  <2>2. q \in Queues /\ q.fetch \in {"flagged", "empty"} /\ (q.fetch = "flagged") = flags[i] /\ q.stale = queue[i].stale
    BY <1>9, <1>a, <1>c DEF Queues
  <2> HIDE DEF q
  <2>3. queue' \in [ArchiveInsts -> Queues] /\ (\A j \in ArchiveInsts : queue'[j] = IF j = i THEN q ELSE queue[j])
    BY <1>a, <2>1, <2>2
  <2>4. /\ slips' \subseteq Archive!Slips /\ (Undisturbed' <=> Undisturbed) /\ ("lost" \in slips' <=> "lost" \in slips)
        /\ i # Bound => slips' = slips
    BY <1>a, <2>1 DEF Undisturbed
  <2>5. StaleIsFetched'
    BY <1>c, <2>1, <2>2, <2>3 DEF StaleIsFetched
  <2>6. ArchiveTypeOK'
    BY <2>1, <2>3, <2>4 DEF ArchiveInv, ArchiveTypeOK
  <2>7. AnswerTells' /\ PageTells'
    BY <2>1, <2>4 DEF ArchiveInv, AnswerTells, PageTells, RowTells, ItemTells
  <2>8. QueuesTell'
    <3>1. CASE i = Bound
      BY <2>1, <2>2, <2>3, <3>1 DEF QueuesTell, QueueTells
    <3>2. CASE i # Bound
      <4>1. queue'[Bound] = queue[Bound] /\ UNCHANGED <<slips, sel, flags, row, item>>
        BY <2>1, <2>3, <2>4, <3>2
      <4> QED
        BY <4>1 DEF ArchiveInv, QueuesTell, Undisturbed, RowTells, ItemTells
    <3> QED
      BY <3>1, <3>2
  <2> QED
    BY <2>5, <2>6, <2>7, <2>8 DEF ArchiveInv
<1>10. ASSUME NEW i \in ArchiveInsts, NEW q \in Queues, Archive!Loaded(i, q),
              q.fetch # "no" \/ q.data = "none" => q.stale,
              \A f \in BOOLEAN : i = Bound /\ QueueTells(queue[Bound], sel = Bound, f) => QueueTells(q, sel = Bound, f)
       PROVE  ArchiveInv'
  <2>1. queue' = [queue EXCEPT ![i] = q] /\ UNCHANGED <<flags, sel, remembered, row, item, slips>>
    BY <1>10 DEF Archive!Loaded
  <2> QED
    BY <1>10, <2>1, QueryMoves
<1>11. ASSUME NEW i \in ArchiveInsts, Archive!QueueArrives(i) PROVE ArchiveInv'
  <2> DEFINE q == [data |-> queue[i].fetch, failed |-> FALSE, stale |-> FALSE, fetch |-> "no"]
  <2>1. queue[i].fetch \in {"flagged", "empty"} /\ Archive!Loaded(i, q)
    BY <1>11 DEF Archive!QueueArrives
  <2>2. q \in Queues /\ q.data = queue[i].fetch /\ q.fetch = "no"
    BY <2>1 DEF Queues
  <2> HIDE DEF q
  <2>3. \A f \in BOOLEAN : i = Bound /\ QueueTells(queue[Bound], sel = Bound, f) => QueueTells(q, sel = Bound, f)
    BY <2>1, <2>2 DEF QueueTells
  <2> QED
    BY <1>10, <2>1, <2>2, <2>3
<1>12. ASSUME NEW i \in ArchiveInsts, Archive!QueueRetried(i) PROVE ArchiveInv'
  <2> DEFINE q == [queue[i] EXCEPT !.fetch = "sent"]
  <2>1. queue[i].fetch # "no" /\ Archive!Loaded(i, q)
    BY <1>12 DEF Archive!QueueRetried
  <2>2. q \in Queues /\ q.fetch = "sent" /\ q.stale
    BY <1>c, <2>1 DEF Queues
  <2> HIDE DEF q
  <2> QED
    BY <1>10, <2>1, <2>2 DEF QueueTells
<1>13. ASSUME NEW i \in ArchiveInsts, Archive!QueueFails(i) PROVE ArchiveInv'
  <2> DEFINE q == [queue[i] EXCEPT !.failed = TRUE, !.fetch = "no"]
  <2>1. queue[i].fetch # "no" /\ Archive!Loaded(i, q)
    BY <1>13 DEF Archive!QueueFails
  <2>2. q \in Queues /\ q.fetch = "no" /\ q.failed /\ q.stale
    BY <1>c, <2>1 DEF Queues
  <2> HIDE DEF q
  <2> QED
    BY <1>10, <2>1, <2>2 DEF QueueTells
<1>14. ASSUME NEW i \in ArchiveInsts, Archive!GoesStale(i) PROVE ArchiveInv'
  <2> DEFINE q == [queue[i] EXCEPT !.stale = TRUE]
  <2>1. Archive!Loaded(i, q)
    BY <1>14 DEF Archive!GoesStale
  <2>2. q \in Queues /\ q.stale /\ q.data = queue[i].data /\ q.failed = queue[i].failed /\ q.fetch = queue[i].fetch
    BY <1>c DEF Queues
  <2> HIDE DEF q
  <2>3. \A f \in BOOLEAN : i = Bound /\ QueueTells(queue[Bound], sel = Bound, f) => QueueTells(q, sel = Bound, f)
    BY <2>2 DEF QueueTells
  <2> QED
    BY <1>10, <2>1, <2>2, <2>3
<1>15. ASSUME NEW i \in ArchiveInsts, Archive!Dropped(i) PROVE ArchiveInv'
  <2>1. i # sel /\ Archive!Loaded(i, Archive!Unasked)
    BY <1>15 DEF Archive!Dropped
  <2>2. Archive!Unasked \in Queues /\ Archive!Unasked.stale /\ Archive!Unasked.fetch = "no"
    BY DEF Archive!Unasked, Queues
  <2> QED
    BY <1>10, <2>1, <2>2 DEF QueueTells
<1>16. CASE Archive!Refocus
  <2> DEFINE q == Archive!Fetch(queue[sel])
  <2>1. queue[sel].stale /\ Archive!Loaded(sel, q)
    BY <1>16 DEF Archive!Refocus
  <2>2. q \in Queues /\ q.fetch = (IF queue[sel].fetch = "no" THEN "sent" ELSE queue[sel].fetch) /\ q.fetch # "no" /\ q.stale
    BY <1>a, <1>c, <2>1, QueryFetched
  <2> HIDE DEF q
  <2>3. \A f \in BOOLEAN : sel = Bound /\ QueueTells(queue[Bound], sel = Bound, f) => QueueTells(q, sel = Bound, f)
    BY <2>2 DEF QueueTells
  <2> QED
    BY <1>10, <1>a, <2>1, <2>2, <2>3
<1>17. CASE Archive!ServeRow
  <2>1. PICK ok \in BOOLEAN : row' = [row EXCEPT !.at = "answered", !.ok = ok] /\ Archive!Serves(row.kind, ok)
    BY <1>17 DEF Archive!ServeRow
  <2>2. row.at = "sent" /\ UNCHANGED <<sel, remembered, queue, item>>
    BY <1>17 DEF Archive!ServeRow
  <2>3. row' \in Flaggings /\ row'.at = "answered" /\ row'.ok = ok /\ row'.kind = row.kind /\ row.kind \in {"none", "flag", "unflag"}
    BY <1>a, <2>1 DEF Flaggings
  <2>4. Undisturbed => item.at = "idle"
    BY <1>d, <2>2
  <2> QED
    BY <1>a, <2>1, <2>2, <2>3, <2>4, RouteServes DEF RowTells, ItemTells
<1>18. CASE Archive!ServeItem
  <2>1. PICK ok \in BOOLEAN : item' = [item EXCEPT !.at = "answered", !.ok = ok] /\ Archive!Serves(item.kind, ok)
    BY <1>18 DEF Archive!ServeItem
  <2>2. item.at = "sent" /\ UNCHANGED <<sel, remembered, queue, row>>
    BY <1>18 DEF Archive!ServeItem
  <2>3. item' \in QueueActions /\ item'.at = "answered" /\ item'.ok = ok /\ item.kind \in {"none", "unflag", "restore"}
    BY <1>a, <2>1 DEF QueueActions
  <2>4. Undisturbed => row.at = "idle"
    BY <1>d, <2>2
  <2> QED
    BY <1>a, <2>1, <2>2, <2>3, <2>4, RouteServes DEF RowTells, ItemTells
<1>19. ASSUME NEW i \in ArchiveInsts, Archive!SelectInstance(i) PROVE ArchiveInv'
  <2> DEFINE q == IF queue[i].stale THEN Archive!Fetch(queue[i]) ELSE queue[i]
  <2>1. sel' = i /\ queue' = [queue EXCEPT ![i] = q] /\ UNCHANGED <<flags, remembered, row, item, slips>>
    BY <1>19 DEF Archive!SelectInstance
  <2>2. CASE queue[i].stale
    <3>1. q \in Queues /\ q.stale /\ q.fetch # "no" /\ q.fetch = (IF queue[i].fetch = "no" THEN "sent" ELSE queue[i].fetch)
      BY <1>c, <2>2, QueryFetched
    <3> HIDE DEF q
    <3>2. queue' \in [ArchiveInsts -> Queues] /\ (\A j \in ArchiveInsts : queue'[j] = IF j = i THEN q ELSE queue[j])
      BY <1>a, <2>1, <3>1
    <3>3. StaleIsFetched'
      BY <1>c, <3>1, <3>2 DEF StaleIsFetched
    <3>4. \A f \in BOOLEAN : QueueTells(queue[Bound], sel = Bound, f) => QueueTells(queue'[Bound], sel' = Bound, f)
      BY <2>1, <3>1, <3>2 DEF QueueTells
    <3> QED
      BY <2>1, <3>2, <3>3, <3>4, QueriesMove
  <2>3. CASE ~queue[i].stale
    <3>1. queue' = queue
      BY <1>a, <2>1, <2>3
    <3>2. StaleIsFetched'
      BY <1>c, <3>1 DEF StaleIsFetched
    <3>3. \A f \in BOOLEAN : QueueTells(queue[Bound], sel = Bound, f) => QueueTells(queue'[Bound], sel' = Bound, f)
      BY <2>1, <2>3, <3>1 DEF QueueTells
    <3> QED
      BY <1>a, <2>1, <3>1, <3>2, <3>3, QueriesMove
  <2> QED
    BY <2>2, <2>3
<1>20. ASSUME NEW i \in ArchiveInsts, Archive!OtherFlags(i) PROVE ArchiveInv'
  <2>1. flags' = [flags EXCEPT ![i] = ~@] /\ slips' = slips \cup {"elsewhere"} /\ UNCHANGED <<sel, remembered, queue, row, item>>
    BY <1>20 DEF Archive!OtherFlags
  <2>2. flags' \in [ArchiveInsts -> BOOLEAN] /\ ~Undisturbed'
    BY <1>a, <2>1 DEF Undisturbed
  <2> QED
    BY <2>1, <2>2 DEF ArchiveInv, ArchiveTypeOK, AnswerTells, PageTells, QueuesTell, StaleIsFetched, Archive!Slips
<1> QED
  BY <1>1, <1>2, <1>3, <1>4, <1>6, <1>7, <1>8, <1>9, <1>11, <1>12, <1>13, <1>14, <1>15, <1>16, <1>17, <1>18, <1>19, <1>20
     DEF Archive!Next

LEMMA ArchiveStays == ASSUME ArchiveInv, UNCHANGED slots PROVE ArchiveInv'
BY DEF slots, ArchiveInv, ArchiveTypeOK, AnswerTells, PageTells, QueuesTell, StaleIsFetched, Undisturbed, RowTells, ItemTells

HIDE DEF flags, sel, remembered, queue, row, item, slips

-----------------------------------------------------------------------------
(***************************************************************************)
(* The sessions.  A list that was read for a tab, and has not been shown,  *)
(* was read after every action done on that tab.                           *)
(***************************************************************************)
sessionStates == s1
sessionTab == s3
sessionLists == s4
fetches == s5
sessionAction == s6
taken == s7
actedOn == s8
USE DEF sessionStates, sessionTab, sessionLists, fetches, sessionAction, taken, actedOn

LEMMA SessionBounds == "all" \in SessionTabs
BY ControlsAssumption

SessionLists == [rows : SUBSET [id : Ids, state : SessionsPage!States], asOf : Nat, fresh : BOOLEAN]
SessionFetches == [at : {"none", "asked", "read"}, rows : SUBSET [id : Ids, state : SessionsPage!States], asOf : Nat]

SessionsTypeOK ==
  /\ sessionStates \in [Ids -> SessionsPage!States] /\ sessionTab \in SessionTabs
  /\ sessionLists \in [SessionTabs -> SessionLists] /\ fetches \in [SessionTabs -> SessionFetches]
  /\ taken \in Nat /\ actedOn \in [SessionTabs -> Nat]

ReadAfterActions ==
  \A t \in SessionTabs : actedOn[t] <= taken /\ (fetches[t].at = "read" => fetches[t].asOf >= actedOn[t])

SessionsInv == SessionsTypeOK /\ ReadAfterActions /\ SessionsPage!ActionIsShown

LEMMA SessionsInit == ASSUME SessionsPage!Init PROVE SessionsInv
<1> USE SessionBounds DEF SessionsPage!Init
<1>1. SessionsPage!NoRequest \in SessionFetches /\ SessionsPage!NoRequest.at = "none"
  BY DEF SessionsPage!NoRequest, SessionFetches
<1>2. fetches \in [SessionTabs -> SessionFetches] /\ \A t \in SessionTabs : fetches[t].at \in {"none", "asked"}
  BY <1>1 DEF SessionFetches
<1>3. sessionLists \in [SessionTabs -> SessionLists] /\ \A t \in SessionTabs : sessionLists[t].asOf = 0
  BY DEF SessionLists
<1> QED
  BY <1>2, <1>3 DEF SessionsInv, SessionsTypeOK, ReadAfterActions, SessionsPage!ActionIsShown, SessionsPage!States

(* A query is asked again only when no request of it is under way.         *)
LEMMA MountedAsks ==
  ASSUME SessionsInv, NEW t \in SessionTabs, fetches' \in SessionsPage!Mounted(t), UNCHANGED <<taken, sessionLists, actedOn>>
  PROVE  fetches' \in [SessionTabs -> SessionFetches] /\ ReadAfterActions' /\ SessionsPage!ActionIsShown'
<1> DEFINE asked == [SessionsPage!NoRequest EXCEPT !.at = "asked"]
<1>1. asked \in SessionFetches /\ asked.at = "asked"
  BY DEF SessionsPage!NoRequest, SessionFetches
<1>2. fetches' = fetches \/ fetches' = [fetches EXCEPT ![t] = asked]
  BY DEF SessionsPage!Mounted
<1>3. fetches' \in [SessionTabs -> SessionFetches]
      /\ \A u \in SessionTabs : fetches'[u] = fetches[u] \/ fetches'[u].at = "asked"
  BY <1>1, <1>2 DEF SessionsInv, SessionsTypeOK
<1> QED
  BY <1>3 DEF SessionsInv, ReadAfterActions, SessionsPage!ActionIsShown

LEMMA SessionsStep == ASSUME SessionsInv, SessionsPage!Next PROVE SessionsInv'
<1>0. SessionsTypeOK /\ ReadAfterActions /\ SessionsPage!ActionIsShown
  BY DEF SessionsInv
<1>a. SessionsPage!NoRequest \in SessionFetches /\ SessionsPage!NoRequest.at = "none"
  BY DEF SessionsPage!NoRequest, SessionFetches
<1>b. SessionsPage!Rows \in SUBSET [id : Ids, state : SessionsPage!States]
  BY <1>0 DEF SessionsPage!Rows, SessionsTypeOK
<1> USE DEF SessionsInv, SessionsTypeOK, ReadAfterActions, SessionsPage!ActionIsShown
<1>1. ASSUME NEW t \in SessionTabs, SessionsPage!ListSessions(t) PROVE SessionsInv'
  <2> DEFINE r == [at |-> "read", rows |-> SessionsPage!applySessionFilters(SessionsPage!Rows, t), asOf |-> taken]
  <2>1. r \in SessionFetches /\ r.at = "read" /\ r.asOf = taken
    BY <1>0, <1>b DEF SessionsPage!applySessionFilters, SessionFetches
  <2>2. fetches' = [fetches EXCEPT ![t] = r] /\ UNCHANGED <<sessionStates, taken, sessionTab, sessionLists, actedOn>>
    BY <1>1 DEF SessionsPage!ListSessions
  <2> HIDE DEF r
  <2> QED
    BY <1>0, <2>1, <2>2
<1>2. ASSUME NEW t \in SessionTabs, SessionsPage!Receive(t) PROVE SessionsInv'
  <2> DEFINE l == [rows |-> fetches[t].rows, asOf |-> fetches[t].asOf, fresh |-> TRUE]
  <2>1. fetches[t] \in SessionFetches
    BY <1>0
  <2>2. l \in SessionLists /\ l.asOf = fetches[t].asOf
    BY <2>1 DEF SessionFetches, SessionLists
  <2>3. /\ fetches[t].at = "read" /\ fetches' = [fetches EXCEPT ![t] = SessionsPage!NoRequest]
        /\ sessionLists' = [sessionLists EXCEPT ![t] = l] /\ UNCHANGED <<sessionStates, taken, sessionTab, actedOn>>
    BY <1>2 DEF SessionsPage!Receive
  <2> HIDE DEF l
  <2> QED
    BY <1>0, <1>a, <2>2, <2>3
<1>3. ASSUME NEW t \in SessionTabs, SessionsPage!Fail(t) PROVE SessionsInv'
  <2> DEFINE l == [sessionLists[t] EXCEPT !.fresh = FALSE]
  <2>1. l \in SessionLists /\ l.asOf = sessionLists[t].asOf /\ l.asOf \in Nat
    BY <1>0 DEF SessionLists
  <2>2. /\ fetches' = [fetches EXCEPT ![t] = SessionsPage!NoRequest] /\ sessionLists' = [sessionLists EXCEPT ![t] = l]
        /\ actedOn' = [actedOn EXCEPT ![t] = 0] /\ UNCHANGED <<sessionStates, taken, sessionTab>>
    BY <1>3 DEF SessionsPage!Fail
  <2> HIDE DEF l
  <2> QED
    BY <1>0, <1>a, <2>1, <2>2
<1>4. ASSUME NEW t \in SessionTabs, SessionsPage!handleTabClick(t) PROVE SessionsInv'
  BY <1>0, <1>4, MountedAsks DEF SessionsPage!handleTabClick
<1>5. CASE SessionsPage!Refocus
  BY <1>0, <1>5, MountedAsks DEF SessionsPage!Refocus
<1>6. ASSUME NEW r, NEW mode, SessionsPage!handleConfirm(r, mode) PROVE SessionsInv'
  BY <1>0, <1>6 DEF SessionsPage!handleConfirm
<1>7. CASE SessionsPage!Done
  <2> DEFINE asked == [SessionsPage!NoRequest EXCEPT !.at = "asked"]
  <2>1. asked \in SessionFetches /\ asked.at = "asked"
    BY DEF SessionsPage!NoRequest, SessionFetches
  <2>2. /\ sessionLists' = [t \in SessionTabs |-> [sessionLists[t] EXCEPT !.fresh = FALSE]]
        /\ fetches' = [fetches EXCEPT ![sessionTab] = asked] /\ actedOn' = [actedOn EXCEPT ![sessionTab] = taken]
        /\ UNCHANGED <<sessionStates, taken, sessionTab>>
    BY <1>7 DEF SessionsPage!Done, SessionsPage!Refetched
  <2> HIDE DEF asked
  <2>3. /\ sessionLists' \in [SessionTabs -> SessionLists]
        /\ \A t \in SessionTabs : sessionLists'[t].asOf = sessionLists[t].asOf
    BY <1>0, <2>2 DEF SessionLists
  <2> QED
    BY <1>0, <2>1, <2>2, <2>3
<1>8. CASE SessionsPage!proxySessionAction
  <2>1. UNCHANGED <<sessionTab, sessionLists, fetches, actedOn>> /\ taken' \in {taken, taken + 1}
    BY <1>8 DEF SessionsPage!proxySessionAction
  <2>2. SessionsPage!After(sessionAction.mode) \in SessionsPage!States
    BY DEF SessionsPage!After, SessionsPage!States
  <2>3. sessionStates' \in [Ids -> SessionsPage!States]
    BY <1>0, <1>8, <2>2 DEF SessionsPage!proxySessionAction
  <2> QED
    BY <1>0, <2>1, <2>3
<1>9. ASSUME NEW i \in Ids, SessionsPage!AgentChanges(i) PROVE SessionsInv'
  <2>1. UNCHANGED <<sessionTab, sessionLists, fetches, taken, actedOn>> /\ sessionStates' \in [Ids -> SessionsPage!States]
    BY <1>0, <1>9 DEF SessionsPage!AgentChanges, SessionsPage!view, SessionsPage!States
  <2> QED
    BY <1>0, <2>1
<1> QED
  BY <1>1, <1>2, <1>3, <1>4, <1>5, <1>6, <1>7, <1>8, <1>9 DEF SessionsPage!Next

LEMMA SessionsStay == ASSUME SessionsInv, UNCHANGED slots PROVE SessionsInv'
BY DEF slots, SessionsInv, SessionsTypeOK, ReadAfterActions, SessionsPage!ActionIsShown

(* Iranti does nothing to a session that is closed, and neither do agents. *)
LEMMA SessionsClose == ASSUME SessionsInv, SessionsPage!Next PROVE SessionsPage!ClosedStaysClosed
<1> USE DEF SessionsPage!ClosedStaysClosed
<1>0. sessionStates \in [Ids -> SessionsPage!States]
  BY DEF SessionsInv, SessionsTypeOK
<1>1. CASE SessionsPage!proxySessionAction
  BY <1>0, <1>1 DEF SessionsPage!proxySessionAction, SessionsPage!Offers
<1>2. ASSUME NEW i \in Ids, SessionsPage!AgentChanges(i) PROVE SessionsPage!ClosedStaysClosed
  BY <1>0, <1>2 DEF SessionsPage!AgentChanges
<1>3. CASE UNCHANGED sessionStates
  BY <1>3
<1> QED
  BY <1>1, <1>2, <1>3 DEF SessionsPage!Next, SessionsPage!ListSessions, SessionsPage!Receive, SessionsPage!Fail,
     SessionsPage!handleTabClick, SessionsPage!handleConfirm, SessionsPage!Done, SessionsPage!Refocus

HIDE DEF sessionStates, sessionTab, sessionLists, fetches, sessionAction, taken, actedOn

-----------------------------------------------------------------------------
(***************************************************************************)
(* The command line.  A stop has each server that answered it before it:   *)
(* its port is to be looked up, its process is to be ended, or the stop    *)
(* failed; a tab that says stopped was told so by the server it watched.   *)
(***************************************************************************)
defaultPort == s1
processes == s3
cmd == s4
hears == s5
browser == s9
USE DEF defaultPort, processes, cmd, hears, browser

LEMMA LaunchNames == Nobody \notin Srvs /\ Srvs \cap (Cmds \cup Tabs) = {}
BY ControlsAssumption

Process == [at : {"none", "testing", "migrating", "listening", "closing", "deaf", "gone"},
            port : Launch!Ports \cup {NoPort}, strict : BOOLEAN, told : BOOLEAN]
Command == [at : {"none", "probing", "stopping", "waiting", "ended"}, what : Commands \cup {"open"},
            port : Launch!Ports \cup {NoPort}, left : SUBSET Launch!Ports, seen : SUBSET Launch!Ports,
            pids : SUBSET (Srvs \cup Cmds \cup Tabs), target : Srvs \cup {Nobody}, failed : BOOLEAN, code : {0, 1, 143}]
BrowserTab == [srv : Srvs \cup {Nobody}, phase : {"null", "shutting-down", "stopped", "closed"}]

ProcessesTypeOK == processes \in [Srvs -> Process] /\ browser \in [Tabs -> BrowserTab]
\* A tab that heard of an end heard of it from its server, which was started.
ToldByServer == /\ \A t \in Tabs : browser[t].srv # Nobody /\ browser[t].phase # "null" => processes[browser[t].srv].told
                /\ \A s \in Srvs : processes[s].told => processes[s].at # "none"
ProcessesInv == ProcessesTypeOK /\ ToldByServer /\ Launch!ToldIsTrue

CommandsTypeOK == /\ defaultPort \in Launch!Ports \cup {NoPort}
                  /\ cmd \in [Cmds -> Command] /\ hears \in [Cmds -> SUBSET Srvs]
Ending(s) == processes[s].at \in {"closing", "gone"}
StopCovers(c) == cmd[c].what = "stop" /\ cmd[c].at \in {"probing", "stopping"} =>
                 \A s \in hears[c] : Ending(s) \/ cmd[c].failed \/ processes[s].port \in cmd[c].seen \/ s \in cmd[c].pids
StopEnds(c) == cmd[c].what = "stop" /\ cmd[c].at = "ended" /\ cmd[c].code = 0 => \A s \in hears[c] : Ending(s)
CommandOK(c) == /\ cmd[c].at = "none" => hears[c] = {}
                /\ cmd[c].at = "waiting" => cmd[c].what = "start"
                /\ \A s \in hears[c] : processes[s].at = "listening" \/ Ending(s)
                /\ StopCovers(c) /\ StopEnds(c)
CommandsInv == CommandsTypeOK /\ \A c \in Cmds : CommandOK(c)

LaunchInv == ProcessesInv /\ CommandsInv

LEMMA LaunchStops == ASSUME CommandsInv PROVE Launch!StopLeavesNone
BY DEF CommandsInv, CommandOK, StopEnds, Ending, Launch!StopLeavesNone

LEMMA LaunchInit == ASSUME Launch!Init PROVE LaunchInv
<1> USE LaunchNames DEF Launch!Init
<1>1. Launch!NewServer \in Process /\ Launch!NewServer.told = FALSE
  BY DEF Launch!NewServer, Process
<1>2. [srv |-> Nobody, phase |-> "null"] \in BrowserTab
  BY DEF BrowserTab
<1>3. ProcessesInv
  <2>1. ProcessesTypeOK
    BY <1>1, <1>2 DEF ProcessesTypeOK
  <2>2. ToldByServer
    BY <1>1 DEF ToldByServer
  <2>3. Launch!ToldIsTrue
    BY DEF Launch!ToldIsTrue
  <2> QED
    BY <2>1, <2>2, <2>3 DEF ProcessesInv
<1>4. Launch!NewCommand \in Command /\ Launch!NewCommand.at = "none"
  BY DEF Launch!NewCommand, Command
<1>5. CommandsTypeOK
  BY <1>4 DEF CommandsTypeOK
<1>6. ASSUME NEW c \in Cmds PROVE CommandOK(c)
  <2>1. hears[c] = {} /\ cmd[c].at = "none"
    BY <1>4
  <2> QED
    BY <2>1 DEF CommandOK, StopCovers, StopEnds
<1> QED
  BY <1>3, <1>5, <1>6 DEF LaunchInv, CommandsInv

(* Servers only go on: a port that answered stays its server's.            *)
Ages == \A s \in Srvs :
  /\ processes[s].at = "listening" => processes'[s].at \in {"listening", "closing", "gone"}
  /\ Ending(s) => processes'[s].at \in {"closing", "gone"}
  /\ processes[s].at = "listening" \/ Ending(s) => processes'[s].port = processes[s].port

LEMMA NothingAges == ASSUME processes' = processes PROVE Ages
BY DEF Ages, Ending

LEMMA ProcessesStay == ASSUME ProcessesInv, UNCHANGED <<processes, browser>> PROVE ProcessesInv'
BY DEF ProcessesInv, ProcessesTypeOK, ToldByServer, Launch!ToldIsTrue

\* One server moves, and no tab sees it.
LEMMA OneMoves ==
  ASSUME ProcessesInv, NEW s \in Srvs, NEW q \in Process, processes' = [processes EXCEPT ![s] = q], browser' = browser,
         q.told = processes[s].told, q.at # "none", processes[s].at = "gone" => q.at = "gone",
         processes[s].at = "listening" => q.at \in {"listening", "closing"} /\ q.port = processes[s].port,
         processes[s].at = "closing" => q.at \in {"closing", "gone"} /\ q.port = processes[s].port,
         processes[s].at = "gone" => q.port = processes[s].port
  PROVE  ProcessesInv' /\ Ages
<1>0. ProcessesTypeOK /\ ToldByServer /\ Launch!ToldIsTrue
  BY DEF ProcessesInv
<1>1. /\ processes' \in [Srvs -> Process] /\ processes'[s] = q
      /\ \A r \in Srvs : r # s => processes'[r] = processes[r]
  BY <1>0 DEF ProcessesTypeOK
<1>2. ProcessesTypeOK'
  BY <1>0, <1>1 DEF ProcessesTypeOK
<1>3. \A r \in Srvs : processes'[r].told = processes[r].told
  BY <1>1
<1>4. ToldByServer'
  <2>1. \A t \in Tabs : browser[t].srv # Nobody => browser[t].srv \in Srvs
    BY <1>0 DEF ProcessesTypeOK, BrowserTab
  <2> QED
    BY <1>0, <1>1, <1>3, <2>1 DEF ToldByServer
<1>5. Launch!ToldIsTrue'
  BY <1>0, <1>1, <1>3 DEF Launch!ToldIsTrue
<1>6. Ages
  BY <1>1 DEF Ages, Ending
<1> QED
  BY <1>2, <1>4, <1>5, <1>6 DEF ProcessesInv

\* The end of a server.
LEMMA OneEnds == ASSUME ProcessesInv, NEW s \in Srvs, Launch!Ended(s) PROVE ProcessesInv' /\ Ages /\ processes'[s].at = "gone"
<1> USE LaunchNames
<1>0. ProcessesTypeOK /\ ToldByServer /\ Launch!ToldIsTrue
  BY DEF ProcessesInv
<1>1. /\ processes' = [processes EXCEPT ![s].at = "gone"]
      /\ browser' = [t \in Tabs |-> IF browser[t].srv # s THEN browser[t]
                        ELSE [srv |-> Nobody, phase |-> IF browser[t].phase = "null" THEN "null" ELSE "stopped"]]
  BY DEF Launch!Ended, Launch!Dropped
<1>2. /\ processes' \in [Srvs -> Process] /\ processes'[s].at = "gone"
      /\ \A r \in Srvs : /\ processes'[r].told = processes[r].told /\ processes'[r].port = processes[r].port
                         /\ r # s => processes'[r].at = processes[r].at
  BY <1>0, <1>1 DEF ProcessesTypeOK, Process
<1>3. \A t \in Tabs : \/ browser[t].srv # s /\ browser'[t] = browser[t]
                      \/ /\ browser[t].srv = s /\ browser'[t] \in BrowserTab /\ browser'[t].srv = Nobody
                         /\ browser'[t].phase = IF browser[t].phase = "null" THEN "null" ELSE "stopped"
  BY <1>1 DEF BrowserTab
<1>4. ProcessesTypeOK'
  BY <1>0, <1>1, <1>2, <1>3 DEF ProcessesTypeOK
<1>5. ToldByServer'
  <2>1. \A t \in Tabs : browser[t].srv # Nobody => browser[t].srv \in Srvs
    BY <1>0 DEF ProcessesTypeOK, BrowserTab
  <2> QED
    BY <1>0, <1>2, <1>3, <2>1 DEF ToldByServer
<1>6. ASSUME NEW t \in Tabs, browser'[t].phase = "stopped"
      PROVE  \E r \in Srvs : processes'[r].told /\ processes'[r].at = "gone"
  <2>1. CASE browser[t].srv # s
    BY <1>0, <1>2, <1>3, <1>6, <2>1 DEF Launch!ToldIsTrue
  <2>2. CASE browser[t].srv = s
    <3>1. processes[s].told
      BY <1>0, <1>3, <1>6, <2>2 DEF ToldByServer
    <3> QED
      BY <1>2, <3>1
  <2> QED
    BY <2>1, <2>2
<1>7. Ages
  BY <1>2 DEF Ages, Ending
<1> QED
  BY <1>2, <1>4, <1>5, <1>6, <1>7 DEF ProcessesInv, Launch!ToldIsTrue

\* SIGTERM.
LEMMA OneSignalled == ASSUME ProcessesInv, NEW s \in Srvs, Launch!Signalled(s) PROVE ProcessesInv' /\ Ages
<1>1. CASE Launch!Listening(s)
  <2> DEFINE q == [processes[s] EXCEPT !.at = "closing"]
  <2>1. processes' = [processes EXCEPT ![s] = q] /\ browser' = browser /\ processes[s].at = "listening"
    BY <1>1 DEF Launch!Signalled, Launch!Listening, ProcessesInv, ProcessesTypeOK
  <2>2. q \in Process /\ q.at = "closing" /\ q.told = processes[s].told /\ q.port = processes[s].port
    BY DEF ProcessesInv, ProcessesTypeOK, Process
  <2> HIDE DEF q
  <2> QED
    BY <2>1, <2>2, OneMoves
<1>2. CASE ~Launch!Listening(s) /\ Ending(s)
  <2>1. UNCHANGED <<processes, browser>>
    BY <1>2 DEF Launch!Signalled, Ending
  <2> QED
    BY <2>1, ProcessesStay, NothingAges
<1>3. CASE ~Launch!Listening(s) /\ ~Ending(s)
  <2>1. Launch!Ended(s)
    BY <1>3 DEF Launch!Signalled, Ending
  <2> QED
    BY <2>1, OneEnds
<1> QED
  BY <1>1, <1>2, <1>3

(* What servers and tabs do.                                               *)
LEMMA ServerSteps ==
  ASSUME ProcessesInv, NEW s \in Srvs, Launch!ServerStep(s)
  PROVE  ProcessesInv' /\ Ages /\ UNCHANGED <<defaultPort, cmd, hears>>
<1>0. processes[s] \in Process
  BY DEF ProcessesInv, ProcessesTypeOK
<1>1. CASE Launch!findAvailablePort(s)
  <2>1. UNCHANGED <<defaultPort, cmd, hears>> /\ processes[s].at = "testing"
    BY <1>1 DEF Launch!findAvailablePort
  <2>2. ASSUME NEW p \in Launch!Plan(s), processes' = [processes EXCEPT ![s].at = "migrating", ![s].port = p], browser' = browser
        PROVE  ProcessesInv' /\ Ages
    <3> DEFINE q == [processes[s] EXCEPT !.at = "migrating", !.port = p]
    <3>1. p \in Launch!Ports \cup {NoPort}
      BY <1>0, <2>2 DEF Launch!Plan, Launch!Ports, Process
    <3>2. q \in Process /\ q.at = "migrating" /\ q.told = processes[s].told
      BY <1>0, <3>1 DEF Process
    <3>3. processes' = [processes EXCEPT ![s] = q]
      BY <2>2 DEF ProcessesInv, ProcessesTypeOK
    <3> HIDE DEF q
    <3> QED
      BY <2>1, <2>2, <3>2, <3>3, OneMoves
  <2> QED
    BY <1>1, <2>1, <2>2, OneEnds DEF Launch!findAvailablePort
<1>2. CASE Launch!Listen(s)
  <2> DEFINE q == [processes[s] EXCEPT !.at = IF Launch!Free(processes[s].port) THEN "listening" ELSE "deaf"]
  <2>1. /\ processes' = [processes EXCEPT ![s] = q] /\ UNCHANGED <<defaultPort, cmd, hears, browser>>
        /\ processes[s].at = "migrating"
    BY <1>2 DEF Launch!Listen, Launch!commands, ProcessesInv, ProcessesTypeOK
  <2>2. q \in Process /\ q.at \in {"listening", "deaf"} /\ q.told = processes[s].told
    BY <1>0 DEF Process
  <2> HIDE DEF q
  <2> QED
    BY <2>1, <2>2, OneMoves
<1>3. CASE Launch!RunsDry(s) \/ Launch!Closed(s)
  BY <1>3, OneEnds DEF Launch!RunsDry, Launch!Closed
<1>4. CASE Launch!scheduleSelfStop(s)
  BY <1>4, OneSignalled DEF Launch!scheduleSelfStop
<1> QED
  BY <1>1, <1>2, <1>3, <1>4 DEF Launch!ServerStep

LEMMA TabSteps ==
  ASSUME ProcessesInv, NEW t \in Tabs, Launch!selfStop(t) \/ \E s \in Srvs : Launch!Connect(t, s)
  PROVE  ProcessesInv' /\ Ages /\ UNCHANGED <<defaultPort, cmd, hears>>
<1> USE LaunchNames
<1>0. ProcessesTypeOK /\ ToldByServer /\ Launch!ToldIsTrue
  BY DEF ProcessesInv
<1>1. ASSUME NEW s \in Srvs, Launch!Connect(t, s) PROVE ProcessesInv' /\ Ages /\ UNCHANGED <<defaultPort, cmd, hears>>
  <2>1. /\ browser[t].phase = "null" /\ browser' = [browser EXCEPT ![t].srv = s] /\ processes' = processes
        /\ UNCHANGED <<defaultPort, cmd, hears>>
    BY <1>1 DEF Launch!Connect, Launch!commands
  <2>2. /\ browser' \in [Tabs -> BrowserTab] /\ browser'[t].phase = "null"
        /\ \A u \in Tabs : u # t => browser'[u] = browser[u]
    BY <1>0, <2>1 DEF ProcessesTypeOK, BrowserTab
  <2>3. ProcessesTypeOK' /\ ToldByServer' /\ Launch!ToldIsTrue'
    BY <1>0, <2>1, <2>2 DEF ProcessesTypeOK, ToldByServer, Launch!ToldIsTrue
  <2> QED
    BY <2>1, <2>3, NothingAges DEF ProcessesInv
<1>2. CASE Launch!selfStop(t)
  <2> DEFINE s == browser[t].srv
  <2>1. /\ s # Nobody /\ processes[s].at = "listening" /\ processes' = [processes EXCEPT ![s].told = TRUE]
        /\ browser' = [u \in Tabs |-> IF browser[u].srv = s THEN [browser[u] EXCEPT !.phase = "shutting-down"] ELSE browser[u]]
        /\ UNCHANGED <<defaultPort, cmd, hears>>
    BY <1>2 DEF Launch!selfStop, Launch!Listening, Launch!commands
  <2>2. s \in Srvs
    BY <1>0, <2>1 DEF ProcessesTypeOK, BrowserTab
  <2> HIDE DEF s
  <2>3. /\ processes' \in [Srvs -> Process] /\ processes'[s].told
        /\ \A r \in Srvs : /\ processes'[r].at = processes[r].at /\ processes'[r].port = processes[r].port
                           /\ r # s => processes'[r] = processes[r]
    BY <1>0, <2>1, <2>2 DEF ProcessesTypeOK, Process
  <2>4. \A u \in Tabs : \/ browser[u].srv # s /\ browser'[u] = browser[u]
                        \/ /\ browser[u].srv = s /\ browser'[u] \in BrowserTab /\ browser'[u].srv = s
                           /\ browser'[u].phase = "shutting-down"
    BY <1>0, <2>1 DEF ProcessesTypeOK, BrowserTab
  <2>5. ProcessesTypeOK'
    BY <1>0, <2>1, <2>3, <2>4 DEF ProcessesTypeOK
  <2>6. \A u \in Tabs : browser[u].srv # Nobody => browser[u].srv \in Srvs
    BY <1>0 DEF ProcessesTypeOK, BrowserTab
  <2>7. ToldByServer'
    BY <1>0, <2>1, <2>2, <2>3, <2>4, <2>6 DEF ToldByServer
  <2>8. \A r \in Srvs : processes[r].told => processes'[r].told
    BY <2>3
  <2>9. Launch!ToldIsTrue'
    BY <1>0, <2>3, <2>4, <2>8 DEF Launch!ToldIsTrue
  <2>10. Ages
    BY <2>3 DEF Ages, Ending
  <2> QED
    BY <2>1, <2>5, <2>7, <2>9, <2>10 DEF ProcessesInv
<1> QED
  BY <1>1, <1>2

(* What the commands keep when servers age and when one of them goes on.   *)
LEMMA CommandKeeps ==
  ASSUME CommandsInv, Ages, NEW c \in Cmds, cmd'[c] = cmd[c], hears'[c] = hears[c]
  PROVE  CommandOK(c)'
<1>1. CommandOK(c) /\ hears[c] \subseteq Srvs
  BY DEF CommandsInv, CommandsTypeOK
<1>2. \A s \in hears[c] : /\ processes'[s].at = "listening" \/ Ending(s)'
                          /\ Ending(s) => Ending(s)'
                          /\ processes'[s].port = processes[s].port
  BY <1>1 DEF CommandOK, Ages, Ending
<1> QED
  BY <1>1, <1>2 DEF CommandOK, StopCovers, StopEnds

LEMMA CommandsKeep == ASSUME CommandsInv, Ages, UNCHANGED <<defaultPort, cmd, hears>> PROVE CommandsInv'
<1>1. \A c \in Cmds : CommandOK(c)'
  BY CommandKeeps
<1> QED
  BY <1>1 DEF CommandsInv, CommandsTypeOK

LEMMA CommandGoes ==
  ASSUME CommandsInv, Ages, NEW c \in Cmds, NEW q \in Command, cmd' = [cmd EXCEPT ![c] = q], defaultPort' = defaultPort,
         hears' \in [Cmds -> SUBSET Srvs], \A d \in Cmds : d # c => hears'[d] = hears[d], CommandOK(c)'
  PROVE  CommandsInv'
<1>1. cmd' \in [Cmds -> Command] /\ \A d \in Cmds : d # c => cmd'[d] = cmd[d]
  BY DEF CommandsInv, CommandsTypeOK
<1>2. \A d \in Cmds : d # c => CommandOK(d)'
  BY <1>1, CommandKeeps
<1> QED
  BY <1>1, <1>2 DEF CommandsInv, CommandsTypeOK

\* Servers that were found, when what was found does not change.
LEMMA FoundAges ==
  ASSUME CommandsInv, Ages, NEW c \in Cmds
  PROVE  \A s \in hears[c] : /\ s \in Srvs /\ processes'[s].at \in {"listening", "closing", "gone"}
                             /\ Ending(s) => processes'[s].at \in {"closing", "gone"}
                             /\ processes'[s].port = processes[s].port
<1>1. CommandOK(c) /\ hears[c] \subseteq Srvs
  BY DEF CommandsInv, CommandsTypeOK
<1> QED
  BY <1>1 DEF CommandOK, Ages, Ending

LEMMA CommandExits ==
  ASSUME CommandsInv, Ages, NEW c \in Cmds, NEW code \in {0, 1, 143}, Launch!Exit(c, code), UNCHANGED <<defaultPort, hears>>,
         cmd[c].what = "stop" /\ code = 0 => \A s \in hears[c] : Ending(s)
  PROVE  CommandsInv'
<1> DEFINE q == [cmd[c] EXCEPT !.at = "ended", !.code = code]
<1>0. cmd[c] \in Command
  BY DEF CommandsInv, CommandsTypeOK
<1>1. q \in Command /\ q.at = "ended" /\ q.code = code /\ q.what = cmd[c].what
  BY <1>0 DEF Command
<1>2. cmd' = [cmd EXCEPT ![c] = q] /\ cmd'[c] = q
  BY DEF Launch!Exit, CommandsInv, CommandsTypeOK
<1> HIDE DEF q
<1>3. CommandOK(c)'
  BY <1>1, <1>2, FoundAges DEF CommandOK, StopCovers, StopEnds, Ending
<1> QED
  BY <1>1, <1>2, <1>3, CommandGoes DEF CommandsInv, CommandsTypeOK

\* A process less to end.
LEMMA LessToEnd ==
  ASSUME CommandsInv, Ages, NEW c \in Cmds, NEW x, NEW target \in Srvs \cup {Nobody},
         cmd' = [cmd EXCEPT ![c] = [cmd[c] EXCEPT !.pids = @ \ {x}, !.target = target]], UNCHANGED <<defaultPort, hears>>,
         x \in Srvs => processes'[x].at = "gone"
  PROVE  CommandsInv'
<1> DEFINE q == [cmd[c] EXCEPT !.pids = @ \ {x}, !.target = target]
<1>0. cmd[c] \in Command /\ CommandOK(c)
  BY DEF CommandsInv, CommandsTypeOK
<1>1. /\ q \in Command /\ q.pids = cmd[c].pids \ {x} /\ q.at = cmd[c].at /\ q.what = cmd[c].what /\ q.code = cmd[c].code
      /\ q.failed = cmd[c].failed /\ q.seen = cmd[c].seen
  BY <1>0 DEF Command
<1>2. cmd' = [cmd EXCEPT ![c] = q] /\ cmd'[c] = q
  BY DEF CommandsInv, CommandsTypeOK
<1> HIDE DEF q
<1>3. StopCovers(c)'
  <2> SUFFICES ASSUME cmd[c].what = "stop", cmd[c].at \in {"probing", "stopping"}, NEW s \in hears[c]
               PROVE  Ending(s)' \/ q.failed \/ processes'[s].port \in q.seen \/ s \in q.pids
    BY <1>1, <1>2 DEF StopCovers
  <2>1. Ending(s) \/ cmd[c].failed \/ processes[s].port \in cmd[c].seen \/ s \in cmd[c].pids
    BY <1>0 DEF CommandOK, StopCovers
  <2> QED
    BY <1>1, <2>1, FoundAges DEF Ending
<1>4. CommandOK(c)'
  BY <1>0, <1>1, <1>2, <1>3, FoundAges DEF CommandOK, StopEnds, Ending
<1> QED
  BY <1>1, <1>2, <1>4, CommandGoes DEF CommandsInv, CommandsTypeOK

(* What a command does.                                                    *)
LEMMA CommandProbes ==
  ASSUME CommandsInv, NEW c \in Cmds, NEW p \in Launch!Ports, Launch!probeControlPlane(c, p)
  PROVE  CommandsInv'
<1>0. cmd[c] \in Command /\ CommandOK(c) /\ hears \in [Cmds -> SUBSET Srvs]
  BY DEF CommandsInv, CommandsTypeOK
<1>1. cmd[c].at = "probing" /\ processes' = processes /\ defaultPort' = defaultPort /\ Ages
  BY NothingAges DEF Launch!probeControlPlane
<1>2. ASSUME NEW s \in Srvs, processes[s].at = "listening", processes[s].port = p,
             cmd' = [cmd EXCEPT ![c].left = @ \ {p}, ![c].seen = @ \cup {p}], hears' = [hears EXCEPT ![c] = @ \cup {s}]
      PROVE  CommandsInv'
  <2> DEFINE q == [cmd[c] EXCEPT !.left = @ \ {p}, !.seen = @ \cup {p}]
  <2>1. /\ q \in Command /\ q.seen = cmd[c].seen \cup {p} /\ q.at = "probing" /\ q.what = cmd[c].what
        /\ q.failed = cmd[c].failed /\ q.pids = cmd[c].pids
    BY <1>0, <1>1, ZenonT(60) DEF Command
  <2>2. cmd' = [cmd EXCEPT ![c] = q] /\ cmd'[c] = q
    BY <1>2 DEF CommandsInv, CommandsTypeOK
  <2> HIDE DEF q
  <2>3. /\ hears' \in [Cmds -> SUBSET Srvs] /\ hears'[c] = hears[c] \cup {s} /\ \A d \in Cmds : d # c => hears'[d] = hears[d]
    BY <1>0, <1>2
  <2>4. CommandOK(c)'
    BY <1>0, <1>1, <1>2, <2>1, <2>2, <2>3 DEF CommandOK, StopCovers, StopEnds, Ending
  <2> QED
    BY <1>1, <2>1, <2>2, <2>3, <2>4, CommandGoes
<1>3. ASSUME cmd' = [cmd EXCEPT ![c].left = @ \ {p}], hears' = hears PROVE CommandsInv'
  <2> DEFINE q == [cmd[c] EXCEPT !.left = @ \ {p}]
  <2>1. /\ q \in Command /\ q.seen = cmd[c].seen /\ q.at = "probing" /\ q.what = cmd[c].what
        /\ q.failed = cmd[c].failed /\ q.pids = cmd[c].pids
    BY <1>0, <1>1 DEF Command
  <2>2. cmd' = [cmd EXCEPT ![c] = q] /\ cmd'[c] = q
    BY <1>3 DEF CommandsInv, CommandsTypeOK
  <2> HIDE DEF q
  <2>3. CommandOK(c)'
    BY <1>0, <1>1, <1>3, <2>1, <2>2 DEF CommandOK, StopCovers, StopEnds, Ending
  <2> QED
    BY <1>0, <1>1, <1>3, <2>1, <2>2, <2>3, CommandGoes
<1> QED
  BY <1>2, <1>3 DEF Launch!probeControlPlane, Launch!Listening

LEMMA CommandLooksUp ==
  ASSUME CommandsInv, NEW c \in Cmds, NEW p \in Launch!Ports, Launch!findPidsForPort(c, p)
  PROVE  CommandsInv'
<1> DEFINE U == Launch!Uses(p)
<1> DEFINE lost == cmd[c].failed \/ U = {}
<1> DEFINE q == [cmd[c] EXCEPT !.at = "stopping", !.seen = @ \ {p}, !.pids = U, !.failed = lost]
<1>0. cmd[c] \in Command /\ CommandOK(c) /\ hears \in [Cmds -> SUBSET Srvs]
  BY DEF CommandsInv, CommandsTypeOK
<1>1. /\ Launch!Stopping(c) /\ cmd' = [cmd EXCEPT ![c] = q] /\ UNCHANGED <<defaultPort, processes, hears>> /\ Ages
  BY NothingAges DEF Launch!findPidsForPort, CommandsInv, CommandsTypeOK
<1>2. U \subseteq Srvs \cup Cmds \cup Tabs /\ \A s \in Srvs : processes[s].port = p /\ processes[s].at = "listening" => s \in U
  <2>1. \A s : Launch!Connected(s) \subseteq Cmds \cup Tabs
    BY DEF Launch!Connected
  <2>2. U \subseteq Srvs \cup Cmds \cup Tabs
    BY <2>1 DEF Launch!Uses
  <2>3. ASSUME NEW s \in Srvs, processes[s].port = p, processes[s].at = "listening" PROVE s \in U
    BY <2>3 DEF Launch!Uses, Launch!Listening
  <2> QED
    BY <2>2, <2>3
<1>a. U \in SUBSET (Srvs \cup Cmds \cup Tabs) /\ lost \in BOOLEAN /\ (cmd[c].failed => lost)
  BY <1>2
<1> HIDE DEF U, lost
<1>3. /\ q \in Command /\ q.at = "stopping" /\ q.what = cmd[c].what /\ q.seen = cmd[c].seen \ {p} /\ q.pids = U
      /\ cmd[c].failed => q.failed
  <2>1. q \in Command
    <3> DEFINE r == [cmd[c] EXCEPT !.at = "stopping", !.seen = @ \ {p}]
    <3> DEFINE u == [r EXCEPT !.pids = U]
    <3>1. r \in Command
      BY <1>0 DEF Command
    <3>2. q = [u EXCEPT !.failed = lost]
      BY <1>0 DEF Command
    <3> HIDE DEF r, q
    <3>3. u \in Command
      BY <1>a, <3>1 DEF Command
    <3> HIDE DEF u
    <3> QED
      BY <1>a, <3>2, <3>3 DEF Command
  <2>2. q.at = "stopping" /\ q.what = cmd[c].what /\ q.seen = cmd[c].seen \ {p} /\ q.pids = U
    BY <1>0 DEF Command
  <2>3. cmd[c].failed => q.failed
    BY <1>0, <1>a DEF Command
  <2> QED
    BY <2>1, <2>2, <2>3
<1>4. cmd'[c] = q
  BY <1>1 DEF CommandsInv, CommandsTypeOK
<1> HIDE DEF q
<1>5. StopCovers(c)'
  <2> SUFFICES ASSUME cmd[c].what = "stop", NEW s \in hears[c]
               PROVE  Ending(s) \/ q.failed \/ processes[s].port \in q.seen \/ s \in q.pids
    BY <1>1, <1>3, <1>4 DEF StopCovers, Ending
  <2>1. Ending(s) \/ cmd[c].failed \/ processes[s].port \in cmd[c].seen
    BY <1>0, <1>1 DEF CommandOK, StopCovers, Launch!Stopping
  <2>2. s \in Srvs /\ (processes[s].at = "listening" \/ Ending(s))
    BY <1>0 DEF CommandOK
  <2> QED
    BY <1>2, <1>3, <2>1, <2>2
<1>6. CommandOK(c)'
  BY <1>0, <1>1, <1>3, <1>4, <1>5 DEF CommandOK, StopEnds, Ending
<1> QED
  BY <1>0, <1>1, <1>3, <1>6, CommandGoes

LEMMA CommandSpawns ==
  ASSUME LaunchInv, NEW c \in Cmds, NEW s \in Srvs, Launch!spawnControlPlane(c, s)
  PROVE  LaunchInv'
<1> DEFINE n == [Launch!NewServer EXCEPT !.at = "testing", !.port = cmd[c].port, !.strict = cmd[c].port # NoPort]
<1>0. ProcessesTypeOK /\ ToldByServer /\ Launch!ToldIsTrue /\ cmd[c] \in Command /\ CommandOK(c) /\ hears \in [Cmds -> SUBSET Srvs]
  BY DEF LaunchInv, ProcessesInv, CommandsInv, CommandsTypeOK
<1>1. /\ processes[s].at = "none" /\ processes' = [processes EXCEPT ![s] = n]
      /\ UNCHANGED <<defaultPort, hears, browser>>
  BY DEF Launch!spawnControlPlane
<1>2. n \in Process /\ n.at = "testing" /\ n.told = FALSE
  BY <1>0 DEF Launch!NewServer, Process, Command
<1> HIDE DEF n
<1>3. processes[s].told = FALSE
  BY <1>0, <1>1 DEF ToldByServer, ProcessesTypeOK, Process
<1>4. ProcessesInv' /\ Ages
  BY <1>1, <1>2, <1>3, OneMoves DEF LaunchInv
<1>5. CASE Launch!Probed(c, "open") /\ Launch!Exit(c, 0)
  <2>1. CommandsInv'
    BY <1>1, <1>4, <1>5, CommandExits DEF Launch!Probed, LaunchInv
  <2> QED
    BY <1>4, <2>1 DEF LaunchInv
<1>6. CASE Launch!Probed(c, "start") /\ cmd' = [cmd EXCEPT ![c].at = "waiting"]
  <2> DEFINE q == [cmd[c] EXCEPT !.at = "waiting"]
  <2>1. q \in Command /\ q.at = "waiting" /\ q.what = "start"
    BY <1>0, <1>6 DEF Command, Launch!Probed
  <2>2. cmd' = [cmd EXCEPT ![c] = q] /\ cmd'[c] = q
    BY <1>6 DEF LaunchInv, CommandsInv, CommandsTypeOK
  <2> HIDE DEF q
  <2>3. CommandOK(c)'
    BY <1>1, <1>4, <2>1, <2>2, FoundAges DEF CommandOK, StopCovers, StopEnds, Ending, LaunchInv
  <2>4. CommandsInv'
    BY <1>0, <1>1, <1>4, <2>1, <2>2, <2>3, CommandGoes DEF LaunchInv
  <2> QED
    BY <1>4, <2>4 DEF LaunchInv
<1> QED
  BY <1>5, <1>6 DEF Launch!spawnControlPlane

LEMMA CommandTerminates ==
  ASSUME LaunchInv, NEW c \in Cmds, NEW x \in Srvs \cup Cmds \cup Tabs, Launch!terminatePid(c, x)
  PROVE  LaunchInv'
<1> USE LaunchNames
<1>0. ProcessesInv /\ CommandsInv /\ cmd[c] \in Command /\ CommandOK(c)
  BY DEF LaunchInv, CommandsInv, CommandsTypeOK
<1>1. /\ cmd[c].at = "stopping" /\ cmd[c].target = Nobody /\ UNCHANGED <<defaultPort, hears>>
  BY DEF Launch!terminatePid
<1>2. CASE x \in Srvs /\ cmd' = [cmd EXCEPT ![c].target = x] /\ Launch!Signalled(x)
  <2> DEFINE q == [cmd[c] EXCEPT !.target = x]
  <2>1. ProcessesInv' /\ Ages
    BY <1>0, <1>2, OneSignalled
  <2>2. /\ q \in Command /\ q.at = "stopping" /\ q.what = cmd[c].what /\ q.seen = cmd[c].seen /\ q.pids = cmd[c].pids
        /\ q.failed = cmd[c].failed
    BY <1>0, <1>1, <1>2 DEF Command
  <2>3. cmd' = [cmd EXCEPT ![c] = q] /\ cmd'[c] = q
    BY <1>0, <1>2 DEF CommandsInv, CommandsTypeOK
  <2> HIDE DEF q
  <2>4. CommandOK(c)'
    BY <1>0, <1>1, <2>1, <2>2, <2>3, FoundAges DEF CommandOK, StopCovers, StopEnds, Ending
  <2>5. CommandsInv'
    BY <1>0, <1>1, <2>1, <2>2, <2>3, <2>4, CommandGoes DEF CommandsInv, CommandsTypeOK
  <2> QED
    BY <2>1, <2>5 DEF LaunchInv
<1>a. ASSUME x \notin Srvs, cmd' = [cmd EXCEPT ![c].pids = @ \ {x}], processes' = processes PROVE CommandsInv'
  <2>1. cmd' = [cmd EXCEPT ![c] = [cmd[c] EXCEPT !.pids = @ \ {x}, !.target = Nobody]]
    <3>1. [cmd[c] EXCEPT !.pids = @ \ {x}] = [cmd[c] EXCEPT !.pids = @ \ {x}, !.target = Nobody]
      BY <1>0, <1>1 DEF Command
    <3> QED
      BY <1>0, <1>a, <3>1 DEF CommandsInv, CommandsTypeOK
  <2> QED
    BY <1>0, <1>1, <1>a, <2>1, NothingAges, LessToEnd
<1>3. CASE x \in Cmds /\ cmd[x].at # "ended" /\ Launch!Killed(c, x)
  <2>0. /\ UNCHANGED <<processes, browser>> /\ Ages /\ ProcessesInv'
        /\ cmd' = [cmd EXCEPT ![c].pids = @ \ {x},
                              ![x] = [@ EXCEPT !.at = "ended", !.code = 143, !.pids = {}, !.seen = {}, !.target = Nobody]]
    BY <1>0, <1>3, NothingAges, ProcessesStay DEF Launch!Killed
  <2> DEFINE q == [cmd[c] EXCEPT !.pids = @ \ {x}]
  <2> DEFINE b == IF x = c THEN q ELSE cmd[x]
  <2> DEFINE k == [b EXCEPT !.at = "ended", !.code = 143, !.pids = {}, !.seen = {}, !.target = Nobody]
  <2>1. cmd \in [Cmds -> Command] /\ cmd[x] \in Command /\ x \notin Srvs
    BY <1>0, <1>3 DEF CommandsInv, CommandsTypeOK
  <2>2. /\ q \in Command /\ q.pids = cmd[c].pids \ {x} /\ q.at = "stopping" /\ q.what = cmd[c].what
        /\ q.seen = cmd[c].seen /\ q.failed = cmd[c].failed
    BY <1>0, <1>1 DEF Command
  <2>3. b \in Command
    BY <2>1, <2>2
  <2>4. k \in Command /\ k.at = "ended" /\ k.code = 143
    <3> HIDE DEF b
    <3> QED
      BY <2>3, ZenonT(60) DEF Command
  <2>5. cmd' = [[cmd EXCEPT ![c] = q] EXCEPT ![x] = k]
    BY <1>3, <2>0, <2>1, ZenonT(60)
  <2> HIDE DEF q, b, k
  <2>6. /\ cmd' \in [Cmds -> Command] /\ cmd'[x] = k /\ (x # c => cmd'[c] = q)
        /\ \A d \in Cmds : d # c /\ d # x => cmd'[d] = cmd[d]
    BY <1>3, <2>1, <2>2, <2>4, <2>5
  <2>7. CommandOK(x)'
    BY <1>0, <1>1, <1>3, <2>0, <2>4, <2>6, FoundAges DEF CommandOK, StopCovers, StopEnds, Ending
  <2>8. ASSUME x # c PROVE CommandOK(c)'
    <3>1. cmd'[c] = q /\ hears'[c] = hears[c]
      BY <1>1, <2>6, <2>8
    <3>2. StopCovers(c)'
      <4> SUFFICES ASSUME cmd[c].what = "stop", NEW s \in hears[c]
                   PROVE  Ending(s)' \/ q.failed \/ processes'[s].port \in q.seen \/ s \in q.pids
        BY <2>2, <3>1 DEF StopCovers
      <4>1. Ending(s) \/ cmd[c].failed \/ processes[s].port \in cmd[c].seen \/ s \in cmd[c].pids
        BY <1>0, <1>1 DEF CommandOK, StopCovers
      <4> QED
        BY <1>0, <2>0, <2>1, <2>2, <4>1, FoundAges DEF Ending
    <3> QED
      BY <1>0, <2>0, <2>2, <3>1, <3>2, FoundAges DEF CommandOK, StopEnds, Ending
  <2>9. \A d \in Cmds : d # c /\ d # x => CommandOK(d)'
    BY <1>0, <1>1, <2>0, <2>6, CommandKeeps
  <2>10. CommandsInv'
    BY <1>0, <1>1, <1>3, <2>6, <2>7, <2>8, <2>9 DEF CommandsInv, CommandsTypeOK
  <2> QED
    BY <2>0, <2>10 DEF LaunchInv
<1>4. CASE x \in Cmds /\ cmd' = [cmd EXCEPT ![c].pids = @ \ {x}] /\ UNCHANGED <<processes, browser>>
  BY <1>0, <1>4, <1>a, ProcessesStay DEF LaunchInv
<1>5. CASE /\ x \in Tabs /\ cmd' = [cmd EXCEPT ![c].pids = @ \ {x}] /\ processes' = processes
           /\ browser' = [browser EXCEPT ![x] = [srv |-> Nobody, phase |-> "closed"]]
  <2>1. /\ browser' \in [Tabs -> BrowserTab] /\ browser'[x].srv = Nobody /\ browser'[x].phase = "closed"
        /\ \A u \in Tabs : u # x => browser'[u] = browser[u]
    BY <1>0, <1>5 DEF ProcessesInv, ProcessesTypeOK, BrowserTab
  <2>2. ProcessesInv'
    BY <1>0, <1>5, <2>1 DEF ProcessesInv, ProcessesTypeOK, ToldByServer, Launch!ToldIsTrue
  <2> QED
    BY <1>5, <1>a, <2>2 DEF LaunchInv
<1> QED
  BY <1>2, <1>3, <1>4, <1>5 DEF Launch!terminatePid

LEMMA CommandTerminated ==
  ASSUME LaunchInv, NEW c \in Cmds, Launch!Terminated(c)
  PROVE  LaunchInv'
<1> USE LaunchNames
<1> DEFINE s == cmd[c].target
<1>0. ProcessesInv /\ CommandsInv /\ cmd[c] \in Command
  BY DEF LaunchInv, CommandsInv, CommandsTypeOK
<1>1. /\ s # Nobody /\ cmd' = [cmd EXCEPT ![c].pids = @ \ {s}, ![c].target = Nobody] /\ UNCHANGED <<defaultPort, hears>>
      /\ (processes[s].at = "gone" /\ UNCHANGED <<processes, browser>>) \/ Launch!Ended(s)
  BY DEF Launch!Terminated
<1>2. s \in Srvs
  BY <1>0, <1>1 DEF Command
<1>3. cmd' = [cmd EXCEPT ![c] = [cmd[c] EXCEPT !.pids = @ \ {s}, !.target = Nobody]]
  BY <1>0, <1>1 DEF CommandsInv, CommandsTypeOK
<1> HIDE DEF s
<1>4. ProcessesInv' /\ Ages /\ processes'[s].at = "gone"
  BY <1>0, <1>1, <1>2, OneEnds, ProcessesStay, NothingAges
<1>5. CommandsInv'
  BY <1>0, <1>1, <1>2, <1>3, <1>4, LessToEnd
<1> QED
  BY <1>4, <1>5 DEF LaunchInv

LEMMA CommandSteps == ASSUME LaunchInv, NEW c \in Cmds, Launch!CommandStep(c) PROVE LaunchInv'
<1>0. ProcessesInv /\ CommandsInv /\ CommandOK(c)
  BY DEF LaunchInv, CommandsInv
<1>1. ASSUME NEW p \in Launch!Ports, Launch!probeControlPlane(c, p) PROVE LaunchInv'
  BY <1>0, <1>1, CommandProbes, ProcessesStay DEF LaunchInv, Launch!probeControlPlane
<1>2. ASSUME NEW p \in Launch!Ports, Launch!findPidsForPort(c, p) PROVE LaunchInv'
  BY <1>0, <1>2, CommandLooksUp, ProcessesStay DEF LaunchInv, Launch!findPidsForPort
<1>3. ASSUME NEW s \in Srvs, Launch!spawnControlPlane(c, s) PROVE LaunchInv'
  BY <1>3, CommandSpawns
<1>4. ASSUME NEW x \in Srvs \cup Cmds \cup Tabs, Launch!terminatePid(c, x) PROVE LaunchInv'
  BY <1>4, CommandTerminates
<1>5. CASE Launch!Terminated(c)
  BY <1>5, CommandTerminated
<1>a. ASSUME UNCHANGED <<defaultPort, processes, hears, browser>>, NEW code \in {0, 1}, Launch!Exit(c, code),
             cmd[c].what = "stop" /\ code = 0 => \A s \in hears[c] : Ending(s)
      PROVE  LaunchInv'
  BY <1>0, <1>a, CommandExits, ProcessesStay, NothingAges DEF LaunchInv
<1>6. CASE Launch!FoundOne(c)
  BY <1>6, <1>a DEF Launch!FoundOne, Launch!Probed
<1>7. CASE Launch!ChildEnds(c)
  <2>1. cmd[c].what = "start"
    BY <1>0, <1>7 DEF CommandOK, Launch!ChildEnds
  <2> QED
    BY <1>7, <1>a, <2>1 DEF Launch!ChildEnds
<1>8. CASE Launch!Stopped(c)
  <2> DEFINE code == IF cmd[c].what = "stop" /\ cmd[c].failed THEN 1 ELSE 0
  <2>1. /\ Launch!Stopping(c) /\ cmd[c].seen = {} /\ Launch!Exit(c, code)
        /\ UNCHANGED <<defaultPort, processes, hears, browser>>
    BY <1>8 DEF Launch!Stopped
  <2>2. ASSUME cmd[c].what = "stop", ~cmd[c].failed PROVE \A s \in hears[c] : Ending(s)
    BY <1>0, <2>1, <2>2 DEF CommandOK, StopCovers, Launch!Stopping
  <2>3. code \in {0, 1} /\ (cmd[c].what = "stop" /\ code = 0 => \A s \in hears[c] : Ending(s))
    BY <2>2
  <2> HIDE DEF code
  <2> QED
    BY <1>a, <2>1, <2>3
<1> QED
  BY <1>1, <1>2, <1>3, <1>4, <1>5, <1>6, <1>7, <1>8 DEF Launch!CommandStep

LEMMA LaunchStep == ASSUME LaunchInv, Launch!Next PROVE LaunchInv'
<1>0. ProcessesInv /\ CommandsInv
  BY DEF LaunchInv
<1>1. ASSUME NEW s \in Srvs, Launch!ServerStep(s) PROVE LaunchInv'
  BY <1>0, <1>1, ServerSteps, CommandsKeep DEF LaunchInv
<1>2. ASSUME NEW t \in Tabs, Launch!selfStop(t) \/ \E s \in Srvs : Launch!Connect(t, s) PROVE LaunchInv'
  BY <1>0, <1>2, TabSteps, CommandsKeep DEF LaunchInv
<1>3. ASSUME NEW c \in Cmds, Launch!CommandStep(c) PROVE LaunchInv'
  BY <1>3, CommandSteps
<1>4. ASSUME NEW c \in Cmds, NEW s \in Srvs, Launch!Idles(c, s) PROVE LaunchInv'
  BY <1>0, <1>4, NothingAges, ProcessesStay, CommandsKeep DEF LaunchInv, Launch!Idles
<1>5. ASSUME NEW c \in Cmds, NEW what \in Commands, NEW p \in Launch!Ports \cup {NoPort}, Launch!Run(c, what, p) PROVE LaunchInv'
  <2> DEFINE q == [Launch!NewCommand EXCEPT !.at = "probing", !.what = what, !.port = p, !.left = Launch!preferredPorts(p)]
  <2>1. /\ cmd[c].at = "none" /\ cmd' = [cmd EXCEPT ![c] = q] /\ UNCHANGED <<defaultPort, processes, hears, browser>>
    BY <1>5 DEF Launch!Run
  <2>2. Launch!preferredPorts(p) \subseteq Launch!Ports
    BY <1>0 DEF Launch!preferredPorts, Launch!Ports, CommandsInv, CommandsTypeOK
  <2>3. q \in Command /\ q.at = "probing"
    BY <2>2 DEF Launch!NewCommand, Command
  <2>4. cmd'[c] = q /\ hears[c] = {} /\ hears \in [Cmds -> SUBSET Srvs]
    BY <1>0, <2>1 DEF CommandsInv, CommandsTypeOK, CommandOK
  <2> HIDE DEF q
  <2>5. CommandOK(c)'
    BY <2>1, <2>3, <2>4 DEF CommandOK, StopCovers, StopEnds
  <2>6. CommandsInv'
    BY <1>0, <2>1, <2>3, <2>4, <2>5, NothingAges, CommandGoes
  <2> QED
    BY <1>0, <2>1, <2>6, ProcessesStay DEF LaunchInv
<1>6. ASSUME NEW p \in Launch!Ports \cup {NoPort}, Launch!handleConfig(p) PROVE LaunchInv'
  <2>1. defaultPort' = p /\ UNCHANGED <<processes, cmd, hears, browser>>
    BY <1>6 DEF Launch!handleConfig, Launch!writeConfig, Launch!commands
  <2>2. \A c \in Cmds : CommandOK(c)'
    BY <1>0, <2>1, NothingAges, CommandKeeps
  <2> QED
    BY <1>0, <2>1, <2>2, ProcessesStay DEF LaunchInv, CommandsInv, CommandsTypeOK
<1> QED
  BY <1>1, <1>2, <1>3, <1>4, <1>5, <1>6 DEF Launch!Next

LEMMA LaunchStay == ASSUME LaunchInv, UNCHANGED slots PROVE LaunchInv'
<1>1. UNCHANGED <<defaultPort, processes, cmd, hears, browser>>
  BY DEF slots
<1> QED
  BY <1>1, NothingAges, CommandsKeep, ProcessesStay DEF LaunchInv

HIDE DEF defaultPort, processes, cmd, hears, browser

-----------------------------------------------------------------------------
(***************************************************************************)
(* The setup checklist.  Whatever has read the environment read it after   *)
(* the repairs that are owed, and a repair has read it after itself.       *)
(***************************************************************************)
setupFacts == s1
repaired == s3
get == s4
posts == s5
shown == s7
owed == s8
USE DEF setupFacts, repaired, get, posts, shown, owed

SetupFacts == Checklist!Facts \cup Changing
SetupGets == [at : {"none", "asked", "half", "read"}, facts : SUBSET SetupFacts, asOf : Nat]
SetupPosts == [at : {"none", "sent", "asked", "half", "read"}, facts : SUBSET SetupFacts, asOf : Nat, made : Nat]
SetupData == [known : BOOLEAN, facts : SUBSET SetupFacts, asOf : Nat]

ChecklistTypeOK ==
  /\ setupFacts \in SUBSET SetupFacts /\ repaired \in Nat /\ owed \in 0..repaired
  /\ get \in SetupGets /\ posts \in [Checklist!Posts -> SetupPosts] /\ shown \in SetupData

HasRead(r) == r.at \in {"half", "read"}
ReadAfterOwed ==
  /\ HasRead(get) => get.asOf >= owed
  /\ \A p \in Checklist!Posts : /\ HasRead(posts[p]) => posts[p].asOf >= owed /\ posts[p].asOf >= posts[p].made
                                /\ posts[p].made <= repaired

ChecklistInv == ChecklistTypeOK /\ ReadAfterOwed /\ Checklist!RepairIsShown

LEMMA ChecklistInit == ASSUME Checklist!Init PROVE ChecklistInv
BY DEF Checklist!Init, SetupFacts, Checklist!NoRequest, Checklist!NoPost, Checklist!NoData, ChecklistInv, ChecklistTypeOK, SetupGets,
   SetupPosts, SetupData, ReadAfterOwed, HasRead, Checklist!RepairIsShown

\* Half of what is read, then the rest.
LEMMA GetReadsOn ==
  ASSUME ChecklistInv, Checklist!Reading(get)
  PROVE  LET r == Checklist!Read(get) IN r \in SetupGets /\ r.asOf >= owed
<1>0. /\ get \in SetupGets /\ setupFacts \in SUBSET SetupFacts /\ repaired \in Nat /\ owed \in 0..repaired
      /\ get.at = "half" => get.asOf >= owed
  BY DEF ChecklistInv, ChecklistTypeOK, ReadAfterOwed, HasRead
<1>1. CASE get.at = "asked"
  <2> DEFINE f == setupFacts \cap Checklist!Environment
  <2>1. Checklist!Read(get) = [get EXCEPT !.at = "half", !.facts = f, !.asOf = repaired]
    BY <1>1 DEF Checklist!Read
  <2>2. f \in SUBSET SetupFacts
    BY <1>0
  <2> HIDE DEF f
  <2> DEFINE r == [get EXCEPT !.at = "half", !.facts = f, !.asOf = repaired]
  <2>3. r \in SetupGets /\ r.asOf = repaired
    BY <1>0, <2>2 DEF SetupGets
  <2> HIDE DEF r
  <2> QED
    BY <1>0, <2>1, <2>3 DEF r
<1>2. CASE get.at = "half"
  <2>1. Checklist!Read(get) = [get EXCEPT !.at = "read", !.facts = get.facts \cup (setupFacts \ Checklist!Environment)]
    BY <1>2 DEF Checklist!Read
  <2> QED
    BY <1>0, <1>2, <2>1 DEF SetupGets
<1> QED
  BY <1>1, <1>2 DEF Checklist!Reading

LEMMA PostReadsOn ==
  ASSUME ChecklistInv, NEW p \in Checklist!Posts, Checklist!Reading(posts[p])
  PROVE  LET r == Checklist!Read(posts[p]) IN
         r \in SetupPosts /\ r.asOf >= owed /\ r.asOf >= r.made /\ r.made = posts[p].made
<1> DEFINE post == posts[p]
<1>0. /\ post \in SetupPosts /\ setupFacts \in SUBSET SetupFacts /\ repaired \in Nat /\ owed \in 0..repaired
      /\ post.at = "half" => post.asOf >= owed /\ post.asOf >= post.made
      /\ post.made <= repaired
  BY DEF ChecklistInv, ChecklistTypeOK, ReadAfterOwed, HasRead
<1> HIDE DEF post
<1>1. CASE post.at = "asked"
  <2>1. Checklist!Read(post) = [post EXCEPT !.at = "half", !.facts = setupFacts \cap Checklist!Environment, !.asOf = repaired]
    BY <1>1 DEF Checklist!Read
  <2>2. Checklist!Read(post) \in SetupPosts /\ Checklist!Read(post).asOf = repaired /\ Checklist!Read(post).made = post.made
    BY <1>0, <2>1 DEF SetupPosts
  <2> QED
    BY <1>0, <2>2 DEF post
<1>2. CASE post.at = "half"
  <2>1. Checklist!Read(post) = [post EXCEPT !.at = "read", !.facts = post.facts \cup (setupFacts \ Checklist!Environment)]
    BY <1>2 DEF Checklist!Read
  <2>2. Checklist!Read(post) \in SetupPosts /\ Checklist!Read(post).asOf = post.asOf /\ Checklist!Read(post).made = post.made
    BY <1>0, <2>1 DEF SetupPosts
  <2> QED
    BY <1>0, <1>2, <2>2 DEF post
<1> QED
  BY <1>1, <1>2 DEF Checklist!Reading, post

\* A post is sent, goes on or ends.
LEMMA PostMoves ==
  ASSUME ChecklistInv, NEW p \in Checklist!Posts, NEW q \in SetupPosts, posts' = [posts EXCEPT ![p] = q],
         HasRead(q) => q.asOf >= owed /\ q.asOf >= q.made, q.made <= repaired',
         setupFacts' \in SUBSET SetupFacts, repaired' \in {repaired, repaired + 1}, UNCHANGED <<get, shown, owed>>
  PROVE  ChecklistInv'
<1>0. ChecklistTypeOK /\ ReadAfterOwed /\ Checklist!RepairIsShown
  BY DEF ChecklistInv
<1>1. /\ posts' \in [Checklist!Posts -> SetupPosts] /\ posts'[p] = q
      /\ \A o \in Checklist!Posts : o # p => posts'[o] = posts[o]
  BY <1>0 DEF ChecklistTypeOK
<1>2. repaired' \in Nat /\ repaired' >= repaired /\ owed' \in 0..repaired'
  BY <1>0 DEF ChecklistTypeOK
<1>3. ChecklistTypeOK'
  BY <1>0, <1>1, <1>2 DEF ChecklistTypeOK
<1>4. ASSUME NEW o \in Checklist!Posts, o # p PROVE posts'[o].made <= repaired'
  <2>1. posts[o] \in SetupPosts /\ posts[o].made <= repaired
    BY <1>0 DEF ChecklistTypeOK, ReadAfterOwed
  <2> QED
    BY <1>0, <1>1, <1>2, <1>4, <2>1 DEF SetupPosts, ChecklistTypeOK
<1>5. ReadAfterOwed'
  BY <1>0, <1>1, <1>4 DEF ReadAfterOwed, HasRead
<1>6. Checklist!RepairIsShown'
  BY <1>0 DEF Checklist!RepairIsShown
<1> QED
  BY <1>3, <1>5, <1>6 DEF ChecklistInv

LEMMA ChecklistStep == ASSUME ChecklistInv, Checklist!Next PROVE ChecklistInv'
<1> USE DEF Checklist!server, Checklist!page
<1>0. /\ ChecklistTypeOK /\ ReadAfterOwed /\ Checklist!RepairIsShown
      /\ \A p \in Checklist!Posts : posts[p] \in SetupPosts
  BY DEF ChecklistInv, ChecklistTypeOK
<1>a. Checklist!NoPost \in SetupPosts /\ Checklist!NoPost.at = "none" /\ Checklist!NoPost.made = 0
  BY DEF Checklist!NoPost, SetupPosts
<1>b. Checklist!NoRequest \in SetupGets /\ Checklist!NoRequest.at = "none"
  BY DEF Checklist!NoRequest, SetupGets
<1>1. CASE Checklist!GetReads
  <2>1. Checklist!Reading(get) /\ get' = Checklist!Read(get) /\ UNCHANGED <<setupFacts, repaired, posts, shown, owed>>
    BY <1>1 DEF Checklist!GetReads
  <2>2. get' \in SetupGets /\ get'.asOf >= owed
    BY <2>1, GetReadsOn
  <2> QED
    BY <1>0, <2>1, <2>2 DEF ChecklistInv, ChecklistTypeOK, ReadAfterOwed, HasRead, Checklist!RepairIsShown
<1>2. CASE Checklist!GetAnswered
  <2>1. /\ get.at = "read" /\ get' = Checklist!NoRequest /\ shown' = Checklist!Data(get)
        /\ UNCHANGED <<setupFacts, repaired, posts, owed>>
    BY <1>2 DEF Checklist!GetAnswered
  <2>2. shown' \in SetupData /\ shown'.asOf = get.asOf
    BY <1>0, <2>1 DEF Checklist!Data, SetupData, ChecklistTypeOK, SetupGets
  <2> QED
    BY <1>0, <1>b, <2>1, <2>2 DEF ChecklistInv, ChecklistTypeOK, ReadAfterOwed, HasRead, Checklist!RepairIsShown
<1>3. CASE Checklist!Refetch
  <2>1. get' \in SetupGets /\ get'.at = "asked" /\ UNCHANGED <<setupFacts, repaired, posts, shown, owed>>
    BY <1>3 DEF Checklist!Refetch, Checklist!NoRequest, SetupGets
  <2> QED
    BY <1>0, <2>1 DEF ChecklistInv, ChecklistTypeOK, ReadAfterOwed, HasRead, Checklist!RepairIsShown
<1>4. ASSUME NEW p \in Checklist!Posts, NEW at \in {"asked", "sent"}, posts' = [posts EXCEPT ![p].at = at],
             UNCHANGED <<setupFacts, repaired, get, shown, owed>>
      PROVE  ChecklistInv'
  <2> DEFINE q == [posts[p] EXCEPT !.at = at]
  <2>1. q \in SetupPosts /\ q.at = at /\ q.made = posts[p].made
    BY <1>0 DEF SetupPosts
  <2>2. posts' = [posts EXCEPT ![p] = q]
    BY <1>0, <1>4 DEF ChecklistTypeOK
  <2> HIDE DEF q
  <2> QED
    BY <1>0, <1>4, <2>1, <2>2, PostMoves DEF ReadAfterOwed, ChecklistTypeOK, HasRead
<1>5. CASE Checklist!handleRefreshAll
  BY <1>4, <1>5 DEF Checklist!handleRefreshAll, Checklist!Posts
<1>6. ASSUME NEW a \in Checklist!Repairable, Checklist!handleRepairAction(a) PROVE ChecklistInv'
  BY <1>4, <1>6 DEF Checklist!handleRepairAction, Checklist!Posts
<1>7. ASSUME NEW p \in Checklist!Posts, posts' = [posts EXCEPT ![p] = Checklist!NoPost],
             UNCHANGED <<setupFacts, repaired, get, shown, owed>>
      PROVE  ChecklistInv'
  <2>1. repaired \in Nat /\ setupFacts \in SUBSET SetupFacts
    BY <1>0 DEF ChecklistTypeOK
  <2> DEFINE q == Checklist!NoPost
  <2>2. /\ q \in SetupPosts /\ posts' = [posts EXCEPT ![p] = q] /\ q.made <= repaired' /\ ~HasRead(q)
        /\ setupFacts' \in SUBSET SetupFacts /\ repaired' = repaired
    BY <1>a, <1>7, <2>1 DEF HasRead
  <2> HIDE DEF q
  <2> QED
    BY <1>7, <2>2, PostMoves
<1>8. ASSUME NEW a \in Checklist!Repairable, Checklist!Repairs(a) PROVE ChecklistInv'
  <2>1. a \in Checklist!Posts /\ a \in SetupFacts
    BY DEF Checklist!Posts, Checklist!Repairable, Checklist!Facts, SetupFacts
  <2>2. CASE /\ setupFacts' = setupFacts \cup {a} /\ repaired' = repaired + 1
             /\ posts' = [posts EXCEPT ![a].at = "asked", ![a].made = repaired']
             /\ UNCHANGED <<get, shown, owed>>
    <3> DEFINE q == [posts[a] EXCEPT !.at = "asked", !.made = repaired']
    <3>0. setupFacts' \in SUBSET SetupFacts /\ repaired' \in Nat /\ posts[a] \in SetupPosts
      BY <1>0, <2>1, <2>2 DEF ChecklistTypeOK
    <3>1. q \in SetupPosts /\ q.at = "asked" /\ q.made = repaired'
      BY <3>0 DEF SetupPosts
    <3>2. posts' = [posts EXCEPT ![a] = q]
      BY <1>0, <2>1, <2>2 DEF ChecklistTypeOK
    <3>3. ~HasRead(q) /\ q.made <= repaired' /\ repaired' \in {repaired, repaired + 1}
      BY <2>2, <3>0, <3>1 DEF HasRead
    <3> HIDE DEF q
    <3> QED
      BY <2>1, <2>2, <3>0, <3>1, <3>2, <3>3, PostMoves
  <2> QED
    BY <1>7, <1>8, <2>1, <2>2 DEF Checklist!Repairs
<1>9. ASSUME NEW p \in Checklist!Posts, Checklist!PostReads(p) PROVE ChecklistInv'
  <2>1. /\ Checklist!Reading(posts[p]) /\ posts' = [posts EXCEPT ![p] = Checklist!Read(posts[p])]
        /\ UNCHANGED <<setupFacts, repaired, get, shown, owed>>
    BY <1>9 DEF Checklist!PostReads
  <2>2. posts[p].made <= repaired
    BY <1>0 DEF ReadAfterOwed
  <2> DEFINE q == Checklist!Read(posts[p])
  <2>3. q \in SetupPosts /\ q.asOf >= owed /\ q.asOf >= q.made /\ q.made = posts[p].made
    BY <2>1, PostReadsOn
  <2> HIDE DEF q
  <2>4. posts' = [posts EXCEPT ![p] = q] /\ repaired' = repaired /\ setupFacts' \in SUBSET SetupFacts
    BY <1>0, <2>1 DEF q, ChecklistTypeOK
  <2>5. HasRead(q) => q.asOf >= owed /\ q.asOf >= q.made
    BY <2>3
  <2> QED
    BY <2>1, <2>2, <2>3, <2>4, <2>5, PostMoves
<1>10. ASSUME NEW p \in Checklist!Posts, Checklist!PostAnswered(p) PROVE ChecklistInv'
  <2>1. /\ posts[p].at = "read" /\ posts' = [posts EXCEPT ![p] = Checklist!NoPost]
        /\ shown' = Checklist!Data(posts[p]) /\ UNCHANGED <<setupFacts, repaired, get>>
        /\ owed' = IF ~Checklist!Alone(p) THEN 0 ELSE IF p = "button" THEN owed ELSE posts[p].made
    BY <1>10 DEF Checklist!PostAnswered, Checklist!Settles
  <2>2. shown' \in SetupData /\ shown'.asOf = posts[p].asOf
    BY <1>0, <2>1 DEF Checklist!Data, SetupData, SetupPosts
  <2>3. posts[p].asOf >= owed /\ posts[p].asOf >= posts[p].made /\ posts[p].made <= repaired /\ posts[p].made \in Nat
    BY <1>0, <2>1 DEF ReadAfterOwed, HasRead, SetupPosts
  <2>4. owed' \in 0..repaired' /\ shown'.asOf >= owed'
    BY <1>0, <2>1, <2>2, <2>3 DEF ChecklistTypeOK, SetupPosts
  <2>5. ChecklistTypeOK'
    BY <1>0, <1>a, <2>1, <2>2, <2>4 DEF ChecklistTypeOK
  <2>6. CASE owed' \in {0, owed}
    BY <1>0, <1>a, <2>1, <2>4, <2>5, <2>6 DEF ChecklistInv, ChecklistTypeOK, ReadAfterOwed, HasRead, SetupGets, SetupPosts,
       Checklist!RepairIsShown
  <2>7. CASE Checklist!Alone(p)
    <3>1. get'.at = "none" /\ \A q \in Checklist!Posts : posts'[q].at = "none"
      BY <1>0, <1>a, <2>1, <2>7 DEF Checklist!Alone, ChecklistTypeOK
    <3>2. \A q \in Checklist!Posts : posts'[q].made <= repaired'
      BY <1>0, <1>a, <2>1 DEF ChecklistTypeOK, ReadAfterOwed
    <3> QED
      BY <2>4, <2>5, <3>1, <3>2 DEF ChecklistInv, ReadAfterOwed, HasRead, Checklist!RepairIsShown
  <2> QED
    BY <2>1, <2>6, <2>7
<1>11. ASSUME NEW p \in Checklist!Posts, Checklist!PostFails(p) PROVE ChecklistInv'
  BY <1>7, <1>11 DEF Checklist!PostFails
<1>12. ASSUME NEW f \in Changing, Checklist!Outside(f) PROVE ChecklistInv'
  <2>1. UNCHANGED <<repaired, get, posts, shown, owed>> /\ setupFacts' \in SUBSET SetupFacts
    BY <1>0, <1>12 DEF Checklist!Outside, ChecklistTypeOK, SetupFacts
  <2> QED
    BY <1>0, <2>1 DEF ChecklistInv, ChecklistTypeOK, ReadAfterOwed, HasRead, Checklist!RepairIsShown
<1> QED
  BY <1>1, <1>2, <1>3, <1>5, <1>6, <1>8, <1>9, <1>10, <1>11, <1>12 DEF Checklist!Next

LEMMA ChecklistStays == ASSUME ChecklistInv, UNCHANGED slots PROVE ChecklistInv'
BY DEF slots, ChecklistInv, ChecklistTypeOK, ReadAfterOwed, HasRead, Checklist!RepairIsShown

HIDE DEF setupFacts, repaired, get, posts, shown, owed

-----------------------------------------------------------------------------
(***************************************************************************)
(* The shell.  The draft of the page of settings differs from the settings *)
(* of its tab only in the fields that were edited.                         *)
(***************************************************************************)
overallHealth == s1
healthPolls == s2
prevOverall == s3
toasts == s4
dismissed == s5
storedSettings == s6
tabSettings == s7
settingsDraft == s8
edited == s9
USE DEF overallHealth, healthPolls, prevOverall, toasts, dismissed, storedSettings, tabSettings, settingsDraft, edited

LEMMA FrameBounds == FirstTab \in ShellTabs /\ MaxToasts \in Nat \ {0}
BY ControlsAssumption

FieldValues == [Fields -> {0, 1}]
FrameTypeOK ==
  /\ overallHealth \in Frame!Overalls /\ healthPolls \in Seq(Frame!Overalls) /\ prevOverall \in Frame!Overalls \cup {Frame!Unknown}
  /\ toasts \in Seq(Frame!Overalls) /\ dismissed \in BOOLEAN
SettingsTypeOK == /\ storedSettings \in FieldValues /\ tabSettings \in [ShellTabs -> FieldValues]
                  /\ settingsDraft \in FieldValues /\ edited \in SUBSET Fields
DraftIsOfSettings == \A f \in Fields \ edited : settingsDraft[f] = tabSettings[FirstTab][f]

ToastsInv == FrameTypeOK /\ Frame!BadHealthIsToasted
SettingsInv == SettingsTypeOK /\ DraftIsOfSettings
FrameInv == ToastsInv /\ SettingsInv

LEMMA NoneListed == \A S : <<>> \in Seq(S)
OBVIOUS

LEMMA FrameInit == ASSUME Frame!Init PROVE FrameInv
<1> USE FrameBounds DEF Frame!Init
<1>1. Frame!DEFAULT_SETTINGS \in FieldValues
  BY DEF Frame!DEFAULT_SETTINGS, FieldValues
<1>2. SettingsInv
  BY <1>1 DEF SettingsInv, SettingsTypeOK, DraftIsOfSettings
<1>3. ToastsInv
  <2>1. /\ overallHealth \in Frame!Overalls /\ prevOverall = "unknown" /\ dismissed = FALSE
        /\ healthPolls = <<>> /\ toasts = <<>>
    BY DEF Frame!Unknown
  <2> QED
    BY <2>1, NoneListed DEF ToastsInv, FrameTypeOK, Frame!BadHealthIsToasted, Frame!Unknown
<1> QED
  BY <1>2, <1>3 DEF FrameInv

\* One element less: the others are all there.
LEMMA RemovesOne ==
  ASSUME NEW S, NEW l \in Seq(S), NEW i \in 1..Len(l)
  PROVE  /\ Frame!RemoveAt(l, i) \in Seq(S)
         /\ \A e : Frame!Contains(l, e) /\ l[i] # e => Frame!Contains(Frame!RemoveAt(l, i), e)
<1> DEFINE a == SubSeq(l, 1, i - 1)
<1> DEFINE b == SubSeq(l, i + 1, Len(l))
<1>1. a \in Seq(S) /\ Len(a) = i - 1 /\ \A j \in 1..(i - 1) : a[j] = l[j]
  BY SubSeqProperties
<1>2. b \in Seq(S) /\ Len(b) = Len(l) - i /\ \A j \in 1..(Len(l) - i) : b[j] = l[i + j]
  BY SubSeqProperties
<1>3. Frame!RemoveAt(l, i) = a \o b
  BY DEF Frame!RemoveAt
<1> HIDE DEF a, b
<1>4. /\ a \o b \in Seq(S) /\ Len(a \o b) = Len(a) + Len(b)
      /\ \A j \in 1..(Len(a) + Len(b)) : (a \o b)[j] = IF j <= Len(a) THEN a[j] ELSE b[j - Len(a)]
  BY <1>1, <1>2, ConcatProperties
<1>5. ASSUME NEW e, NEW j \in 1..Len(l), l[j] = e, l[i] # e PROVE \E m \in 1..Len(a \o b) : (a \o b)[m] = e
  <2>1. CASE j < i
    <3>1. j \in 1..Len(a \o b) /\ (a \o b)[j] = a[j]
      BY <1>1, <1>2, <1>4, <2>1
    <3>2. a[j] = l[j]
      BY <1>1, <2>1
    <3> QED
      BY <1>5, <3>1, <3>2
  <2>2. CASE j > i
    <3>1. j - 1 \in 1..Len(a \o b) /\ (a \o b)[j - 1] = b[j - i]
      BY <1>1, <1>2, <1>4, <2>2
    <3>2. b[j - i] = l[j]
      BY <1>2, <2>2
    <3> QED
      BY <1>5, <3>1, <3>2
  <2> QED
    BY <1>5, <2>1, <2>2
<1> QED
  BY <1>3, <1>4, <1>5 DEF Frame!Contains

\* A title that is added is listed.
LEMMA AddedIsListed ==
  ASSUME FrameTypeOK, NEW o \in Frame!Overalls
  PROVE  Frame!Added(o) \in Seq(Frame!Overalls) /\ Frame!Contains(Frame!Added(o), o)
<1>1. CASE Frame!Contains(toasts, o)
  BY <1>1 DEF Frame!Added, FrameTypeOK
<1>2. CASE ~Frame!Contains(toasts, o)
  <2> DEFINE l == IF Len(toasts) >= MaxToasts THEN Tail(toasts) ELSE toasts
  <2>1. l \in Seq(Frame!Overalls)
    <3>1. CASE Len(toasts) >= MaxToasts
      <4>1. toasts # <<>>
        BY <3>1, FrameBounds
      <4> QED
        BY <3>1, <4>1, HeadTailProperties DEF FrameTypeOK
    <3>2. CASE ~(Len(toasts) >= MaxToasts)
      BY <3>2 DEF FrameTypeOK
    <3> QED
      BY <3>1, <3>2
  <2>2. Frame!Added(o) = Append(l, o)
    BY <1>2 DEF Frame!Added
  <2> HIDE DEF l
  <2>3. Append(l, o) \in Seq(Frame!Overalls) /\ Len(Append(l, o)) = Len(l) + 1 /\ Append(l, o)[Len(l) + 1] = o
    BY <2>1, AppendProperties
  <2>4. Len(l) + 1 \in 1..Len(Append(l, o))
    BY <2>1, <2>3
  <2> QED
    BY <2>2, <2>3, <2>4 DEF Frame!Contains
<1> QED
  BY <1>1, <1>2

(* The poller and its toasts.                                              *)
ToastStep == \/ Frame!HealthChanges \/ Frame!Poll
             \/ \E i \in DOMAIN healthPolls : Frame!Unanswered(i) \/ Frame!pollHealth(i)
             \/ \E i \in DOMAIN toasts : Frame!dismissToast(i)

LEMMA ToastsKept == ASSUME ToastsInv, ToastStep PROVE ToastsInv'
<1>0. FrameTypeOK /\ Frame!BadHealthIsToasted
  BY DEF ToastsInv
<1>a. DOMAIN healthPolls = 1..Len(healthPolls) /\ DOMAIN toasts = 1..Len(toasts)
  BY <1>0 DEF FrameTypeOK
<1>1. CASE Frame!HealthChanges
  BY <1>0, <1>1 DEF Frame!HealthChanges, ToastsInv, FrameTypeOK, Frame!BadHealthIsToasted, Frame!Contains
<1>2. CASE Frame!Poll
  <2>1. healthPolls' = Append(healthPolls, overallHealth) /\ UNCHANGED <<overallHealth, prevOverall, toasts, dismissed>>
    BY <1>2 DEF Frame!Poll
  <2>2. healthPolls' \in Seq(Frame!Overalls)
    BY <1>0, <2>1, AppendProperties DEF FrameTypeOK
  <2> QED
    BY <1>0, <2>1, <2>2 DEF ToastsInv, FrameTypeOK, Frame!BadHealthIsToasted, Frame!Contains
<1>3. ASSUME NEW i \in 1..Len(healthPolls), Frame!Unanswered(i) PROVE ToastsInv'
  <2>1. healthPolls' = Frame!RemoveAt(healthPolls, i) /\ UNCHANGED <<overallHealth, prevOverall, toasts, dismissed>>
    BY <1>3 DEF Frame!Unanswered
  <2>2. healthPolls' \in Seq(Frame!Overalls)
    BY <1>0, <2>1, RemovesOne DEF FrameTypeOK
  <2> QED
    BY <1>0, <2>1, <2>2 DEF ToastsInv, FrameTypeOK, Frame!BadHealthIsToasted, Frame!Contains
<1>4. ASSUME NEW i \in 1..Len(healthPolls), Frame!pollHealth(i) PROVE ToastsInv'
  <2> DEFINE o == healthPolls[i]
  <2>1. /\ healthPolls' = Frame!RemoveAt(healthPolls, i) /\ prevOverall' = o
        /\ toasts' = (IF Frame!IsTold(o) THEN Frame!Added(o) ELSE toasts)
        /\ dismissed' = (IF o # prevOverall THEN FALSE ELSE dismissed)
        /\ UNCHANGED overallHealth
    BY <1>4 DEF Frame!pollHealth
  <2>2. o \in Frame!Overalls /\ healthPolls' \in Seq(Frame!Overalls)
    BY <1>0, <2>1, RemovesOne DEF FrameTypeOK
  <2> HIDE DEF o
  <2>3. Frame!Added(o) \in Seq(Frame!Overalls) /\ Frame!Contains(Frame!Added(o), o)
    BY <1>0, <2>2, AddedIsListed
  <2>4. FrameTypeOK'
    BY <1>0, <2>1, <2>2, <2>3 DEF FrameTypeOK
  <2>5. CASE o = prevOverall
    <3>1. UNCHANGED <<prevOverall, toasts, dismissed>>
      BY <2>1, <2>5 DEF Frame!IsTold
    <3> QED
      BY <1>0, <2>4, <3>1 DEF ToastsInv, Frame!BadHealthIsToasted, Frame!Contains
  <2>6. CASE o # prevOverall
    <3>1. o # "healthy" => Frame!IsTold(o)
      BY <2>6 DEF Frame!IsTold
    <3>2. o # "healthy" => Frame!Contains(toasts, prevOverall)'
      BY <2>1, <2>3, <3>1 DEF Frame!Contains
    <3> QED
      BY <2>1, <2>4, <3>2 DEF ToastsInv, Frame!BadHealthIsToasted
  <2> QED
    BY <2>5, <2>6
<1>5. ASSUME NEW i \in 1..Len(toasts), Frame!dismissToast(i) PROVE ToastsInv'
  <2>1. /\ toasts' = Frame!RemoveAt(toasts, i) /\ dismissed' = (dismissed \/ toasts[i] = prevOverall)
        /\ UNCHANGED <<overallHealth, healthPolls, prevOverall>>
    BY <1>5 DEF Frame!dismissToast
  <2>2. /\ toasts' \in Seq(Frame!Overalls)
        /\ Frame!Contains(toasts, prevOverall) /\ toasts[i] # prevOverall => Frame!Contains(toasts, prevOverall)'
    <3>1. /\ Frame!RemoveAt(toasts, i) \in Seq(Frame!Overalls)
          /\ Frame!Contains(toasts, prevOverall) /\ toasts[i] # prevOverall
               => Frame!Contains(Frame!RemoveAt(toasts, i), prevOverall)
      BY <1>0, RemovesOne DEF FrameTypeOK
    <3> QED
      BY <2>1, <3>1 DEF Frame!Contains
  <2>3. dismissed' \in BOOLEAN /\ (dismissed \/ toasts[i] = prevOverall => dismissed')
    BY <2>1, <1>0 DEF FrameTypeOK
  <2>4. FrameTypeOK'
    BY <1>0, <2>1, <2>2, <2>3 DEF FrameTypeOK
  <2>5. prevOverall \in {"degraded", "error"} => dismissed \/ Frame!Contains(toasts, prevOverall)
    BY <1>0 DEF Frame!BadHealthIsToasted
  <2>6. prevOverall \in {"degraded", "error"} => dismissed' \/ Frame!Contains(toasts, prevOverall)'
    BY <2>2, <2>3, <2>5
  <2> QED
    BY <2>1, <2>4, <2>6 DEF ToastsInv, Frame!BadHealthIsToasted
<1> QED
  BY <1>a, <1>1, <1>2, <1>3, <1>4, <1>5 DEF ToastStep

(* The settings.                                                           *)
SettingsStep == \/ \E t \in ShellTabs : \E f \in Frame!Toggled : Frame!toggle(t, f)
                \/ (\E f \in Fields : Frame!updateDraft(f)) \/ Frame!handleResetDefaults \/ Frame!handleSave

\* The settings of a tab change, and the draft of the first one follows.
LEMMA DraftIsTaken ==
  ASSUME SettingsInv, NEW t \in ShellTabs, NEW new \in FieldValues, Frame!Changed(t, new), Frame!DraftFollows(t)
  PROVE  SettingsInv'
<1> USE FrameBounds
<1>1. tabSettings' = [tabSettings EXCEPT ![t] = new] /\ storedSettings' \in {storedSettings, new}
  BY DEF Frame!Changed
<1>2. tabSettings' \in [ShellTabs -> FieldValues] /\ tabSettings'[t] = new
      /\ \A u \in ShellTabs \ {t} : tabSettings'[u] = tabSettings[u]
  BY <1>1 DEF SettingsInv, SettingsTypeOK
<1>3. CASE t = FirstTab /\ tabSettings'[t] # tabSettings[t]
  BY <1>1, <1>2, <1>3 DEF Frame!DraftFollows, SettingsInv, SettingsTypeOK, DraftIsOfSettings
<1>4. CASE ~(t = FirstTab /\ tabSettings'[t] # tabSettings[t])
  <2>1. UNCHANGED <<settingsDraft, edited>> /\ tabSettings'[FirstTab] = tabSettings[FirstTab]
    BY <1>2, <1>4 DEF Frame!DraftFollows
  <2> QED
    BY <1>1, <1>2, <2>1 DEF SettingsInv, SettingsTypeOK, DraftIsOfSettings
<1> QED
  BY <1>3, <1>4

LEMMA SettingsKept == ASSUME SettingsInv, SettingsStep PROVE SettingsInv'
<1>0. SettingsTypeOK /\ DraftIsOfSettings
  BY DEF SettingsInv
<1>1. ASSUME NEW t \in ShellTabs, NEW f \in Frame!Toggled, Frame!toggle(t, f) PROVE SettingsInv'
  <2>1. [tabSettings[t] EXCEPT ![f] = 1 - @] \in FieldValues
    BY <1>0 DEF Frame!Toggled, SettingsTypeOK, FieldValues
  <2> QED
    BY <1>1, <2>1, DraftIsTaken DEF Frame!toggle
<1>2. ASSUME NEW f \in Fields, Frame!updateDraft(f) PROVE SettingsInv'
  <2>1. /\ settingsDraft' = [settingsDraft EXCEPT ![f] = 1 - @] /\ edited' = edited \cup {f}
        /\ UNCHANGED <<storedSettings, tabSettings>>
    BY <1>2 DEF Frame!updateDraft
  <2>2. settingsDraft' \in FieldValues /\ \A g \in Fields \ {f} : settingsDraft'[g] = settingsDraft[g]
    BY <1>0, <2>1 DEF SettingsTypeOK, FieldValues
  <2> QED
    BY <1>0, <2>1, <2>2 DEF SettingsInv, SettingsTypeOK, DraftIsOfSettings
<1>3. CASE Frame!handleResetDefaults
  <2>1. settingsDraft' \in FieldValues /\ edited' = Fields /\ UNCHANGED <<storedSettings, tabSettings>>
    BY <1>3 DEF Frame!handleResetDefaults, Frame!DEFAULT_SETTINGS, FieldValues
  <2> QED
    BY <1>0, <2>1 DEF SettingsInv, SettingsTypeOK, DraftIsOfSettings
<1>4. CASE Frame!handleSave
  BY <1>0, <1>4, FrameBounds, DraftIsTaken DEF Frame!handleSave, SettingsTypeOK
<1> QED
  BY <1>1, <1>2, <1>3, <1>4 DEF SettingsStep

\* A tab is loaded again.
LEMMA ReloadKeeps == ASSUME FrameInv, NEW t \in ShellTabs, Frame!Reload(t) PROVE FrameInv'
<1> USE FrameBounds
<1>0. FrameTypeOK /\ Frame!BadHealthIsToasted /\ SettingsTypeOK /\ DraftIsOfSettings
  BY DEF FrameInv, ToastsInv, SettingsInv
<1>1. /\ tabSettings' = [tabSettings EXCEPT ![t] = storedSettings] /\ UNCHANGED <<overallHealth, storedSettings>>
      /\ IF t = FirstTab THEN /\ settingsDraft' = storedSettings /\ edited' = {} /\ healthPolls' = <<>>
                              /\ prevOverall' = Frame!Unknown /\ toasts' = <<>> /\ dismissed' = FALSE
         ELSE UNCHANGED <<settingsDraft, edited, healthPolls, prevOverall, toasts, dismissed>>
  BY DEF Frame!Reload
<1>2. SettingsInv'
  BY <1>0, <1>1 DEF SettingsInv, SettingsTypeOK, DraftIsOfSettings
<1>3. ToastsInv'
  <2>1. CASE t = FirstTab
    BY <1>0, <1>1, <2>1, NoneListed DEF ToastsInv, FrameTypeOK, Frame!BadHealthIsToasted, Frame!Unknown
  <2>2. CASE t # FirstTab
    BY <1>0, <1>1, <2>2 DEF ToastsInv, FrameTypeOK, Frame!BadHealthIsToasted, Frame!Contains
  <2> QED
    BY <2>1, <2>2
<1> QED
  BY <1>2, <1>3 DEF FrameInv

\* The toasts and the settings have nothing to do with each other.
LEMMA FrameParts ==
  ASSUME Frame!Next
  PROVE  \/ ToastStep /\ UNCHANGED <<storedSettings, tabSettings, settingsDraft, edited>>
         \/ SettingsStep /\ UNCHANGED <<overallHealth, healthPolls, prevOverall, toasts, dismissed>>
         \/ \E t \in ShellTabs : Frame!Reload(t)
<1> USE DEF Frame!health, Frame!prefs
<1>1. CASE Frame!HealthChanges \/ Frame!Poll
  BY <1>1 DEF ToastStep, Frame!HealthChanges, Frame!Poll
<1>2. ASSUME NEW i \in DOMAIN healthPolls, Frame!Unanswered(i) \/ Frame!pollHealth(i)
      PROVE  ToastStep /\ UNCHANGED <<storedSettings, tabSettings, settingsDraft, edited>>
  BY <1>2 DEF ToastStep, Frame!Unanswered, Frame!pollHealth
<1>3. ASSUME NEW i \in DOMAIN toasts, Frame!dismissToast(i)
      PROVE  ToastStep /\ UNCHANGED <<storedSettings, tabSettings, settingsDraft, edited>>
  BY <1>3 DEF ToastStep, Frame!dismissToast
<1>4. ASSUME NEW t \in ShellTabs, NEW f \in Frame!Toggled, Frame!toggle(t, f)
      PROVE  SettingsStep /\ UNCHANGED <<overallHealth, healthPolls, prevOverall, toasts, dismissed>>
  BY <1>4 DEF SettingsStep, Frame!toggle
<1>5. ASSUME NEW f \in Fields, Frame!updateDraft(f)
      PROVE  SettingsStep /\ UNCHANGED <<overallHealth, healthPolls, prevOverall, toasts, dismissed>>
  BY <1>5 DEF SettingsStep, Frame!updateDraft
<1>6. CASE Frame!handleResetDefaults \/ Frame!handleSave
  BY <1>6 DEF SettingsStep, Frame!handleResetDefaults, Frame!handleSave
<1> QED
  BY <1>1, <1>2, <1>3, <1>4, <1>5, <1>6, Zenon DEF Frame!Next

LEMMA FrameStays == ASSUME FrameInv, UNCHANGED slots PROVE FrameInv'
BY DEF slots, FrameInv, ToastsInv, SettingsInv, FrameTypeOK, SettingsTypeOK, DraftIsOfSettings, Frame!BadHealthIsToasted,
   Frame!Contains

LEMMA FrameStep == ASSUME FrameInv, Frame!Next PROVE FrameInv'
<1>1. CASE ToastStep /\ UNCHANGED <<storedSettings, tabSettings, settingsDraft, edited>>
  <2>1. ToastsInv'
    BY <1>1, ToastsKept DEF FrameInv
  <2>2. SettingsInv'
    BY <1>1 DEF FrameInv, SettingsInv, SettingsTypeOK, DraftIsOfSettings
  <2> QED
    BY <2>1, <2>2 DEF FrameInv
<1>2. CASE SettingsStep /\ UNCHANGED <<overallHealth, healthPolls, prevOverall, toasts, dismissed>>
  <2>1. SettingsInv'
    BY <1>2, SettingsKept DEF FrameInv
  <2>2. ToastsInv'
    BY <1>2 DEF FrameInv, ToastsInv, FrameTypeOK, Frame!BadHealthIsToasted, Frame!Contains
  <2> QED
    BY <2>1, <2>2 DEF FrameInv
<1> QED
  BY <1>1, <1>2, FrameParts, ReloadKeeps

LEMMA SavesUndoNothing == ASSUME FrameInv PROVE Frame!SaveUndoesNothing
<1> SUFFICES ASSUME Frame!handleSave, NEW f \in Fields \ edited PROVE tabSettings'[FirstTab][f] = tabSettings[FirstTab][f]
  BY DEF Frame!SaveUndoesNothing
<1>1. tabSettings' = [tabSettings EXCEPT ![FirstTab] = settingsDraft]
  BY DEF Frame!handleSave, Frame!Changed
<1> QED
  BY <1>1, FrameBounds DEF FrameInv, SettingsInv, SettingsTypeOK, DraftIsOfSettings

HIDE DEF overallHealth, healthPolls, prevOverall, toasts, dismissed, storedSettings, tabSettings, settingsDraft, edited

-----------------------------------------------------------------------------
(***************************************************************************)
(* The escalations.  What the operator decided here is not pending, so a   *)
(* list that is read afterwards does not have it.                          *)
(***************************************************************************)
pending == s1
conflictList == s2
conflictReq == s3
conflictsBroken == s4
selectedConflict == s6
decisionChoice == s7
decisions == s11
resolves == s12
answered == s13
USE DEF pending, conflictList, conflictReq, conflictsBroken, selectedConflict, decisionChoice, decisions, resolves, answered

Decisions == [id : Escalations, choice : Conflicts!Choices, at : {"sent", "found", "refused", "done"}, live : BOOLEAN, no : Nat]
ConflictsTypeOK ==
  /\ pending \in SUBSET Escalations /\ conflictList \in SUBSET Escalations
  /\ conflictReq \in [at : {"none", "asked", "read"}, rows : SUBSET Escalations]
  /\ decisionChoice \in Conflicts!Choices \cup {Conflicts!None} /\ decisions \in SUBSET Decisions /\ resolves \in Nat

DecidedIsTaken ==
  /\ answered \cap pending = {}
  /\ \A r \in decisions : r.at = "done" => r.id \notin pending
  /\ conflictReq.at = "read" => conflictReq.rows \cap answered = {}

ConflictsInv == ConflictsTypeOK /\ DecidedIsTaken /\ Conflicts!DecidedIsNotOffered

LEMMA ConflictsInit == ASSUME Conflicts!Init PROVE ConflictsInv
BY DEF Conflicts!Init, Conflicts!Idle, ConflictsInv, ConflictsTypeOK, DecidedIsTaken, Conflicts!DecidedIsNotOffered

\* The requests when the panel stays or goes.
LEMMA PanelGoes ==
  ASSUME ConflictsTypeOK, NEW R \in SUBSET decisions, Conflicts!PanelFollows(R), pending' = pending,
         \A r \in decisions : r.at = "done" => r.id \notin pending
  PROVE  /\ decisions' \in SUBSET Decisions /\ decisionChoice' \in Conflicts!Choices \cup {Conflicts!None}
         /\ \A r \in decisions' : r.at = "done" => r.id \notin pending'
<1>1. CASE decisions' = R /\ UNCHANGED Conflicts!panel
  BY <1>1 DEF Conflicts!panel, ConflictsTypeOK
<1>2. CASE decisions' = {[r EXCEPT !.live = FALSE] : r \in R} /\ decisionChoice' = Conflicts!None
  <2> DEFINE Dead(r) == [r EXCEPT !.live = FALSE]
  <2>1. \A r \in Decisions : Dead(r) \in Decisions /\ Dead(r).at = r.at /\ Dead(r).id = r.id
    BY DEF Decisions
  <2>2. decisions \subseteq Decisions /\ decisions' = {Dead(r) : r \in R}
    BY <1>2 DEF ConflictsTypeOK
  <2> HIDE DEF Dead
  <2> QED
    BY <1>2, <2>1, <2>2
<1> QED
  BY <1>1, <1>2 DEF Conflicts!PanelFollows

\* A decision goes on to another place.
LEMMA DecisionGoes ==
  ASSUME ConflictsInv, NEW r \in decisions, NEW at \in {"found", "refused", "done"},
         decisions' = (decisions \ {r}) \cup {[r EXCEPT !.at = at]},
         pending' \in {pending, pending \ {r.id}}, at = "done" => r.id \notin pending',
         UNCHANGED <<conflictList, conflictReq, conflictsBroken, decisionChoice, resolves, answered>>
  PROVE  ConflictsInv'
<1> DEFINE q == [r EXCEPT !.at = at]
<1>1. q \in Decisions /\ q.at = at /\ q.id = r.id
  BY DEF ConflictsInv, ConflictsTypeOK, Decisions
<1> HIDE DEF q
<1>2. ConflictsTypeOK'
  BY <1>1 DEF q, ConflictsInv, ConflictsTypeOK
<1>3. DecidedIsTaken'
  BY <1>1 DEF q, ConflictsInv, DecidedIsTaken
<1> QED
  BY <1>2, <1>3 DEF ConflictsInv, Conflicts!DecidedIsNotOffered

LEMMA ConflictsStep == ASSUME ConflictsInv, Conflicts!Next PROVE ConflictsInv'
<1> USE DEF Conflicts!view, Conflicts!panel
<1>0. ConflictsTypeOK /\ DecidedIsTaken /\ Conflicts!DecidedIsNotOffered
  BY DEF ConflictsInv
<1>a. ASSUME UNCHANGED <<pending, conflictList, conflictReq, conflictsBroken, decisionChoice, resolves, decisions, answered>> PROVE ConflictsInv'
  BY <1>0, <1>a DEF ConflictsInv, ConflictsTypeOK, DecidedIsTaken, Conflicts!DecidedIsNotOffered
<1>b. ASSUME UNCHANGED <<pending, conflictList, conflictReq, conflictsBroken, resolves, answered>>, Conflicts!PanelFollows(decisions)
      PROVE  ConflictsInv'
  <2>1. /\ decisions' \in SUBSET Decisions /\ decisionChoice' \in Conflicts!Choices \cup {Conflicts!None}
        /\ \A r \in decisions' : r.at = "done" => r.id \notin pending'
    BY <1>0, <1>b, PanelGoes DEF DecidedIsTaken
  <2> QED
    BY <1>0, <1>b, <2>1 DEF ConflictsInv, ConflictsTypeOK, DecidedIsTaken, Conflicts!DecidedIsNotOffered
<1>1. CASE Conflicts!ReadArchive
  <2>1. /\ conflictReq' = [at |-> "read", rows |-> pending]
        /\ UNCHANGED <<pending, conflictList, conflictsBroken, decisionChoice, resolves, decisions, answered>>
    BY <1>1 DEF Conflicts!ReadArchive
  <2> QED
    BY <1>0, <2>1 DEF ConflictsInv, ConflictsTypeOK, DecidedIsTaken, Conflicts!DecidedIsNotOffered
<1>2. CASE Conflicts!Receive
  <2>1. /\ conflictReq.at = "read" /\ conflictReq' = Conflicts!Idle /\ conflictList' = conflictReq.rows
        /\ UNCHANGED <<pending, resolves, answered>> /\ Conflicts!PanelFollows(decisions)
    BY <1>2 DEF Conflicts!Receive
  <2>2. /\ decisions' \in SUBSET Decisions /\ decisionChoice' \in Conflicts!Choices \cup {Conflicts!None}
        /\ \A r \in decisions' : r.at = "done" => r.id \notin pending'
    BY <1>0, <2>1, PanelGoes DEF DecidedIsTaken
  <2>3. conflictList' \in SUBSET Escalations /\ conflictList' \cap answered' = {}
    BY <1>0, <2>1 DEF ConflictsTypeOK, DecidedIsTaken
  <2> QED
    BY <1>0, <2>1, <2>2, <2>3 DEF Conflicts!Idle, ConflictsInv, ConflictsTypeOK, DecidedIsTaken, Conflicts!DecidedIsNotOffered
<1>3. CASE Conflicts!Fail
  BY <1>0, <1>3 DEF Conflicts!Fail, Conflicts!Idle, ConflictsInv, ConflictsTypeOK, DecidedIsTaken, Conflicts!DecidedIsNotOffered
<1>4. CASE Conflicts!Interval \/ Conflicts!Retry
  <2>1. /\ conflictReq' = [Conflicts!Idle EXCEPT !.at = "asked"]
        /\ UNCHANGED <<pending, conflictList, conflictsBroken, decisionChoice, resolves, decisions, answered>>
    BY <1>4 DEF Conflicts!Interval, Conflicts!Retry, Conflicts!Refetch
  <2> QED
    BY <1>0, <2>1 DEF Conflicts!Idle, ConflictsInv, ConflictsTypeOK, DecidedIsTaken, Conflicts!DecidedIsNotOffered
<1>5. CASE Conflicts!handleConfirm
  <2> DEFINE q == [id |-> selectedConflict, choice |-> decisionChoice, at |-> "sent", live |-> TRUE, no |-> resolves]
  <2>1. q \in Decisions /\ q.at = "sent"
    BY <1>0, <1>5 DEF Conflicts!handleConfirm, Conflicts!Selected, ConflictsTypeOK, Decisions
  <2>2. /\ decisions' = decisions \cup {q} /\ resolves' = resolves + 1
        /\ UNCHANGED <<pending, conflictList, conflictReq, conflictsBroken, decisionChoice, answered>>
    BY <1>5 DEF Conflicts!handleConfirm
  <2> HIDE DEF q
  <2> QED
    BY <1>0, <2>1, <2>2 DEF ConflictsInv, ConflictsTypeOK, DecidedIsTaken, Conflicts!DecidedIsNotOffered
<1>6. ASSUME NEW e \in Escalations, Conflicts!Click(e) PROVE ConflictsInv'
  BY <1>b, <1>6 DEF Conflicts!Click
<1>7. ASSUME NEW e \in Escalations, Conflicts!Decide(e) PROVE ConflictsInv'
  <2>1. /\ pending' = pending \ {e}
        /\ UNCHANGED <<conflictList, conflictReq, conflictsBroken, decisionChoice, resolves, decisions, answered>>
    BY <1>7 DEF Conflicts!Decide
  <2> QED
    BY <1>0, <2>1 DEF ConflictsInv, ConflictsTypeOK, DecidedIsTaken, Conflicts!DecidedIsNotOffered
<1>8. ASSUME NEW t, Conflicts!SetTab(t) PROVE ConflictsInv'
  BY <1>b, <1>8 DEF Conflicts!SetTab
<1>9. ASSUME NEW c \in Conflicts!Choices, Conflicts!handleChoiceClick(c) PROVE ConflictsInv'
  <2>1. /\ decisionChoice' \in {c, Conflicts!None}
        /\ UNCHANGED <<pending, conflictList, conflictReq, conflictsBroken, resolves, decisions, answered>>
    BY <1>9 DEF Conflicts!handleChoiceClick
  <2> QED
    BY <1>0, <2>1 DEF ConflictsInv, ConflictsTypeOK, DecidedIsTaken, Conflicts!DecidedIsNotOffered
<1>10. ASSUME NEW v, Conflicts!TypeCustom(v) PROVE ConflictsInv'
  BY <1>a, <1>10 DEF Conflicts!TypeCustom
<1>11. ASSUME NEW r \in decisions, Conflicts!ReadEscalation(r) PROVE ConflictsInv'
  BY <1>11, DecisionGoes DEF Conflicts!ReadEscalation
<1>12. ASSUME NEW r \in decisions, Conflicts!MarkResolved(r) PROVE ConflictsInv'
  BY <1>12, DecisionGoes DEF Conflicts!MarkResolved
<1>13. ASSUME NEW r \in decisions, Conflicts!Resolved(r) PROVE ConflictsInv'
  <2>1. /\ r.at = "done" /\ conflictReq' = [Conflicts!Idle EXCEPT !.at = "asked"] /\ answered' = answered \cup {r.id}
        /\ UNCHANGED <<pending, conflictList, conflictsBroken, resolves>> /\ Conflicts!PanelFollows(decisions \ {r})
    BY <1>13 DEF Conflicts!Resolved, Conflicts!Refetch
  <2>2. /\ decisions' \in SUBSET Decisions /\ decisionChoice' \in Conflicts!Choices \cup {Conflicts!None}
        /\ \A q \in decisions' : q.at = "done" => q.id \notin pending'
    BY <1>0, <2>1, PanelGoes DEF DecidedIsTaken
  <2> QED
    BY <1>0, <2>1, <2>2 DEF Conflicts!Idle, ConflictsInv, ConflictsTypeOK, DecidedIsTaken, Conflicts!DecidedIsNotOffered
<1>14. ASSUME NEW r \in decisions, Conflicts!ResolveFailed(r) PROVE ConflictsInv'
  <2>1. /\ decisions' = decisions \ {r} /\ decisionChoice' \in {decisionChoice, Conflicts!None}
        /\ UNCHANGED <<pending, conflictList, conflictReq, conflictsBroken, resolves, answered>>
    BY <1>14 DEF Conflicts!ResolveFailed
  <2> QED
    BY <1>0, <2>1 DEF ConflictsInv, ConflictsTypeOK, DecidedIsTaken, Conflicts!DecidedIsNotOffered
<1> QED
  BY <1>1, <1>2, <1>3, <1>4, <1>5, <1>6, <1>7, <1>8, <1>9, <1>10, <1>11, <1>12, <1>13, <1>14 DEF Conflicts!Next

LEMMA ConflictsStay == ASSUME ConflictsInv, UNCHANGED slots PROVE ConflictsInv'
BY DEF slots, ConflictsInv, ConflictsTypeOK, DecidedIsTaken, Conflicts!DecidedIsNotOffered

HIDE DEF pending, conflictList, conflictReq, conflictsBroken, selectedConflict, decisionChoice, decisions, resolves, answered

-----------------------------------------------------------------------------
(***************************************************************************)
(* The repairs.  CLAUDE.md has at most one block, and so has everything a  *)
(* repair has read of it; a file that nobody edited since its repair has   *)
(* what the repair put there.                                              *)
(***************************************************************************)
md == s1
servers == s2
repairs == s7
settled == s8
USE DEF md, servers, repairs, settled

Pieces == {"text", "start", "end"}
OneStart(d) == \A i, j \in 1..Len(d) : d[i] = "start" /\ d[j] = "start" => i = j
Texts == {d \in Seq(Pieces) : OneStart(d)}
NoStart(d) == \A i \in 1..Len(d) : d[i] # "start"

LEMMA RepairBounds == Documents \subseteq Texts
BY ControlsAssumption DEF Texts, Pieces, OneStart

LEMMA LeastIs == ASSUME NEW S \in SUBSET Nat, NEW x \in S, \A y \in S : x <= y PROVE Repairs!Least(S) = x
<1> DEFINE P(z) == \A y \in S : z <= y
<1>1. x \in S /\ P(x)
  OBVIOUS
<1>2. \A z \in S : P(z) => z = x
  OBVIOUS
<1> HIDE DEF P
<1>3. (CHOOSE z \in S : P(z)) = x
  BY <1>1, <1>2
<1> QED
  BY <1>3 DEF P, Repairs!Least

\* What stands around the block that is written.
LEMMA AroundBlock ==
  ASSUME NEW a \in Seq(Pieces), NEW b \in Seq(Pieces), NoStart(a), NoStart(b)
  PROVE  LET d == a \o Repairs!Block \o b IN
         d \in Texts /\ Repairs!Has(d, "start") /\ Repairs!Before(d) = a /\ Repairs!Behind(d) = b
<1> DEFINE B == Repairs!Block
<1> DEFINE d == a \o B \o b
<1> DEFINE n == Len(a) + 1
<1> DEFINE L == Len(a) + 3 + Len(b)
<1>0. Len(a) \in Nat /\ Len(b) \in Nat
  OBVIOUS
<1>1. B \in Seq(Pieces) /\ Len(B) = 3 /\ B[1] = "start" /\ B[2] = "text" /\ B[3] = "end"
  BY DEF Repairs!Block, Pieces
<1> HIDE DEF B
<1>2. /\ a \o B \in Seq(Pieces) /\ Len(a \o B) = Len(a) + 3
      /\ \A i \in 1..(Len(a) + 3) : (a \o B)[i] = IF i <= Len(a) THEN a[i] ELSE B[i - Len(a)]
  <2>1. /\ a \o B \in Seq(Pieces) /\ Len(a \o B) = Len(a) + Len(B)
        /\ \A i \in 1..(Len(a) + Len(B)) : (a \o B)[i] = IF i <= Len(a) THEN a[i] ELSE B[i - Len(a)]
    BY <1>1, ConcatProperties
  <2> QED
    BY <1>1, <2>1
<1>3. /\ d \in Seq(Pieces) /\ Len(d) = L
      /\ \A i \in 1..L : d[i] = IF i <= Len(a) + 3 THEN (a \o B)[i] ELSE b[i - (Len(a) + 3)]
  <2> DEFINE c == a \o B
  <2>1. c \in Seq(Pieces) /\ Len(c) = Len(a) + 3
    BY <1>2
  <2> HIDE DEF c
  <2>2. /\ c \o b \in Seq(Pieces) /\ Len(c \o b) = Len(c) + Len(b)
        /\ \A i \in 1..(Len(c) + Len(b)) : (c \o b)[i] = IF i <= Len(c) THEN c[i] ELSE b[i - Len(c)]
    BY <2>1, ConcatProperties
  <2>3. d = c \o b
    BY DEF c
  <2> HIDE DEF d
  <2>4. /\ d \in Seq(Pieces) /\ Len(d) = L
        /\ \A i \in 1..L : d[i] = IF i <= Len(a) + 3 THEN c[i] ELSE b[i - (Len(a) + 3)]
    BY <2>1, <2>2, <2>3
  <2> QED
    BY <2>4 DEF c
<1> HIDE DEF d
<1>4. \A i \in 1..Len(a) : d[i] = a[i]
  BY <1>0, <1>2, <1>3
<1>5. d[n] = "start" /\ d[n + 1] = "text" /\ d[n + 2] = "end"
  <2>1. d[n] = B[1] /\ d[n + 1] = B[2] /\ d[n + 2] = B[3]
    BY <1>0, <1>2, <1>3
  <2> QED
    BY <1>1, <2>1
<1>6. \A i \in 1..Len(b) : d[n + 2 + i] = b[i]
  <2> TAKE i \in 1..Len(b)
  <2>1. n + 2 + i \in 1..L /\ ~(n + 2 + i <= Len(a) + 3) /\ n + 2 + i - (Len(a) + 3) = i
    BY <1>0
  <2> QED
    BY <1>3, <2>1
<1>7. \A i \in 1..L : d[i] = "start" => i = n
  <2> SUFFICES ASSUME NEW i \in 1..L, d[i] = "start", i # n PROVE FALSE
    OBVIOUS
  <2>1. CASE i <= Len(a)
    BY <1>0, <1>4, <2>1 DEF NoStart
  <2>2. CASE i \in {n + 1, n + 2}
    BY <1>5, <2>2
  <2>3. CASE i > n + 2
    <3>1. i - (n + 2) \in 1..Len(b) /\ n + 2 + (i - (n + 2)) = i
      BY <1>0, <2>3
    <3>2. d[i] = b[i - (n + 2)]
      BY <1>6, <3>1
    <3> QED
      BY <3>1, <3>2 DEF NoStart
  <2> QED
    BY <1>0, <2>1, <2>2, <2>3
<1>8. d \in Texts
  BY <1>3, <1>7 DEF Texts, OneStart
<1>9. n \in 1..L /\ DOMAIN d = 1..L
  BY <1>0, <1>3
<1>10. Repairs!Has(d, "start")
  BY <1>5, <1>9 DEF Repairs!Has, Repairs!Range
<1>11. Repairs!Starts(d) = {n}
  <2>1. n + 2 \in n..Len(d) /\ d[n + 2] = "end"
    BY <1>0, <1>3, <1>5
  <2> QED
    BY <1>3, <1>5, <1>7, <1>9, <2>1 DEF Repairs!Starts
<1>12. Repairs!Least({n}) = n
  BY <1>0 DEF Repairs!Least
<1>13. Repairs!Before(d) = a
  <2>1. Repairs!Before(d) = SubSeq(d, 1, Len(a))
    <3>1. Repairs!Starts(d) # {} /\ Repairs!Least(Repairs!Starts(d)) = n
      BY <1>11, <1>12
    <3>2. Repairs!Least(Repairs!Starts(d)) - 1 = Len(a)
      BY <1>0, <3>1
    <3> QED
      BY <3>1, <3>2 DEF Repairs!Before
  <2>2. \A i \in 1..Len(a) : d[i] \in Pieces
    BY <1>0, <1>3
  <2>3. /\ SubSeq(d, 1, Len(a)) \in Seq(Pieces) /\ Len(SubSeq(d, 1, Len(a))) = Len(a)
        /\ \A i \in 1..Len(a) : SubSeq(d, 1, Len(a))[i] = d[i]
    BY <1>0, <2>2, SubSeqProperties
  <2> QED
    BY <1>4, <2>1, <2>3, SeqEqual
<1>14. Repairs!Behind(d) = b
  <2> DEFINE r == SubSeq(d, n, Len(d))
  <2>1. \A i \in n..L : d[i] \in Pieces
    BY <1>0, <1>3
  <2>2. r \in Seq(Pieces) /\ Len(r) = 3 + Len(b) /\ \A i \in 1..(3 + Len(b)) : r[i] = d[n + i - 1]
    BY <1>0, <1>3, <2>1, SubSeqProperties
  <2> HIDE DEF r
  <2>3. r[1] = "start" /\ r[2] = "text" /\ r[3] = "end"
    BY <1>0, <1>5, <2>2
  <2> DEFINE E == {j \in 1..Len(r) : r[j] = "end"}
  <2>4. 3 \in E /\ \A j \in E : 3 <= j
    <3>1. 3 \in E /\ 1 \notin E /\ 2 \notin E
      BY <1>0, <2>2, <2>3
    <3> QED
      BY <1>0, <2>2, <3>1
  <2>5. Repairs!Least(E) = 3
    <3>1. E \in SUBSET Nat
      BY <2>2
    <3> HIDE DEF E
    <3> QED
      BY <2>4, <3>1, LeastIs
  <2>6. Repairs!Behind(d) = SubSeq(r, 4, Len(r))
    <3>1. Repairs!Starts(d) # {} /\ Repairs!Least(Repairs!Starts(d)) = n
      BY <1>11, <1>12
    <3>2. Repairs!Behind(d) = SubSeq(r, Repairs!Least(E) + 1, Len(r))
      BY <3>1 DEF Repairs!Behind, r
    <3>3. Repairs!Least(E) + 1 = 4
      BY <2>5
    <3> HIDE DEF E
    <3> QED
      BY <3>2, <3>3
  <2>7. \A i \in 4..Len(r) : r[i] \in Pieces
    BY <1>0, <2>2
  <2>8. /\ SubSeq(r, 4, Len(r)) \in Seq(Pieces) /\ Len(SubSeq(r, 4, Len(r))) = Len(b)
        /\ \A i \in 1..Len(b) : SubSeq(r, 4, Len(r))[i] = r[4 + i - 1]
    BY <1>0, <2>2, <2>7, SubSeqProperties
  <2>9. \A i \in 1..Len(b) : SubSeq(r, 4, Len(r))[i] = b[i]
    <3> TAKE i \in 1..Len(b)
    <3>1. 4 + i - 1 \in 1..(3 + Len(b)) /\ n + (4 + i - 1) - 1 = n + 2 + i
      BY <1>0
    <3> QED
      BY <1>6, <2>2, <2>8, <3>1
  <2> QED
    BY <2>6, <2>8, <2>9, SeqEqual
<1> QED
  BY <1>8, <1>10, <1>13, <1>14 DEF d, B

LEMMA HasLeast == ASSUME NEW S \in SUBSET Nat, S # {} PROVE \E x \in S : \A y \in S : x <= y
<1>1. IsWellFoundedOn(OpToRel(<, Nat), Nat)
  BY NatLessThanWellFounded
<1>2. PICK x \in S : \A y \in S : <<y, x>> \notin OpToRel(<, Nat)
  BY <1>1, WFMin
<1>3. \A y \in S : ~(y < x)
  BY <1>2 DEF OpToRel
<1> QED
  BY <1>3

\* The block that is there: its start is the only one, and what is behind its
\* end is behind the first end after the start.
LEMMA BlockThere ==
  ASSUME NEW d \in Texts, NEW i \in Repairs!Starts(d)
  PROVE  /\ Repairs!Starts(d) = {i} /\ Repairs!Least(Repairs!Starts(d)) = i /\ i \in 1..Len(d) /\ d[i] = "start"
         /\ Repairs!Ends(d, i) \in i..Len(d)
         /\ Repairs!Behind(d) = SubSeq(d, Repairs!Ends(d, i) + 1, Len(d))
<1>0. d \in Seq(Pieces) /\ Len(d) \in Nat /\ OneStart(d)
  BY DEF Texts
<1>1. i \in 1..Len(d) /\ d[i] = "start" /\ \E j \in i..Len(d) : d[j] = "end"
  BY DEF Repairs!Starts
<1>2. Repairs!Starts(d) = {i}
  <2>1. \A x \in Repairs!Starts(d) : x \in 1..Len(d) /\ d[x] = "start"
    BY DEF Repairs!Starts
  <2> QED
    BY <1>0, <1>1, <2>1 DEF OneStart
<1>3. Repairs!Least({i}) = i
  BY <1>1 DEF Repairs!Least
<1> DEFINE T == {j \in i..Len(d) : d[j] = "end"}
<1>4. PICK m \in T : \A j \in T : m <= j
  <2>1. T \in SUBSET Nat /\ T # {}
    BY <1>0, <1>1
  <2> HIDE DEF T
  <2> QED
    BY <2>1, HasLeast
<1>5. m \in i..Len(d) /\ d[m] = "end" /\ \A l \in i..(m - 1) : d[l] # "end"
  BY <1>0, <1>1, <1>4
<1>6. Repairs!Ends(d, i) = m
  <2> DEFINE P(j) == d[j] = "end" /\ \A l \in i..(j - 1) : d[l] # "end"
  <2>1. \A j \in i..Len(d) : P(j) => j = m
    BY <1>0, <1>1, <1>5
  <2>2. m \in i..Len(d) /\ P(m)
    BY <1>5
  <2> QED
    BY <2>1, <2>2 DEF Repairs!Ends
<1> DEFINE r == SubSeq(d, i, Len(d))
<1> DEFINE E == {j \in 1..Len(r) : r[j] = "end"}
<1>7. r \in Seq(Pieces) /\ Len(r) = Len(d) - i + 1 /\ \A j \in 1..(Len(d) - i + 1) : r[j] = d[i + j - 1]
  <2>1. \A j \in i..Len(d) : d[j] \in Pieces
    BY <1>0, <1>1
  <2> QED
    BY <1>0, <1>1, <2>1, SubSeqProperties
<1> HIDE DEF r
<1> DEFINE k == m - i + 1
<1>8. k \in E /\ \A j \in E : k <= j
  <2>1. k \in 1..Len(r) /\ i + k - 1 = m
    BY <1>0, <1>1, <1>5, <1>7
  <2>2. k \in E
    BY <1>5, <1>7, <2>1
  <2>3. ASSUME NEW j \in E PROVE k <= j
    <3>1. j \in 1..(Len(d) - i + 1) /\ r[j] = "end"
      BY <1>7
    <3>2. d[i + j - 1] = "end" /\ i + j - 1 \in i..Len(d)
      BY <1>0, <1>1, <1>7, <3>1
    <3>3. i + j - 1 >= m
      BY <1>4, <3>2
    <3> QED
      BY <1>1, <1>5, <3>1, <3>3
  <2> QED
    BY <2>2, <2>3
<1>9. Repairs!Least(E) = k
  <2>1. E \in SUBSET Nat /\ k \in Nat
    BY <1>0, <1>1, <1>5, <1>7
  <2> HIDE DEF E, k
  <2> QED
    BY <1>8, <2>1, LeastIs
<1>10. Repairs!Behind(d) = SubSeq(r, k + 1, Len(r))
  BY <1>2, <1>3, <1>9 DEF Repairs!Behind, r
<1>11. SubSeq(r, k + 1, Len(r)) = SubSeq(d, m + 1, Len(d))
  <2> DEFINE u == SubSeq(r, k + 1, Len(r))
  <2> DEFINE v == SubSeq(d, m + 1, Len(d))
  <2> DEFINE n == Len(d) - m
  <2>1. n \in Nat /\ Len(r) - (k + 1) + 1 = n /\ Len(d) - (m + 1) + 1 = n /\ k + 1 \in Int /\ Len(r) \in Int /\ m + 1 \in Int
    BY <1>0, <1>1, <1>5, <1>7
  <2>2. (\A j \in (k + 1)..Len(r) : r[j] \in Pieces) /\ \A j \in (m + 1)..Len(d) : d[j] \in Pieces
    BY <1>0, <1>1, <1>5, <1>7
  <2>3. u \in Seq(Pieces) /\ Len(u) = n /\ \A j \in 1..n : u[j] = r[k + 1 + j - 1]
    <3>1. /\ u \in Seq(Pieces) /\ Len(u) = IF k + 1 <= Len(r) THEN Len(r) - (k + 1) + 1 ELSE 0
          /\ \A j \in 1..(Len(r) - (k + 1) + 1) : u[j] = r[k + 1 + j - 1]
      BY <2>1, <2>2, SubSeqProperties
    <3> HIDE DEF u, k
    <3> QED
      BY <2>1, <3>1
  <2>4. v \in Seq(Pieces) /\ Len(v) = n /\ \A j \in 1..n : v[j] = d[m + 1 + j - 1]
    <3>1. /\ v \in Seq(Pieces) /\ Len(v) = IF m + 1 <= Len(d) THEN Len(d) - (m + 1) + 1 ELSE 0
          /\ \A j \in 1..(Len(d) - (m + 1) + 1) : v[j] = d[m + 1 + j - 1]
      BY <1>0, <2>1, <2>2, SubSeqProperties
    <3>2. m + 1 <= Len(d) \/ n = 0
      BY <1>0, <1>1, <1>5
    <3> HIDE DEF v, n
    <3>3. Len(v) = n
      BY <2>1, <3>1, <3>2
    <3> QED
      BY <2>1, <3>1, <3>3
  <2>5. \A j \in 1..n : u[j] = v[j]
    <3> TAKE j \in 1..n
    <3>1. k + 1 + j - 1 \in 1..(Len(d) - i + 1) /\ i + (k + 1 + j - 1) - 1 = m + 1 + j - 1
      BY <1>0, <1>1, <1>5
    <3> QED
      BY <1>7, <2>3, <2>4, <3>1
  <2> HIDE DEF u, v, n
  <2> QED
    BY <2>3, <2>4, <2>5, SeqEqual DEF u, v
<1> QED
  BY <1>1, <1>2, <1>3, <1>5, <1>6, <1>10, <1>11

\* What a repair makes of a text.
LEMMA RepairedText ==
  ASSUME NEW d \in Texts, ~Repairs!Malformed(d), d # Repairs!None
  PROVE  LET n == Repairs!Repaired(d) IN
         /\ n \in Texts /\ Repairs!Has(n, "start")
         /\ Repairs!Before(n) = Repairs!Before(d) /\ Repairs!Behind(n) = Repairs!Behind(d)
<1>0. d \in Seq(Pieces) /\ Len(d) \in Nat /\ OneStart(d) /\ DOMAIN d = 1..Len(d)
  BY DEF Texts
<1>1. CASE ~Repairs!Has(d, "start")
  <2>1. NoStart(d)
    BY <1>0, <1>1 DEF NoStart, Repairs!Has, Repairs!Range
  <2>2. <<>> \in Seq(Pieces) /\ NoStart(<<>>)
    BY DEF NoStart
  <2>3. Repairs!Repaired(d) = d \o Repairs!Block \o <<>>
    <3>1. Repairs!Block \in Seq(Pieces)
      BY DEF Repairs!Block, Pieces
    <3>2. d \o Repairs!Block \in Seq(Pieces)
      BY <1>0, <3>1, ConcatProperties
    <3>3. d \o Repairs!Block \o <<>> = d \o Repairs!Block
      BY <3>2, ConcatEmptySeq
    <3> QED
      BY <1>1, <3>3 DEF Repairs!Repaired
  <2>4. Repairs!Starts(d) = {}
    BY <2>1 DEF NoStart, Repairs!Starts
  <2>5. Repairs!Before(d) = d /\ Repairs!Behind(d) = <<>>
    BY <2>4 DEF Repairs!Before, Repairs!Behind
  <2>6. LET n == d \o Repairs!Block \o <<>> IN
        n \in Texts /\ Repairs!Has(n, "start") /\ Repairs!Before(n) = d /\ Repairs!Behind(n) = <<>>
    BY <1>0, <2>1, <2>2, AroundBlock
  <2> QED
    BY <2>3, <2>5, <2>6
<1>2. CASE Repairs!Has(d, "start") /\ Repairs!Starts(d) = {}
  BY <1>2 DEF Repairs!Repaired, Repairs!Replaced
<1>3. ASSUME Repairs!Has(d, "start"), NEW i \in Repairs!Starts(d)
      PROVE  LET n == Repairs!Repaired(d) IN
             /\ n \in Texts /\ Repairs!Has(n, "start")
             /\ Repairs!Before(n) = Repairs!Before(d) /\ Repairs!Behind(n) = Repairs!Behind(d)
  <2> DEFINE e == Repairs!Ends(d, i)
  <2> DEFINE a == SubSeq(d, 1, i - 1)
  <2> DEFINE b == SubSeq(d, e + 1, Len(d))
  <2>1. /\ Repairs!Starts(d) = {i} /\ Repairs!Least(Repairs!Starts(d)) = i /\ i \in 1..Len(d) /\ d[i] = "start"
        /\ e \in i..Len(d) /\ Repairs!Behind(d) = b
    BY BlockThere
  <2> HIDE DEF e
  <2>2. a \in Seq(Pieces) /\ Len(a) = i - 1 /\ \A j \in 1..(i - 1) : a[j] = d[j]
    <3>1. \A j \in 1..(i - 1) : d[j] \in Pieces
      BY <1>0, <2>1
    <3> QED
      BY <1>0, <2>1, <3>1, SubSeqProperties
  <2>3. b \in Seq(Pieces) /\ Len(b) = Len(d) - e /\ \A j \in 1..(Len(d) - e) : b[j] = d[e + j]
    <3>1. \A j \in (e + 1)..Len(d) : d[j] \in Pieces
      BY <1>0, <2>1
    <3>2. /\ b \in Seq(Pieces) /\ Len(b) = IF e + 1 <= Len(d) THEN Len(d) - (e + 1) + 1 ELSE 0
          /\ \A j \in 1..(Len(d) - (e + 1) + 1) : b[j] = d[e + 1 + j - 1]
      BY <1>0, <2>1, <3>1, SubSeqProperties
    <3> DEFINE m == Len(d)
    <3> DEFINE k == Len(b)
    <3>3. e \in Int /\ m \in Int /\ e <= m
      BY <1>0, <2>1
    <3>4. k = IF e + 1 <= m THEN m - (e + 1) + 1 ELSE 0
      BY <3>2
    <3> HIDE DEF b, m, k
    <3>5. k = m - e
      BY <3>3, <3>4
    <3>6. \A j \in 1..(m - e) : j \in 1..(m - (e + 1) + 1) /\ e + 1 + j - 1 = e + j
      BY <3>3
    <3> QED
      BY <3>2, <3>5, <3>6 DEF m, k
  <2>4. Repairs!Repaired(d) = a \o Repairs!Block \o b
    BY <1>3, <2>1 DEF Repairs!Repaired, Repairs!Replaced, e
  <2>5. Repairs!Before(d) = a
    BY <2>1 DEF Repairs!Before
  <2> HIDE DEF a, b
  <2>6. NoStart(a)
    BY <1>0, <2>1, <2>2 DEF NoStart, OneStart
  <2>7. NoStart(b)
    <3> SUFFICES ASSUME NEW j \in 1..(Len(d) - e), b[j] = "start" PROVE FALSE
      BY <2>3 DEF NoStart
    <3>1. e + j \in 1..Len(d) /\ e + j # i /\ d[e + j] = "start"
      BY <1>0, <2>1, <2>3
    <3> QED
      BY <1>0, <2>1, <3>1 DEF OneStart
  <2>8. LET n == a \o Repairs!Block \o b IN
        n \in Texts /\ Repairs!Has(n, "start") /\ Repairs!Before(n) = a /\ Repairs!Behind(n) = b
    BY <2>2, <2>3, <2>6, <2>7, AroundBlock
  <2> QED
    BY <2>1, <2>4, <2>5, <2>8
<1> QED
  BY <1>1, <1>2, <1>3

LEMMA NewText == Repairs!Block \in Texts /\ Repairs!Has(Repairs!Block, "start")
<1>1. Repairs!Block \in Seq(Pieces) /\ Len(Repairs!Block) = 3
  BY DEF Repairs!Block, Pieces
<1>2. Repairs!Block[1] = "start" /\ Repairs!Block[2] # "start" /\ Repairs!Block[3] # "start"
  BY DEF Repairs!Block
<1>3. OneStart(Repairs!Block)
  BY <1>1, <1>2 DEF OneStart
<1>4. DOMAIN Repairs!Block = 1..3
  BY <1>1
<1> QED
  BY <1>1, <1>2, <1>3, <1>4 DEF Texts, Repairs!Has, Repairs!Range

LEMMA NoneIsNoText == Repairs!None \notin Texts
<1>1. Repairs!None[1] = "ENOENT" /\ Len(Repairs!None) = 1
  BY DEF Repairs!None
<1>2. \A d \in Seq(Pieces) : Len(d) = 1 => d[1] \in Pieces
  OBVIOUS
<1> QED
  BY <1>1, <1>2 DEF Texts, Pieces

Repairings == [kind : Repairs!Kinds, at : {"sent", "read", "ok", "failed"}, seen : Texts \cup {Repairs!None}]
RepairTypeOK ==
  /\ md \in Texts \cup {Repairs!None} /\ servers \in [Repairs!Configs -> SUBSET {"iranti", "other", "url"}]
  /\ repairs \in Seq(Repairings) /\ settled \in SUBSET Repairs!Kinds

SettledHasIt ==
  /\ "claude-md" \in settled => md # Repairs!None /\ Repairs!Has(md, "start")
  /\ "mcp-json" \in settled => "iranti" \in servers[".mcp.json"]

RepairInv == RepairTypeOK /\ SettledHasIt

LEMMA RepairInit == ASSUME Repairs!Init PROVE RepairInv
BY RepairBounds DEF Repairs!Init, RepairInv, RepairTypeOK, SettledHasIt

LEMMA RepairPassed == ASSUME RepairInv PROVE Repairs!RepairHelps /\ Repairs!OneBlock
<1>0. RepairTypeOK /\ SettledHasIt /\ ".mcp.json" \in Repairs!Configs
  BY DEF RepairInv, Repairs!Configs
<1>1. "claude-md" \in settled => "claude-md" \notin Repairs!Offered
  <2> SUFFICES ASSUME "claude-md" \in settled PROVE Repairs!ClaudeMdHasIranti
    BY DEF Repairs!Offered
  <2> QED
    BY <1>0 DEF SettledHasIt, Repairs!ClaudeMdHasIranti, Repairs!Has
<1>2. "mcp-json" \in settled => "mcp-json" \notin Repairs!Offered /\ Repairs!ToolAccess
  <2> SUFFICES ASSUME "mcp-json" \in settled
               PROVE  (\E c \in Repairs!Configs : Repairs!HasIrantiServer(c)) /\ Repairs!ToolAccess
    BY DEF Repairs!Offered
  <2>1. "iranti" \in servers[".mcp.json"]
    BY <1>0 DEF SettledHasIt
  <2> QED
    BY <1>0, <2>1 DEF Repairs!HasIrantiServer, Repairs!ToolAccess
<1>3. Repairs!RepairHelps
  <2>1. settled \subseteq {"mcp-json", "claude-md"}
    BY <1>0 DEF RepairTypeOK, Repairs!Kinds
  <2> QED
    BY <1>1, <1>2, <2>1 DEF Repairs!RepairHelps
<1>4. Repairs!OneBlock
  BY <1>0 DEF RepairTypeOK, Texts, OneStart, Repairs!OneBlock
<1> QED
  BY <1>3, <1>4

\* A repair goes on, or ends.
LEMMA RepairGoes ==
  ASSUME RepairInv, NEW r \in 1..Len(repairs), NEW at \in {"sent", "read", "ok", "failed"}, NEW known \in Texts \cup {Repairs!None},
         repairs' = [repairs EXCEPT ![r].at = at, ![r].seen = known]
  PROVE  repairs' \in Seq(Repairings)
<1>1. repairs[r] \in Repairings
  BY DEF RepairInv, RepairTypeOK
<1> DEFINE q == [repairs[r] EXCEPT !.at = at, !.seen = known]
<1>2. q \in Repairings
  BY <1>1 DEF Repairings
<1>3. repairs' = [repairs EXCEPT ![r] = q]
  BY DEF RepairInv, RepairTypeOK
<1> HIDE DEF q
<1>4. [repairs EXCEPT ![r] = q] \in Seq(Repairings)
  BY <1>2, ExceptSeq DEF RepairInv, RepairTypeOK
<1> QED
  BY <1>3, <1>4

LEMMA RepairStep == ASSUME RepairInv, Repairs!Next PROVE RepairInv'
<1> USE DEF Repairs!files, Repairs!drawer
<1>0. RepairTypeOK /\ SettledHasIt /\ ".mcp.json" \in Repairs!Configs
  BY DEF RepairInv, Repairs!Configs
<1>a. Repairs!None \in Texts \cup {Repairs!None}
  OBVIOUS
<1>b. \A r \in 1..Len(repairs) : repairs[r] \in Repairings
  BY <1>0 DEF RepairTypeOK
<1>c. ASSUME UNCHANGED <<md, servers, settled>>, repairs' \in Seq(Repairings) PROVE RepairInv'
  BY <1>0, <1>c DEF RepairInv, RepairTypeOK, SettledHasIt, Repairs!Has, Repairs!Range
<1>1. CASE Repairs!handleRunDoctor \/ Repairs!DoctorAnswers \/ Repairs!DoctorLost \/ Repairs!CloseDrawer
           \/ Repairs!handleScaffoldClick \/ Repairs!ConfirmScaffold
  <2>1. UNCHANGED <<md, servers, repairs, settled>>
    BY <1>1 DEF Repairs!handleRunDoctor, Repairs!DoctorAnswers, Repairs!DoctorLost, Repairs!CloseDrawer,
       Repairs!handleScaffoldClick, Repairs!ConfirmScaffold
  <2> QED
    BY <1>0, <1>c, <2>1 DEF RepairTypeOK
<1>2. ASSUME NEW k \in Repairs!Kinds, Repairs!handleRepairConfirm(k) PROVE RepairInv'
  <2> DEFINE q == [kind |-> k, at |-> "sent", seen |-> Repairs!None]
  <2>1. q \in Repairings
    BY DEF Repairings
  <2>2. repairs' = Append(repairs, q) /\ UNCHANGED <<md, servers, settled>>
    BY <1>2 DEF Repairs!handleRepairConfirm
  <2> HIDE DEF q
  <2>3. repairs' \in Seq(Repairings)
    BY <1>0, <2>1, <2>2, AppendProperties DEF RepairTypeOK
  <2> QED
    BY <1>c, <2>2, <2>3
<1>3. ASSUME NEW r \in 1..Len(repairs), Repairs!Refuse(r) PROVE RepairInv'
  <2>1. repairs' \in Seq(Repairings) /\ UNCHANGED <<md, servers, settled>>
    BY <1>3, <1>a, RepairGoes DEF Repairs!Refuse, Repairs!Answer
  <2> QED
    BY <1>c, <2>1
<1>4. ASSUME NEW r \in 1..Len(repairs), Repairs!RepairMcpJson(r) PROVE RepairInv'
  <2>1. /\ repairs' \in Seq(Repairings) /\ UNCHANGED md
        /\ servers' = [servers EXCEPT ![".mcp.json"] = {"iranti"}] /\ settled' = settled \cup {"mcp-json"}
    BY <1>4, <1>a, RepairGoes DEF Repairs!RepairMcpJson, Repairs!Answer
  <2>2. RepairTypeOK'
    BY <1>0, <2>1 DEF RepairTypeOK, Repairs!Kinds
  <2>3. SettledHasIt'
    BY <1>0, <2>1 DEF RepairTypeOK, SettledHasIt, Repairs!Has, Repairs!Range
  <2> QED
    BY <2>2, <2>3 DEF RepairInv
<1>5. ASSUME NEW r \in 1..Len(repairs), Repairs!ReadClaudeMd(r) PROVE RepairInv'
  <2>1. repairs' \in Seq(Repairings) /\ UNCHANGED <<md, servers, settled>>
    BY <1>0, <1>5, RepairGoes DEF Repairs!ReadClaudeMd, RepairTypeOK
  <2> QED
    BY <1>c, <2>1
<1>6. ASSUME NEW r \in 1..Len(repairs), Repairs!RepairClaudeMd(r) PROVE RepairInv'
  <2>1. CASE Repairs!Malformed(repairs[r].seen)
    <3>1. repairs' \in Seq(Repairings) /\ UNCHANGED <<md, servers, settled>>
      BY <1>6, <1>a, <2>1, RepairGoes DEF Repairs!RepairClaudeMd, Repairs!Answer
    <3> QED
      BY <1>c, <3>1
  <2>2. CASE ~Repairs!Malformed(repairs[r].seen)
    <3>1. /\ repairs' \in Seq(Repairings) /\ UNCHANGED servers
          /\ md' = Repairs!Repaired(repairs[r].seen) /\ settled' = settled \cup {"claude-md"}
      BY <1>6, <1>a, <2>2, RepairGoes DEF Repairs!RepairClaudeMd, Repairs!Answer
    <3>2. repairs[r].seen \in Texts \cup {Repairs!None}
      BY <1>b DEF Repairings
    <3>3. md' \in Texts /\ Repairs!Has(md', "start")
      <4>1. CASE repairs[r].seen = Repairs!None
        BY <3>1, <4>1, NewText DEF Repairs!Repaired
      <4>2. CASE repairs[r].seen # Repairs!None
        BY <2>2, <3>1, <3>2, <4>2, RepairedText
      <4> QED
        BY <4>1, <4>2
    <3>4. md' # Repairs!None
      BY <3>3, NoneIsNoText
    <3>5. RepairTypeOK'
      BY <1>0, <3>1, <3>3 DEF RepairTypeOK, Repairs!Kinds
    <3>6. SettledHasIt'
      BY <1>0, <3>1, <3>3, <3>4 DEF SettledHasIt, Repairs!Has, Repairs!Range
    <3> QED
      BY <3>5, <3>6 DEF RepairInv
  <2> QED
    BY <2>1, <2>2
<1>7. CASE Repairs!ClaudeSetup
  <2>1. UNCHANGED <<md, repairs, settled>>
    BY <1>7 DEF Repairs!ClaudeSetup
  <2>2. PICK done \in SUBSET Repairs!Configs :
          servers' = [c \in Repairs!Configs |-> IF c \in done THEN Repairs!Written(c) ELSE servers[c]]
    BY <1>7 DEF Repairs!ClaudeSetup
  <2>3. \A c \in Repairs!Configs : /\ Repairs!Written(c) \in SUBSET {"iranti", "other", "url"}
                                   /\ "iranti" \in servers[c] => "iranti" \in Repairs!Written(c)
    BY <1>0 DEF RepairTypeOK, Repairs!Written
  <2>4. RepairTypeOK'
    BY <1>0, <2>1, <2>2, <2>3 DEF RepairTypeOK
  <2>5. SettledHasIt'
    BY <1>0, <2>1, <2>2, <2>3 DEF SettledHasIt, Repairs!Has, Repairs!Range
  <2> QED
    BY <2>4, <2>5 DEF RepairInv
<1>8. CASE Repairs!EditClaudeMd
  <2>1. /\ md' \in Texts \cup {Repairs!None} /\ settled' = settled \ {"claude-md"} /\ UNCHANGED <<servers, repairs>>
    BY <1>8, RepairBounds DEF Repairs!EditClaudeMd
  <2> QED
    BY <1>0, <2>1 DEF RepairInv, RepairTypeOK, SettledHasIt
<1>9. ASSUME NEW c \in Repairs!Configs, Repairs!EditConfig(c) PROVE RepairInv'
  <2>1. PICK s \in {{}, {"other"}, {"url"}} : servers' = [servers EXCEPT ![c] = s]
    BY <1>9 DEF Repairs!EditConfig
  <2>2. settled' = settled \ {"mcp-json"} /\ UNCHANGED <<md, repairs>>
    BY <1>9 DEF Repairs!EditConfig
  <2>3. RepairTypeOK'
    BY <1>0, <2>1, <2>2 DEF RepairTypeOK
  <2>4. SettledHasIt'
    BY <1>0, <2>2 DEF SettledHasIt, Repairs!Has, Repairs!Range
  <2> QED
    BY <2>3, <2>4 DEF RepairInv
<1> QED
  BY <1>1, <1>2, <1>3, <1>4, <1>5, <1>6, <1>7, <1>8, <1>9 DEF Repairs!Next

LEMMA RepairStays == ASSUME RepairInv, UNCHANGED slots PROVE RepairInv'
BY DEF slots, RepairInv, RepairTypeOK, SettledHasIt, Repairs!Has, Repairs!Range

(* The repair that writes back what it still finds keeps what is outside.  *)
LEMMA RepairKeepsOutside == ASSUME RepairInv, Repairs!Next PROVE Repairs!OutsideIsKept
<1> USE DEF Repairs!files, Repairs!drawer
<1> SUFFICES ASSUME NEW r \in 1..Len(repairs), repairs[r].at = "read", repairs'[r].at = "ok", repairs[r].seen = md,
                    md # Repairs!None
             PROVE  Repairs!Before(md') = Repairs!Before(md) /\ Repairs!Behind(md') = Repairs!Behind(md)
  BY DEF Repairs!OutsideIsKept
<1>0. md \in Texts /\ repairs \in Seq(Repairings) /\ repairs[r] \in Repairings
  BY DEF RepairInv, RepairTypeOK
<1>1. md' = md => Repairs!Before(md') = Repairs!Before(md) /\ Repairs!Behind(md') = Repairs!Behind(md)
  OBVIOUS
<1>2. CASE Repairs!RepairClaudeMd(r)
  <2>1. CASE Repairs!Malformed(md)
    BY <1>1, <1>2, <2>1 DEF Repairs!RepairClaudeMd
  <2>2. CASE ~Repairs!Malformed(md)
    <3>1. md' = Repairs!Repaired(md)
      BY <1>2, <2>2 DEF Repairs!RepairClaudeMd
    <3> QED
      BY <1>0, <2>2, <3>1, RepairedText
  <2> QED
    BY <2>1, <2>2
<1>3. ASSUME NEW q \in 1..Len(repairs), q # r, Repairs!RepairClaudeMd(q) \/ Repairs!Refuse(q) \/ Repairs!RepairMcpJson(q)
                                              \/ Repairs!ReadClaudeMd(q)
      PROVE  FALSE
  <2>1. repairs'[r] = repairs[r]
    BY <1>0, <1>3 DEF Repairs!RepairClaudeMd, Repairs!Refuse, Repairs!RepairMcpJson, Repairs!ReadClaudeMd, Repairs!Answer
  <2> QED
    BY <2>1
<1>4. CASE Repairs!Refuse(r) \/ Repairs!RepairMcpJson(r) \/ Repairs!ReadClaudeMd(r)
  BY <1>4 DEF Repairs!Refuse, Repairs!RepairMcpJson, Repairs!ReadClaudeMd
<1>5. CASE UNCHANGED md
  BY <1>1, <1>5
<1>6. ASSUME UNCHANGED repairs PROVE FALSE
  BY <1>6
<1>7. CASE Repairs!handleRunDoctor \/ Repairs!DoctorAnswers \/ Repairs!DoctorLost \/ Repairs!CloseDrawer
           \/ (\E k \in Repairs!Kinds : Repairs!handleRepairConfirm(k)) \/ Repairs!handleScaffoldClick
           \/ Repairs!ConfirmScaffold \/ Repairs!ClaudeSetup \/ \E c \in Repairs!Configs : Repairs!EditConfig(c)
  <2>1. UNCHANGED md
    BY <1>7 DEF Repairs!handleRunDoctor, Repairs!DoctorAnswers, Repairs!DoctorLost, Repairs!CloseDrawer,
       Repairs!handleRepairConfirm, Repairs!handleScaffoldClick, Repairs!ConfirmScaffold, Repairs!ClaudeSetup, Repairs!EditConfig
  <2> QED
    BY <1>5, <2>1
<1>8. CASE Repairs!EditClaudeMd
  BY <1>6, <1>8 DEF Repairs!EditClaudeMd
<1> QED
  BY <1>2, <1>3, <1>4, <1>7, <1>8 DEF Repairs!Next

HIDE DEF md, servers, repairs, settled

-----------------------------------------------------------------------------
(***************************************************************************)
(* The diagnostics.  The last run of an instance was answered, and is one  *)
(* of that instance; the panel waits for the last run of the instance that *)
(* is selected.                                                            *)
(***************************************************************************)
active == s1
captured == s3
fetching == s5
lastRun == s6
diagRuns == s8
fact == s9
lastOf == s10
USE DEF active, captured, fetching, lastRun, diagRuns, fact, lastOf

LEMMA DiagBounds == "none" \notin ProbedInsts /\ MaxRuns \in Nat
BY ControlsAssumption

DiagRuns == [inst : ProbedInsts, at : {"unsent", "sent", "written", "answered"}, status : {"none", "pass", "fail"}]
DiagTypeOK ==
  /\ active \in ProbedInsts /\ captured \in ProbedInsts /\ fetching \in [inst : ProbedInsts \cup {"none"}, run : {0}]
  /\ diagRuns \in [1..MaxRuns -> DiagRuns] /\ fact \in [ProbedInsts -> {0, 1}]
  /\ lastOf \in [ProbedInsts -> 0..MaxRuns]

LastIsOfInstance ==
  \A i \in ProbedInsts : lastOf[i] # 0 => diagRuns[lastOf[i]].inst = i /\ diagRuns[lastOf[i]].at = "answered"
FetchesSelected == fetching # Probes!NoFetch => fetching.inst = active

DiagInv == DiagTypeOK /\ LastIsOfInstance /\ FetchesSelected /\ Probes!ProbeReadsBack

LEMMA DiagInit == ASSUME Probes!Init PROVE DiagInv
<1> USE DiagBounds DEF Probes!Init
<1>1. DiagTypeOK
  BY DEF DiagTypeOK, DiagRuns, Probes!RunIds
<1>2. LastIsOfInstance /\ FetchesSelected /\ Probes!ProbeReadsBack
  BY DEF LastIsOfInstance, FetchesSelected, Probes!ProbeReadsBack, Probes!RunIds
<1> QED
  BY <1>1, <1>2 DEF DiagInv

\* The next run is one that was not sent yet.
LEMMA NextIsUnsent ==
  ASSUME DiagInv, Probes!Unsent # {}
  PROVE  Probes!Next1 \in 1..MaxRuns /\ diagRuns[Probes!Next1].at = "unsent"
<1>1. Probes!Unsent \in SUBSET Nat
  BY DiagBounds DEF Probes!Unsent, Probes!RunIds
<1>2. \E x \in Probes!Unsent : \A y \in Probes!Unsent : x <= y
  BY <1>1, HasLeast
<1>3. Probes!Next1 \in Probes!Unsent
  BY <1>2 DEF Probes!Next1
<1> QED
  BY <1>3 DEF Probes!Unsent, Probes!RunIds

\* A run is sent.
LEMMA DiagSends ==
  ASSUME DiagInv, NEW i \in ProbedInsts, Probes!Unsent # {}, Probes!Send(i), captured' \in ProbedInsts,
         UNCHANGED <<active, fetching, fact, lastOf>>
  PROVE  DiagInv'
<1> DEFINE n == Probes!Next1
<1> DEFINE r == [inst |-> i, at |-> "sent", status |-> "none"]
<1>1. n \in 1..MaxRuns /\ diagRuns[n].at = "unsent"
  BY NextIsUnsent
<1>2. diagRuns' = [diagRuns EXCEPT ![n] = r]
  BY DEF Probes!Send
<1>3. r \in DiagRuns /\ r.at = "sent"
  BY DEF DiagRuns
<1> HIDE DEF n, r
<1>4. DiagTypeOK'
  BY <1>1, <1>2, <1>3 DEF DiagInv, DiagTypeOK
<1>5. LastIsOfInstance'
  BY <1>1, <1>2 DEF DiagInv, DiagTypeOK, LastIsOfInstance
<1>6. FetchesSelected'
  BY DEF DiagInv, FetchesSelected, Probes!NoFetch
<1>7. Probes!ProbeReadsBack'
  BY <1>1, <1>2, <1>3 DEF DiagInv, DiagTypeOK, Probes!ProbeReadsBack, Probes!RunIds
<1> QED
  BY <1>4, <1>5, <1>6, <1>7 DEF DiagInv

\* A run is answered.
LEMMA DiagAnswers ==
  ASSUME DiagInv, NEW r \in 1..MaxRuns, NEW verdict \in {"pass", "fail"}, Probes!Answered(r, verdict)
  PROVE  DiagInv'
<1> USE DEF Probes!panel
<1>0. diagRuns[r] \in DiagRuns /\ diagRuns[r].inst \in ProbedInsts
  BY DEF DiagInv, DiagTypeOK, DiagRuns
<1> DEFINE q == [diagRuns[r] EXCEPT !.at = "answered", !.status = verdict]
<1>1. q \in DiagRuns /\ q.at = "answered" /\ q.inst = diagRuns[r].inst
  BY <1>0 DEF DiagRuns
<1>2. /\ diagRuns' = [diagRuns EXCEPT ![r] = q] /\ lastOf' = [lastOf EXCEPT ![diagRuns[r].inst] = r]
      /\ UNCHANGED <<active, captured, fetching, fact>>
  BY <1>0 DEF Probes!Answered, DiagInv, DiagTypeOK
<1> HIDE DEF q
<1>3. DiagTypeOK'
  BY <1>0, <1>1, <1>2 DEF DiagInv, DiagTypeOK
<1>4. LastIsOfInstance'
  BY <1>0, <1>1, <1>2 DEF DiagInv, DiagTypeOK, LastIsOfInstance
<1>5. FetchesSelected'
  BY <1>2 DEF DiagInv, FetchesSelected, Probes!NoFetch
<1>6. Probes!ProbeReadsBack'
  BY <1>1, <1>2 DEF DiagInv, DiagTypeOK, Probes!ProbeReadsBack, Probes!RunIds
<1> QED
  BY <1>3, <1>4, <1>5, <1>6 DEF DiagInv

LEMMA DiagStep == ASSUME DiagInv, Probes!Next PROVE DiagInv'
<1> USE DEF Probes!panel, Probes!server
<1>0. \A r \in 1..MaxRuns : diagRuns[r] \in DiagRuns /\ diagRuns[r].inst \in ProbedInsts
  BY DEF DiagInv, DiagTypeOK, DiagRuns
<1>1. ASSUME NEW i \in ProbedInsts, Probes!Select(i) PROVE DiagInv'
  BY <1>1 DEF Probes!Select, DiagInv, DiagTypeOK, LastIsOfInstance, FetchesSelected, Probes!ProbeReadsBack
<1>2. ASSUME NEW i \in ProbedInsts, Probes!OtherTab(i) PROVE DiagInv'
  <2>1. Probes!Unsent # {} /\ Probes!Send(i) /\ UNCHANGED <<active, captured, fetching, fact, lastOf>>
    BY <1>2 DEF Probes!OtherTab
  <2>2. captured' \in ProbedInsts
    BY <2>1 DEF DiagInv, DiagTypeOK
  <2> QED
    BY <2>1, <2>2, DiagSends
<1>3. CASE Probes!FetchLast
  BY <1>3 DEF Probes!FetchLast, Probes!NoFetch, DiagInv, DiagTypeOK, LastIsOfInstance, FetchesSelected, Probes!ProbeReadsBack
<1>4. CASE Probes!runDiagnostics
  <2>1. Probes!Unsent # {} /\ Probes!Send(captured) /\ UNCHANGED <<active, fetching, fact, lastOf>> /\ captured' = active
    BY <1>4 DEF Probes!runDiagnostics
  <2> QED
    BY <2>1, DiagSends DEF DiagInv, DiagTypeOK
<1>5. CASE Probes!Receive \/ Probes!AnswerLost
  BY <1>5 DEF Probes!Receive, Probes!AnswerLost, DiagInv, DiagTypeOK, LastIsOfInstance, FetchesSelected, Probes!ProbeReadsBack
<1>6. ASSUME NEW r \in 1..MaxRuns, Probes!WriteProbe(r) PROVE DiagInv'
  <2> DEFINE q == [diagRuns[r] EXCEPT !.at = "written"]
  <2>1. q \in DiagRuns /\ q.at = "written" /\ q.inst = diagRuns[r].inst
    BY <1>0 DEF DiagRuns
  <2>2. /\ diagRuns[r].at = "sent" /\ diagRuns' = [diagRuns EXCEPT ![r] = q]
        /\ fact' = [fact EXCEPT ![diagRuns[r].inst] = 1] /\ UNCHANGED <<active, captured, fetching, lastOf>>
    BY <1>6 DEF Probes!WriteProbe, Probes!Value
  <2> HIDE DEF q
  <2>3. DiagTypeOK'
    BY <2>1, <2>2 DEF DiagInv, DiagTypeOK
  <2>4. LastIsOfInstance'
    BY <2>1, <2>2 DEF DiagInv, DiagTypeOK, LastIsOfInstance
  <2>5. FetchesSelected'
    BY <2>2 DEF DiagInv, FetchesSelected, Probes!NoFetch
  <2>6. Probes!ProbeReadsBack'
    BY <1>0, <2>1, <2>2 DEF DiagInv, DiagTypeOK, Probes!ProbeReadsBack, Probes!RunIds, Probes!Value
  <2> QED
    BY <2>3, <2>4, <2>5, <2>6 DEF DiagInv
<1>7. ASSUME NEW r \in 1..MaxRuns, Probes!ReadProbe(r) PROVE DiagInv'
  BY <1>7, DiagAnswers DEF Probes!ReadProbe
<1>8. ASSUME NEW r \in 1..MaxRuns, Probes!TimedOut(r) PROVE DiagInv'
  BY <1>8, DiagAnswers DEF Probes!TimedOut
<1>9. ASSUME NEW r \in 1..MaxRuns, Probes!LateWrite(r) PROVE DiagInv'
  <2>1. fact' = [fact EXCEPT ![diagRuns[r].inst] = 1] /\ UNCHANGED <<active, captured, fetching, diagRuns, lastOf>>
    BY <1>9 DEF Probes!LateWrite, Probes!Value
  <2> QED
    BY <1>0, <2>1 DEF DiagInv, DiagTypeOK, LastIsOfInstance, FetchesSelected, Probes!NoFetch, Probes!ProbeReadsBack,
       Probes!RunIds, Probes!Value
<1> QED
  BY <1>1, <1>2, <1>3, <1>4, <1>5, <1>6, <1>7, <1>8, <1>9 DEF Probes!Next, Probes!RunIds

LEMMA DiagStays == ASSUME DiagInv, UNCHANGED slots PROVE DiagInv'
BY DEF slots, DiagInv, DiagTypeOK, LastIsOfInstance, FetchesSelected, Probes!NoFetch, Probes!ProbeReadsBack

(* Only an answer to the panel ends its wait for the last run.             *)
LEMMA DiagFetches == ASSUME DiagInv, Probes!Next PROVE Probes!FetchedIsOfSelected
<1> USE DEF Probes!panel, Probes!server
<1>1. CASE Probes!FetchLast
  <2>1. fetching.inst = active /\ UNCHANGED diagRuns
    BY <1>1 DEF Probes!FetchLast, DiagInv, FetchesSelected
  <2>2. lastRun' = lastRun \/ (lastRun' = lastOf[active] /\ lastOf[active] # 0)
    BY <1>1, <2>1 DEF Probes!FetchLast
  <2> QED
    BY <2>1, <2>2 DEF DiagInv, DiagTypeOK, LastIsOfInstance, Probes!FetchedIsOfSelected
<1>2. ASSUME NEW i \in ProbedInsts, Probes!Select(i) PROVE ~(fetching' = Probes!NoFetch)
  BY <1>2, DiagBounds DEF Probes!Select, Probes!NoFetch
<1>3. CASE UNCHANGED fetching
  BY <1>3 DEF Probes!FetchedIsOfSelected
<1>4. CASE Probes!Receive \/ Probes!AnswerLost \/ Probes!runDiagnostics
  BY <1>4, <1>3 DEF Probes!Receive, Probes!AnswerLost, Probes!runDiagnostics
<1>5. ASSUME NEW i, Probes!OtherTab(i) PROVE UNCHANGED fetching
  BY <1>5 DEF Probes!OtherTab
<1>6. ASSUME NEW r, Probes!WriteProbe(r) \/ Probes!ReadProbe(r) \/ Probes!TimedOut(r) \/ Probes!LateWrite(r)
      PROVE  UNCHANGED fetching
  BY <1>6 DEF Probes!WriteProbe, Probes!ReadProbe, Probes!TimedOut, Probes!LateWrite, Probes!Answered
<1>7. fetching' # Probes!NoFetch => Probes!FetchedIsOfSelected
  BY DEF Probes!FetchedIsOfSelected
<1> QED
  BY <1>1, <1>2, <1>3, <1>4, <1>5, <1>6, <1>7 DEF Probes!Next

HIDE DEF active, captured, fetching, lastRun, diagRuns, fact, lastOf

-----------------------------------------------------------------------------
(***************************************************************************)
(* The installer.  Past the choice of a database there is one to be        *)
(* written, and the default provider is one whose key is written with it.  *)
(***************************************************************************)
envFile == s1
mcpFile == s4
scriptAt == s5
scriptState == s6
USE DEF envFile, mcpFile, scriptAt, scriptState

LEMMA ScriptBounds == NoValue \notin Urls \cup Remote
BY ControlsAssumption

EnvFileContents == [url : Urls \cup {NoValue}, keys : SUBSET (Remote \cup {Ollama}), default : Remote \cup {NoValue}]
ScriptStates == [url : Urls \cup {NoValue}, existing : BOOLEAN, mcpWritten : BOOLEAN]
ScriptTypeOK == envFile \in EnvFileContents /\ mcpFile \in BOOLEAN /\ scriptState \in ScriptStates

UrlIsChosen == /\ scriptAt \in {"test", "vector", "write", "migrate"} => scriptState.url # NoValue
               /\ scriptAt = "existing" => envFile.url # NoValue

ScriptInv == ScriptTypeOK /\ UrlIsChosen /\ Script!DefaultHasKey

LEMMA ScriptInit == ASSUME Script!Init PROVE ScriptInv
BY DEF Script!Init, Script!NewState, ScriptInv, ScriptTypeOK, EnvFileContents, ScriptStates, UrlIsChosen, Script!DefaultHasKey

(* What is written into the env file: the address, or keys with a default. *)
LEMMA UrlWritten ==
  ASSUME ScriptInv, NEW u \in Urls
  PROVE  LET e == Script!writeEnvFile(envFile, [url |-> u]) IN
         e \in EnvFileContents /\ e.url = u /\ e.keys = envFile.keys /\ e.default = envFile.default
BY DEF ScriptInv, ScriptTypeOK, EnvFileContents, Script!writeEnvFile

LEMMA KeysWritten ==
  ASSUME ScriptInv, NEW S \in SUBSET (Remote \cup {Ollama}), NEW w \in Script!Updates(S)
  PROVE  LET e == Script!writeEnvFile(envFile, w) IN
         /\ e \in EnvFileContents /\ e.url = envFile.url /\ envFile.keys \subseteq e.keys
         /\ e.default = envFile.default \/ (e.default \in Remote /\ e.default \in e.keys)
<1> DEFINE remote == S \ {Ollama}
<1> DEFINE e == Script!writeEnvFile(envFile, w)
<1>1. PICK k \in {remote, S} : w = [keys |-> k] \/ \E d \in remote : w = [keys |-> k, default |-> d]
  BY DEF Script!Updates
<1>2. k \subseteq Remote \cup {Ollama} /\ remote \subseteq k /\ remote \subseteq Remote
  OBVIOUS
<1>3. CASE w = [keys |-> k]
  <2>1. e \in EnvFileContents /\ e.url = envFile.url /\ e.keys = envFile.keys \cup k /\ e.default = envFile.default
    BY <1>2, <1>3 DEF ScriptInv, ScriptTypeOK, EnvFileContents, Script!writeEnvFile
  <2> QED
    BY <2>1
<1>4. ASSUME NEW d \in remote, w = [keys |-> k, default |-> d]
      PROVE  /\ e \in EnvFileContents /\ e.url = envFile.url /\ envFile.keys \subseteq e.keys
             /\ e.default \in Remote /\ e.default \in e.keys
  <2>1. d \in k /\ d \in Remote
    BY <1>2
  <2>2. e \in EnvFileContents /\ e.url = envFile.url /\ e.keys = envFile.keys \cup k /\ e.default = d
    BY <1>2, <1>4, <2>1 DEF ScriptInv, ScriptTypeOK, EnvFileContents, Script!writeEnvFile
  <2> QED
    BY <2>1, <2>2
<1> QED
  BY <1>1, <1>3, <1>4

\* What a step does to the env file.
Written == \/ UNCHANGED envFile
           \/ \E u \in Urls : envFile' = Script!writeEnvFile(envFile, [url |-> u])
           \/ \E S \in SUBSET (Remote \cup {Ollama}) : \E w \in Script!Updates(S) : envFile' = Script!writeEnvFile(envFile, w)

LEMMA EnvFileKept ==
  ASSUME ScriptInv, Written
  PROVE  envFile' \in EnvFileContents /\ Script!DefaultHasKey' /\ Script!SettingsAreKept
<1> USE ScriptBounds DEF Script!DefaultHasKey, Script!SettingsAreKept
<1>1. CASE UNCHANGED envFile
  BY <1>1 DEF ScriptInv, ScriptTypeOK
<1>2. ASSUME NEW u \in Urls, envFile' = Script!writeEnvFile(envFile, [url |-> u])
      PROVE  envFile' \in EnvFileContents /\ Script!DefaultHasKey' /\ Script!SettingsAreKept
  <2>1. envFile' \in EnvFileContents /\ envFile'.url = u /\ envFile'.keys = envFile.keys /\ envFile'.default = envFile.default
    BY <1>2, UrlWritten
  <2> QED
    BY <2>1 DEF ScriptInv
<1>3. ASSUME NEW S \in SUBSET (Remote \cup {Ollama}), NEW w \in Script!Updates(S), envFile' = Script!writeEnvFile(envFile, w)
      PROVE  envFile' \in EnvFileContents /\ Script!DefaultHasKey' /\ Script!SettingsAreKept
  <2>1. /\ envFile' \in EnvFileContents /\ envFile'.url = envFile.url /\ envFile.keys \subseteq envFile'.keys
        /\ envFile'.default = envFile.default \/ (envFile'.default \in Remote /\ envFile'.default \in envFile'.keys)
    BY <1>3, KeysWritten
  <2> QED
    BY <2>1 DEF ScriptInv
<1> QED
  BY <1>1, <1>2, <1>3 DEF Written

LEMMA ScriptMoves ==
  ASSUME ScriptInv, Script!Next
  PROVE  Written /\ mcpFile' \in BOOLEAN /\ scriptState' \in ScriptStates /\ UrlIsChosen'
<1> USE DEF Script!world, Script!Goes, Script!Stops, Written
<1>0. envFile \in EnvFileContents /\ mcpFile \in BOOLEAN /\ scriptState \in ScriptStates /\ UrlIsChosen
  BY DEF ScriptInv, ScriptTypeOK
<1>1. CASE Script!main
  BY <1>0, <1>1 DEF Script!main, Script!NewState, ScriptStates, UrlIsChosen
<1>2. CASE Script!Continue \/ Script!Declined \/ Script!checkCancel \/ Script!SkipProviders \/ Script!bindProject
           \/ Script!section5_Verification
  BY <1>0, <1>2 DEF Script!Continue, Script!Declined, Script!checkCancel, Script!SkipProviders, Script!bindProject,
     Script!section5_Verification, UrlIsChosen
<1>3. CASE Script!section1_SystemChecks
  BY <1>0, <1>3 DEF Script!section1_SystemChecks, UrlIsChosen
<1>4. CASE Script!UseExisting
  BY <1>0, <1>4 DEF Script!UseExisting, UrlIsChosen, ScriptStates, EnvFileContents
<1>5. CASE Script!EnterAnother \/ Script!TestConnection
  BY <1>0, <1>5 DEF Script!EnterAnother, Script!TestConnection, UrlIsChosen
<1>6. ASSUME NEW u \in Urls, Script!section2_DatabaseSetup(u)
      PROVE  Written /\ mcpFile' \in BOOLEAN /\ scriptState' \in ScriptStates /\ UrlIsChosen'
  BY <1>0, <1>6, ScriptBounds DEF Script!section2_DatabaseSetup, UrlIsChosen, ScriptStates
<1>7. CASE Script!runPgvectorCheck
  BY <1>0, <1>7 DEF Script!runPgvectorCheck, Script!AfterVector, UrlIsChosen
<1>8. CASE Script!writeEnvSection
  <2>1. scriptState.url \in Urls
    BY <1>0, <1>8 DEF Script!writeEnvSection, UrlIsChosen, ScriptStates
  <2>2. Written
    BY <1>8, <2>1 DEF Script!writeEnvSection
  <2> QED
    BY <1>0, <1>8, <2>2 DEF Script!writeEnvSection, UrlIsChosen
<1>9. CASE Script!runMigrations
  BY <1>0, <1>9 DEF Script!runMigrations, UrlIsChosen
<1>10. ASSUME NEW S \in SUBSET (Remote \cup {Ollama}), Script!section3_ProviderSetup(S)
       PROVE  Written /\ mcpFile' \in BOOLEAN /\ scriptState' \in ScriptStates /\ UrlIsChosen'
  BY <1>0, <1>10 DEF Script!section3_ProviderSetup, UrlIsChosen
<1>11. CASE Script!section4_Integrations
  BY <1>0, <1>11 DEF Script!section4_Integrations, UrlIsChosen, ScriptStates
<1> QED
  BY <1>1, <1>2, <1>3, <1>4, <1>5, <1>6, <1>7, <1>8, <1>9, <1>10, <1>11 DEF Script!Next

LEMMA ScriptStep == ASSUME ScriptInv, Script!Next PROVE ScriptInv'
BY ScriptMoves, EnvFileKept DEF ScriptInv, ScriptTypeOK

LEMMA ScriptKeeps == ASSUME ScriptInv, Script!Next PROVE Script!SettingsAreKept
BY ScriptMoves, EnvFileKept

LEMMA ScriptStays == ASSUME ScriptInv, UNCHANGED slots PROVE ScriptInv'
BY DEF slots, ScriptInv, ScriptTypeOK, UrlIsChosen, Script!DefaultHasKey

HIDE DEF envFile, mcpFile, scriptAt, scriptState

-----------------------------------------------------------------------------
(***************************************************************************)
(* The command palette.  Only the frame that was asked for ends its wait.  *)
(***************************************************************************)
LEMMA PaletteSignals == ASSUME Palette!Next PROVE Palette!AskedIsSignalled
<1> DEFINE awaited == s9
<1> USE DEF Palette!AskedIsSignalled
<1>1. CASE Palette!Frame
  BY <1>1 DEF Palette!Frame
<1>2. CASE awaited' = awaited \/ awaited'
  BY <1>2
<1>3. ASSUME NEW c, Palette!activateCommand(c) PROVE awaited' = awaited \/ awaited'
  <2>1. CASE c = "toggle-dark"
    BY <1>3, <2>1 DEF Palette!activateCommand, Palette!page
  <2>2. CASE c = "refresh-health"
    BY <1>3, <2>2 DEF Palette!activateCommand
  <2>3. CASE c = "run-diagnostics"
    BY <1>3, <2>3 DEF Palette!activateCommand
  <2>4. CASE c \notin {"toggle-dark", "refresh-health", "run-diagnostics"}
    BY <1>3, <2>4 DEF Palette!activateCommand
  <2> QED
    BY <2>1, <2>2, <2>3, <2>4
<1>4. CASE (\E f \in {"page", "field"} : Palette!Focus(f)) \/ Palette!OpenByKey \/ Palette!CloseByKey \/ Palette!OpenByButton
           \/ Palette!Close \/ (\E q \in Queries \cup {"", "?"} : Palette!Type(q)) \/ Palette!ShowShortcuts \/ Palette!Tab
  BY <1>4 DEF Palette!Focus, Palette!OpenByKey, Palette!CloseByKey, Palette!OpenByButton, Palette!Close, Palette!Type,
     Palette!ShowShortcuts, Palette!Tab, Palette!page
<1>5. ASSUME NEW step, Palette!Arrow(step) PROVE awaited' = awaited
  BY <1>5 DEF Palette!Arrow, Palette!page
<1>6. ASSUME NEW i, Palette!Hover(i) PROVE awaited' = awaited
  BY <1>6 DEF Palette!Hover, Palette!page
<1>7. CASE Palette!Enter \/ \E i \in 1..Len(Palette!filteredCommands) : Palette!Click(i)
  BY <1>3, <1>7 DEF Palette!Enter, Palette!Click
<1>8. CASE Palette!Render \/ Palette!enterGoMode \/ Palette!GoTimeout
  BY <1>8 DEF Palette!Render, Palette!enterGoMode, Palette!GoTimeout, Palette!page
<1>9. ASSUME NEW k, Palette!SecondKey(k) PROVE awaited' = awaited
  BY <1>9 DEF Palette!SecondKey, Palette!page
<1> HIDE DEF awaited
<1> QED
  BY <1>1, <1>2, <1>4, <1>5, <1>6, <1>7, <1>8, <1>9, <1>3 DEF Palette!Next

-----------------------------------------------------------------------------
(***************************************************************************)
(* The pages together.  The palette needs no invariant: what it is asked   *)
(* for it signals by the shape of its steps.                               *)
(***************************************************************************)
ControlsInv ==
  /\ page = "instances" => ListedInv
  /\ page = "codex" => CodexInv
  /\ page = "archive" => ArchiveInv
  /\ page = "sessions" => SessionsInv
  /\ page = "launcher" => LaunchInv
  /\ page = "onboarding" => ChecklistInv
  /\ page = "shell" => FrameInv
  /\ page = "conflicts" => ConflictsInv
  /\ page = "repair" => RepairInv
  /\ page = "diagnostics" => DiagInv
  /\ page = "setup" => ScriptInv

\* A behaviour stays on its page, and a step of it is a step of that page.
LEMMA StepIsOfControl ==
  ASSUME [ControlsNext]_<<page, slots>>
  PROVE  /\ page' = page
         /\ \/ UNCHANGED slots
            \/ /\ page = "instances" => Listed!Next
               /\ page = "codex" => Codex!Next
               /\ page = "archive" => Archive!Next
               /\ page = "sessions" => SessionsPage!Next
               /\ page = "launcher" => Launch!Next
               /\ page = "onboarding" => Checklist!Next
               /\ page = "shell" => Frame!Next
               /\ page = "conflicts" => Conflicts!Next
               /\ page = "repair" => Repairs!Next
               /\ page = "diagnostics" => Probes!Next
               /\ page = "setup" => Script!Next
               /\ page = "palette" => Palette!Next
<1>1. CASE UNCHANGED <<page, slots>>
  BY <1>1
<1>2. CASE ControlsNext
  <2>1. /\ page' = page
        /\ page = "instances" => Listed!Next
        /\ page = "codex" => Codex!Next
        /\ page = "archive" => Archive!Next
        /\ page = "sessions" => SessionsPage!Next
    BY <1>2, Zenon DEF ControlsNext
  <2>2. /\ page = "launcher" => Launch!Next
        /\ page = "onboarding" => Checklist!Next
        /\ page = "shell" => Frame!Next
        /\ page = "conflicts" => Conflicts!Next
    BY <1>2, Zenon DEF ControlsNext
  <2>3. /\ page = "repair" => Repairs!Next
        /\ page = "diagnostics" => Probes!Next
        /\ page = "setup" => Script!Next
        /\ page = "palette" => Palette!Next
    BY <1>2, Zenon DEF ControlsNext
  <2> QED
    BY <2>1, <2>2, <2>3
<1> QED
  BY <1>1, <1>2

LEMMA ControlsInitial == ControlsInit => ControlsInv
BY ListedInit, CodexInit, ArchiveInit, SessionsInit, LaunchInit, ChecklistInit,
   FrameInit, ConflictsInit, RepairInit, DiagInit, ScriptInit
   DEF ControlsInit, ControlsInv

LEMMA ControlsStep == ControlsInv /\ [ControlsNext]_<<page, slots>> => ControlsInv'
<1> SUFFICES ASSUME ControlsInv, [ControlsNext]_<<page, slots>> PROVE ControlsInv'
  OBVIOUS
<1>1. page' = page
  BY StepIsOfControl
<1>2. page = "instances" => ListedInv'
  BY StepIsOfControl, ListedStep, ListedStays DEF ControlsInv
<1>3. page = "codex" => CodexInv'
  BY StepIsOfControl, CodexStep, CodexStays DEF ControlsInv
<1>4. page = "archive" => ArchiveInv'
  BY StepIsOfControl, ArchiveStep, ArchiveStays DEF ControlsInv
<1>5. page = "sessions" => SessionsInv'
  BY StepIsOfControl, SessionsStep, SessionsStay DEF ControlsInv
<1>6. page = "launcher" => LaunchInv'
  BY StepIsOfControl, LaunchStep, LaunchStay DEF ControlsInv
<1>7. page = "onboarding" => ChecklistInv'
  BY StepIsOfControl, ChecklistStep, ChecklistStays DEF ControlsInv
<1>8. page = "shell" => FrameInv'
  BY StepIsOfControl, FrameStep, FrameStays DEF ControlsInv
<1>9. page = "conflicts" => ConflictsInv'
  BY StepIsOfControl, ConflictsStep, ConflictsStay DEF ControlsInv
<1>10. page = "repair" => RepairInv'
  BY StepIsOfControl, RepairStep, RepairStays DEF ControlsInv
<1>11. page = "diagnostics" => DiagInv'
  BY StepIsOfControl, DiagStep, DiagStays DEF ControlsInv
<1>12. page = "setup" => ScriptInv'
  BY StepIsOfControl, ScriptStep, ScriptStays DEF ControlsInv
<1> QED
  BY <1>1, <1>2, <1>3, <1>4, <1>5, <1>6, <1>7, <1>8, <1>9, <1>10, <1>11, <1>12 DEF ControlsInv

(***************************************************************************)
(* What the operator did comes to show, on each of the seven pages that    *)
(* act and of the command line: no list, flag, toast or message that was   *)
(* asked for before hides it, and an instance is deleted only under the    *)
(* name that was typed (ArchiveExplorer.tsx, SessionsView.tsx, bin/iranti- *)
(* cp.js, InstanceManager.tsx, GettingStarted.tsx, AppShell.tsx,           *)
(* ConflictReview.tsx, CodexIntegrationPanel.tsx, and their routes).       *)
(***************************************************************************)
THEOREM ActionsComeToShow == ControlsSpec => []ActionsAreShown
<1>1. ControlsInv => ActionsAreShown
  BY ArchiveShows, LaunchStops
     DEF ControlsInv, ActionsAreShown, ListedInv, CodexInv, SessionsInv, LaunchInv, ProcessesInv, ChecklistInv,
         FrameInv, ToastsInv, ConflictsInv
<1> QED
  BY <1>1, ControlsInitial, ControlsStep, PTL DEF ControlsSpec

(***************************************************************************)
(* A repair makes its check pass and leaves one block, a probe reads back  *)
(* as it was written, and the installer leaves no default provider without *)
(* its key (routes/control-plane/repair.ts, diagnostics.ts; scripts/setup- *)
(* wizard.js).                                                             *)
(***************************************************************************)
THEOREM RepairsDoHelp == ControlsSpec => []RepairsHelp
<1>1. ControlsInv => RepairsHelp
  BY RepairPassed DEF ControlsInv, RepairsHelp, DiagInv, ScriptInv
<1> QED
  BY <1>1, ControlsInitial, ControlsStep, PTL DEF ControlsSpec

(***************************************************************************)
(* A step undoes nothing that another actor did: text outside the block,   *)
(* settings changed in another tab, keys of an earlier setup and a session *)
(* that is closed stay, and what is fetched and signalled is of what is    *)
(* selected or was asked for (repair.ts, SettingsPage.tsx, setup-wizard.js,*)
(* SessionsView.tsx, HealthDashboard.tsx, CommandPalette.tsx).             *)
(***************************************************************************)
THEOREM NothingUndone == ControlsSpec => NothingIsUndone
<1> DEFINE Undoes == /\ page = "repair" => Repairs!OutsideIsKept
                     /\ page = "diagnostics" => Probes!FetchedIsOfSelected
                     /\ page = "sessions" => SessionsPage!ClosedStaysClosed
                     /\ page = "shell" => Frame!SaveUndoesNothing
                     /\ page = "setup" => Script!SettingsAreKept
                     /\ page = "palette" => Palette!AskedIsSignalled
<1>1. ControlsInv /\ [ControlsNext]_<<page, slots>> => [Undoes]_<<page, slots>>
  <2> SUFFICES ASSUME ControlsInv, [ControlsNext]_<<page, slots>>, ~UNCHANGED <<page, slots>> PROVE Undoes
    OBVIOUS
  <2>1. page' = page /\ ~UNCHANGED slots
    BY StepIsOfControl
  <2>2. page = "repair" => Repairs!OutsideIsKept
    BY <2>1, StepIsOfControl, RepairKeepsOutside DEF ControlsInv
  <2>3. page = "diagnostics" => Probes!FetchedIsOfSelected
    BY <2>1, StepIsOfControl, DiagFetches DEF ControlsInv
  <2>4. page = "sessions" => SessionsPage!ClosedStaysClosed
    BY <2>1, StepIsOfControl, SessionsClose DEF ControlsInv
  <2>5. page = "shell" => Frame!SaveUndoesNothing
    BY <2>1, SavesUndoNothing DEF ControlsInv
  <2>6. page = "setup" => Script!SettingsAreKept
    BY <2>1, StepIsOfControl, ScriptKeeps DEF ControlsInv
  <2>7. page = "palette" => Palette!AskedIsSignalled
    BY <2>1, StepIsOfControl, PaletteSignals
  <2> QED
    BY <2>2, <2>3, <2>4, <2>5, <2>6, <2>7
<1> QED
  BY <1>1, ControlsInitial, ControlsStep, PTL DEF ControlsSpec, NothingIsUndone
=============================================================================
