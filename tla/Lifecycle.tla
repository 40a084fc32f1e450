------------------------------ MODULE Lifecycle ------------------------------
(***************************************************************************)
(* Starting, stopping and restarting the process of one Iranti instance    *)
(* (routes/control-plane/lifecycle).  managedProcesses remembers the child *)
(* of the last confirmed start; `iranti status` reports the pid that the   *)
(* instance itself wrote down.  Every await of a handler ends a step, so   *)
(* the requests interleave with each other and with the processes.         *)
(*                                                                         *)
(* The processes are not code of this repository: one of them at a time    *)
(* has the instance's port, a process that finds it taken exits, and Node  *)
(* sets exitCode when a child exits but not when a signal ends it.         *)
(***************************************************************************)
EXTENDS Naturals, FiniteSets

CONSTANTS Procs,             \* processes of the instance, by pid
          NoProc,
          StartCalls, StopCalls, RestartCalls,  \* the requests, by route
          MaxEnds            \* bound: processes ended by something else

Requests == StartCalls \cup StopCalls \cup RestartCalls

ASSUME LifecycleAssumption ==
  /\ NoProc \notin Procs
  /\ StartCalls \cap StopCalls = {} /\ StopCalls \cap RestartCalls = {}
  /\ StartCalls \cap RestartCalls = {}
  /\ MaxEnds \in Nat

VARIABLES windows,   \* process.platform = "win32"
          status,    \* status[p]: "unborn", "booting", "up", "exited" (with an
                     \* exit code), "signalled" (ended by a signal)
          killed,    \* the processes whose child.kill succeeded
          signals,   \* the processes a termination signal is on its way to
          runtime,   \* the pid in the instance's runtime metadata
          tracked,   \* managedProcesses.get(name)
          pc,        \* pc[r]: where request r is
          child,     \* child[r]: what start r spawned
          entry,     \* entry[r]: the map entry stop r read
          found,     \* found[r]: the pids stop r set out to terminate
          ends       \* processes ended by something else, up to MaxEnds

procVars == <<windows, status, killed, signals, runtime, ends>>
vars == <<windows, status, killed, signals, runtime, tracked, pc, child, entry, found, ends>>

Live == {p \in Procs : status[p] \in {"booting", "up"}}
Up == {p \in Procs : status[p] = "up"}
Answers == {"conflict", "started", "notTracked", "stopped", "restarted", "failed"}

\* Mutant of isAlive: the process had been started, so it is alive.
isAliveOnceStarted(p) == ~(p \in killed)

isAlive(p) == status[p] # "exited" /\ p \notin killed

Init ==
  /\ windows \in BOOLEAN
  /\ status = [p \in Procs |-> "unborn"]
  /\ killed = {} /\ signals = {}
  /\ runtime = NoProc
  /\ tracked = NoProc
  /\ pc = [r \in Requests |-> "idle"]
  /\ child = [r \in StartCalls |-> NoProc]
  /\ entry = [r \in StopCalls |-> NoProc]
  /\ found = [r \in StopCalls |-> {}]
  /\ ends = 0

-----------------------------------------------------------------------------
(* The processes (external). *)

\* How a terminated process ends: with an exit code, or by the signal, which
\* Windows does not have.
Endings == IF windows THEN {"exited"} ELSE {"exited", "signalled"}

Boot(p) ==
  /\ status[p] = "booting"
  /\ \/ /\ Up = {}
        /\ status' = [status EXCEPT ![p] = "up"]
        /\ runtime' = p
     \/ /\ status' = [status EXCEPT ![p] = "exited"]
        /\ UNCHANGED runtime
  /\ UNCHANGED <<windows, killed, signals, tracked, pc, child, entry, found, ends>>

\* The signal of a stop arrives.
Terminated(p) ==
  /\ p \in signals
  /\ signals' = signals \ {p}
  /\ p \in Live
  /\ \E how \in Endings : status' = [status EXCEPT ![p] = how]
  /\ UNCHANGED <<windows, killed, runtime, tracked, pc, child, entry, found, ends>>

\* A crash, the operating system or the operator ends the process.
Ended(p) ==
  /\ ends < MaxEnds
  /\ p \in Live
  /\ \E how \in Endings : status' = [status EXCEPT ![p] = how]
  /\ signals' = signals \ {p}
  /\ ends' = ends + 1
  /\ UNCHANGED <<windows, killed, runtime, tracked, pc, child, entry, found>>

\* `iranti instance restart`: the running process ends and another one boots.
\* A command that fails may have ended the old one first.
InstanceRestart(q) ==
  /\ status[q] = "unborn"
  /\ \E how \in Endings :
       status' = [p \in Procs |-> IF p = q THEN "booting"
                                  ELSE IF p \in Up THEN how ELSE status[p]]
  /\ signals' = signals \ Up
  /\ UNCHANGED <<windows, killed, runtime>>

\* The operator runs that command in a terminal.
OperatorRestart ==
  /\ ends < MaxEnds
  /\ \E q \in Procs : InstanceRestart(q)
  /\ ends' = ends + 1
  /\ UNCHANGED <<tracked, pc, child, entry, found>>

InstanceRestartFails ==
  /\ \E ended \in {{}, Up}, how \in Endings :
       /\ status' = [p \in Procs |-> IF p \in ended THEN how ELSE status[p]]
       /\ signals' = signals \ ended
  /\ UNCHANGED <<windows, killed, runtime>>

-----------------------------------------------------------------------------
(* POST /:name/start *)

Goto(r, where) == pc' = [pc EXCEPT ![r] = where]

StartRequest(r) ==
  /\ pc[r] = "idle"
  /\ IF tracked # NoProc /\ isAlive(tracked)
     THEN /\ Goto(r, "conflict")
          /\ UNCHANGED tracked
     ELSE /\ Goto(r, "probing")
          /\ tracked' = NoProc
  /\ UNCHANGED <<procVars, child, entry, found>>

\* The port answers; or it does not, as also when an answer takes too long;
\* or the instance's .env could not be read.
Probe(r) ==
  /\ pc[r] = "probing"
  /\ \/ Up # {} /\ Goto(r, "conflict")
     \/ Goto(r, "spawning")
     \/ Goto(r, "failed")
  /\ UNCHANGED <<procVars, tracked, child, entry, found>>

\* Mutant of Spawn: the child is tracked at once.
SpawnTracked(r) ==
  /\ pc[r] = "spawning"
  /\ \E p \in Procs :
       /\ status[p] = "unborn"
       /\ status' = [status EXCEPT ![p] = "booting"]
       /\ child' = [child EXCEPT ![r] = p]
       /\ tracked' = p
       /\ Goto(r, "confirming")
  /\ UNCHANGED <<windows, killed, signals, runtime, entry, found, ends>>

Spawn(r) ==
  /\ pc[r] = "spawning"
  /\ \/ \E p \in Procs :
          /\ status[p] = "unborn"
          /\ status' = [status EXCEPT ![p] = "booting"]
          /\ child' = [child EXCEPT ![r] = p]
          /\ Goto(r, "confirming")
     \/ /\ Goto(r, "failed")
        /\ UNCHANGED <<status, child>>
  /\ UNCHANGED <<windows, killed, signals, runtime, ends, tracked, entry, found>>

\* One round of the confirmation loop that ends it.
waitForConfirmedStart(r) ==
  /\ pc[r] = "confirming"
  /\ \/ status[child[r]] = "exited" /\ Goto(r, "failed")
     \/ /\ child[r] \in Up /\ runtime = child[r]
        /\ Goto(r, "confirmed")
  /\ UNCHANGED <<procVars, tracked, child, entry, found>>

\* The deadline passes, or `iranti status` cannot be run.  If the last status
\* called the metadata invalid, the instance is restarted.
ConfirmationFails(r) ==
  /\ pc[r] = "confirming"
  /\ \/ Goto(r, "failed")
     \/ runtime # child[r] /\ Goto(r, "recovering")
  /\ UNCHANGED <<procVars, tracked, child, entry, found>>

Track(r) ==
  /\ pc[r] = "confirmed"
  /\ tracked' = child[r]
  /\ Goto(r, "started")
  /\ UNCHANGED <<procVars, child, entry, found>>

recoverInvalidRuntime(r) ==
  /\ pc[r] = "recovering"
  /\ \/ \E q \in Procs : InstanceRestart(q) /\ Goto(r, "waiting")
     \/ InstanceRestartFails /\ Goto(r, "failed")
  /\ UNCHANGED <<ends, tracked, child, entry, found>>

waitForRuntimeReady(r) ==
  /\ pc[r] = "waiting"
  /\ \/ /\ Up # {}
        /\ tracked' = NoProc
        /\ Goto(r, "started")
     \/ /\ Goto(r, "failed")
        /\ UNCHANGED tracked
  /\ UNCHANGED <<procVars, child, entry, found>>

-----------------------------------------------------------------------------
(* POST /:name/stop *)

StopRequest(r) ==
  /\ pc[r] = "idle"
  /\ entry' = [entry EXCEPT ![r] = tracked]
  /\ Goto(r, "reading")
  /\ UNCHANGED <<procVars, tracked, child, found>>

\* Mutant of ReadStatus: the pids are not filtered.
ReadStatusUnfiltered(r) ==
  /\ pc[r] = "reading"
  /\ \E pid \in {runtime, NoProc} :
       /\ found' = [found EXCEPT ![r] = {pid, entry[r]}]
       /\ Goto(r, "terminating")
  /\ UNCHANGED <<procVars, tracked, child, entry>>

\* The status names the runtime's pid, or could not be read.
ReadStatus(r) ==
  /\ pc[r] = "reading"
  /\ \E pid \in {runtime, NoProc} :
       LET candidatePids == {pid, entry[r]} \ {NoProc}
       IN  /\ found' = [found EXCEPT ![r] = candidatePids]
           /\ Goto(r, IF candidatePids = {} THEN "notTracked" ELSE "terminating")
  /\ UNCHANGED <<procVars, tracked, child, entry>>

\* Mutant of Reached: the runtime's own pid is not looked at.
ReachedTracked(r) == IF entry[r] # NoProc THEN {entry[r]} ELSE found[r]

\* The processes a signal is sent to.  On Windows taskkill fails for a tracked
\* process that is gone, and the runtime's is then not tried.
Reached(r) ==
  IF windows /\ entry[r] # NoProc /\ entry[r] \notin Live
  THEN {} ELSE found[r]

\* On POSIX child.kill marks the child and the entry is removed at once; on
\* Windows the handler waits for taskkill, which does not mark it.
Terminate(r) ==
  /\ pc[r] = "terminating"
  /\ signals' = signals \cup (Reached(r) \cap Live)
  /\ \/ /\ windows
        /\ Goto(r, "forgetting")
        /\ UNCHANGED <<killed, tracked>>
     \/ /\ ~windows
        /\ killed' = killed \cup ({entry[r]} \cap Reached(r) \cap Live)
        /\ tracked' = NoProc
        /\ Goto(r, "stopped")
  /\ UNCHANGED <<windows, status, runtime, ends, child, entry, found>>

(* POST /:name/restart *)

Restart(r) ==
  /\ pc[r] = "idle"
  /\ \/ (\E q \in Procs : InstanceRestart(q)) /\ Goto(r, "forgetting")
     \/ InstanceRestartFails /\ Goto(r, "failed")
  /\ UNCHANGED <<ends, tracked, child, entry, found>>

\* The command a stop or a restart waited for has ended.
Forget(r) ==
  /\ pc[r] = "forgetting"
  /\ tracked' = NoProc
  /\ Goto(r, IF r \in StopCalls THEN "stopped" ELSE "restarted")
  /\ UNCHANGED <<procVars, child, entry, found>>

(* The control plane exits and is started again: the map and the requests are *)
(* gone, the instance's processes are not.                                    *)
ControlPlaneRestart ==
  /\ tracked' = NoProc
  /\ pc' = [r \in Requests |->
              IF pc[r] \in Answers \cup {"idle"} THEN pc[r] ELSE "failed"]
  /\ UNCHANGED <<procVars, child, entry, found>>

-----------------------------------------------------------------------------
StartStep(r) ==
  \/ StartRequest(r) \/ Probe(r) \/ Spawn(r)
  \/ waitForConfirmedStart(r) \/ ConfirmationFails(r) \/ Track(r)
  \/ recoverInvalidRuntime(r) \/ waitForRuntimeReady(r)

Next ==
  \/ \E p \in Procs : Boot(p) \/ Terminated(p) \/ Ended(p)
  \/ OperatorRestart
  \/ \E r \in StartCalls : StartStep(r)
  \/ \E r \in StopCalls : StopRequest(r) \/ ReadStatus(r) \/ Terminate(r)
  \/ \E r \in RestartCalls : Restart(r)
  \/ \E r \in StopCalls \cup RestartCalls : Forget(r)
  \/ ControlPlaneRestart

Spec == Init /\ [][Next]_vars

(* The steps of a start all have a time limit of their own: the probe, the   *)
(* status and restart commands and the two waiting loops.  Nothing is asked  *)
(* of the processes.                                                         *)
FairSpec ==
  /\ Spec
  /\ \A r \in StartCalls : WF_vars(pc[r] # "idle" /\ StartStep(r))

-----------------------------------------------------------------------------
TypeOK ==
  /\ windows \in BOOLEAN
  /\ status \in [Procs -> {"unborn", "booting", "up", "exited", "signalled"}]
  /\ killed \subseteq Procs
  /\ signals \subseteq Live
  /\ runtime \in Procs \cup {NoProc}
  /\ tracked \in Procs \cup {NoProc}
  /\ pc \in [Requests -> Answers \cup {"idle", "probing", "spawning",
                "confirming", "confirmed", "recovering", "waiting",
                "reading", "terminating", "forgetting"}]
  /\ child \in [StartCalls -> Procs \cup {NoProc}]
  /\ entry \in [StopCalls -> Procs \cup {NoProc}]
  /\ found \in [StopCalls -> SUBSET Procs]
  /\ ends \in 0..MaxEnds

(* The map never holds a process that was only spawned: a tracked process    *)
(* has had the port and has written its pid into the runtime metadata.       *)
TrackedWasConfirmed ==
  tracked # NoProc => status[tracked] \notin {"unborn", "booting"}

(* A stop that answers "stopped" has dealt with both the process of the map  *)
(* and the one of the runtime metadata, when they differ: each has ended or  *)
(* will when its signal arrives.  The exception is the runtime's process on  *)
(* Windows, when taskkill finds that the one of the map has gone.            *)
StopSignalsAll ==
  \A r \in StopCalls : pc[r] = "stopped" =>
    \A p \in found[r] \cap Live :
      p \in signals \/ (windows /\ entry[r] \notin Live \cup {NoProc})

(* A start is refused as already running only if a process of the instance   *)
(* runs: an entry whose process has exited is stale and gives way.  The      *)
(* exception is an entry whose process a signal has ended.                   *)
ConflictMeansRunning ==
  [][\A r \in StartCalls : pc[r] # "conflict" /\ pc'[r] = "conflict" =>
       Live # {} \/ (tracked # NoProc /\ status[tracked] = "signalled")]_vars

(* What comes to an end: the starts that are not answered yet, even when the *)
(* process neither comes up nor exits and the metadata never names it.       *)
Waits == {r \in StartCalls : pc[r] \notin Answers \cup {"idle"}}
=============================================================================
