------------------------------- MODULE Launcher --------------------------------
(* The command line bin/iranti-cp.js, the server processes it starts and ends *)
(* (server/index.ts, lib/portSelection.ts), and what a browser tab sees of an *)
(* end that it asked for (control-plane-self.ts, AppShell.tsx).  Nothing but  *)
(* ports connects these processes: a command probes them for servers, and     *)
(* asks the system which processes use them.                                  *)
EXTENDS Naturals, FiniteSets

CONSTANTS AutoPorts,     \* 3000..3010 in the code: the ports that are always probed
          OtherPort,     \* a port beyond them
          NoPort,        \* no --port, or no default port
          Srvs, Cmds, Tabs, \* server processes, at least one for every command, commands and browser tabs
          Nobody,        \* no process
          Commands       \* the commands that are given, of those below

VARIABLES defaultPort,   \* of iranti-cp-config.json
          taken,         \* ports that another program holds
          srv,           \* server |-> [at, port, strict, told]
          cmd,           \* command |-> [at, what, port, left, seen, pids, target, failed, code]
          found,         \* command |-> the servers that answered it
          kept,          \* command |-> the servers it keeps an idle connection to
          child,         \* command |-> the server it started
          launched,      \* commands that started npm uninstall
          tab            \* tab |-> [srv, phase], phase being shutdownPhase

commands == <<cmd, found, kept, child, launched>>
vars == <<defaultPort, taken, srv, commands, tab>>

Ports == AutoPorts \union {OtherPort}
NewServer == [at |-> "none", port |-> NoPort, strict |-> FALSE, told |-> FALSE]
NewCommand == [at |-> "none", what |-> "open", port |-> NoPort, left |-> {}, seen |-> {}, pids |-> {},
               target |-> Nobody, failed |-> FALSE, code |-> 0]
Init == /\ defaultPort = NoPort /\ taken \in SUBSET Ports
        /\ srv = [s \in Srvs |-> NewServer] /\ cmd = [c \in Cmds |-> NewCommand]
        /\ found = [c \in Cmds |-> {}] /\ kept = [c \in Cmds |-> {}]
        /\ child = [c \in Cmds |-> Nobody] /\ launched = {}
        /\ tab = [t \in Tabs |-> [srv |-> Nobody, phase |-> "null"]]
------------------------------------------------------------------------------
(* The server process. *)

Listening(s) == srv[s].at = "listening"
Free(p) == p \notin taken /\ ~\E s \in Srvs : Listening(s) /\ srv[s].port = p
\* Those that are still connected to a server.
Connected(s) == {t \in Tabs : tab[t].srv = s} \union {c \in Cmds : s \in kept[c]}

\* A process ends: its connections break, and a tab that was told of the end
\* (es.onerror) says so and stops; another tab looks for a server again.
Dropped(s) == /\ tab' = [t \in Tabs |-> IF tab[t].srv # s THEN tab[t]
                           ELSE [srv |-> Nobody, phase |-> IF tab[t].phase = "null" THEN "null" ELSE "stopped"]]
              /\ kept' = [c \in Cmds |-> kept[c] \ {s}]
Ended(s) == srv' = [srv EXCEPT ![s].at = "gone"] /\ Dropped(s)

\* buildPortSelectionPlan: a port that is given is the only one that is tried.
\* The config file is not read, neither here nor when the server is spawned.
Plan(s) == IF srv[s].strict THEN {srv[s].port} ELSE AutoPorts
findAvailablePort(s) ==
    /\ srv[s].at = "testing"
    /\ \/ /\ \E p \in Plan(s) : /\ Free(p) /\ \A q \in Plan(s) : Free(q) => p <= q
                                /\ srv' = [srv EXCEPT ![s].at = "migrating", ![s].port = p]
          /\ UNCHANGED <<tab, kept>>
       \/ (\A p \in Plan(s) : ~Free(p)) /\ Ended(s)
    /\ UNCHANGED <<defaultPort, taken, cmd, found, child, launched>>
\* app.listen after the migrations: the port may be gone by then, which the
\* handler of uncaughtException only prints.
Listen(s) == /\ srv[s].at = "migrating"
             /\ srv' = [srv EXCEPT ![s].at = IF Free(srv[s].port) THEN "listening" ELSE "deaf"]
             /\ UNCHANGED <<defaultPort, taken, commands, tab>>
\* A process that listens to nothing ends once nothing holds it.
RunsDry(s) == srv[s].at = "deaf" /\ Ended(s) /\ UNCHANGED <<defaultPort, taken, cmd, found, child, launched>>

\* SIGTERM: shutdown closes what is idle and waits for the rest, up to ten
\* seconds; before app.listen there is no handler, and the signal ends it.
Signalled(s) == IF Listening(s)
                THEN /\ srv' = [srv EXCEPT ![s].at = "closing"]
                     /\ kept' = [c \in Cmds |-> kept[c] \ {s}] /\ UNCHANGED tab
                ELSE IF srv[s].at \in {"closing", "gone"} THEN UNCHANGED <<srv, tab, kept>> ELSE Ended(s)
Closed(s) == /\ srv[s].at = "closing" /\ Ended(s)    \* closed, or forced
             /\ UNCHANGED <<defaultPort, taken, cmd, found, child, launched>>
------------------------------------------------------------------------------
(* A tab: its streams reconnect, and its settings stop the server. *)

Connect(t, s) == /\ tab[t].srv = Nobody /\ tab[t].phase = "null" /\ Listening(s)
                 /\ tab' = [tab EXCEPT ![t].srv = s]
                 /\ UNCHANGED <<defaultPort, taken, srv, commands>>
\* POST /self/stop: broadcastShutdown, and SIGTERM a moment later.
selfStop(t) == LET s == tab[t].srv IN
    /\ s # Nobody /\ Listening(s) /\ ~srv[s].told /\ srv' = [srv EXCEPT ![s].told = TRUE]
    /\ tab' = [u \in Tabs |-> IF tab[u].srv = s THEN [tab[u] EXCEPT !.phase = "shutting-down"] ELSE tab[u]]
    /\ UNCHANGED <<defaultPort, taken, commands>>
scheduleSelfStop(s) == /\ srv[s].told /\ Listening(s) /\ Signalled(s)
                       /\ UNCHANGED <<defaultPort, taken, cmd, found, child, launched>>
\* PATCH /cp-config, and iranti-cp config set and unset, of the same file.
writeConfig(p) == p # defaultPort /\ defaultPort' = p
handleConfig(p) == writeConfig(p) /\ UNCHANGED <<taken, srv, commands, tab>>
------------------------------------------------------------------------------
(* The commands. *)

preferredPorts(p) == (AutoPorts \union {p, defaultPort}) \ {NoPort}
Run(c, what, p) == /\ cmd[c].at = "none"
                   /\ cmd' = [cmd EXCEPT ![c] = [NewCommand EXCEPT !.at = "probing", !.what = what, !.port = p,
                                                                   !.left = preferredPorts(p)]]
                   /\ UNCHANGED <<defaultPort, taken, srv, found, kept, child, launched, tab>>
\* probeControlPlane, which gives a slow server up; the connection is kept.
probeControlPlane(c, p) ==
    /\ cmd[c].at = "probing" /\ p \in cmd[c].left
    /\ \/ \E s \in Srvs : /\ Listening(s) /\ srv[s].port = p
                          /\ cmd' = [cmd EXCEPT ![c].left = @ \ {p}, ![c].seen = @ \union {p}]
                          /\ found' = [found EXCEPT ![c] = @ \union {s}]
                          /\ kept' = [kept EXCEPT ![c] = @ \union {s}]
       \/ cmd' = [cmd EXCEPT ![c].left = @ \ {p}] /\ UNCHANGED <<found, kept>>
    /\ UNCHANGED <<defaultPort, taken, srv, child, launched, tab>>
Idles(c, s) == /\ s \in kept[c] /\ kept' = [kept EXCEPT ![c] = @ \ {s}]
               /\ UNCHANGED <<defaultPort, taken, srv, cmd, found, child, launched, tab>>

Exit(c, code) == cmd' = [cmd EXCEPT ![c] = [@ EXCEPT !.at = "ended", !.code = code]] /\ kept' = [kept EXCEPT ![c] = {}]
Probed(c, what) == cmd[c].at = "probing" /\ cmd[c].left = {} /\ cmd[c].what = what
\* handleOpen opens the page of the first server it found, handleStart names
\* it; status only prints.
FoundOne(c) == /\ \E what \in {"open", "start", "status"} : Probed(c, what) /\ (what = "status" \/ cmd[c].seen # {})
               /\ Exit(c, 0) /\ UNCHANGED <<defaultPort, taken, srv, found, child, launched, tab>>
\* spawnControlPlane: open leaves the server to itself, start waits for it.
spawnControlPlane(c, s) ==
    /\ \/ Probed(c, "open") /\ cmd[c].seen = {} /\ Exit(c, 0)
       \/ Probed(c, "start") /\ cmd[c].seen = {} /\ cmd' = [cmd EXCEPT ![c].at = "waiting"] /\ UNCHANGED kept
    /\ srv[s].at = "none" /\ child' = [child EXCEPT ![c] = s]
    /\ srv' = [srv EXCEPT ![s] = [NewServer EXCEPT !.at = "testing", !.port = cmd[c].port, !.strict = cmd[c].port # NoPort]]
    /\ UNCHANGED <<defaultPort, taken, found, launched, tab>>
ChildEnds(c) == /\ cmd[c].at = "waiting" /\ srv[child[c]].at = "gone" /\ Exit(c, 0)
                /\ UNCHANGED <<defaultPort, taken, srv, found, child, launched, tab>>

\* handleStop, port by port.  lsof -ti tcp:port names every process that has a
\* connection with that port at either end.
Stopping(c) == /\ cmd[c].what \in {"stop", "uninstall"} /\ cmd[c].left = {} /\ cmd[c].pids = {}
               /\ cmd[c].at \in {"probing", "stopping"}
Uses(p) == {s \in Srvs : srv[s].port = p /\ (Listening(s) \/ (srv[s].at = "closing" /\ Connected(s) # {}))}
           \union UNION {Connected(s) : s \in {r \in Srvs : srv[r].port = p}}
findPidsForPort(c, p) ==
    /\ Stopping(c) /\ p \in cmd[c].seen
    /\ cmd' = [cmd EXCEPT ![c].at = "stopping", ![c].seen = @ \ {p}, ![c].pids = Uses(p),
                           ![c].failed = @ \/ Uses(p) = {}]
    /\ UNCHANGED <<defaultPort, taken, srv, found, kept, child, launched, tab>>
\* terminatePid: SIGTERM, two seconds, SIGKILL.  A tab's process is the browser.
Killed(c, x) == /\ cmd' = [cmd EXCEPT ![c].pids = @ \ {x},
                                      ![x] = [@ EXCEPT !.at = "ended", !.code = 143, !.pids = {}, !.seen = {},
                                                       !.target = Nobody]]
                /\ kept' = [kept EXCEPT ![x] = {}] /\ UNCHANGED <<srv, tab>>
terminatePid(c, x) ==
    /\ cmd[c].at = "stopping" /\ x \in cmd[c].pids /\ cmd[c].target = Nobody
    /\ \/ x \in Srvs /\ cmd' = [cmd EXCEPT ![c].target = x] /\ Signalled(x)
       \/ x \in Cmds /\ cmd[x].at # "ended" /\ Killed(c, x)
       \/ x \in Cmds /\ cmd[x].at = "ended" /\ cmd' = [cmd EXCEPT ![c].pids = @ \ {x}] /\ UNCHANGED <<kept, srv, tab>>
       \/ /\ x \in Tabs /\ cmd' = [cmd EXCEPT ![c].pids = @ \ {x}]
          /\ tab' = [tab EXCEPT ![x] = [srv |-> Nobody, phase |-> "closed"]] /\ UNCHANGED <<kept, srv>>
    /\ UNCHANGED <<defaultPort, taken, found, child, launched>>
Terminated(c) == LET s == cmd[c].target IN
    /\ s # Nobody /\ cmd' = [cmd EXCEPT ![c].pids = @ \ {s}, ![c].target = Nobody]
    /\ IF srv[s].at = "gone" THEN UNCHANGED <<srv, tab, kept>> ELSE Ended(s)
    /\ UNCHANGED <<defaultPort, taken, found, child, launched>>
\* The end of handleStop; handleUninstall goes on whatever its code is.
Stopped(c) == /\ Stopping(c) /\ cmd[c].seen = {}
              /\ launched' = IF cmd[c].what = "uninstall" THEN launched \union {c} ELSE launched
              /\ Exit(c, IF cmd[c].what = "stop" /\ cmd[c].failed THEN 1 ELSE 0)
              /\ UNCHANGED <<defaultPort, taken, srv, found, child, tab>>
------------------------------------------------------------------------------
ServerStep(s) == findAvailablePort(s) \/ Listen(s) \/ RunsDry(s) \/ Closed(s) \/ scheduleSelfStop(s)
CommandStep(c) == \/ \E p \in Ports : probeControlPlane(c, p) \/ findPidsForPort(c, p)
                  \/ \E s \in Srvs : spawnControlPlane(c, s)
                  \/ \E x \in Srvs \union Cmds \union Tabs : terminatePid(c, x)
                  \/ FoundOne(c) \/ ChildEnds(c) \/ Terminated(c) \/ Stopped(c)
Next == \/ \E s \in Srvs : ServerStep(s)
        \/ \E t \in Tabs : selfStop(t) \/ \E s \in Srvs : Connect(t, s)
        \/ \E c \in Cmds : CommandStep(c) \/ \E s \in Srvs : Idles(c, s)
        \/ \E c \in Cmds, what \in Commands, p \in Ports \union {NoPort} : Run(c, what, p)
        \/ \E p \in Ports \union {NoPort} : handleConfig(p)

\* The system runs every process.
Fairness == /\ \A s \in Srvs : WF_vars(ServerStep(s))
            /\ \A c \in Cmds : WF_vars(CommandStep(c))
Spec == Init /\ [][Next]_vars /\ Fairness
------------------------------------------------------------------------------
(* Properties. *)

\* A stop that reports success leaves none of the servers that answered it
\* listening: each is gone, or another stop has it and it is closing.
StopLeavesNone == \A c \in Cmds : cmd[c].what = "stop" /\ cmd[c].at = "ended" /\ cmd[c].code = 0 =>
                                  \A s \in found[c] : srv[s].at \in {"closing", "gone"}

\* A tab that was told of the end says that the server has stopped only once
\* the server has.
ToldIsTrue == \A t \in Tabs : tab[t].phase = "stopped" => \E s \in Srvs : srv[s].told /\ srv[s].at = "gone"

\* An uninstall that found servers goes on to remove the package "even though
\* one or more Control Plane processes could not be stopped" (iranti-cp.js).
\* It is among the processes that lsof names.
UninstallContinues == \A c \in Cmds : cmd[c].what = "uninstall" /\ cmd[c].at = "ended" => c \in launched

\* What comes to an end: every command but a start that waits for its server,
\* and the page of a tab that was told to shut down.
Waits == (IF \E c \in Cmds : cmd[c].at \notin {"none", "waiting", "ended"} THEN {1} ELSE {})
         \union (IF \E t \in Tabs : tab[t].phase = "shutting-down" THEN {2} ELSE {})
================================================================================
