------------------------------ MODULE Discovery -------------------------------
(* Instance discovery, discoverAndAggregate of routes/control-plane/          *)
(* instances.ts: every runtime root is asked for its status by the command    *)
(* line tool, a root that does not answer is read from its directories, the   *)
(* environment files are read after that, and of the instances of one name    *)
(* the best one is listed.  Instances start, stop and are edited meanwhile.   *)
EXTENDS Naturals, Sequences, SequencesExt, FiniteSets

CONSTANTS Dirs,         \* instance directories, in the order they are found
          RootOf,       \* directory |-> the number of its root
          Names,        \* instance names
          MaxEdits      \* starts, stops and edits, a bound

VARIABLES env,          \* directory |-> its file: [name, complete]
          runtime,      \* directory |-> its classification by the tool
          edits,        \* changes so far
          asked,        \* root |-> "asked", its answer (a function), or "failed"
          found,        \* directory |-> the instance it was aggregated to, or NotYet
          list          \* the answer, or None

vars == <<env, runtime, edits, asked, found, list>>

Roots == {RootOf[Dirs[i]] : i \in DOMAIN Dirs}
DirSet == ToSet(Dirs)
In(r) == {d \in DirSet : RootOf[d] = r}
NotYet == [name |-> "?"]
None == {NotYet}
Ranked == <<"running", "unhealthy", "stale", "stopped", "missing", "invalid", "unknown">>
Setups == <<"running", "configured", "incomplete">>

Init == /\ env \in [DirSet -> [name : Names, complete : BOOLEAN]]
        /\ runtime \in [DirSet -> {"running", "stopped"}] /\ edits = 0
        /\ asked = [r \in Roots |-> [at |-> "asked"]]
        /\ found = [d \in DirSet |-> NotYet] /\ list = None
------------------------------------------------------------------------------
\* The instances are started and stopped, fall ill, and their files are edited.
Change(d) == /\ edits < MaxEdits /\ edits' = edits + 1
             /\ \/ /\ runtime' \in {[runtime EXCEPT ![d] = c] : c \in {"running", "unhealthy", "stopped"} \ {runtime[d]}}
                   /\ UNCHANGED env
                \/ /\ env' \in {[env EXCEPT ![d] = e] : e \in [name : Names, complete : BOOLEAN] \ {env[d]}}
                   /\ UNCHANGED runtime
             /\ UNCHANGED <<asked, found, list>>

\* `iranti status --root r --json` answers for every directory, or fails.
Status(r) == /\ asked[r].at = "asked"
             /\ asked' \in {[asked EXCEPT ![r] = a] : a \in {[at |-> "failed"], [at |-> "answered", of |-> runtime]}}
             /\ UNCHANGED <<env, runtime, edits, found, list>>

deriveSetupState(complete, class) ==
    IF class \in {"running", "unhealthy"} THEN "running" ELSE IF complete THEN "configured" ELSE "incomplete"
aggregateInstance(d, class) ==
    [dir |-> d, name |-> env[d].name, setup |-> deriveSetupState(env[d].complete, class), runtime |-> class]
aggregateFilesystemInstance(d) ==
    [dir |-> d, name |-> env[d].name, setup |-> deriveSetupState(env[d].complete, "unknown"), runtime |-> "unknown"]

\* Once every root has answered or failed the files are read, one by one.
Aggregate(d) ==
    /\ \A r \in Roots : asked[r].at # "asked"
    /\ found[d] = NotYet
    /\ found' = [found EXCEPT ![d] = IF asked[RootOf[d]].at = "failed" THEN aggregateFilesystemInstance(d)
                                     ELSE aggregateInstance(d, asked[RootOf[d]].of[d])]
    /\ UNCHANGED <<env, runtime, edits, asked, list>>

Rank(order, v) == CHOOSE i \in DOMAIN order : order[i] = v
Better(x, y) == LET sx == Rank(Setups, x.setup)   sy == Rank(Setups, y.setup) IN
    sx < sy \/ (sx = sy /\ Rank(Ranked, x.runtime) < Rank(Ranked, y.runtime))
Keep(byName, x) == LET same == {y \in byName : y.name = x.name} IN
    IF \E y \in same : ~Better(x, y) THEN byName ELSE (byName \ same) \cup {x}
byNameOf(instances) == FoldLeft(LAMBDA kept, x : Keep(kept, x), {}, instances)

discoverAndAggregate == /\ list = None /\ \A d \in DirSet : found[d] # NotYet
                        /\ list' = byNameOf([i \in DOMAIN Dirs |-> found[Dirs[i]]])
                        /\ UNCHANGED <<env, runtime, edits, asked, found>>

Next == (\E d \in DirSet : Change(d) \/ Aggregate(d)) \/ (\E r \in Roots : Status(r)) \/ discoverAndAggregate
Spec == Init /\ [][Next]_vars
------------------------------------------------------------------------------
(* Properties. *)

\* Of the instances of one name the list has one, and none that was found is
\* better than it: a stopped copy in another root does not hide a running one.
BestIsListed == list # None =>
    /\ \A x, y \in list : x.name = y.name => x = y
    /\ \A d \in DirSet : \E x \in list : x.name = found[d].name /\ ~Better(found[d], x)
    /\ list \subseteq {found[d] : d \in DirSet}

\* A root the tool did not answer for takes nothing from the others, and lists
\* its own directories: an instance that did not change is found as it is.
WhatRunsIsFound == edits = 0 /\ list # None =>
    \A d \in DirSet : runtime[d] = "running" /\ asked[RootOf[d]].at = "answered"
                      => \E x \in list : x.name = env[d].name /\ x.setup = "running"
================================================================================
