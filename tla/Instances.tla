----------------------------- MODULE Instances ------------------------------
(***************************************************************************)
(* Instances and their projects: the handlers on bindings (routes/control- *)
(* plane/project-bindings), interleaved with those of InstanceFiles on one *)
(* disk.  The former are synchronous: each is one step.  They know the     *)
(* primary root only, and none compares the instance in its path with the  *)
(* one the project's binding names.  A request that is refused changes     *)
(* nothing and has no action.                                              *)
(***************************************************************************)
EXTENDS InstanceFiles, Integers

\* Mutant of Registered: the registry is replaced, not extended.
RegisteredAlone(d, n, p, mode) ==
  [d EXCEPT !["primary"][n].known = [NoneKnown EXCEPT ![p] = mode]]

\* writeRegistry after an entry was replaced, added (mode) or dropped (NoFile).
Registered(d, n, p, mode) ==
  [d EXCEPT !["primary"][n].known[p] = mode]

BindingTo(n, mode) ==
  [instance |-> n, root |-> "primary",
   content |-> dir["primary"][n].env.content, mode |-> mode]

\* POST: write the binding, then register it; a registry that cannot be
\* written does not fail the request.
Bind(n, p, mode) ==
  /\ Serve(TRUE)
  /\ Usable("primary", n)
  /\ binding' = [binding EXCEPT ![p] = BindingTo(n, mode)]
  /\ \/ dir' = Registered(dir, n, p, mode) /\ UNCHANGED failures
     \/ Failure /\ UNCHANGED dir
  /\ UNCHANGED <<database, running, job, doomed>>

\* PATCH with a target: what is written for the project.
Rebound(p, target, mode) ==
  BindingTo(target, IF mode = NoFile THEN binding[p].mode ELSE mode)

\* The mode that is registered for a project that moves from n to target.
MovedMode(n, mode) ==
  [p \in Projects |->
     IF mode # NoFile THEN mode
     ELSE IF dir["primary"][n].known[p] # NoFile THEN dir["primary"][n].known[p]
     ELSE "isolated"]

\* Mutant of Moved: the project is only taken off the list of the old instance.
MovedAway(n, p, target, mode) == Registered(dir, n, p, NoFile)

Moved(n, p, target, mode) ==
  Registered(Registered(dir, n, p, NoFile), target, p, MovedMode(n, mode)[p])

\* PATCH that switches the instance, and maybe the mode.  A request that
\* changes nothing ends before the registries.
Rebind(n, p, target, mode) ==
  /\ HasEnv("primary", n) /\ binding[p] # NoFile /\ Usable("primary", target)
  /\ Serve(target = n => LeadsTo(p, "primary", n))
  /\ Rebound(p, target, mode) # binding[p]
  /\ binding' = [binding EXCEPT ![p] = Rebound(p, target, mode)]
  /\ \/ /\ dir' = IF target # n THEN Moved(n, p, target, mode)
                  ELSE IF mode # NoFile /\ dir["primary"][n].known[p] # NoFile
                  THEN Registered(dir, n, p, mode) ELSE dir
        /\ UNCHANGED failures
     \/ /\ Failure
        /\ dir' \in {dir, IF target # n THEN Registered(dir, n, p, NoFile) ELSE dir}
  /\ UNCHANGED <<database, running, job, doomed>>

\* PATCH that changes the mode only.
SetMode(n, p, mode) ==
  /\ Serve(TRUE)
  /\ HasEnv("primary", n) /\ binding[p] # NoFile /\ binding[p].mode # mode
  /\ binding' = [binding EXCEPT ![p].mode = mode]
  /\ \/ /\ dir' = IF dir["primary"][n].known[p] # NoFile
                  THEN Registered(dir, n, p, mode) ELSE dir
        /\ UNCHANGED failures
     \/ Failure /\ UNCHANGED dir
  /\ UNCHANGED <<database, running, job, doomed>>

\* DELETE: off the list first, then the file; a file that cannot be removed
\* leaves a binding that is not listed.
Unbind(n, p) ==
  /\ Serve(TRUE)
  /\ HasEnv("primary", n) /\ binding[p] # NoFile
  /\ dir' = Registered(dir, n, p, NoFile)
  /\ \/ binding' = [binding EXCEPT ![p] = NoFile] /\ UNCHANGED failures
     \/ Failure /\ UNCHANGED binding
  /\ UNCHANGED <<database, running, job, doomed>>

\* The list a GET answers with: the registered projects that have a binding,
\* and the control plane's own.
Live(n) ==
  [p \in Projects |->
     IF binding[p] = NoFile THEN NoFile
     ELSE IF dir["primary"][n].known[p] # NoFile THEN dir["primary"][n].known[p]
     ELSE IF p = Cwd /\ binding[p].instance = n THEN binding[p].mode
     ELSE NoFile]

Count(registry) == Cardinality({p \in Projects : registry[p] # NoFile})

\* GET: the list is saved when its length is not that of the registry.
List(n) ==
  /\ Serve(TRUE)
  /\ HasEnv("primary", n)
  /\ dir' = IF Count(Live(n)) # Count(dir["primary"][n].known)
            THEN [dir EXCEPT !["primary"][n].known = Live(n)] ELSE dir
  /\ UNCHANGED <<binding, database, running, job, doomed, failures>>

\* External: another program or a crash leaves `projects.json` unreadable,
\* which readRegistry takes for empty.
RegistryLost(n) ==
  /\ Exists("primary", n)
  /\ Failure
  /\ dir' = [dir EXCEPT !["primary"][n].known = NoneKnown]
  /\ UNCHANGED <<binding, database, running, job, served, careful, doomed>>

BindingStep ==
  \/ \E n \in Names, p \in Projects :
       \/ \E mode \in Modes : Bind(n, p, mode) \/ SetMode(n, p, mode)
       \/ \E target \in Names, mode \in Modes \cup {NoFile} : Rebind(n, p, target, mode)
       \/ Unbind(n, p)
  \/ \E n \in Names : List(n) \/ RegistryLost(n)

-----------------------------------------------------------------------------
DiskNext ==
  \/ \E r \in Slots : Arrive(r) \/ FileStep(r)
  \/ BindingStep
  \/ \E n \in Names : Starts(n) \/ Stops(n)
  \/ Restart

DiskSpec == DiskInit /\ [][DiskNext]_diskVars

-----------------------------------------------------------------------------
Places == {"cli", "pepper", "pepperWrite", "provision", "check", "stuck", "bindings",
           "move", "unlink", "env", "envWrite", "meta", "bindingWrite"}

Jobs == [op : {"create", "configure", "delete", "migrate"}, at : Places,
         root : Roots, name : Names, todo : SUBSET Projects, drop : BOOLEAN,
         removal : BOOLEAN, copy : Envs, project : Projects, read : Bindings \cup {NoFile}]

(* A slot without a request is told from every request.                     *)
ASSUME InstancesAssumption == NoJob \notin Jobs

DiskTypeOK ==
  /\ dir \in [Roots -> [Names -> Dirs \cup {NoFile}]]
  /\ binding \in [Projects -> Bindings \cup {NoFile}]
  /\ database \subseteq Names /\ running \subseteq Names
  /\ job \in [Slots -> Jobs \cup {NoJob}]
  /\ served \in 0..MaxRequests /\ careful \in BOOLEAN /\ doomed \subseteq Names
  /\ failures \in 0..MaxFailures

Sound == careful /\ failures = 0

(* A project whose binding leads to an instance that is there is registered  *)
(* with that instance, so that deleting or migrating it finds the project:   *)
(* as long as requests come one at a time and nothing fails, through any     *)
(* sequence of binds, rebinds through the wrong instance, lists and moves.   *)
BoundIsRegistered ==
  Sound /\ ~Busy =>
    \A p \in Projects :
      binding[p] # NoFile =>
        LET d == dir[binding[p].root][binding[p].instance]
        IN d # NoFile => d.known[p] # NoFile

(* An instance leaves the disk only if a delete of it was accepted: neither  *)
(* a migration nor a crash in the middle of one loses it, whatever overlaps. *)
OnlyDeleteRemoves ==
  [][\A n \in Names :
       (\E x \in Roots : HasEnv(x, n)) /\ ~(\E x \in Roots : HasEnv(x, n)')
         => n \in doomed]_diskVars

(* A delete or a migration that ends well leaves no binding that leads to    *)
(* the directory that has gone.                                              *)
NoBindingLeftBehind ==
  [][\A r \in Slots :
       /\ job[r] # NoJob /\ job'[r] = NoJob /\ job[r].at = "bindings" /\ Sound /\ Sound'
       => \A p \in Projects : ~LeadsTo(p, root(r), name(r))]_diskVars

(* The edits made to an `.env` are never undone: the handlers that read it,  *)
(* change it and write it back (pepper, migration) keep what they found, as  *)
(* long as nothing else edits it meanwhile.                                  *)
EditsAreKept ==
  [][Sound' => \A x \in Roots, n \in Names :
       HasEnv(x, n) /\ HasEnv(x, n)'
         => dir'[x][n].env.content - dir[x][n].env.content \in {0, 1}
            /\ dir'[x][n].env.content # Blank]_diskVars
=============================================================================
