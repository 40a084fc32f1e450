--------------------------- MODULE InstanceFiles ----------------------------
(***************************************************************************)
(* What the control plane keeps on disk about instances and projects, and  *)
(* how it finds an instance again (lib/instance-authority, lib/runtime-    *)
(* roots).  An instance is a directory below one of two runtime roots with *)
(* an `.env`, a registry of bound projects (`projects.json`) and metadata. *)
(* A project is bound by its `.env.iranti`, a copy of what it needs from   *)
(* the instance's `.env`.  The handlers are below, those on bindings in    *)
(* Instances.                                                              *)
(*                                                                         *)
(* The content of an `.env` is the number of edits made to it; the pepper  *)
(* is apart because it is appended by the control plane.  Agent ids,       *)
(* memory entities, time stamps, `.gitignore` and the validation of what a *)
(* form may contain are left out.                                          *)
(***************************************************************************)
EXTENDS Naturals, FiniteSets

CONSTANTS Names,        \* instance names
          Projects,     \* project directories
          Cwd,          \* the one the control plane was started in
          Slots,        \* slots of requests that are handled in several steps
          NoFile, NoJob,
          MaxRequests,  \* bound: requests of any kind
          MaxEdits,     \* bound: edits of one `.env`
          MaxFailures   \* bound: failures, of a file, the CLI, a database; restarts

Roots == {"primary", "legacy"}  \* in the order of runtimeRootCandidates
Modes == {"isolated", "shared"}
Blank == MaxEdits + 1           \* an `.env` that holds a pepper and nothing else

VARIABLES dir,       \* dir[root][n]: the directory of instance n in that root
          binding,   \* binding[p]: `.env.iranti` of project p
          database,  \* the instances whose database exists
          running,   \* the instances that run
          job,       \* job[r]: the locals of a request under way
          served,    \* requests so far, up to MaxRequests
          careful,   \* requests came one at a time, no delete kept bindings, no
                     \* project was rebound to n by a PATCH on n when bound elsewhere
          doomed,    \* the instances a delete was accepted for
          failures     \* failures so far, up to MaxFailures

diskVars == <<dir, binding, database, running, job, served, careful, doomed, failures>>

Envs == [content : 0..Blank, pepper : BOOLEAN]
ProjectLists == [Projects -> Modes \cup {NoFile}]
Dirs == [env : Envs \cup {NoFile}, known : ProjectLists]
Bindings == [instance : Names, root : Roots, content : 0..MaxEdits, mode : Modes]

(* Nothing that is kept is mistaken for what is absent.                    *)
ASSUME StoreAssumption ==
  /\ Cwd \in Projects
  /\ MaxRequests \in Nat /\ MaxEdits \in Nat /\ MaxFailures \in Nat
  /\ NoFile \notin Modes \cup Envs \cup Dirs \cup Bindings

NoneKnown == [p \in Projects |-> NoFile]

Exists(root, n) == dir[root][n] # NoFile
HasEnv(root, n) == Exists(root, n) /\ dir[root][n].env # NoFile

\* Mutant of Usable: a `.env` without a port will do.
UsableIfThere(root, n) == HasEnv(root, n)

Usable(root, n) == HasEnv(root, n) /\ dir[root][n].env.content # Blank

\* The project's binding leads to that directory.
LeadsTo(p, root, n) ==
  binding[p] # NoFile /\ binding[p].root = root /\ binding[p].instance = n

Failure == failures < MaxFailures /\ failures' = failures + 1

Busy == \E r \in Slots : job[r] # NoJob

\* A request is taken up; `proper` says whether a careful client would send it.
Serve(proper) ==
  /\ served < MaxRequests
  /\ served' = served + 1
  /\ careful' = (careful /\ ~Busy /\ proper)

\* The first root whose instances include n; {} if none does.
findInstanceDir(n) ==
  IF Exists("primary", n) THEN {"primary"}
  ELSE IF Exists("legacy", n) THEN {"legacy"} ELSE {}

\* The projects an instance is bound to: those it has registered that still
\* have a binding, and the control plane's own if its binding names it.
resolveBoundProjects(root, n) ==
  {p \in Projects :
     /\ binding[p] # NoFile
     /\ dir[root][n].known[p] # NoFile \/ (p = Cwd /\ binding[p].instance = n)}

Fresh == [env |-> [content |-> 0, pepper |-> FALSE], known |-> NoneKnown]

\* Before the first request an instance is in one of the roots, with or
\* without a project that `iranti project init` bound, or there is none.
DiskInit ==
  /\ \E n \in Names, root \in Roots, pepper \in BOOLEAN, bound \in SUBSET Projects :
       /\ dir = [x \in Roots |-> [m \in Names |->
                   IF x = root /\ m = n
                   THEN [env |-> [content |-> 0, pepper |-> pepper],
                         known |-> [p \in Projects |->
                                      IF p \in bound THEN "isolated" ELSE NoFile]]
                   ELSE NoFile]]
       /\ binding = [p \in Projects |->
                       IF p \in bound
                       THEN [instance |-> n, root |-> root, content |-> 0, mode |-> "isolated"]
                       ELSE NoFile]
       /\ database = {n}
  /\ running = {}
  /\ job = [r \in Slots |-> NoJob]
  /\ served = 0
  /\ careful = TRUE
  /\ doomed = {}
  /\ failures = 0

\* External: `iranti run`, by whatever means, and its end.
Starts(n) ==
  /\ n \notin running
  /\ \E root \in Roots : Usable(root, n)
  /\ running' = running \cup {n}
  /\ UNCHANGED <<dir, binding, database, job, served, careful, doomed, failures>>

Stops(n) ==
  /\ n \in running
  /\ running' = running \ {n}
  /\ UNCHANGED <<dir, binding, database, job, served, careful, doomed, failures>>

\* The control plane ends and is started again.
Restart ==
  /\ Busy
  /\ Failure
  /\ job' = [r \in Slots |-> NoJob]
  /\ UNCHANGED <<dir, binding, database, running, served, careful, doomed>>

-----------------------------------------------------------------------------
(***************************************************************************)
(* Creating, configuring, deleting and migrating instances (routes/        *)
(* control-plane/instance-lifecycle, lib/db-provision).  A handler is      *)
(* split at its awaits; what it keeps between them is job[r].  The CLI     *)
(* (`iranti instance create`, `iranti configure instance`, `iranti         *)
(* status`) is external.  Ports, providers and their validation, and two   *)
(* names that differ in a hyphen only, are left out.                       *)
(***************************************************************************)

NoCopy == [content |-> Blank, pepper |-> FALSE]

\* The locals of a request: where it is, the directory it resolved, the
\* bindings it still has to treat, the file it has read.
Job(op, at, root, n) ==
  [op |-> op, at |-> at, root |-> root, name |-> n, todo |-> {}, drop |-> FALSE,
   removal |-> FALSE, copy |-> NoCopy, project |-> Cwd, read |-> NoFile]

Proceed(r, at) == job' = [job EXCEPT ![r].at = at]
Answer(r) == job' = [job EXCEPT ![r] = NoJob]
At(r, op, at) == job[r] # NoJob /\ job[r].op = op /\ job[r].at = at

root(r) == job[r].root
name(r) == job[r].name

SetEnv(x, n, env) == dir' = [dir EXCEPT ![x][n].env = env]

(***************************************************************************)
(* POST /instances                                                         *)
(***************************************************************************)
Create(r, n) ==
  /\ job[r] = NoJob
  /\ Serve(TRUE)
  /\ ~Exists("primary", n)
  /\ job' = [job EXCEPT ![r] = Job("create", "cli", "primary", n)]
  /\ UNCHANGED <<dir, binding, database, running, doomed, failures>>

\* The CLI makes the directory, with or without a pepper; it refuses a name
\* that is taken.
CliCreates(r) ==
  /\ At(r, "create", "cli")
  /\ IF Exists("primary", name(r))
     THEN Answer(r) /\ UNCHANGED dir
     ELSE /\ \E pepper \in BOOLEAN :
               dir' = [dir EXCEPT !["primary"][name(r)] = [Fresh EXCEPT !.env.pepper = pepper]]
          /\ Proceed(r, "pepper")
  /\ UNCHANGED <<binding, database, running, served, careful, doomed, failures>>

\* It fails, or exceeds 30 s, before or after it made the directory.
CliCreateFails(r) ==
  /\ At(r, "create", "cli")
  /\ ~Exists("primary", name(r))
  /\ Failure
  /\ dir' \in {dir, [dir EXCEPT !["primary"][name(r)] = Fresh]}
  /\ Answer(r)
  /\ UNCHANGED <<binding, database, running, served, careful, doomed>>

\* Mutant of ReadsEnv: the content that was read is dropped.
ReadsEnvDropped(r, x) == NoCopy

\* What readFile gives; the handler takes a file it cannot read for empty.
ReadsEnv(r, x) ==
  IF HasEnv(x, name(r)) THEN dir[x][name(r)].env ELSE NoCopy

PepperReads(r) ==
  /\ At(r, "create", "pepper")
  /\ \/ /\ job' = [job EXCEPT ![r].copy = ReadsEnv(r, "primary"),
                              ![r].at = IF HasEnv("primary", name(r))
                                           /\ dir["primary"][name(r)].env.pepper
                                        THEN "provision" ELSE "pepperWrite"]
        /\ UNCHANGED failures
     \/ Failure /\ job' = [job EXCEPT ![r].copy = NoCopy, ![r].at = "pepperWrite"]
  /\ UNCHANGED <<dir, binding, database, running, served, careful, doomed>>

\* writeFile, which fails without effect if the directory is gone.
PepperWrites(r) ==
  /\ At(r, "create", "pepperWrite")
  /\ \/ /\ Exists("primary", name(r))
        /\ SetEnv("primary", name(r), [job[r].copy EXCEPT !.pepper = TRUE])
        /\ UNCHANGED failures
     \/ ~Exists("primary", name(r)) /\ UNCHANGED <<dir, failures>>
     \/ Failure /\ UNCHANGED dir
  /\ Proceed(r, "provision")
  /\ UNCHANGED <<binding, database, running, served, careful, doomed>>

\* provisionDatabase: the database is made unless it exists, then the
\* directory of escalations, and the instance's with it if it is gone.  No
\* failure of it fails the request.
Provisions(r) ==
  /\ At(r, "create", "provision")
  /\ \/ /\ database' = database \cup {name(r)}
        /\ dir' = IF Exists("primary", name(r)) THEN dir
                  ELSE [dir EXCEPT !["primary"][name(r)] =
                          [env |-> NoFile, known |-> NoneKnown]]
        /\ UNCHANGED failures
     \/ Failure /\ database' \in {database, database \cup {name(r)}} /\ UNCHANGED dir
  /\ Answer(r)
  /\ UNCHANGED <<binding, running, served, careful, doomed>>

(***************************************************************************)
(* PATCH /instances/:name                                                  *)
(***************************************************************************)
Configure(r, n) ==
  /\ job[r] = NoJob
  /\ Serve(TRUE)
  /\ Exists("primary", n)
  /\ job' = [job EXCEPT ![r] = Job("configure", "cli", "primary", n)]
  /\ UNCHANGED <<dir, binding, database, running, doomed, failures>>

\* The CLI edits the `.env`, or fails; after 30 s it may have done either.
CliConfigures(r) ==
  /\ At(r, "configure", "cli")
  /\ \/ /\ Usable("primary", name(r))
        /\ dir["primary"][name(r)].env.content < MaxEdits
        /\ dir' = [dir EXCEPT !["primary"][name(r)].env.content = @ + 1]
     \/ UNCHANGED dir
  /\ Answer(r)
  /\ UNCHANGED <<binding, database, running, served, careful, doomed, failures>>

(***************************************************************************)
(* DELETE /instances/:name                                                 *)
(***************************************************************************)
\* resolveInstanceAuthority reads the `.env` of the directory it found and
\* throws if there is none: the request is then never answered.
Delete(r, n, removal, drop) ==
  /\ job[r] = NoJob
  /\ Serve(removal)
  /\ doomed' = doomed \cup {n}
  /\ \E x \in findInstanceDir(n) :
       job' = [job EXCEPT ![r] =
                 [Job("delete", IF HasEnv(x, n) THEN "check" ELSE "stuck", x, n)
                    EXCEPT !.todo = IF removal /\ HasEnv(x, n)
                                    THEN resolveBoundProjects(x, n) ELSE {},
                           !.drop = drop, !.removal = removal]]
  /\ UNCHANGED <<dir, binding, database, running, failures>>

\* isInstanceRunning, which takes a status that cannot be had for "no".
isInstanceRunning(r, answer) ==
  \/ answer = (name(r) \in running) /\ UNCHANGED failures
  \/ ~answer /\ name(r) \in running /\ Failure

ChecksRunning(r) ==
  /\ At(r, "delete", "check")
  /\ IF ~Exists(root(r), name(r)) THEN Answer(r) /\ UNCHANGED failures
     ELSE \E runs \in BOOLEAN :
            /\ isInstanceRunning(r, runs)
            /\ IF runs \/ (job[r].drop /\ ~Usable(root(r), name(r)))
               THEN Answer(r) ELSE Proceed(r, "bindings")
  /\ UNCHANGED <<dir, binding, database, running, served, careful, doomed>>

\* deleteBoundProjectFiles, one file at a time.
RemovesBinding(r) ==
  /\ At(r, "delete", "bindings")
  /\ \E p \in job[r].todo :
       \/ /\ binding' = [binding EXCEPT ![p] = NoFile]
          /\ job' = [job EXCEPT ![r].todo = @ \ {p}]
          /\ UNCHANGED failures
       \/ Failure /\ Answer(r) /\ UNCHANGED binding
  /\ UNCHANGED <<dir, database, running, served, careful, doomed>>

dropDatabase(r) ==
  /\ At(r, "delete", "bindings") /\ job[r].todo = {} /\ job[r].drop
  /\ \/ /\ database' = database \ {name(r)}
        /\ job' = [job EXCEPT ![r].drop = FALSE]
        /\ UNCHANGED failures
     \/ Failure /\ Answer(r) /\ database' \in {database, database \ {name(r)}}
  /\ UNCHANGED <<dir, binding, running, served, careful, doomed>>

\* rm -r; when it fails the directory may remain without its files.
RemovesDir(r) ==
  /\ At(r, "delete", "bindings") /\ job[r].todo = {} /\ ~job[r].drop
  /\ \/ dir' = [dir EXCEPT ![root(r)][name(r)] = NoFile] /\ UNCHANGED failures
     \/ /\ Failure /\ Exists(root(r), name(r))
        /\ dir' \in {dir, [dir EXCEPT ![root(r)][name(r)] =
                             [env |-> NoFile, known |-> NoneKnown]]}
  /\ Answer(r)
  /\ UNCHANGED <<binding, database, running, served, careful, doomed>>

(***************************************************************************)
(* POST /instances/:name/migrate-root                                      *)
(***************************************************************************)
Migrate(r, n) ==
  /\ job[r] = NoJob
  /\ Serve(TRUE)
  /\ findInstanceDir(n) = {"legacy"}
  /\ job' = [job EXCEPT ![r] =
               IF HasEnv("legacy", n)
               THEN [Job("migrate", "check", "legacy", n)
                       EXCEPT !.todo = resolveBoundProjects("legacy", n)]
               ELSE Job("migrate", "stuck", "legacy", n)]
  /\ UNCHANGED <<dir, binding, database, running, doomed, failures>>

MayMove(r) ==
  /\ At(r, "migrate", "check")
  /\ \E runs \in BOOLEAN :
       /\ isInstanceRunning(r, runs)
       /\ IF runs \/ Exists("primary", name(r)) THEN Answer(r) ELSE Proceed(r, "move")
  /\ UNCHANGED <<dir, binding, database, running, served, careful, doomed>>

\* Mutant of Copied: the source goes first.
CopiedFromNothing(r) == [dir EXCEPT !["legacy"][name(r)] = NoFile]

Copied(r) == [dir EXCEPT !["primary"][name(r)] = dir["legacy"][name(r)]]

\* moveDirectory within a file system: rename, which fails without effect if
\* the source has gone or the target has come.
Renames(r) ==
  /\ At(r, "migrate", "move")
  /\ IF Exists("legacy", name(r)) /\ ~Exists("primary", name(r))
     THEN /\ dir' = [Copied(r) EXCEPT !["legacy"][name(r)] = NoFile]
          /\ Proceed(r, "env")
     ELSE Answer(r) /\ UNCHANGED dir
  /\ UNCHANGED <<binding, database, running, served, careful, doomed, failures>>

\* moveDirectory across file systems (EXDEV): copy over whatever is there,
\* then remove.
Copies(r) ==
  /\ At(r, "migrate", "move")
  /\ IF Exists("legacy", name(r))
     THEN dir' = Copied(r) /\ Proceed(r, "unlink")
     ELSE Answer(r) /\ UNCHANGED dir
  /\ UNCHANGED <<binding, database, running, served, careful, doomed, failures>>

Unlinks(r) ==
  /\ At(r, "migrate", "unlink")
  /\ \/ /\ dir' = [dir EXCEPT !["legacy"][name(r)] = NoFile]
        /\ Proceed(r, "env") /\ UNCHANGED failures
     \/ Failure /\ Answer(r) /\ UNCHANGED dir
  /\ UNCHANGED <<binding, database, running, served, careful, doomed>>

\* rewriteMovedInstanceEnv: read, adjust two paths, write.
RewriteReads(r) ==
  /\ At(r, "migrate", "env")
  /\ job' = [job EXCEPT ![r].copy = ReadsEnv(r, "primary"),
                        ![r].at = IF HasEnv("primary", name(r)) THEN "envWrite" ELSE "meta"]
  /\ UNCHANGED <<dir, binding, database, running, served, careful, doomed, failures>>

RewriteWrites(r) ==
  /\ At(r, "migrate", "envWrite")
  /\ IF Exists("primary", name(r))
     THEN SetEnv("primary", name(r), job[r].copy) /\ Proceed(r, "meta")
     ELSE Answer(r) /\ UNCHANGED dir
  /\ UNCHANGED <<binding, database, running, served, careful, doomed, failures>>

\* rewriteMovedInstanceMeta and clearMovedRuntimeMetadata.  Metadata that is
\* no JSON ends the migration here, with the directory moved and the bindings
\* as they were; a second migration finds nothing to do.
RewritesMeta(r) ==
  /\ At(r, "migrate", "meta")
  /\ \/ Proceed(r, "bindings") /\ UNCHANGED failures
     \/ Failure /\ Answer(r)
  /\ UNCHANGED <<dir, binding, database, running, served, careful, doomed>>

\* rewriteProjectBindingInstanceEnv reads a binding ...
BindingReads(r) ==
  /\ At(r, "migrate", "bindings")
  /\ \E p \in job[r].todo :
       LET stale == LeadsTo(p, "legacy", name(r))
       IN job' = [job EXCEPT ![r].todo = @ \ {p}, ![r].project = p,
                             ![r].read = IF stale THEN binding[p] ELSE NoFile,
                             ![r].at = IF stale THEN "bindingWrite" ELSE "bindings"]
  /\ UNCHANGED <<dir, binding, database, running, served, careful, doomed, failures>>

\* ... and writes it whole, with the new path.
BindingWrites(r) ==
  /\ At(r, "migrate", "bindingWrite")
  /\ \/ /\ binding' = [binding EXCEPT ![job[r].project] =
                         [job[r].read EXCEPT !.root = "primary"]]
        /\ Proceed(r, "bindings") /\ UNCHANGED failures
     \/ Failure /\ Answer(r) /\ UNCHANGED binding
  /\ UNCHANGED <<dir, database, running, served, careful, doomed>>

\* Mutant of Migrated: the answer does not wait for the bindings.
MigratedEarly(r) ==
  /\ At(r, "migrate", "bindings")
  /\ Answer(r)
  /\ UNCHANGED <<dir, binding, database, running, served, careful, doomed, failures>>

Migrated(r) ==
  /\ At(r, "migrate", "bindings") /\ job[r].todo = {}
  /\ Answer(r)
  /\ UNCHANGED <<dir, binding, database, running, served, careful, doomed, failures>>

Arrive(r) ==
  \E n \in Names : \/ Create(r, n) \/ Configure(r, n) \/ Migrate(r, n)
                   \/ \E removal, drop \in BOOLEAN : Delete(r, n, removal, drop)

FileStep(r) ==
  \/ CliCreates(r) \/ CliCreateFails(r) \/ PepperReads(r) \/ PepperWrites(r) \/ Provisions(r)
  \/ CliConfigures(r)
  \/ ChecksRunning(r) \/ RemovesBinding(r) \/ dropDatabase(r) \/ RemovesDir(r)
  \/ MayMove(r) \/ Renames(r) \/ Copies(r) \/ Unlinks(r) \/ RewriteReads(r)
  \/ RewriteWrites(r) \/ RewritesMeta(r) \/ BindingReads(r) \/ BindingWrites(r)
  \/ Migrated(r)
=============================================================================
