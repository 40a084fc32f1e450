---------------------------- MODULE StoresProofs ----------------------------
(***************************************************************************)
(* Theorems about what the routes keep on disk and in the database: the    *)
(* instances with their projects' bindings, for any numbers of instances,  *)
(* projects and overlapping requests, and then the API keys.               *)
(*                                                                         *)
(* The instances: KeptInv holds in every state, and                        *)
(* every step from it loses an `.env` only to a delete.  SoundInv adds     *)
(* what holds as long as requests come one at a time and nothing fails:    *)
(* what each request has read is what is there, and every binding leads to *)
(* an instance that lists its project, or to one that is being moved by a  *)
(* migration which will write that binding.                                *)
(***************************************************************************)
EXTENDS AuthKeys, Instances, TLAPS

(***************************************************************************)
(* What holds whatever requests overlap and fail: a delete at work was     *)
(* accepted, a migration comes from the legacy root, and before it removes *)
(* anything there it has made its copy.                                    *)
(***************************************************************************)
JobOK(r) ==
  job[r] # NoJob =>
    /\ job[r].op = "delete" => name(r) \in doomed
    /\ job[r].op = "migrate" => root(r) = "legacy"
    /\ job[r].at = "unlink" => HasEnv("primary", name(r)) \/ name(r) \in doomed
    /\ job[r].at = "bindingWrite" => job[r].read # NoFile

(* A directory of the legacy root has its `.env` unless it was deleted.    *)
LegacyHasEnv == \A n \in Names : Exists("legacy", n) => HasEnv("legacy", n) \/ n \in doomed

KeptInv == DiskTypeOK /\ LegacyHasEnv /\ \A r \in Slots : JobOK(r)

Trees == [Roots -> [Names -> Dirs \cup {NoFile}]]

(* No step loses an `.env` but by a delete or by a move to the other root. *)
EnvsStay ==
  \A n \in Names :
    /\ HasEnv("primary", n) => HasEnv("primary", n)' \/ n \in doomed
    /\ HasEnv("legacy", n) => HasEnv("legacy", n)' \/ HasEnv("primary", n)' \/ n \in doomed
    /\ Exists("legacy", n)' => Exists("legacy", n) /\ (HasEnv("legacy", n)' \/ n \in doomed)

(* What a step of a request does, whichever it is.                         *)
JobMoves(r) ==
  /\ job' \in [Slots -> Jobs \cup {NoJob}]
  /\ \A q \in Slots \ {r} : job'[q] = job[q]

RequestMoves(r) ==
  /\ JobMoves(r) /\ JobOK(r)'
  /\ dir' \in Trees /\ EnvsStay
  /\ binding' \in [Projects -> Bindings \cup {NoFile}]
  /\ database' \subseteq Names /\ running' = running
  /\ served' \in 0..MaxRequests /\ careful' \in BOOLEAN
  /\ doomed' \subseteq Names /\ doomed \subseteq doomed'
  /\ failures' \in 0..MaxFailures
-----------------------------------------------------------------------------
(***************************************************************************)
(* What holds while the client is careful and nothing fails.  There is one *)
(* job at most; it knows the file it is going to write as it is, a delete  *)
(* has every binding that leads to its directory on its list, and a        *)
(* migration every binding it has not written yet.                         *)
(***************************************************************************)
Works(r, o, places) == job[r] # NoJob /\ job[r].op = o /\ job[r].at \in places

CreateOK(r) ==
  /\ Works(r, "create", {"pepper", "pepperWrite"}) => HasEnv("primary", name(r))
  /\ Works(r, "create", {"pepperWrite"}) => job[r].copy = dir["primary"][name(r)].env

DeleteOK(r) ==
  Works(r, "delete", {"check", "bindings"}) =>
    \A p \in Projects : LeadsTo(p, root(r), name(r)) => p \in job[r].todo

\* The list of an instance that is there has the project.
Listed(p, x, n) == Exists(x, n) /\ dir[x][n].known[p] # NoFile

\* Where a migration has its copy in the primary root.
HasCopy == {"unlink", "env", "envWrite", "meta", "bindings", "bindingWrite"}

\* The bindings that a migration still has to write.
Left(r) == job[r].todo \cup (IF job[r].at = "bindingWrite" THEN {job[r].project} ELSE {})

MigrateOK(r) ==
  /\ Works(r, "migrate", {"check", "move"}) =>
       /\ HasEnv("legacy", name(r))
       /\ \A p \in Projects : LeadsTo(p, "legacy", name(r)) => p \in job[r].todo
  /\ Works(r, "migrate", {"move"}) => ~Exists("primary", name(r))
  /\ Works(r, "migrate", HasCopy) =>
       /\ HasEnv("primary", name(r))
       /\ \A p \in Projects : LeadsTo(p, "legacy", name(r)) =>
                                p \in Left(r) /\ Listed(p, "primary", name(r))
  /\ Works(r, "migrate", {"envWrite"}) => job[r].copy = dir["primary"][name(r)].env
  /\ Works(r, "migrate", {"bindingWrite"}) =>
       LeadsTo(job[r].project, "legacy", name(r)) /\ job[r].read = binding[job[r].project]

OwnOK(r) == CreateOK(r) /\ DeleteOK(r) /\ MigrateOK(r)

OneJob == \A q, r \in Slots : job[q] # NoJob /\ job[r] # NoJob => q = r

EnvsWhole == \A x \in Roots, n \in Names : HasEnv(x, n) => dir[x][n].env.content # Blank

\* A binding leads to an instance that lists the project, or to one that is
\* being moved.
BindingOK(p) ==
  binding[p] # NoFile =>
    \/ Listed(p, binding[p].root, binding[p].instance)
    \/ \E r \in Slots : Works(r, "migrate", HasCopy) /\ LeadsTo(p, "legacy", name(r))

SoundState ==
  /\ OneJob /\ EnvsWhole
  /\ \A r \in Slots : OwnOK(r)
  /\ \A p \in Projects : BindingOK(p)

SoundInv == Sound => SoundState

\* What a step of a request keeps, beside what it may not lose.
EditsStay ==
  \A x \in Roots, n \in Names :
    HasEnv(x, n) /\ HasEnv(x, n)' =>
      \/ dir'[x][n].env.content = dir[x][n].env.content
      \/ dir'[x][n].env.content = dir[x][n].env.content + 1

NoneLeft(r) ==
  job'[r] = NoJob /\ job[r].at = "bindings" =>
    \A p \in Projects : ~LeadsTo(p, root(r), name(r))

SoundMoves(r) ==
  /\ EnvsWhole' /\ OwnOK(r)' /\ (\A p \in Projects : BindingOK(p)')
  /\ EditsStay /\ NoneLeft(r)
-----------------------------------------------------------------------------
(* What is absent is no directory, file, mode, binding or request.         *)
LEMMA AbsentIsApart ==
  /\ NoFile \notin Dirs /\ NoFile \notin Envs /\ NoFile \notin Modes /\ NoFile \notin Bindings
  /\ NoJob \notin Jobs
  /\ Blank \in Nat /\ MaxEdits \in 0..Blank /\ Blank \notin 0..MaxEdits /\ 0 \in 0..MaxEdits
  /\ 0 # Blank /\ 0 \in 0..Blank
  BY StoreAssumption, InstancesAssumption DEF Blank

(* What one entry of the tree of directories is changed to, it is, and the *)
(* others stay.                                                            *)
LEMMA PutDir ==
  ASSUME NEW d \in Trees, NEW x \in Roots, NEW n \in Names, NEW v \in Dirs \cup {NoFile},
         NEW e, e = [d EXCEPT ![x][n] = v]
  PROVE  /\ e \in Trees /\ e[x][n] = v
         /\ \A y \in Roots, m \in Names : y # x \/ m # n => e[y][m] = d[y][m]
  BY DEF Trees

(* The same for the `.env` of one directory ...                            *)
LEMMA PutEnv ==
  ASSUME NEW d \in Trees, NEW x \in Roots, NEW n \in Names, d[x][n] \in Dirs,
         NEW env \in Envs \cup {NoFile}, NEW e, e = [d EXCEPT ![x][n].env = env]
  PROVE  /\ e \in Trees
         /\ e[x][n] \in Dirs /\ e[x][n].env = env /\ e[x][n].known = d[x][n].known
         /\ \A y \in Roots, m \in Names : y # x \/ m # n => e[y][m] = d[y][m]
<1> DEFINE v == [d[x][n] EXCEPT !.env = env]
<1>1. v \in Dirs /\ v.env = env /\ v.known = d[x][n].known
  BY DEF Dirs
<1>2. e = [d EXCEPT ![x][n] = v]
  BY DEF Trees
<1> HIDE DEF v
<1>3. /\ e \in Trees /\ e[x][n] = v
      /\ \A y \in Roots, m \in Names : y # x \/ m # n => e[y][m] = d[y][m]
  BY <1>1, <1>2 DEF Trees
<1> QED
  BY <1>1, <1>3

(* ... and for its list of projects.                                       *)
LEMMA PutKnown ==
  ASSUME NEW d \in Trees, NEW x \in Roots, NEW n \in Names, d[x][n] \in Dirs,
         NEW known \in ProjectLists, NEW e, e = [d EXCEPT ![x][n].known = known]
  PROVE  /\ e \in Trees
         /\ e[x][n] \in Dirs /\ e[x][n].known = known /\ e[x][n].env = d[x][n].env
         /\ \A y \in Roots, m \in Names : y # x \/ m # n => e[y][m] = d[y][m]
<1> DEFINE v == [d[x][n] EXCEPT !.known = known]
<1>1. v \in Dirs /\ v.known = known /\ v.env = d[x][n].env
  BY DEF Dirs
<1>2. e = [d EXCEPT ![x][n] = v]
  BY DEF Trees
<1> HIDE DEF v
<1>3. /\ e \in Trees /\ e[x][n] = v
      /\ \A y \in Roots, m \in Names : y # x \/ m # n => e[y][m] = d[y][m]
  BY <1>1, <1>2 DEF Trees
<1> QED
  BY <1>1, <1>3

(* One project more or less on the list of an instance.                    *)
LEMMA PutListed ==
  ASSUME NEW d \in Trees, NEW n \in Names, d["primary"][n] \in Dirs,
         NEW p \in Projects, NEW mode \in Modes \cup {NoFile}
  PROVE  /\ Registered(d, n, p, mode) \in Trees
         /\ Registered(d, n, p, mode)["primary"][n] \in Dirs
         /\ Registered(d, n, p, mode)["primary"][n].env = d["primary"][n].env
         /\ Registered(d, n, p, mode)["primary"][n].known[p] = mode
         /\ \A o \in Projects \ {p} :
              Registered(d, n, p, mode)["primary"][n].known[o] = d["primary"][n].known[o]
         /\ \A y \in Roots, m \in Names :
              y # "primary" \/ m # n => Registered(d, n, p, mode)[y][m] = d[y][m]
<1> DEFINE known == [d["primary"][n].known EXCEPT ![p] = mode]
           e == [d EXCEPT !["primary"][n].known = known]
<1>1. /\ known \in ProjectLists /\ known[p] = mode
      /\ \A o \in Projects \ {p} : known[o] = d["primary"][n].known[o]
  BY DEF Dirs, ProjectLists
<1>2. e = Registered(d, n, p, mode)
  BY DEF Registered, Trees, Roots
<1> HIDE DEF known
<1> DEFINE v == [d["primary"][n] EXCEPT !.known = known]
<1>3. v \in Dirs /\ v.known = known /\ v.env = d["primary"][n].env
  BY <1>1 DEF Dirs
<1>4. e = [d EXCEPT !["primary"][n] = v]
  BY DEF Trees, Roots
<1> HIDE DEF v, e
<1>5. /\ e \in Trees /\ e["primary"][n] = v
      /\ \A y \in Roots, m \in Names : y # "primary" \/ m # n => e[y][m] = d[y][m]
  BY <1>3, <1>4 DEF Trees, Roots
<1> QED
  BY <1>1, <1>2, <1>3, <1>5

(* The locals a request starts with are of their kind.                     *)
LEMMA NewJobs ==
  ASSUME NEW o \in {"create", "configure", "delete", "migrate"}, NEW at \in Places,
         NEW x \in Roots, NEW n \in Names
  PROVE  Job(o, at, x, n) \in Jobs
<1>1. NoCopy \in Envs
  BY AbsentIsApart DEF NoCopy, Envs
<1> QED
  BY <1>1, StoreAssumption DEF Job, Jobs

(* The locals of a request stay of their kind when one of them is set.     *)
LEMMA JobEdits ==
  ASSUME NEW j \in Jobs
  PROVE  /\ \A at \in Places : [j EXCEPT !.at = at] \in Jobs
         /\ \A todo \in SUBSET Projects : [j EXCEPT !.todo = todo] \in Jobs
         /\ \A drop \in BOOLEAN : [j EXCEPT !.drop = drop] \in Jobs
         /\ \A copy \in Envs, at \in Places : [j EXCEPT !.copy = copy, !.at = at] \in Jobs
         /\ \A todo \in SUBSET Projects, drop, removal \in BOOLEAN :
              [j EXCEPT !.todo = todo, !.drop = drop, !.removal = removal] \in Jobs
         /\ \A todo \in SUBSET Projects, proj \in Projects, at \in Places,
               read \in Bindings \cup {NoFile} :
              [j EXCEPT !.todo = todo, !.project = proj, !.read = read, !.at = at] \in Jobs
  BY DEF Jobs

(* What a directory may be read as.                                        *)
LEMMA KindsOfDir ==
  ASSUME DiskTypeOK
  PROVE  /\ dir \in Trees
         /\ \A x \in Roots, n \in Names :
              /\ dir[x][n] \in Dirs \cup {NoFile}
              /\ Exists(x, n) <=> dir[x][n] \in Dirs
              /\ Exists(x, n) => dir[x][n].env \in Envs \cup {NoFile}
                                 /\ dir[x][n].known \in ProjectLists
              /\ HasEnv(x, n) => dir[x][n].env \in Envs
  BY AbsentIsApart DEF DiskTypeOK, Trees, Exists, HasEnv, Dirs

(* The kinds of the locals of a request under way.                         *)
LEMMA KindsOfJob ==
  ASSUME DiskTypeOK, NEW r \in Slots, job[r] # NoJob
  PROVE  /\ job[r] \in Jobs
         /\ root(r) \in Roots /\ name(r) \in Names /\ job[r].todo \in SUBSET Projects
         /\ job[r].at \in Places /\ job[r].drop \in BOOLEAN /\ job[r].removal \in BOOLEAN
         /\ job[r].copy \in Envs /\ job[r].project \in Projects
         /\ job[r].read \in Bindings \cup {NoFile}
<1>1. job[r] \in Jobs
  BY DEF DiskTypeOK
<1> QED
  BY <1>1 DEF Jobs, root, name

LEMMA BothRoots == Roots = {"primary", "legacy"} /\ "primary" \in Roots /\ "legacy" \in Roots
  BY DEF Roots

(* A step that leaves the directories alone loses none.                    *)
LEMMA SameDir ==
  ASSUME KeptInv, dir' = dir
  PROVE  dir' \in Trees /\ EnvsStay
  BY KindsOfDir DEF KeptInv, EnvsStay, LegacyHasEnv, HasEnv, Exists

(* A step that changes the directory of n in one of the roots.             *)
LEMMA OneDir ==
  ASSUME KeptInv, NEW x \in Roots, NEW n \in Names,
         \A y \in Roots, m \in Names : y # x \/ m # n => dir'[y][m] = dir[y][m],
         \/ HasEnv(x, n)'
         \/ ~HasEnv(x, n) /\ x = "primary"
         \/ n \in doomed /\ (x = "legacy" => Exists(x, n))
         \/ x = "legacy" /\ ~Exists(x, n)' /\ HasEnv("primary", n)',
         x = "legacy" /\ Exists(x, n)' => Exists(x, n)
  PROVE  EnvsStay
  BY BothRoots DEF KeptInv, EnvsStay, LegacyHasEnv, HasEnv, Exists

(* A request that goes on changes where it is and nothing else.            *)
LEMMA Proceeds ==
  ASSUME DiskTypeOK, NEW r \in Slots, job[r] # NoJob, NEW at \in Places, Proceed(r, at)
  PROVE  /\ JobMoves(r)
         /\ job'[r] # NoJob
         /\ job'[r].at = at /\ job'[r].op = job[r].op /\ job'[r].root = job[r].root
         /\ job'[r].name = job[r].name /\ job'[r].read = job[r].read
         /\ job'[r].todo = job[r].todo /\ job'[r].copy = job[r].copy
         /\ job'[r].project = job[r].project /\ job'[r].removal = job[r].removal
<1> DEFINE j == [job[r] EXCEPT !.at = at]
<1>1. job[r] \in Jobs
  BY KindsOfJob
<1>2. j \in Jobs
  BY <1>1, JobEdits
<1>3. job \in [Slots -> Jobs \cup {NoJob}] /\ job' = [job EXCEPT ![r] = j]
  BY DEF DiskTypeOK, Proceed
<1>4. /\ j.at = at /\ j.op = job[r].op /\ j.root = job[r].root /\ j.name = job[r].name
      /\ j.read = job[r].read /\ j.todo = job[r].todo /\ j.copy = job[r].copy
      /\ j.project = job[r].project /\ j.removal = job[r].removal
  BY <1>1 DEF Jobs
<1>5. job'[r] = j
  BY <1>3
<1> HIDE DEF j
<1>6. JobMoves(r) /\ j # NoJob
  BY <1>2, <1>3, AbsentIsApart DEF JobMoves
<1> QED
  BY <1>4, <1>5, <1>6 DEF j

(* A request that is answered has no locals any more.                      *)
LEMMA RequestEnds ==
  ASSUME DiskTypeOK, NEW r \in Slots, Answer(r)
  PROVE  JobMoves(r) /\ job'[r] = NoJob /\ JobOK(r)'
  BY DEF DiskTypeOK, Answer, JobMoves, JobOK

(* A request whose locals are replaced.                                    *)
LEMMA Sets ==
  ASSUME DiskTypeOK, NEW r \in Slots, NEW j \in Jobs, job' = [job EXCEPT ![r] = j]
  PROVE  JobMoves(r) /\ job'[r] = j /\ job'[r] # NoJob
  BY AbsentIsApart DEF DiskTypeOK, JobMoves

(* A count of a bounded number of events.                                  *)
LEMMA CountsUp ==
  /\ DiskTypeOK /\ Failure => failures' \in 0..MaxFailures
  /\ \A proper :
       DiskTypeOK /\ Serve(proper) => served' \in 0..MaxRequests /\ careful' \in BOOLEAN
<1>1. DiskTypeOK /\ Failure => failures' \in 0..MaxFailures
  BY StoreAssumption DEF DiskTypeOK, Failure
<1>2. ASSUME NEW proper, DiskTypeOK, Serve(proper)
      PROVE  served' \in 0..MaxRequests
  BY <1>2, StoreAssumption DEF DiskTypeOK, Serve
<1>3. ASSUME NEW proper, DiskTypeOK, Serve(proper)
      PROVE  careful' \in BOOLEAN
  BY <1>3 DEF Serve
<1> QED
  BY <1>1, <1>2, <1>3

-----------------------------------------------------------------------------
(* What a new request starts with.                                         *)
Taken(r, j) ==
  /\ job' = [job EXCEPT ![r] = j]
  /\ j.op \in {"create", "configure"} => j.at = "cli"
  /\ j.op \in {"delete", "migrate"} => j.at \in {"check", "stuck"}
  /\ j.op = "delete" => j.name \in doomed'
  /\ j.op = "migrate" => j.root = "legacy"
  /\ j.at = "check" => HasEnv(j.root, j.name)
  /\ j.at = "check" /\ careful' => j.todo = resolveBoundProjects(j.root, j.name)

(* A request that arrives changes nothing but its own locals.              *)
LEMMA ArriveTakes ==
  ASSUME KeptInv, NEW r \in Slots, Arrive(r)
  PROVE  /\ dir' = dir /\ UNCHANGED <<binding, database, running, failures>>
         /\ doomed \subseteq doomed' /\ doomed' \subseteq Names
         /\ \E proper : Serve(proper)
         /\ \E j \in Jobs : Taken(r, j)
<1> DiskTypeOK
  BY DEF KeptInv
<1>1. PICK n \in Names : \/ Create(r, n) \/ Configure(r, n) \/ Migrate(r, n)
                         \/ \E removal, drop \in BOOLEAN : Delete(r, n, removal, drop)
  BY DEF Arrive
<1>2. /\ dir' = dir /\ UNCHANGED <<binding, database, running, failures>>
      /\ doomed \subseteq doomed' /\ doomed' \subseteq Names
      /\ \E proper : Serve(proper)
  BY <1>1 DEF Create, Configure, Migrate, Delete, DiskTypeOK
<1>3. \E j \in Jobs : Taken(r, j)
  <2>1. ASSUME NEW o \in {"create", "configure", "delete", "migrate"},
               NEW at \in {"cli", "check", "stuck"}, NEW x \in Roots
        PROVE  /\ Job(o, at, x, n) \in Jobs
               /\ Job(o, at, x, n).op = o /\ Job(o, at, x, n).at = at
               /\ Job(o, at, x, n).root = x /\ Job(o, at, x, n).name = n
    <3>1. at \in Places
      BY DEF Places
    <3> QED
      BY <3>1, NewJobs DEF Job
  <2>2. ASSUME NEW o \in {"create", "configure"},
               job' = [job EXCEPT ![r] = Job(o, "cli", "primary", n)]
        PROVE  \E j \in Jobs : Taken(r, j)
    <3> DEFINE j == Job(o, "cli", "primary", n)
    <3>1. j \in Jobs /\ j.op = o /\ j.at = "cli"
      BY <2>1, BothRoots
    <3> HIDE DEF j
    <3>2. job' = [job EXCEPT ![r] = j]
      BY <2>2 DEF j
    <3> QED
      BY <3>1, <3>2 DEF Taken
  <2>3. CASE Migrate(r, n)
    <3>1. CASE ~HasEnv("legacy", n)
      <4> DEFINE j == Job("migrate", "stuck", "legacy", n)
      <4>1. j \in Jobs /\ j.op = "migrate" /\ j.at = "stuck" /\ j.root = "legacy"
        BY <2>1, BothRoots
      <4>2. job' = [job EXCEPT ![r] = j]
        BY <2>3, <3>1 DEF Migrate
      <4> HIDE DEF j
      <4> QED
        BY <4>1, <4>2 DEF Taken
    <3>2. CASE HasEnv("legacy", n)
      <4> DEFINE i == Job("migrate", "check", "legacy", n)
                 todo == resolveBoundProjects("legacy", n)
                 j == [i EXCEPT !.todo = todo]
      <4>1. todo \in SUBSET Projects
        BY DEF resolveBoundProjects
      <4>2. i \in Jobs /\ i.op = "migrate" /\ i.at = "check" /\ i.root = "legacy" /\ i.name = n
        BY <2>1, BothRoots
      <4>3. job' = [job EXCEPT ![r] = j]
        BY <2>3, <3>2 DEF Migrate
      <4> HIDE DEF i, todo
      <4>4. j \in Jobs
        BY <4>1, <4>2, JobEdits
      <4>5. j.op = "migrate" /\ j.at = "check" /\ j.root = "legacy" /\ j.name = n
            /\ j.todo = todo
        BY <4>2 DEF Jobs
      <4> HIDE DEF j
      <4> QED
        BY <3>2, <4>3, <4>4, <4>5 DEF Taken, todo
    <3> QED
      BY <3>1, <3>2
  <2>4. ASSUME NEW removal \in BOOLEAN, NEW drop \in BOOLEAN, Delete(r, n, removal, drop)
        PROVE  \E j \in Jobs : Taken(r, j)
    <3>1. PICK x \in findInstanceDir(n) :
            job' = [job EXCEPT ![r] =
                 [Job("delete", IF HasEnv(x, n) THEN "check" ELSE "stuck", x, n)
                    EXCEPT !.todo = IF removal /\ HasEnv(x, n)
                                    THEN resolveBoundProjects(x, n) ELSE {},
                           !.drop = drop, !.removal = removal]]
      BY <2>4 DEF Delete
    <3>2. x \in Roots /\ n \in doomed'
      BY <2>4, <3>1, BothRoots DEF findInstanceDir, Delete
    <3> DEFINE at == IF HasEnv(x, n) THEN "check" ELSE "stuck"
               i == Job("delete", at, x, n)
               todo == IF removal /\ HasEnv(x, n) THEN resolveBoundProjects(x, n) ELSE {}
               j == [i EXCEPT !.todo = todo, !.drop = drop, !.removal = removal]
    <3>3. todo \in SUBSET Projects /\ at \in {"cli", "check", "stuck"}
      BY DEF resolveBoundProjects
    <3>4. job' = [job EXCEPT ![r] = j]
      BY <3>1
    <3> HIDE DEF todo, at
    <3>5. i \in Jobs /\ i.op = "delete" /\ i.at = at /\ i.name = n /\ i.root = x
      BY <2>1, <3>2, <3>3
    <3> HIDE DEF i
    <3>6. j \in Jobs
      BY <3>3, <3>5, JobEdits
    <3>7. j.op = "delete" /\ j.at = at /\ j.name = n /\ j.root = x /\ j.todo = todo
      BY <3>5 DEF Jobs
    <3>8. careful' => removal
      BY <2>4 DEF Delete, Serve
    <3> HIDE DEF j
    <3> QED
      BY <3>2, <3>4, <3>6, <3>7, <3>8 DEF Taken, at, todo
  <2> QED
    <3>1. Create(r, n) => job' = [job EXCEPT ![r] = Job("create", "cli", "primary", n)]
      BY DEF Create
    <3>2. Configure(r, n) => job' = [job EXCEPT ![r] = Job("configure", "cli", "primary", n)]
      BY DEF Configure
    <3> QED
      BY <1>1, <2>2, <2>3, <2>4, <3>1, <3>2
<1> QED
  BY <1>2, <1>3

(* What all steps of requests do: first, those that arrive ...             *)
LEMMA ArriveMoves ==
  ASSUME KeptInv, NEW r \in Slots, Arrive(r)
  PROVE  RequestMoves(r)
<1> DiskTypeOK
  BY DEF KeptInv
<1>1. /\ dir' = dir /\ UNCHANGED <<binding, database, running, failures>>
      /\ doomed \subseteq doomed' /\ doomed' \subseteq Names
      /\ \E proper : Serve(proper)
  BY ArriveTakes
<1>2. PICK j \in Jobs : Taken(r, j)
  BY ArriveTakes
<1>3. JobMoves(r) /\ job'[r] = j
  BY <1>2, Sets DEF Taken
<1>4. j.op \in {"create", "configure", "delete", "migrate"}
  BY DEF Jobs
<1>5. JobOK(r)'
  BY <1>2, <1>3, <1>4 DEF Taken, JobOK, name, root
<1> QED
  BY <1>1, <1>3, <1>5, SameDir, CountsUp DEF RequestMoves, DiskTypeOK

(* The kinds of what a creation writes.                                    *)
LEMMA NewDirs ==
  /\ NoneKnown \in ProjectLists
  /\ [env |-> NoFile, known |-> NoneKnown] \in Dirs
  /\ Fresh \in Dirs /\ Fresh.env \in Envs /\ Fresh.env.content = 0 /\ Fresh.known = NoneKnown
  /\ \A pepper \in BOOLEAN :
       LET v == [Fresh EXCEPT !.env.pepper = pepper]
       IN v \in Dirs /\ v.env \in Envs /\ v.env.content = 0 /\ v.known = NoneKnown
<1>1. NoneKnown \in ProjectLists
  BY DEF NoneKnown, ProjectLists
<1>2. [env |-> NoFile, known |-> NoneKnown] \in Dirs
  BY <1>1 DEF Dirs
<1> DEFINE old == [content |-> 0, pepper |-> FALSE]
<1>3. old \in Envs /\ old.content = 0
  BY AbsentIsApart DEF Envs
<1>4. \A pepper \in BOOLEAN :
        /\ [old EXCEPT !.pepper = pepper] \in Envs
        /\ [old EXCEPT !.pepper = pepper].content = 0
  BY <1>3 DEF Envs
<1>5. Fresh = [env |-> old, known |-> NoneKnown]
  BY DEF Fresh
<1> HIDE DEF old
<1>6. Fresh \in Dirs /\ Fresh.env = old /\ Fresh.known = NoneKnown
  BY <1>1, <1>3, <1>5 DEF Dirs
<1>7. ASSUME NEW pepper \in BOOLEAN
      PROVE  LET v == [Fresh EXCEPT !.env.pepper = pepper]
             IN v \in Dirs /\ v.env \in Envs /\ v.env.content = 0 /\ v.known = NoneKnown
  <2> DEFINE env == [old EXCEPT !.pepper = pepper]
  <2>1. [Fresh EXCEPT !.env.pepper = pepper] = [env |-> env, known |-> NoneKnown]
    BY <1>5
  <2>2. env \in Envs /\ env.content = 0
    BY <1>4
  <2> HIDE DEF env
  <2> QED
    BY <1>1, <2>1, <2>2 DEF Dirs
<1> QED
  BY <1>1, <1>2, <1>3, <1>6, <1>7

(* A directory is made, copied over or removed.                            *)
LEMMA DirIs ==
  ASSUME DiskTypeOK, NEW x \in Roots, NEW n \in Names, NEW v \in Dirs \cup {NoFile},
         dir' = [dir EXCEPT ![x][n] = v]
  PROVE  /\ dir' \in Trees /\ dir'[x][n] = v
         /\ \A y \in Roots, m \in Names : y # x \/ m # n => dir'[y][m] = dir[y][m]
<1> dir \in Trees
  BY DEF DiskTypeOK, Trees
<1> QED
  BY DEF Trees

(* An `.env` is written.                                                   *)
LEMMA EnvIs ==
  ASSUME DiskTypeOK, NEW x \in Roots, NEW n \in Names, Exists(x, n), NEW env \in Envs,
         SetEnv(x, n, env)
  PROVE  /\ dir' \in Trees /\ HasEnv(x, n)' /\ dir'[x][n] # NoFile
         /\ dir'[x][n].env = env /\ dir'[x][n].known = dir[x][n].known
         /\ \A y \in Roots, m \in Names : y # x \/ m # n => dir'[y][m] = dir[y][m]
<1> DEFINE v == [dir[x][n] EXCEPT !.env = env]
<1>1. dir \in Trees /\ dir[x][n] \in Dirs
  BY KindsOfDir
<1>2. v \in Dirs /\ v.env = env /\ v.known = dir[x][n].known
  BY <1>1 DEF Dirs
<1>3. dir' = [dir EXCEPT ![x][n] = v]
  BY <1>1 DEF SetEnv, Trees
<1> HIDE DEF v
<1>4. /\ dir' \in Trees /\ dir'[x][n] = v
      /\ \A y \in Roots, m \in Names : y # x \/ m # n => dir'[y][m] = dir[y][m]
  BY <1>1, <1>2, <1>3 DEF Trees
<1> QED
  BY <1>2, <1>4, AbsentIsApart DEF HasEnv, Exists

(* What is read of an `.env` is of its kind.                               *)
LEMMA ReadsKinds ==
  ASSUME DiskTypeOK, NEW r \in Slots, job[r] # NoJob
  PROVE  ReadsEnv(r, "primary") \in Envs /\ NoCopy \in Envs
<1>1. NoCopy \in Envs
  BY AbsentIsApart DEF NoCopy, Envs
<1> QED
  BY <1>1, KindsOfDir, KindsOfJob, BothRoots DEF ReadsEnv

(* A request that is answered, or goes on to a place of no consequence.    *)
LEMMA GoesOn ==
  ASSUME KeptInv, NEW r \in Slots, job[r] # NoJob, JobMoves(r), doomed \subseteq doomed',
         \/ job'[r] = NoJob
         \/ /\ job'[r] # NoJob /\ job'[r].op = job[r].op /\ job'[r].root = job[r].root
            /\ job'[r].name = job[r].name /\ job'[r].at \notin {"unlink", "bindingWrite"}
  PROVE  JobOK(r)'
  BY DEF KeptInv, JobOK, name, root

(* ... the steps of a creation ...                                         *)
LEMMA CreateMoves ==
  ASSUME KeptInv, NEW r \in Slots,
         CliCreates(r) \/ CliCreateFails(r) \/ PepperReads(r) \/ PepperWrites(r) \/ Provisions(r)
  PROVE  RequestMoves(r)
<1> DiskTypeOK
  BY DEF KeptInv
<1> USE BothRoots
<1>1. /\ job[r] # NoJob /\ name(r) \in Names /\ job[r].copy \in Envs /\ job[r] \in Jobs
      /\ {"pepper", "pepperWrite", "provision"} \subseteq Places
  <2>1. job[r] # NoJob
    BY DEF CliCreates, CliCreateFails, PepperReads, PepperWrites, Provisions, At
  <2> QED
    BY <2>1, KindsOfJob DEF Places
<1>2. UNCHANGED <<binding, running, served, careful, doomed>>
  BY DEF CliCreates, CliCreateFails, PepperReads, PepperWrites, Provisions
<1>3. /\ database' \subseteq Names
      /\ failures' = failures \/ Failure
  BY <1>1 DEF CliCreates, CliCreateFails, PepperReads, PepperWrites, Provisions, DiskTypeOK
<1>4. dir' \in Trees /\ EnvsStay
  <2>1. CASE dir' = dir
    BY <2>1, SameDir
  <2>2. ASSUME NEW v \in Dirs, ~Exists("primary", name(r)),
               dir' = [dir EXCEPT !["primary"][name(r)] = v]
        PROVE  dir' \in Trees /\ EnvsStay
    <3>1. /\ dir' \in Trees
          /\ \A y \in Roots, m \in Names : y # "primary" \/ m # name(r) => dir'[y][m] = dir[y][m]
      BY <1>1, <2>2 DEF DiskTypeOK, Trees
    <3> QED
      BY <1>1, <2>2, <3>1, OneDir DEF HasEnv
  <2>3. CASE CliCreates(r)
    <3>1. \/ dir' = dir
          \/ /\ ~Exists("primary", name(r))
             /\ \E pepper \in BOOLEAN :
                  dir' = [dir EXCEPT !["primary"][name(r)] = [Fresh EXCEPT !.env.pepper = pepper]]
      BY <2>3 DEF CliCreates
    <3> QED
      BY <3>1, <2>1, <2>2, NewDirs
  <2>4. CASE CliCreateFails(r)
    BY <2>1, <2>2, <2>4, NewDirs DEF CliCreateFails
  <2>5. CASE PepperReads(r)
    BY <2>1, <2>5 DEF PepperReads
  <2>6. CASE PepperWrites(r)
    <3> DEFINE env == [job[r].copy EXCEPT !.pepper = TRUE]
    <3>1. env \in Envs
      BY <1>1 DEF Envs
    <3>2. \/ dir' = dir
          \/ /\ Exists("primary", name(r))
             /\ SetEnv("primary", name(r), env)
      BY <2>6 DEF PepperWrites
    <3> HIDE DEF env
    <3>3. ASSUME Exists("primary", name(r)), SetEnv("primary", name(r), env)
          PROVE  dir' \in Trees /\ EnvsStay
      <4>1. PICK n \in Names : n = name(r)
        BY <1>1
      <4>2. /\ dir' \in Trees /\ HasEnv("primary", n)'
            /\ \A y \in Roots, m \in Names : y # "primary" \/ m # n => dir'[y][m] = dir[y][m]
        BY <3>1, <3>3, <4>1, EnvIs
      <4> QED
        BY <4>2, OneDir
    <3> QED
      BY <2>1, <3>2, <3>3
  <2>7. CASE Provisions(r)
    BY <2>1, <2>2, <2>7, NewDirs DEF Provisions
  <2> QED
    BY <2>3, <2>4, <2>5, <2>6, <2>7
<1>5. JobMoves(r) /\ JobOK(r)'
  <2>1. CASE Answer(r)
    BY <2>1, RequestEnds
  <2>2. ASSUME NEW at \in {"pepper", "pepperWrite", "provision"}, Proceed(r, at)
        PROVE  JobMoves(r) /\ JobOK(r)'
    BY <1>1, <1>2, <2>2, Proceeds, GoesOn
  <2>3. ASSUME NEW copy \in Envs, NEW at \in {"pepperWrite", "provision"},
               job' = [job EXCEPT ![r].copy = copy, ![r].at = at]
        PROVE  JobMoves(r) /\ JobOK(r)'
    <3> DEFINE j == [job[r] EXCEPT !.copy = copy, !.at = at]
    <3>1. j \in Jobs
      BY <1>1, JobEdits
    <3>2. j.op = job[r].op /\ j.root = job[r].root /\ j.name = job[r].name /\ j.at = at
      BY <1>1 DEF Jobs
    <3>3. job' = [job EXCEPT ![r] = j]
      BY <2>3 DEF DiskTypeOK
    <3> HIDE DEF j
    <3>4. JobMoves(r) /\ job'[r] = j /\ job'[r] # NoJob
      BY <3>1, <3>3, Sets
    <3> QED
      BY <1>1, <1>2, <3>2, <3>4, GoesOn
  <2>4. CASE PepperReads(r)
    <3>1. ReadsEnv(r, "primary") \in Envs /\ NoCopy \in Envs
      BY <1>1, ReadsKinds
    <3> QED
      BY <2>3, <2>4, <3>1 DEF PepperReads
  <2> QED
    BY <2>1, <2>2, <2>4 DEF CliCreates, CliCreateFails, PepperWrites, Provisions
<1> QED
  BY <1>2, <1>3, <1>4, <1>5, CountsUp DEF RequestMoves, DiskTypeOK

(* One more edit of an `.env`.                                             *)
LEMMA Edits ==
  ASSUME DiskTypeOK, NEW n \in Names, Usable("primary", n),
         dir["primary"][n].env.content < MaxEdits,
         dir' = [dir EXCEPT !["primary"][n].env.content = @ + 1]
  PROVE  /\ dir' \in Trees /\ HasEnv("primary", n)'
         /\ dir'["primary"][n].env.content = dir["primary"][n].env.content + 1
         /\ dir'["primary"][n].env.content # Blank
         /\ dir'["primary"][n].known = dir["primary"][n].known
         /\ \A y \in Roots, m \in Names : y # "primary" \/ m # n => dir'[y][m] = dir[y][m]
<1> DEFINE old == dir["primary"][n].env
           env == [old EXCEPT !.content = @ + 1]
<1>1. dir \in Trees /\ dir["primary"][n] \in Dirs /\ old \in Envs /\ Exists("primary", n)
  BY KindsOfDir, BothRoots DEF Usable, HasEnv
<1>2. env \in Envs /\ env.content = old.content + 1 /\ env.content # Blank
  <2>1. old.content \in Nat
    BY <1>1 DEF Envs
  <2>2. old.content + 1 \in 0..Blank /\ old.content + 1 # Blank
    BY <2>1, StoreAssumption DEF Blank
  <2> QED
    BY <1>1, <2>2 DEF Envs
<1>3. SetEnv("primary", n, env)
  BY <1>1 DEF SetEnv, Trees, Dirs, Envs, Roots
<1> HIDE DEF env
<1>4. /\ dir' \in Trees /\ HasEnv("primary", n)' /\ dir'["primary"][n].env = env
      /\ dir'["primary"][n].known = dir["primary"][n].known
      /\ \A y \in Roots, m \in Names : y # "primary" \/ m # n => dir'[y][m] = dir[y][m]
  <2>1. "primary" \in Roots /\ Exists("primary", n) /\ env \in Envs
    BY <1>1, <1>2, BothRoots
  <2> QED
    BY ONLY DiskTypeOK, <1>3, <2>1, EnvIs
<1> QED
  BY <1>2, <1>4

(* ... of a change of the configuration ...                                *)
LEMMA ConfigureMoves ==
  ASSUME KeptInv, NEW r \in Slots, CliConfigures(r)
  PROVE  RequestMoves(r)
<1> DiskTypeOK
  BY DEF KeptInv
<1>1. job[r] # NoJob /\ Answer(r)
      /\ UNCHANGED <<binding, database, running, served, careful, doomed, failures>>
  BY DEF CliConfigures, At
<1>2. PICK n \in Names : n = name(r)
  BY <1>1, KindsOfJob
<1>3. dir' \in Trees /\ EnvsStay
  <2>1. CASE dir' = dir
    BY <2>1, SameDir
  <2>2. CASE dir' # dir
    <3>1. /\ Usable("primary", n) /\ dir["primary"][n].env.content < MaxEdits
          /\ dir' = [dir EXCEPT !["primary"][n].env.content = @ + 1]
      BY <1>2, <2>2 DEF CliConfigures
    <3>2. /\ dir' \in Trees /\ HasEnv("primary", n)'
          /\ \A y \in Roots, m \in Names : y # "primary" \/ m # n => dir'[y][m] = dir[y][m]
      BY <3>1, Edits
    <3> QED
      BY <3>2, OneDir, BothRoots
  <2> QED
    BY <2>1, <2>2
<1> QED
  BY <1>1, <1>3, RequestEnds DEF RequestMoves, DiskTypeOK

(* ... of a delete, which loses what is doomed ...                         *)
LEMMA DeleteMoves ==
  ASSUME KeptInv, NEW r \in Slots,
         ChecksRunning(r) \/ RemovesBinding(r) \/ dropDatabase(r) \/ RemovesDir(r)
  PROVE  RequestMoves(r)
<1> DiskTypeOK
  BY DEF KeptInv
<1>1. /\ job[r] # NoJob /\ job[r].op = "delete" /\ job[r].at \in {"check", "bindings"}
      /\ UNCHANGED <<running, served, careful, doomed>>
      /\ failures' = failures \/ Failure
      /\ database' \subseteq Names
  BY DEF ChecksRunning, RemovesBinding, dropDatabase, RemovesDir, At, isInstanceRunning,
         DiskTypeOK
<1>2. PICK n \in Names, x \in Roots : n = name(r) /\ x = root(r) /\ n \in doomed
  BY <1>1, KindsOfJob DEF KeptInv, JobOK
<1>3. binding' \in [Projects -> Bindings \cup {NoFile}]
  BY DEF ChecksRunning, RemovesBinding, dropDatabase, RemovesDir, DiskTypeOK
<1>4. dir' \in Trees /\ EnvsStay
  <2>1. CASE dir' = dir
    BY <2>1, SameDir
  <2>2. CASE dir' # dir
    <3>1. \/ dir' = [dir EXCEPT ![x][n] = NoFile]
          \/ /\ Exists(x, n)
             /\ dir' = [dir EXCEPT ![x][n] = [env |-> NoFile, known |-> NoneKnown]]
      BY <1>2, <2>2 DEF ChecksRunning, RemovesBinding, dropDatabase, RemovesDir
    <3>2. PICK v \in Dirs \cup {NoFile} :
            dir' = [dir EXCEPT ![x][n] = v] /\ (v # NoFile => Exists(x, n))
      BY <3>1, NewDirs
    <3>3. /\ dir' \in Trees /\ dir'[x][n] = v
          /\ \A y \in Roots, m \in Names : y # x \/ m # n => dir'[y][m] = dir[y][m]
      BY <1>2, <3>2 DEF Trees, DiskTypeOK
    <3>4. (x = "legacy" /\ Exists(x, n)') => Exists(x, n)
      BY <3>2, <3>3 DEF Exists
    <3>5. CASE Exists(x, n)
      BY <1>2, <3>3, <3>4, <3>5, OneDir
    <3>6. CASE ~Exists(x, n)
      <4>1. dir' = dir
        BY <3>2, <3>6 DEF DiskTypeOK, Exists
      <4> QED
        BY <2>2, <4>1
    <3> QED
      BY <3>5, <3>6
  <2> QED
    BY <2>1, <2>2
<1>5. JobMoves(r) /\ JobOK(r)'
  <2>1. CASE Answer(r)
    BY <2>1, RequestEnds
  <2>2. CASE Proceed(r, "bindings")
    <3>1. "bindings" \in Places
      BY DEF Places
    <3> QED
      BY <1>1, <2>2, <3>1, Proceeds, GoesOn
  <2>3. ASSUME NEW j \in Jobs, job' = [job EXCEPT ![r] = j],
               j.op = job[r].op, j.root = job[r].root, j.name = job[r].name, j.at = job[r].at
        PROVE  JobMoves(r) /\ JobOK(r)'
    <3>1. JobMoves(r) /\ job'[r] = j /\ job'[r] # NoJob
      BY <2>3, Sets
    <3> QED
      BY <1>1, <2>3, <3>1, GoesOn
  <2>4. job[r] \in Jobs
    BY <1>1, KindsOfJob
  <2>5. ASSUME NEW p \in Projects, job' = [job EXCEPT ![r].todo = @ \ {p}]
        PROVE  JobMoves(r) /\ JobOK(r)'
    <3> DEFINE todo == job[r].todo \ {p}
               j == [job[r] EXCEPT !.todo = todo]
    <3>1. todo \in SUBSET Projects
      BY <1>1, KindsOfJob
    <3>2. job' = [job EXCEPT ![r] = j]
      BY <2>5 DEF DiskTypeOK
    <3> HIDE DEF todo
    <3>3. j \in Jobs
      BY <2>4, <3>1, JobEdits
    <3>4. j.op = job[r].op /\ j.root = job[r].root /\ j.name = job[r].name /\ j.at = job[r].at
      BY <2>4 DEF Jobs
    <3> HIDE DEF j
    <3> QED
      BY <2>3, <3>2, <3>3, <3>4
  <2>6. ASSUME job' = [job EXCEPT ![r].drop = FALSE]
        PROVE  JobMoves(r) /\ JobOK(r)'
    <3> DEFINE j == [job[r] EXCEPT !.drop = FALSE]
    <3>1. job' = [job EXCEPT ![r] = j]
      BY <2>6 DEF DiskTypeOK
    <3>2. j \in Jobs
      BY <2>4, JobEdits
    <3>3. j.op = job[r].op /\ j.root = job[r].root /\ j.name = job[r].name /\ j.at = job[r].at
      BY <2>4 DEF Jobs
    <3> HIDE DEF j
    <3> QED
      BY <2>3, <3>1, <3>2, <3>3
  <2> QED
    <3>1. ChecksRunning(r) => Answer(r) \/ Proceed(r, "bindings")
      BY DEF ChecksRunning
    <3>2. RemovesBinding(r) => \/ Answer(r)
                               \/ \E p \in job[r].todo : job' = [job EXCEPT ![r].todo = @ \ {p}]
      BY DEF RemovesBinding
    <3>3. dropDatabase(r) => Answer(r) \/ job' = [job EXCEPT ![r].drop = FALSE]
      BY DEF dropDatabase
    <3>4. RemovesDir(r) => Answer(r)
      BY DEF RemovesDir
    <3>5. job[r].todo \subseteq Projects
      BY <1>1, KindsOfJob
    <3> QED
      BY <2>1, <2>2, <2>5, <2>6, <3>1, <3>2, <3>3, <3>4, <3>5
<1> QED
  BY <1>1, <1>3, <1>4, <1>5, CountsUp DEF RequestMoves, DiskTypeOK

(* ... and of a migration, which moves and loses nothing.                  *)
LEMMA MigrateMoves ==
  ASSUME KeptInv, NEW r \in Slots,
         \/ MayMove(r) \/ Renames(r) \/ Copies(r) \/ Unlinks(r) \/ RewriteReads(r)
         \/ RewriteWrites(r) \/ RewritesMeta(r) \/ BindingReads(r) \/ BindingWrites(r)
         \/ Migrated(r)
  PROVE  RequestMoves(r)
<1> DiskTypeOK
  BY DEF KeptInv
<1> USE BothRoots
<1>1. /\ job[r] # NoJob /\ job[r].op = "migrate"
      /\ UNCHANGED <<database, running, served, careful, doomed>>
      /\ failures' = failures \/ Failure
  BY Zenon DEF MayMove, Renames, Copies, Unlinks, RewriteReads, RewriteWrites, RewritesMeta,
         BindingReads, BindingWrites, Migrated, At, isInstanceRunning
<1>2. /\ job[r] \in Jobs /\ job[r].copy \in Envs /\ job[r].project \in Projects
      /\ job[r].todo \in SUBSET Projects /\ root(r) = "legacy"
      /\ {"move", "unlink", "env", "envWrite", "meta", "bindings", "bindingWrite"}
           \subseteq Places
  BY <1>1, KindsOfJob DEF KeptInv, JobOK, Places
<1>3. PICK n \in Names : n = name(r)
  BY <1>1, KindsOfJob
<1>4. binding' \in [Projects -> Bindings \cup {NoFile}]
  <2>1. CASE binding' = binding
    BY <2>1 DEF DiskTypeOK
  <2>2. CASE binding' # binding
    <3> DEFINE b == [job[r].read EXCEPT !.root = "primary"]
    <3>1. /\ job[r].at = "bindingWrite"
          /\ binding' = [binding EXCEPT ![job[r].project] = b]
      BY <2>2, Zenon DEF MayMove, Renames, Copies, Unlinks, RewriteReads, RewriteWrites,
                  RewritesMeta, BindingReads, BindingWrites, Migrated, At
    <3>2. job[r].read \in Bindings
      BY <1>1, <3>1, KindsOfJob DEF KeptInv, JobOK
    <3>3. b \in Bindings
      BY <3>2 DEF Bindings
    <3> HIDE DEF b
    <3> QED
      BY <3>1, <3>3, <1>2 DEF DiskTypeOK
  <2> QED
    BY <2>1, <2>2
<1>5. dir' \in Trees /\ EnvsStay
  <2>1. dir \in Trees /\ dir["legacy"][n] \in Dirs \cup {NoFile}
    BY KindsOfDir
  <2>2. CASE dir' = dir
    BY <2>2, SameDir
  <2>3. CASE Renames(r) /\ dir' # dir
    <3>1. /\ Exists("legacy", n) /\ ~Exists("primary", n)
          /\ dir' = [[dir EXCEPT !["primary"][n] = dir["legacy"][n]] EXCEPT !["legacy"][n] = NoFile]
      BY <1>3, <2>3 DEF Renames, Copied
    <3>2. /\ dir' \in Trees /\ dir'["primary"][n] = dir["legacy"][n]
          /\ dir'["legacy"][n] = NoFile
          /\ \A y \in Roots, m \in Names : m # n => dir'[y][m] = dir[y][m]
      BY <2>1, <3>1 DEF Trees
    <3> QED
      BY <3>1, <3>2 DEF KeptInv, LegacyHasEnv, EnvsStay, HasEnv, Exists
  <2>4. CASE Copies(r) /\ dir' # dir
    <3>1. Exists("legacy", n) /\ dir' = [dir EXCEPT !["primary"][n] = dir["legacy"][n]]
      BY <1>3, <2>4 DEF Copies, Copied
    <3>2. /\ dir' \in Trees /\ dir'["primary"][n] = dir["legacy"][n]
          /\ \A y \in Roots, m \in Names : y # "primary" \/ m # n => dir'[y][m] = dir[y][m]
      BY <2>1, <3>1 DEF Trees
    <3> QED
      BY <3>1, <3>2 DEF KeptInv, LegacyHasEnv, EnvsStay, HasEnv, Exists
  <2>5. CASE Unlinks(r) /\ dir' # dir
    <3>1. job[r].at = "unlink" /\ dir' = [dir EXCEPT !["legacy"][n] = NoFile]
      BY <1>3, <2>5 DEF Unlinks, At
    <3>2. HasEnv("primary", n) \/ n \in doomed
      BY <1>1, <1>3, <3>1 DEF KeptInv, JobOK
    <3>3. /\ dir' \in Trees /\ dir'["legacy"][n] = NoFile
          /\ \A y \in Roots, m \in Names : y # "legacy" \/ m # n => dir'[y][m] = dir[y][m]
      BY <2>1, <3>1 DEF Trees
    <3> QED
      BY <3>2, <3>3 DEF KeptInv, LegacyHasEnv, EnvsStay, HasEnv, Exists
  <2>6. CASE RewriteWrites(r) /\ dir' # dir
    <3>1. Exists("primary", n) /\ SetEnv("primary", n, job[r].copy) /\ job[r].at = "envWrite"
      BY <1>3, <2>6 DEF RewriteWrites, At
    <3>2. /\ dir' \in Trees /\ HasEnv("primary", n)'
          /\ \A y \in Roots, m \in Names : y # "primary" \/ m # n => dir'[y][m] = dir[y][m]
      BY <1>2, <3>1, EnvIs
    <3> QED
      BY <3>2, OneDir
  <2> QED
    BY <2>2, <2>3, <2>4, <2>5, <2>6, Zenon DEF MayMove, RewriteReads, RewritesMeta, BindingReads,
       BindingWrites, Migrated
<1>6. JobMoves(r) /\ JobOK(r)'
  <2>1. CASE Answer(r)
    BY <2>1, RequestEnds
  <2>2. ASSUME NEW at \in {"move", "env", "meta", "bindings"}, Proceed(r, at)
        PROVE  JobMoves(r) /\ JobOK(r)'
    BY <1>1, <1>2, <2>2, Proceeds, GoesOn
  <2>3. CASE Copies(r) /\ Proceed(r, "unlink")
    <3>1. /\ JobMoves(r) /\ job'[r] # NoJob /\ job'[r].at = "unlink"
          /\ job'[r].op = job[r].op /\ job'[r].root = job[r].root /\ job'[r].name = job[r].name
      BY <1>1, <1>2, <2>3, Proceeds
    <3>2. HasEnv("primary", n)' \/ n \in doomed
      <4>1. Exists("legacy", n) /\ dir' = [dir EXCEPT !["primary"][n] = dir["legacy"][n]]
        BY <1>3, <2>3, <3>1 DEF Copies, Copied, Answer, DiskTypeOK
      <4>2. dir'["primary"][n] = dir["legacy"][n]
        BY <4>1 DEF DiskTypeOK
      <4> QED
        BY <4>1, <4>2 DEF KeptInv, LegacyHasEnv, HasEnv, Exists
    <3>3. name(r)' = n /\ root(r)' = "legacy" /\ job'[r].op = "migrate"
      BY <1>1, <1>2, <1>3, <3>1 DEF name, root
    <3> QED
      BY <1>1, <3>1, <3>2, <3>3 DEF JobOK
  <2>4. ASSUME NEW j \in Jobs, job' = [job EXCEPT ![r] = j],
               j.op = job[r].op, j.root = job[r].root, j.name = job[r].name, j.at # "unlink",
               j.at = "bindingWrite" => j.read # NoFile
        PROVE  JobMoves(r) /\ JobOK(r)'
    <3>1. JobMoves(r) /\ job'[r] = j /\ job'[r] # NoJob
      BY <2>4, Sets
    <3> QED
      BY <1>1, <1>2, <2>4, <3>1 DEF JobOK, name, root
  <2>5. CASE RewriteReads(r)
    <3> DEFINE copy == ReadsEnv(r, "primary")
               at == IF HasEnv("primary", name(r)) THEN "envWrite" ELSE "meta"
               j == [job[r] EXCEPT !.copy = copy, !.at = at]
    <3>1. copy \in Envs /\ at \in {"envWrite", "meta"} /\ at \in Places
      BY <1>1, <1>2, ReadsKinds
    <3>2. job' = [job EXCEPT ![r] = j]
      BY <2>5 DEF RewriteReads, DiskTypeOK
    <3> HIDE DEF copy, at
    <3>3. j \in Jobs
      BY <1>2, <3>1, JobEdits
    <3>4. j.op = job[r].op /\ j.root = job[r].root /\ j.name = job[r].name /\ j.at = at
      BY <1>2 DEF Jobs
    <3> HIDE DEF j
    <3> QED
      BY <2>4, <3>1, <3>2, <3>3, <3>4
  <2>6. CASE BindingReads(r)
    <3>1. PICK p \in job[r].todo :
            LET stale == LeadsTo(p, "legacy", name(r))
            IN job' = [job EXCEPT ![r].todo = @ \ {p}, ![r].project = p,
                                  ![r].read = IF stale THEN binding[p] ELSE NoFile,
                                  ![r].at = IF stale THEN "bindingWrite" ELSE "bindings"]
      BY <2>6 DEF BindingReads
    <3> DEFINE stale == LeadsTo(p, "legacy", name(r))
               todo == job[r].todo \ {p}
               read == IF stale THEN binding[p] ELSE NoFile
               at == IF stale THEN "bindingWrite" ELSE "bindings"
               j == [job[r] EXCEPT !.todo = todo, !.project = p, !.read = read, !.at = at]
    <3>2. /\ p \in Projects /\ todo \in SUBSET Projects /\ read \in Bindings \cup {NoFile}
          /\ at \in Places /\ at # "unlink" /\ (at = "bindingWrite" => read # NoFile)
      BY <1>2 DEF LeadsTo, DiskTypeOK
    <3>3. job' = [job EXCEPT ![r] = j]
      BY <3>1 DEF DiskTypeOK
    <3> HIDE DEF todo, read, at
    <3>4. j \in Jobs
      BY <1>2, <3>2, JobEdits
    <3>5. j.op = job[r].op /\ j.root = job[r].root /\ j.name = job[r].name /\ j.at = at
          /\ j.read = read
      BY <1>2 DEF Jobs
    <3> HIDE DEF j
    <3> QED
      BY <2>4, <3>2, <3>3, <3>4, <3>5
  <2> QED
    BY <2>1, <2>2, <2>3, <2>5, <2>6 DEF MayMove, Renames, Copies, Unlinks, RewriteWrites,
       RewritesMeta, BindingWrites, Migrated
<1> QED
  BY <1>1, <1>4, <1>5, <1>6, CountsUp DEF RequestMoves, DiskTypeOK

(* The bindings' handlers change no more of the directories than the lists *)
(* of projects, in the primary root.                                       *)
SameButLists(d) ==
  /\ d \in Trees
  /\ \A n \in Names :
       /\ d["legacy"][n] = dir["legacy"][n]
       /\ d["primary"][n] \in Dirs <=> dir["primary"][n] \in Dirs
       /\ d["primary"][n] = NoFile <=> dir["primary"][n] = NoFile
       /\ dir["primary"][n] # NoFile => d["primary"][n].env = dir["primary"][n].env

(* One entry of one list more or less.                                     *)
LEMMA Relists ==
  ASSUME DiskTypeOK, NEW d, SameButLists(d), NEW n \in Names, Exists("primary", n),
         NEW p \in Projects, NEW mode \in Modes \cup {NoFile}
  PROVE  SameButLists(Registered(d, n, p, mode))
<1>1. d["primary"][n] \in Dirs /\ d \in Trees /\ dir["primary"][n] \in Dirs
  BY KindsOfDir, BothRoots DEF SameButLists
<1> DEFINE e == Registered(d, n, p, mode)
<1>2. /\ e \in Trees /\ e["primary"][n] \in Dirs
      /\ e["primary"][n].env = d["primary"][n].env
      /\ \A y \in Roots, m \in Names : y # "primary" \/ m # n => e[y][m] = d[y][m]
  BY <1>1, PutListed
<1> HIDE DEF e
<1>3. SameButLists(e)
  BY <1>1, <1>2, AbsentIsApart, BothRoots DEF SameButLists
<1> QED
  BY <1>3 DEF e

(* A list that is replaced.                                                *)
LEMMA Relisted ==
  ASSUME DiskTypeOK, NEW n \in Names, Exists("primary", n), NEW known \in ProjectLists,
         dir' = [dir EXCEPT !["primary"][n].known = known]
  PROVE  SameButLists(dir') /\ dir'["primary"][n].known = known
         /\ \A y \in Roots, m \in Names : y # "primary" \/ m # n => dir'[y][m] = dir[y][m]
<1> DEFINE v == [dir["primary"][n] EXCEPT !.known = known]
<1>1. dir \in Trees /\ dir["primary"][n] \in Dirs
  BY KindsOfDir, BothRoots
<1>2. v \in Dirs /\ v.known = known /\ v.env = dir["primary"][n].env
  BY <1>1 DEF Dirs
<1>3. dir' = [dir EXCEPT !["primary"][n] = v]
  BY <1>1, BothRoots DEF Trees
<1> HIDE DEF v
<1>4. /\ dir' \in Trees /\ dir'["primary"][n] = v
      /\ \A y \in Roots, m \in Names : y # "primary" \/ m # n => dir'[y][m] = dir[y][m]
  BY <1>1, <1>2, <1>3, BothRoots DEF Trees
<1> QED
  BY <1>1, <1>2, <1>4, AbsentIsApart, BothRoots DEF SameButLists

(* A step that changes lists only loses no `.env`.                         *)
LEMMA SameEnvsStay ==
  ASSUME KeptInv, SameButLists(dir')
  PROVE  EnvsStay
<1> \A n \in Names : dir["primary"][n] \in Dirs \cup {NoFile}
  BY KindsOfDir, BothRoots DEF KeptInv
<1> QED
  BY AbsentIsApart DEF SameButLists, KeptInv, EnvsStay, LegacyHasEnv, HasEnv, Exists

LEMMA SameList == DiskTypeOK => SameButLists(dir)
  BY KindsOfDir DEF SameButLists

(* The kinds of what the bindings' handlers write.                         *)
LEMMA BindingKinds ==
  ASSUME DiskTypeOK, NEW n \in Names, Usable("primary", n), NEW mode \in Modes
  PROVE  BindingTo(n, mode) \in Bindings
<1>1. dir["primary"][n].env \in Envs /\ dir["primary"][n].env.content # Blank
  BY KindsOfDir, BothRoots DEF Usable
<1>2. dir["primary"][n].env.content \in 0..MaxEdits
  BY <1>1, StoreAssumption DEF Envs, Blank
<1> QED
  BY <1>2, BothRoots DEF BindingTo, Bindings

LEMMA ListKinds ==
  ASSUME DiskTypeOK, NEW n \in Names, Exists("primary", n)
  PROVE  /\ Live(n) \in ProjectLists /\ dir["primary"][n].known \in ProjectLists
         /\ \A p \in Projects, mode \in Modes \cup {NoFile} : MovedMode(n, mode)[p] \in Modes
<1>1. dir["primary"][n].known \in ProjectLists
  BY KindsOfDir, BothRoots
<1>2. \A p \in Projects : binding[p] # NoFile => binding[p].mode \in Modes
  BY DEF DiskTypeOK, Bindings
<1>3. Live(n) \in ProjectLists
  BY <1>1, <1>2 DEF Live, ProjectLists
<1>4. \A p \in Projects, mode \in Modes \cup {NoFile} : MovedMode(n, mode)[p] \in Modes
  BY <1>1 DEF MovedMode, ProjectLists, Modes
<1> QED
  BY <1>1, <1>3, <1>4

(* What the bindings' handlers keep.                                       *)
LEMMA BindingsMove ==
  ASSUME KeptInv, BindingStep
  PROVE  /\ UNCHANGED <<database, running, job, doomed>>
         /\ SameButLists(dir')
         /\ binding' \in [Projects -> Bindings \cup {NoFile}]
         /\ failures' = failures \/ Failure
         /\ served' \in 0..MaxRequests /\ careful' \in BOOLEAN
<1> DiskTypeOK
  BY DEF KeptInv
<1>1. ASSUME NEW n \in Names, NEW p \in Projects, NEW mode \in Modes, Bind(n, p, mode)
      PROVE  SameButLists(dir') /\ binding' \in [Projects -> Bindings \cup {NoFile}]
  <2>1. Exists("primary", n) /\ BindingTo(n, mode) \in Bindings
    BY <1>1, BindingKinds DEF Bind, Usable, HasEnv
  <2>2. binding' = [binding EXCEPT ![p] = BindingTo(n, mode)]
    BY <1>1 DEF Bind
  <2>3. dir' = dir \/ dir' = Registered(dir, n, p, mode)
    BY <1>1 DEF Bind
  <2> QED
    BY <2>1, <2>2, <2>3, SameList, Relists DEF DiskTypeOK
<1>2. ASSUME NEW n \in Names, NEW p \in Projects, NEW mode \in Modes, SetMode(n, p, mode)
      PROVE  SameButLists(dir') /\ binding' \in [Projects -> Bindings \cup {NoFile}]
  <2>1. Exists("primary", n) /\ binding[p] \in Bindings
    BY <1>2 DEF SetMode, HasEnv, DiskTypeOK
  <2> DEFINE b == [binding[p] EXCEPT !.mode = mode]
  <2>2. b \in Bindings
    BY <2>1 DEF Bindings
  <2>3. binding' = [binding EXCEPT ![p] = b]
    BY <1>2 DEF SetMode, DiskTypeOK
  <2> HIDE DEF b
  <2>4. dir' = dir \/ dir' = Registered(dir, n, p, mode)
    BY <1>2 DEF SetMode
  <2> QED
    BY <2>1, <2>2, <2>3, <2>4, SameList, Relists DEF DiskTypeOK
<1>3. ASSUME NEW n \in Names, NEW p \in Projects, NEW target \in Names,
             NEW mode \in Modes \cup {NoFile}, Rebind(n, p, target, mode)
      PROVE  SameButLists(dir') /\ binding' \in [Projects -> Bindings \cup {NoFile}]
  <2>1. /\ Exists("primary", n) /\ Usable("primary", target) /\ Exists("primary", target)
        /\ binding[p] \in Bindings
    BY <1>3 DEF Rebind, Usable, HasEnv, DiskTypeOK
  <2>2. Rebound(p, target, mode) \in Bindings
    <3>1. binding[p].mode \in Modes
      BY <2>1 DEF Bindings
    <3> DEFINE m == IF mode = NoFile THEN binding[p].mode ELSE mode
    <3>2. m \in Modes
      BY <3>1
    <3> HIDE DEF m
    <3>3. BindingTo(target, m) \in Bindings
      BY <2>1, <3>2, BindingKinds
    <3> QED
      BY <3>3 DEF Rebound, m
  <2>3. binding' = [binding EXCEPT ![p] = Rebound(p, target, mode)]
    BY <1>3 DEF Rebind
  <2>4. \/ dir' = dir \/ dir' = Registered(dir, n, p, NoFile)
        \/ dir' = Registered(dir, n, p, mode)
        \/ dir' = Registered(Registered(dir, n, p, NoFile), target, p, MovedMode(n, mode)[p])
    BY <1>3 DEF Rebind, Moved
  <2>5. MovedMode(n, mode)[p] \in Modes
    BY <2>1, ListKinds
  <2>6. /\ SameButLists(Registered(dir, n, p, NoFile))
        /\ SameButLists(Registered(dir, n, p, mode))
    BY <2>1, SameList, Relists
  <2>7. SameButLists(Registered(Registered(dir, n, p, NoFile), target, p, MovedMode(n, mode)[p]))
    BY <2>1, <2>5, <2>6, Relists
  <2> QED
    BY <2>2, <2>3, <2>4, <2>6, <2>7, SameList DEF DiskTypeOK
<1>4. ASSUME NEW n \in Names, NEW p \in Projects, Unbind(n, p)
      PROVE  SameButLists(dir') /\ binding' \in [Projects -> Bindings \cup {NoFile}]
  <2>1. Exists("primary", n) /\ dir' = Registered(dir, n, p, NoFile)
        /\ (binding' = binding \/ binding' = [binding EXCEPT ![p] = NoFile])
    BY <1>4 DEF Unbind, HasEnv
  <2> QED
    BY <2>1, SameList, Relists DEF DiskTypeOK
<1>5. ASSUME NEW n \in Names, List(n) \/ RegistryLost(n)
      PROVE  SameButLists(dir') /\ binding' \in [Projects -> Bindings \cup {NoFile}]
  <2>1. /\ Exists("primary", n) /\ binding' = binding
        /\ \/ dir' = dir
           \/ dir' = [dir EXCEPT !["primary"][n].known = Live(n)]
           \/ dir' = [dir EXCEPT !["primary"][n].known = NoneKnown]
    BY <1>5 DEF List, RegistryLost, HasEnv
  <2>2. Live(n) \in ProjectLists /\ NoneKnown \in ProjectLists
    BY <2>1, ListKinds, NewDirs
  <2> QED
    BY <2>1, <2>2, SameList, Relisted DEF DiskTypeOK
<1>6. UNCHANGED <<database, running, job, doomed>> /\ (failures' = failures \/ Failure)
  <2> DEFINE Same == /\ UNCHANGED <<database, running, job, doomed>>
                     /\ failures' = failures \/ Failure
  <2>1. \A n, p, target, mode :
          /\ Bind(n, p, mode) => Same
          /\ SetMode(n, p, mode) => Same
          /\ Unbind(n, p) => Same
          /\ List(n) => Same
          /\ RegistryLost(n) => Same
    <3>1. \A n, p, mode : Bind(n, p, mode) => Same
      BY DEF Bind
    <3>2. \A n, p, mode : SetMode(n, p, mode) => Same
      BY DEF SetMode
    <3>3. \A n, p : Unbind(n, p) => Same
      BY DEF Unbind
    <3>4. \A n : List(n) => Same
      BY DEF List
    <3>5. \A n : RegistryLost(n) => Same
      BY DEF RegistryLost
    <3> HIDE DEF Same
    <3> QED
      BY <3>1, <3>2, <3>3, <3>4, <3>5
  <2>2. \A n, p, target, mode : Rebind(n, p, target, mode) => Same
    BY DEF Rebind
  <2> HIDE DEF Same
  <2>3. Same
    BY <2>1, <2>2 DEF BindingStep
  <2> QED
    BY <2>3 DEF Same
<1>7. served' \in 0..MaxRequests /\ careful' \in BOOLEAN
  <2>1. CASE UNCHANGED <<served, careful>>
    BY <2>1 DEF DiskTypeOK
  <2>2. ASSUME NEW proper, Serve(proper)
        PROVE  served' \in 0..MaxRequests /\ careful' \in BOOLEAN
    BY <2>2, CountsUp
  <2>3. ASSUME NEW n \in Names, NEW p \in Projects, NEW target \in Names, NEW mode,
               Rebind(n, p, target, mode)
        PROVE  Serve(target = n => LeadsTo(p, "primary", n))
    BY <2>3 DEF Rebind
  <2>4. ASSUME ~ \E n \in Names, p \in Projects, target \in Names, mode \in Modes \cup {NoFile} :
                   Rebind(n, p, target, mode)
        PROVE  Serve(TRUE) \/ UNCHANGED <<served, careful>>
    BY <2>4 DEF BindingStep, Bind, SetMode, Unbind, List, RegistryLost
  <2> QED
    BY <2>1, <2>2, <2>3, <2>4, Zenon
<1> QED
  BY <1>1, <1>2, <1>3, <1>4, <1>5, <1>6, <1>7 DEF BindingStep

(* Every step of a request.                                                *)
LEMMA RequestKeeps ==
  ASSUME KeptInv, NEW r \in Slots, Arrive(r) \/ FileStep(r)
  PROVE  RequestMoves(r)
  BY ArriveMoves, CreateMoves, ConfigureMoves, DeleteMoves, MigrateMoves DEF FileStep

(* Every step: what all of them keep, and that only deletes and moves take *)
(* an `.env` away.                                                         *)
LEMMA StepKeeps ==
  ASSUME KeptInv, [DiskNext]_diskVars
  PROVE  KeptInv' /\ EnvsStay
<1> DiskTypeOK
  BY DEF KeptInv
<1>1. ASSUME NEW r \in Slots, Arrive(r) \/ FileStep(r)
      PROVE  KeptInv' /\ EnvsStay
  <2>1. RequestMoves(r)
    BY <1>1, RequestKeeps
  <2>2. DiskTypeOK'
    BY <2>1 DEF RequestMoves, JobMoves, DiskTypeOK, Trees
  <2>3. LegacyHasEnv'
    BY <2>1 DEF RequestMoves, EnvsStay, LegacyHasEnv
  <2>4. ASSUME NEW q \in Slots \ {r}  PROVE JobOK(q)'
    <3>1. job'[q] = job[q] /\ JobOK(q) /\ EnvsStay /\ doomed \subseteq doomed'
      BY <2>1 DEF RequestMoves, JobMoves, KeptInv
    <3>2. CASE job[q] = NoJob
      BY <3>1, <3>2 DEF JobOK
    <3>3. CASE job[q] # NoJob
      <4>1. PICK n \in Names : n = name(q)
        BY <3>3, KindsOfJob
      <4>2. HasEnv("primary", n) => HasEnv("primary", n)' \/ n \in doomed
        BY <3>1 DEF EnvsStay
      <4>3. name(q)' = n /\ root(q)' = root(q)
        BY <3>1, <4>1 DEF name, root
      <4>4. job[q].at = "unlink" => HasEnv("primary", n)' \/ n \in doomed'
        BY <3>1, <3>3, <4>1, <4>2 DEF JobOK
      <4>5. job[q].at = "unlink" => HasEnv("primary", name(q))' \/ name(q)' \in doomed'
        BY <4>3, <4>4 DEF HasEnv, Exists
      <4> QED
        BY <3>1, <3>3, <4>1, <4>3, <4>5 DEF JobOK
    <3> QED
      BY <3>2, <3>3
  <2> QED
    BY <2>1, <2>2, <2>3, <2>4 DEF KeptInv, RequestMoves
<1>2. CASE BindingStep
  <2>1. /\ UNCHANGED <<database, running, job, doomed>> /\ SameButLists(dir')
        /\ binding' \in [Projects -> Bindings \cup {NoFile}]
        /\ failures' = failures \/ Failure
        /\ served' \in 0..MaxRequests /\ careful' \in BOOLEAN
    BY <1>2, BindingsMove
  <2>2. EnvsStay
    BY <2>1, SameEnvsStay
  <2>3. DiskTypeOK'
    BY <2>1, CountsUp DEF DiskTypeOK, SameButLists, Trees
  <2>4. LegacyHasEnv'
    BY <2>1, <2>2 DEF EnvsStay, LegacyHasEnv
  <2>5. ASSUME NEW q \in Slots PROVE JobOK(q)'
    <3>1. CASE job[q] = NoJob
      BY <2>1, <3>1 DEF JobOK
    <3>2. CASE job[q] # NoJob
      <4>1. PICK n \in Names : n = name(q)
        BY <3>2, KindsOfJob
      <4>2. name(q)' = n /\ root(q)' = root(q) /\ job'[q] = job[q]
        BY <2>1, <4>1 DEF name, root
      <4>3. job[q].at = "unlink" => HasEnv("primary", n)' \/ n \in doomed'
        BY <2>1, <2>2, <3>2, <4>1 DEF KeptInv, JobOK, EnvsStay
      <4>4. job[q].at = "unlink" => HasEnv("primary", name(q))' \/ name(q)' \in doomed'
        BY <4>2, <4>3 DEF HasEnv, Exists
      <4> QED
        BY <2>1, <3>2, <4>1, <4>2, <4>4 DEF KeptInv, JobOK
    <3> QED
      BY <3>1, <3>2
  <2> QED
    BY <2>2, <2>3, <2>4, <2>5 DEF KeptInv
<1>3. CASE (\E n \in Names : Starts(n) \/ Stops(n)) \/ Restart \/ UNCHANGED diskVars
  <2>1. /\ UNCHANGED <<dir, binding, database, served, careful, doomed>>
        /\ failures' = failures \/ Failure
        /\ job' = job \/ job' = [r \in Slots |-> NoJob]
        /\ running' \subseteq Names
    BY <1>3 DEF Starts, Stops, Restart, diskVars, DiskTypeOK
  <2>2. EnvsStay
    BY <2>1, SameDir
  <2>3. DiskTypeOK'
    BY <2>1, CountsUp DEF DiskTypeOK
  <2>4. LegacyHasEnv'
    BY <2>1 DEF KeptInv, LegacyHasEnv, HasEnv, Exists
  <2>5. ASSUME NEW q \in Slots PROVE JobOK(q)'
    BY <2>1 DEF KeptInv, JobOK, HasEnv, Exists, name, root
  <2> QED
    BY <2>2, <2>3, <2>4, <2>5 DEF KeptInv
<1> QED
  BY <1>1, <1>2, <1>3 DEF DiskNext

(* The initial states.                                                     *)
LEMMA InitKeeps == DiskInit => KeptInv
<1> SUFFICES ASSUME DiskInit PROVE KeptInv
  OBVIOUS
<1>1. PICK n \in Names, x \in Roots, pepper \in BOOLEAN, bound \in SUBSET Projects :
       /\ dir = [y \in Roots |-> [m \in Names |->
                   IF y = x /\ m = n
                   THEN [env |-> [content |-> 0, pepper |-> pepper],
                         known |-> [p \in Projects |->
                                      IF p \in bound THEN "isolated" ELSE NoFile]]
                   ELSE NoFile]]
       /\ binding = [p \in Projects |->
                       IF p \in bound
                       THEN [instance |-> n, root |-> x, content |-> 0, mode |-> "isolated"]
                       ELSE NoFile]
       /\ database = {n}
  BY DEF DiskInit
<1> DEFINE env == [content |-> 0, pepper |-> pepper]
           known == [p \in Projects |-> IF p \in bound THEN "isolated" ELSE NoFile]
           d == [env |-> env, known |-> known]
           b == [instance |-> n, root |-> x, content |-> 0, mode |-> "isolated"]
<1>2. env \in Envs /\ known \in ProjectLists
  BY AbsentIsApart DEF Envs, ProjectLists, Modes
<1>3. b \in Bindings
  BY AbsentIsApart DEF Bindings, Modes
<1>4. /\ \A y \in Roots, m \in Names : dir[y][m] = IF y = x /\ m = n THEN d ELSE NoFile
      /\ dir = [y \in Roots |-> [m \in Names |-> IF y = x /\ m = n THEN d ELSE NoFile]]
      /\ binding = [p \in Projects |-> IF p \in bound THEN b ELSE NoFile]
  BY <1>1
<1> HIDE DEF env, known, b
<1>5. d \in Dirs /\ d.env = env /\ env # NoFile
  BY <1>2, AbsentIsApart DEF Dirs
<1> HIDE DEF d
<1>6. dir \in Trees /\ binding \in [Projects -> Bindings \cup {NoFile}]
  BY <1>3, <1>4, <1>5 DEF Trees
<1>7. DiskTypeOK
  BY <1>1, <1>6, StoreAssumption DEF DiskInit, DiskTypeOK, Trees
<1>8. LegacyHasEnv
  BY <1>4, <1>5, BothRoots DEF LegacyHasEnv, HasEnv, Exists
<1> QED
  BY <1>7, <1>8 DEF KeptInv, JobOK, DiskInit

(* Directories, bindings and the locals of every request keep their kinds, *)
(* whatever requests overlap, fail or are cut off by a restart.            *)
THEOREM DiskTypeCorrect == DiskSpec => []DiskTypeOK
<1>1. KeptInv => DiskTypeOK
  BY DEF KeptInv
<1> QED
  BY <1>1, InitKeeps, StepKeeps, PTL DEF DiskSpec

(* An instance's `.env` leaves the disk only if a DELETE of it was         *)
(* accepted: no migration loses it, with a rename or across file systems,  *)
(* and no failure, restart or request in between makes it.                 *)
THEOREM DeletesOnlyRemove == DiskSpec => OnlyDeleteRemoves
<1> DEFINE Kept == \A n \in Names :
              (\E x \in Roots : HasEnv(x, n)) /\ ~(\E x \in Roots : HasEnv(x, n)')
                => n \in doomed
<1>1. EnvsStay => Kept
  BY BothRoots DEF EnvsStay
<1>2. KeptInv /\ [DiskNext]_diskVars => Kept
  BY <1>1, StepKeeps
<1> HIDE DEF Kept
<1>3. DiskSpec => [][Kept]_diskVars
  BY <1>2, InitKeeps, StepKeeps, PTL DEF DiskSpec
<1> QED
  BY <1>3 DEF OnlyDeleteRemoves, Kept

\* Every binding leads to an instance that lists the project.
AllListed ==
  \A p \in Projects :
    binding[p] # NoFile => Listed(p, binding[p].root, binding[p].instance)

(* Unless something is being moved.                                        *)
LEMMA AllAreListed ==
  ASSUME SoundState, \A r \in Slots : ~Works(r, "migrate", HasCopy)
  PROVE  AllListed
  BY DEF SoundState, BindingOK, AllListed

(* While one request is under way there is no other.                       *)
LEMMA OthersIdle ==
  ASSUME SoundState, NEW r \in Slots, job[r] # NoJob
  PROVE  /\ \A q \in Slots \ {r} : job[q] = NoJob
         /\ ~Works(r, "migrate", HasCopy) => AllListed
<1>1. \A q \in Slots \ {r} : job[q] = NoJob
  BY DEF SoundState, OneJob
<1> QED
  BY <1>1, AllAreListed DEF Works

(* A step that writes no binding and takes nothing off a list.             *)
LEMMA ListedStays ==
  ASSUME DiskTypeOK, AllListed, binding' = binding,
         \A p \in Projects, x \in Roots, n \in Names :
           LeadsTo(p, x, n) /\ Listed(p, x, n) => Listed(p, x, n)'
  PROVE  \A p \in Projects : BindingOK(p)'
<1> SUFFICES ASSUME NEW p \in Projects, binding'[p] # NoFile
             PROVE  Listed(p, binding[p].root, binding[p].instance)'
  BY DEF BindingOK
<1>1. PICK x \in Roots, n \in Names : binding[p].root = x /\ binding[p].instance = n
  BY DEF DiskTypeOK, Bindings
<1>2. LeadsTo(p, x, n) /\ Listed(p, x, n)
  BY <1>1 DEF AllListed, LeadsTo
<1>3. Listed(p, x, n)'
  BY <1>2
<1>4. binding'[p].root = x /\ binding'[p].instance = n
  BY <1>1
<1> QED
  BY <1>3, <1>4 DEF Listed, Exists

(* A request that is not under way has nothing to know.                    *)
LEMMA IdleIsOK ==
  ASSUME NEW r, job'[r] = NoJob
  PROVE  OwnOK(r)'
  BY DEF OwnOK, CreateOK, DeleteOK, MigrateOK, Works

(* A step that writes no `.env`.                                           *)
LEMMA SameEnvs ==
  ASSUME DiskTypeOK, SoundState,
         \A x \in Roots, n \in Names :
           HasEnv(x, n)' => HasEnv(x, n) /\ dir'[x][n].env = dir[x][n].env
  PROVE  EnvsWhole' /\ EditsStay
  BY DEF SoundState, EnvsWhole, EditsStay

LEMMA SameDirEnvs ==
  ASSUME DiskTypeOK, SoundState, dir' = dir
  PROVE  EnvsWhole' /\ EditsStay
  BY SameEnvs DEF HasEnv, Exists

(* In a step in which nothing fails, nothing fails.                        *)
LEMMA NoFailure ==
  ASSUME DiskTypeOK, failures' = failures
  PROVE  ~Failure
<1> failures \in Nat
  BY StoreAssumption DEF DiskTypeOK
<1> QED
  BY DEF Failure

\* A directory that nobody is bound to appears.
LEMMA NewDirSound ==
  ASSUME DiskTypeOK, SoundState, AllListed, binding' = binding, NEW n \in Names,
         ~Exists("primary", n), NEW v \in Dirs, v.env # NoFile => v.env.content # Blank,
         dir' = [dir EXCEPT !["primary"][n] = v]
  PROVE  /\ EnvsWhole' /\ EditsStay /\ (\A p \in Projects : BindingOK(p)')
         /\ v.env # NoFile => HasEnv("primary", n)'
<1>1. /\ dir' \in Trees /\ dir'["primary"][n] = v
      /\ \A y \in Roots, m \in Names : y # "primary" \/ m # n => dir'[y][m] = dir[y][m]
  BY BothRoots DEF DiskTypeOK, Trees
<1>2. \A p \in Projects, x \in Roots, m \in Names :
        LeadsTo(p, x, m) /\ Listed(p, x, m) => Listed(p, x, m)'
  BY <1>1 DEF Listed, Exists
<1>3. \A p \in Projects : BindingOK(p)'
  BY <1>2, ListedStays
<1>4. ASSUME NEW x \in Roots, NEW m \in Names
      PROVE  /\ HasEnv(x, m)' => dir'[x][m].env.content # Blank
             /\ HasEnv(x, m) => dir'[x][m] = dir[x][m]
  BY <1>1 DEF SoundState, EnvsWhole, HasEnv, Exists
<1>5. EnvsWhole' /\ EditsStay
  BY <1>4 DEF EnvsWhole, EditsStay
<1>6. v.env # NoFile => HasEnv("primary", n)'
  BY <1>1, AbsentIsApart DEF HasEnv, Exists
<1> QED
  BY <1>3, <1>5, <1>6

\* An `.env` is written, with no other content or with one edit more.
LEMMA EnvSound ==
  ASSUME DiskTypeOK, SoundState, AllListed, binding' = binding, NEW n \in Names,
         HasEnv("primary", n)', HasEnv("primary", n),
         dir'["primary"][n].known = dir["primary"][n].known,
         \/ dir'["primary"][n].env.content = dir["primary"][n].env.content
         \/ dir'["primary"][n].env.content = dir["primary"][n].env.content + 1,
         dir'["primary"][n].env.content # Blank,
         \A y \in Roots, m \in Names : y # "primary" \/ m # n => dir'[y][m] = dir[y][m]
  PROVE  EnvsWhole' /\ EditsStay /\ (\A p \in Projects : BindingOK(p)')
<1>1. \A p \in Projects, x \in Roots, m \in Names :
        LeadsTo(p, x, m) /\ Listed(p, x, m) => Listed(p, x, m)'
  BY DEF Listed, Exists, HasEnv
<1>2. \A p \in Projects : BindingOK(p)'
  BY <1>1, ListedStays
<1>3. EnvsWhole'
  BY DEF SoundState, EnvsWhole, HasEnv, Exists
<1>4. EditsStay
  BY DEF EditsStay, HasEnv, Exists
<1> QED
  BY <1>2, <1>3, <1>4

(* The steps of requests, when the client is careful and nothing fails:    *)
(* those of a creation ...                                                 *)
LEMMA CreateSound ==
  ASSUME KeptInv, SoundState, NEW r \in Slots, failures' = failures,
         CliCreates(r) \/ CliCreateFails(r) \/ PepperReads(r) \/ PepperWrites(r) \/ Provisions(r)
  PROVE  SoundMoves(r)
<1> DiskTypeOK
  BY DEF KeptInv
<1> USE BothRoots
<1>1. /\ job[r] # NoJob /\ job[r].op = "create" /\ binding' = binding
      /\ job[r].at \in {"cli", "pepper", "pepperWrite", "provision"}
  BY DEF CliCreates, CliCreateFails, PepperReads, PepperWrites, Provisions, At
<1>2. AllListed /\ ~Failure /\ NoneLeft(r)
  BY <1>1, OthersIdle, NoFailure DEF Works, NoneLeft
<1>3. /\ job[r] \in Jobs /\ job[r].copy \in Envs
      /\ {"pepper", "pepperWrite", "provision"} \subseteq Places
  BY <1>1, KindsOfJob DEF Places
<1>4. PICK n \in Names : n = name(r)
  BY <1>1, KindsOfJob
<1>5. ASSUME dir' = dir
      PROVE  EnvsWhole' /\ EditsStay /\ (\A p \in Projects : BindingOK(p)')
  <2>1. \A p \in Projects, x \in Roots, m \in Names :
          LeadsTo(p, x, m) /\ Listed(p, x, m) => Listed(p, x, m)'
    BY <1>5 DEF Listed, Exists
  <2> QED
    BY <1>1, <1>2, <1>5, <2>1, ListedStays, SameDirEnvs
<1>6. ASSUME job'[r] # NoJob, job'[r].op = "create", job'[r].name = n,
             job'[r].at \in {"pepper", "pepperWrite"} => HasEnv("primary", n)',
             job'[r].at = "pepperWrite" => job'[r].copy = dir'["primary"][n].env
      PROVE  OwnOK(r)'
  BY <1>6 DEF OwnOK, CreateOK, DeleteOK, MigrateOK, Works, name, HasEnv, Exists
<1>7. CASE CliCreates(r)
  <2>1. CASE Answer(r) /\ dir' = dir
    BY <1>2, <1>5, <2>1, RequestEnds, IdleIsOK DEF SoundMoves
  <2>2. CASE ~(Answer(r) /\ dir' = dir)
    <3>1. PICK pepper \in BOOLEAN :
            /\ ~Exists("primary", n) /\ Proceed(r, "pepper")
            /\ dir' = [dir EXCEPT !["primary"][n] = [Fresh EXCEPT !.env.pepper = pepper]]
      BY <1>4, <1>7, <2>2 DEF CliCreates
    <3> DEFINE v == [Fresh EXCEPT !.env.pepper = pepper]
    <3>2. v \in Dirs /\ v.env # NoFile /\ v.env.content # Blank
      BY NewDirs, AbsentIsApart
    <3>3. dir' = [dir EXCEPT !["primary"][n] = v]
      BY <3>1
    <3> HIDE DEF v
    <3>4. /\ EnvsWhole' /\ EditsStay /\ (\A p \in Projects : BindingOK(p)')
          /\ HasEnv("primary", n)'
      BY <1>1, <1>2, <3>1, <3>2, <3>3, NewDirSound
    <3>5. /\ job'[r] # NoJob /\ job'[r].at = "pepper" /\ job'[r].op = job[r].op
          /\ job'[r].name = n
      BY <1>1, <1>3, <1>4, <3>1, Proceeds DEF name
    <3>6. OwnOK(r)'
      BY <1>1, <1>6, <3>4, <3>5
    <3> QED
      BY <1>2, <3>4, <3>6 DEF SoundMoves
  <2> QED
    BY <2>1, <2>2
<1>8. CASE CliCreateFails(r)
  BY <1>2, <1>8 DEF CliCreateFails
<1>9. CASE PepperReads(r)
  <2> DEFINE env == ReadsEnv(r, "primary")
             at == IF HasEnv("primary", n) /\ dir["primary"][n].env.pepper
                   THEN "provision" ELSE "pepperWrite"
             j == [job[r] EXCEPT !.copy = env, !.at = at]
  <2>1. job[r].at = "pepper" /\ dir' = dir
    BY <1>9 DEF PepperReads, At
  <2>2. HasEnv("primary", n)
    BY <1>1, <1>4, <2>1 DEF SoundState, OwnOK, CreateOK, Works
  <2>3. env = dir["primary"][n].env /\ env \in Envs
    BY <1>4, <2>2, KindsOfDir DEF ReadsEnv
  <2>4. job' = [job EXCEPT ![r] = j]
    BY <1>2, <1>4, <1>9 DEF PepperReads, DiskTypeOK
  <2>5. at \in {"provision", "pepperWrite"}
    OBVIOUS
  <2> HIDE DEF env, at
  <2>6. j \in Jobs /\ j.op = job[r].op /\ j.name = job[r].name /\ j.at = at /\ j.copy = env
    <3>1. at \in Places
      BY <1>3, <2>5
    <3>2. j \in Jobs
      BY <1>3, <2>3, <3>1, JobEdits
    <3> QED
      BY <1>3, <3>2 DEF Jobs
  <2> HIDE DEF j
  <2>7. job'[r] = j /\ job'[r] # NoJob
    BY <2>4, <2>6, Sets
  <2>8. OwnOK(r)'
    BY <1>1, <1>4, <1>6, <2>1, <2>2, <2>3, <2>6, <2>7 DEF name, HasEnv, Exists
  <2> QED
    BY <1>2, <1>5, <2>1, <2>8 DEF SoundMoves
<1>10. CASE PepperWrites(r)
  <2> DEFINE env == [job[r].copy EXCEPT !.pepper = TRUE]
  <2>1. env \in Envs /\ env.content = job[r].copy.content
    BY <1>3 DEF Envs
  <2>2. job[r].at = "pepperWrite" /\ Proceed(r, "provision")
    BY <1>10 DEF PepperWrites, At
  <2>3. HasEnv("primary", n) /\ job[r].copy = dir["primary"][n].env
    BY <1>1, <1>4, <2>2 DEF SoundState, OwnOK, CreateOK, Works
  <2>4. SetEnv("primary", n, env)
    BY <1>2, <1>4, <1>10, <2>3 DEF PepperWrites, HasEnv
  <2> HIDE DEF env
  <2>5. /\ dir' \in Trees /\ HasEnv("primary", n)' /\ dir'["primary"][n].env = env
        /\ dir'["primary"][n].known = dir["primary"][n].known
        /\ \A y \in Roots, m \in Names : y # "primary" \/ m # n => dir'[y][m] = dir[y][m]
    BY <2>1, <2>3, <2>4, EnvIs DEF HasEnv
  <2>6. /\ dir'["primary"][n].env.content = dir["primary"][n].env.content
        /\ dir'["primary"][n].env.content # Blank
    BY <2>1, <2>3, <2>5 DEF SoundState, EnvsWhole
  <2>7. EnvsWhole' /\ EditsStay /\ (\A p \in Projects : BindingOK(p)')
    BY <1>1, <1>2, <2>3, <2>5, <2>6, EnvSound
  <2>8. /\ job'[r] # NoJob /\ job'[r].at = "provision" /\ job'[r].op = job[r].op
        /\ job'[r].name = n
    BY <1>1, <1>3, <1>4, <2>2, Proceeds DEF name
  <2>9. OwnOK(r)'
    BY <1>1, <1>6, <2>8
  <2> QED
    BY <1>2, <2>7, <2>9 DEF SoundMoves
<1>11. CASE Provisions(r)
  <2>1. Answer(r)
    BY <1>11 DEF Provisions
  <2>2. EnvsWhole' /\ EditsStay /\ (\A p \in Projects : BindingOK(p)')
    <3>1. CASE dir' = dir
      BY <1>5, <3>1
    <3>2. CASE dir' # dir
      <4> DEFINE v == [env |-> NoFile, known |-> NoneKnown]
      <4>1. v \in Dirs /\ v.env = NoFile
        BY NewDirs
      <4>2. ~Exists("primary", n) /\ dir' = [dir EXCEPT !["primary"][n] = v]
        BY <1>4, <1>11, <3>2 DEF Provisions
      <4> HIDE DEF v
      <4> QED
        BY <1>1, <1>2, <4>1, <4>2, NewDirSound
    <3> QED
      BY <3>1, <3>2
  <2> QED
    BY <1>2, <2>1, <2>2, RequestEnds, IdleIsOK DEF SoundMoves
<1> QED
  BY <1>7, <1>8, <1>9, <1>10, <1>11

(* ... of a change of the configuration ...                                *)
LEMMA ConfigureSound ==
  ASSUME KeptInv, SoundState, NEW r \in Slots, CliConfigures(r)
  PROVE  SoundMoves(r)
<1> DiskTypeOK
  BY DEF KeptInv
<1>1. job[r] # NoJob /\ Answer(r) /\ binding' = binding /\ job[r].op = "configure"
      /\ job[r].at = "cli"
  BY DEF CliConfigures, At
<1>2. AllListed /\ NoneLeft(r) /\ OwnOK(r)'
  BY <1>1, OthersIdle, RequestEnds, IdleIsOK DEF Works, NoneLeft
<1>3. PICK n \in Names : n = name(r)
  BY <1>1, KindsOfJob
<1>4. EnvsWhole' /\ EditsStay /\ (\A p \in Projects : BindingOK(p)')
  <2>1. CASE dir' = dir
    <3>1. \A p \in Projects, x \in Roots, m \in Names :
            LeadsTo(p, x, m) /\ Listed(p, x, m) => Listed(p, x, m)'
      BY <2>1 DEF Listed, Exists
    <3> QED
      BY <1>1, <1>2, <2>1, <3>1, ListedStays, SameDirEnvs
  <2>2. CASE dir' # dir
    <3>1. /\ Usable("primary", n) /\ dir["primary"][n].env.content < MaxEdits
          /\ dir' = [dir EXCEPT !["primary"][n].env.content = @ + 1]
      BY <1>3, <2>2 DEF CliConfigures
    <3>2. /\ dir' \in Trees /\ HasEnv("primary", n)'
          /\ dir'["primary"][n].env.content = dir["primary"][n].env.content + 1
          /\ dir'["primary"][n].env.content # Blank
          /\ dir'["primary"][n].known = dir["primary"][n].known
          /\ \A y \in Roots, m \in Names : y # "primary" \/ m # n => dir'[y][m] = dir[y][m]
      BY <3>1, Edits
    <3>3. HasEnv("primary", n)
      BY <3>1 DEF Usable
    <3> QED
      BY <1>1, <1>2, <3>2, <3>3, EnvSound
  <2> QED
    BY <2>1, <2>2
<1> QED
  BY <1>2, <1>4 DEF SoundMoves

(* ... of a delete, whose list holds what leads to its directory ...       *)
LEMMA DeleteSound ==
  ASSUME KeptInv, SoundState, NEW r \in Slots, failures' = failures,
         ChecksRunning(r) \/ RemovesBinding(r) \/ dropDatabase(r) \/ RemovesDir(r)
  PROVE  SoundMoves(r)
<1> DiskTypeOK
  BY DEF KeptInv
<1> USE BothRoots
<1>1. /\ job[r] # NoJob /\ job[r].op = "delete" /\ job[r].at \in {"check", "bindings"}
  BY DEF ChecksRunning, RemovesBinding, dropDatabase, RemovesDir, At
<1>2. AllListed /\ ~Failure
  BY <1>1, OthersIdle, NoFailure DEF Works
<1>3. PICK n \in Names, x \in Roots : n = name(r) /\ x = root(r)
  BY <1>1, KindsOfJob
<1>4. \A p \in Projects : LeadsTo(p, x, n) => p \in job[r].todo
  BY <1>1, <1>3 DEF SoundState, OwnOK, DeleteOK, Works
<1>5. ASSUME dir' = dir, binding' = binding
      PROVE  EnvsWhole' /\ EditsStay /\ (\A p \in Projects : BindingOK(p)')
  <2>1. \A p \in Projects, y \in Roots, m \in Names :
          LeadsTo(p, y, m) /\ Listed(p, y, m) => Listed(p, y, m)'
    BY <1>5 DEF Listed, Exists
  <2> QED
    BY <1>2, <1>5, <2>1, ListedStays, SameDirEnvs
<1>6. ASSUME job'[r] # NoJob, job'[r].op = "delete", job'[r].name = n, job'[r].root = x,
             \A p \in Projects : LeadsTo(p, x, n)' => p \in job'[r].todo
      PROVE  OwnOK(r)'
  BY <1>6 DEF OwnOK, CreateOK, DeleteOK, MigrateOK, Works, name, root, LeadsTo
<1>7. CASE ChecksRunning(r)
  <2>1. /\ dir' = dir /\ binding' = binding /\ job[r].at = "check"
        /\ Answer(r) \/ Proceed(r, "bindings")
    BY <1>7 DEF ChecksRunning, At
  <2>2. NoneLeft(r)
    BY <2>1 DEF NoneLeft
  <2>3. OwnOK(r)'
    <3>1. CASE Answer(r)
      BY <3>1, RequestEnds, IdleIsOK
    <3>2. CASE Proceed(r, "bindings")
      <4>1. "bindings" \in Places
        BY DEF Places
      <4>2. /\ job'[r] # NoJob /\ job'[r].op = "delete" /\ job'[r].name = n
            /\ job'[r].root = x /\ job'[r].todo = job[r].todo
        BY <1>1, <1>3, <3>2, <4>1, Proceeds DEF name, root
      <4> QED
        BY <1>4, <1>6, <2>1, <4>2 DEF LeadsTo
    <3> QED
      BY <2>1, <3>1, <3>2
  <2> QED
    BY <1>5, <2>1, <2>2, <2>3 DEF SoundMoves
<1>8. CASE RemovesBinding(r)
  <2>1. PICK p \in job[r].todo : /\ binding' = [binding EXCEPT ![p] = NoFile]
                                 /\ job' = [job EXCEPT ![r].todo = @ \ {p}]
    BY <1>2, <1>8 DEF RemovesBinding
  <2> DEFINE todo == job[r].todo \ {p}
             j == [job[r] EXCEPT !.todo = todo]
  <2>2. dir' = dir /\ job[r] \in Jobs /\ p \in Projects /\ todo \in SUBSET Projects
    BY <1>1, <1>8, KindsOfJob DEF RemovesBinding
  <2>3. job' = [job EXCEPT ![r] = j]
    BY <2>1 DEF DiskTypeOK
  <2>4. \A q \in Projects : binding'[q] = IF q = p THEN NoFile ELSE binding[q]
    BY <2>1, <2>2 DEF DiskTypeOK
  <2>5. \A q \in Projects : LeadsTo(q, x, n)' => q \in todo
    BY <1>4, <2>4 DEF LeadsTo
  <2> HIDE DEF todo
  <2>6. j \in Jobs
    BY <2>2, JobEdits
  <2>7. j.op = job[r].op /\ j.name = job[r].name /\ j.root = job[r].root /\ j.todo = todo
    BY <2>2 DEF Jobs
  <2> HIDE DEF j
  <2>8. job'[r] = j /\ job'[r] # NoJob
    BY <2>3, <2>6, Sets
  <2>9. OwnOK(r)'
    BY <1>1, <1>3, <1>6, <2>5, <2>7, <2>8 DEF name, root
  <2>10. \A q \in Projects : BindingOK(q)'
    BY <1>2, <2>2, <2>4 DEF BindingOK, AllListed, Listed, Exists
  <2> QED
    BY <2>2, <2>8, <2>9, <2>10, SameDirEnvs DEF SoundMoves, NoneLeft
<1>9. CASE dropDatabase(r)
  <2>1. dir' = dir /\ binding' = binding /\ job' = [job EXCEPT ![r].drop = FALSE]
    BY <1>2, <1>9 DEF dropDatabase
  <2> DEFINE j == [job[r] EXCEPT !.drop = FALSE]
  <2>2. job' = [job EXCEPT ![r] = j]
    BY <2>1 DEF DiskTypeOK
  <2>3. job[r] \in Jobs
    BY <1>1, KindsOfJob
  <2>4. j \in Jobs
    BY <2>3, JobEdits
  <2>5. j.op = job[r].op /\ j.name = job[r].name /\ j.root = job[r].root
        /\ j.todo = job[r].todo
    BY <2>3 DEF Jobs
  <2> HIDE DEF j
  <2>6. job'[r] = j /\ job'[r] # NoJob
    BY <2>2, <2>4, Sets
  <2>7. OwnOK(r)'
    BY <1>1, <1>3, <1>4, <1>6, <2>1, <2>5, <2>6 DEF name, root, LeadsTo
  <2> QED
    BY <1>5, <2>1, <2>6, <2>7 DEF SoundMoves, NoneLeft
<1>10. CASE RemovesDir(r)
  <2>1. /\ dir' = [dir EXCEPT ![x][n] = NoFile] /\ binding' = binding /\ Answer(r)
        /\ job[r].todo = {}
    BY <1>2, <1>3, <1>10 DEF RemovesDir
  <2>2. \A p \in Projects : ~LeadsTo(p, x, n)
    BY <1>4, <2>1
  <2>3. /\ dir'[x][n] = NoFile
        /\ \A y \in Roots, m \in Names : y # x \/ m # n => dir'[y][m] = dir[y][m]
    BY <2>1 DEF DiskTypeOK
  <2>4. \A p \in Projects, y \in Roots, m \in Names :
          LeadsTo(p, y, m) /\ Listed(p, y, m) => Listed(p, y, m)'
    BY <2>2, <2>3 DEF Listed, Exists
  <2>5. \A p \in Projects : BindingOK(p)'
    BY <1>2, <2>1, <2>4, ListedStays
  <2>6. EnvsWhole' /\ EditsStay
    BY <2>3, SameEnvs DEF HasEnv, Exists
  <2> QED
    BY <1>3, <2>1, <2>2, <2>5, <2>6, RequestEnds, IdleIsOK DEF SoundMoves, NoneLeft
<1> QED
  BY <1>7, <1>8, <1>9, <1>10

\* A migration that goes on with its copy, and no binding written.
LEMMA MovingStays ==
  ASSUME DiskTypeOK, SoundState, NEW r \in Slots, NEW n \in Names, n = name(r),
         Works(r, "migrate", HasCopy) \/ AllListed,
         binding' = binding, Works(r, "migrate", HasCopy)', job'[r].name = n,
         \A p \in Projects, x \in Roots, m \in Names :
           LeadsTo(p, x, m) /\ Listed(p, x, m) /\ (x # "legacy" \/ m # n) => Listed(p, x, m)'
  PROVE  \A p \in Projects : BindingOK(p)'
<1> SUFFICES ASSUME NEW p \in Projects, binding[p] # NoFile
             PROVE  BindingOK(p)'
  BY DEF BindingOK
<1>1. PICK x \in Roots, m \in Names : binding[p].root = x /\ binding[p].instance = m
  BY DEF DiskTypeOK, Bindings
<1>2. CASE x = "legacy" /\ m = n
  <2>1. Works(r, "migrate", HasCopy)' /\ LeadsTo(p, "legacy", name(r))'
    BY <1>1, <1>2 DEF LeadsTo, name
  <2> QED
    BY <2>1 DEF BindingOK
<1>3. CASE x # "legacy" \/ m # n
  <2>1. ~LeadsTo(p, "legacy", n) /\ LeadsTo(p, x, m)
    BY <1>1, <1>3 DEF LeadsTo
  <2>2. \A q \in Slots : Works(q, "migrate", HasCopy) => q = r \/ AllListed
    BY DEF SoundState, OneJob, Works
  <2>3. Listed(p, x, m)
    <3>1. CASE AllListed
      BY <1>1, <3>1 DEF AllListed
    <3>2. CASE ~AllListed
      BY <1>1, <2>1, <2>2, <3>2 DEF SoundState, BindingOK
    <3> QED
      BY <3>1, <3>2
  <2>4. Listed(p, x, m)'
    BY <1>3, <2>1, <2>3
  <2>5. binding'[p].root = x /\ binding'[p].instance = m
    BY <1>1
  <2> QED
    BY <2>4, <2>5 DEF BindingOK, Listed, Exists
<1> QED
  BY <1>2, <1>3

(* ... of a migration, which has its copy before it unlinks, and writes    *)
(* every binding before it answers ...                                     *)
LEMMA MigrateSound ==
  ASSUME KeptInv, SoundState, NEW r \in Slots, failures' = failures,
         \/ MayMove(r) \/ Renames(r) \/ Copies(r) \/ Unlinks(r) \/ RewriteReads(r)
         \/ RewriteWrites(r) \/ RewritesMeta(r) \/ BindingReads(r) \/ BindingWrites(r)
         \/ Migrated(r)
  PROVE  SoundMoves(r)
<1> DiskTypeOK
  BY DEF KeptInv
<1> USE BothRoots
<1>1. job[r] # NoJob /\ job[r].op = "migrate" /\ ~Failure
  BY NoFailure, Zenon DEF MayMove, Renames, Copies, Unlinks, RewriteReads, RewriteWrites,
     RewritesMeta, BindingReads, BindingWrites, Migrated, At
<1>2. /\ job[r] \in Jobs /\ job[r].copy \in Envs /\ job[r].project \in Projects
      /\ job[r].todo \in SUBSET Projects /\ root(r) = "legacy"
      /\ {"move", "unlink", "env", "envWrite", "meta", "bindings", "bindingWrite"}
           \subseteq Places
  BY <1>1, KindsOfJob DEF KeptInv, JobOK, Places
<1>3. PICK n \in Names : n = name(r)
  BY <1>1, KindsOfJob
<1>4. /\ job[r].at \in {"check", "move"} =>
           /\ AllListed /\ HasEnv("legacy", n)
           /\ \A p \in Projects : LeadsTo(p, "legacy", n) => p \in job[r].todo
      /\ job[r].at = "move" => ~Exists("primary", n)
      /\ job[r].at \in HasCopy =>
           /\ Works(r, "migrate", HasCopy) /\ HasEnv("primary", n)
           /\ \A p \in Projects : LeadsTo(p, "legacy", n) =>
                                    p \in Left(r) /\ Listed(p, "primary", n)
      /\ job[r].at = "envWrite" => job[r].copy = dir["primary"][n].env
      /\ job[r].at = "bindingWrite" =>
           LeadsTo(job[r].project, "legacy", n) /\ job[r].read = binding[job[r].project]
  <2>1. MigrateOK(r)
    BY DEF SoundState, OwnOK
  <2>2. job[r].at \in {"check", "move"} => AllListed
    BY <1>1, OthersIdle DEF Works, HasCopy
  <2> QED
    BY <1>1, <1>3, <2>1, <2>2 DEF MigrateOK, Works, HasCopy
<1>5. ASSUME job'[r] # NoJob, job'[r].op = "migrate", job'[r].name = n,
             job'[r].at \in {"env", "unlink", "envWrite", "meta", "bindings", "bindingWrite"},
             HasEnv("primary", n)',
             \A p \in Projects : LeadsTo(p, "legacy", n)' =>
                                   p \in Left(r)' /\ Listed(p, "primary", n)',
             job'[r].at = "envWrite" => job'[r].copy = dir'["primary"][n].env,
             job'[r].at = "bindingWrite" =>
               /\ LeadsTo(job'[r].project, "legacy", n)
               /\ binding'[job'[r].project] = binding[job'[r].project]
               /\ job'[r].read = binding[job'[r].project]
      PROVE  OwnOK(r)' /\ Works(r, "migrate", HasCopy)'
  <2>1. Works(r, "migrate", HasCopy)'
    BY <1>5 DEF Works, HasCopy
  <2>2. MigrateOK(r)'
    <3>1. name(r)' = n
      BY <1>5 DEF name
    <3>2. Works(r, "migrate", {"bindingWrite"})' =>
            LeadsTo(job[r].project, "legacy", name(r))' /\ job'[r].read = binding'[job'[r].project]
      BY <1>5, <3>1 DEF Works, LeadsTo
    <3> QED
      BY <1>5, <3>1, <3>2 DEF MigrateOK, Works, HasEnv, Exists, Listed, LeadsTo
  <2> QED
    BY <1>5, <2>1, <2>2 DEF OwnOK, CreateOK, DeleteOK, Works
<1>6. ASSUME job[r].at \in HasCopy, dir' = dir, binding' = binding,
             NEW at \in {"env", "meta", "bindings"}, Proceed(r, at), job[r].at # "bindingWrite"
      PROVE  SoundMoves(r)
  <2>1. /\ job'[r] # NoJob /\ job'[r].op = "migrate" /\ job'[r].name = n /\ job'[r].at = at
        /\ job'[r].todo = job[r].todo
    BY <1>1, <1>2, <1>3, <1>6, Proceeds DEF name
  <2>2. Left(r)' = Left(r) /\ HasEnv("primary", n)'
    BY <1>4, <1>6, <2>1 DEF Left, HasEnv, Exists
  <2>3. \A p \in Projects : LeadsTo(p, "legacy", n)' =>
                              p \in Left(r)' /\ Listed(p, "primary", n)'
    BY <1>4, <1>6, <2>2 DEF LeadsTo, Listed, Exists
  <2>4. OwnOK(r)' /\ Works(r, "migrate", HasCopy)'
    BY <1>5, <2>1, <2>2, <2>3
  <2>5. \A p \in Projects, x \in Roots, m \in Names : Listed(p, x, m) => Listed(p, x, m)'
    BY <1>6 DEF Listed, Exists
  <2>6. \A p \in Projects : BindingOK(p)'
    BY <1>3, <1>4, <1>6, <2>1, <2>4, <2>5, MovingStays
  <2> QED
    BY <1>6, <2>1, <2>4, <2>6, SameDirEnvs DEF SoundMoves, NoneLeft
<1>7. CASE MayMove(r)
  <2>1. /\ dir' = dir /\ binding' = binding /\ job[r].at = "check"
        /\ Answer(r) \/ (~Exists("primary", n) /\ Proceed(r, "move"))
    BY <1>3, <1>7 DEF MayMove, At
  <2>2. OwnOK(r)'
    <3>1. CASE Answer(r)
      BY <3>1, RequestEnds, IdleIsOK
    <3>2. CASE ~Exists("primary", n) /\ Proceed(r, "move")
      <4>1. /\ job'[r] # NoJob /\ job'[r].op = "migrate" /\ job'[r].name = n
            /\ job'[r].at = "move" /\ job'[r].todo = job[r].todo
        BY <1>1, <1>2, <1>3, <3>2, Proceeds DEF name
      <4> QED
        BY <1>4, <2>1, <3>2, <4>1 DEF OwnOK, CreateOK, DeleteOK, MigrateOK, Works, HasCopy,
           name, HasEnv, Exists, LeadsTo
    <3> QED
      BY <2>1, <3>1, <3>2
  <2>3. \A p \in Projects, x \in Roots, m \in Names :
          LeadsTo(p, x, m) /\ Listed(p, x, m) => Listed(p, x, m)'
    BY <2>1 DEF Listed, Exists
  <2> QED
    BY <1>4, <2>1, <2>2, <2>3, ListedStays, SameDirEnvs DEF SoundMoves, NoneLeft
<1>8. ASSUME job[r].at = "move", binding' = binding, HasEnv("legacy", n),
             dir'["primary"][n] = dir["legacy"][n],
             dir'["legacy"][n] \in {dir["legacy"][n], NoFile},
             \A x \in Roots, m \in Names : m # n => dir'[x][m] = dir[x][m],
             NEW at \in {"env", "unlink"}, Proceed(r, at)
      PROVE  SoundMoves(r)
  <2>1. /\ job'[r] # NoJob /\ job'[r].op = "migrate" /\ job'[r].name = n /\ job'[r].at = at
        /\ job'[r].todo = job[r].todo
    BY <1>1, <1>2, <1>3, <1>8, Proceeds DEF name
  <2>2. HasEnv("primary", n)' /\ ~Exists("primary", n)
    BY <1>4, <1>8 DEF HasEnv, Exists
  <2>3. ASSUME NEW p \in Projects, LeadsTo(p, "legacy", n)'
        PROVE  p \in Left(r)' /\ Listed(p, "primary", n)'
    <3>1. LeadsTo(p, "legacy", n)
      BY <1>8, <2>3 DEF LeadsTo
    <3>2. p \in job[r].todo /\ Listed(p, "legacy", n)
      BY <1>4, <1>8, <3>1 DEF AllListed, LeadsTo
    <3> QED
      BY <1>8, <2>1, <3>2 DEF Left, Listed, Exists
  <2>4. OwnOK(r)' /\ Works(r, "migrate", HasCopy)'
    BY <1>5, <2>1, <2>2, <2>3
  <2>5. \A p \in Projects, x \in Roots, m \in Names :
          LeadsTo(p, x, m) /\ Listed(p, x, m) /\ (x # "legacy" \/ m # n) => Listed(p, x, m)'
    BY <1>8, <2>2 DEF Listed, Exists
  <2>6. \A p \in Projects : BindingOK(p)'
    BY <1>3, <1>4, <1>8, <2>1, <2>4, <2>5, MovingStays
  <2>7. ASSUME NEW x \in Roots, NEW m \in Names
        PROVE  /\ HasEnv(x, m)' => dir'[x][m].env.content # Blank
               /\ HasEnv(x, m) /\ HasEnv(x, m)' => dir'[x][m].env = dir[x][m].env
    BY <1>8, <2>2 DEF SoundState, EnvsWhole, HasEnv, Exists
  <2>8. EnvsWhole' /\ EditsStay
    BY <2>7 DEF EnvsWhole, EditsStay
  <2> QED
    BY <1>8, <2>1, <2>4, <2>6, <2>8 DEF SoundMoves, NoneLeft
<1>9. CASE Renames(r)
  <2>1. job[r].at = "move" /\ binding' = binding
    BY <1>9 DEF Renames, At
  <2>2. HasEnv("legacy", n) /\ Exists("legacy", n) /\ ~Exists("primary", n)
    BY <1>4, <2>1 DEF HasEnv
  <2>3. /\ dir' = [[dir EXCEPT !["primary"][n] = dir["legacy"][n]] EXCEPT !["legacy"][n] = NoFile]
        /\ Proceed(r, "env")
    BY <1>3, <1>9, <2>2 DEF Renames, Copied
  <2>4. /\ dir'["primary"][n] = dir["legacy"][n] /\ dir'["legacy"][n] = NoFile
        /\ \A x \in Roots, m \in Names : m # n => dir'[x][m] = dir[x][m]
    BY <2>3 DEF DiskTypeOK
  <2> QED
    BY <1>8, <2>1, <2>2, <2>3, <2>4
<1>10. CASE Copies(r)
  <2>1. job[r].at = "move" /\ binding' = binding
    BY <1>10 DEF Copies, At
  <2>2. HasEnv("legacy", n) /\ Exists("legacy", n)
    BY <1>4, <2>1 DEF HasEnv
  <2>3. dir' = [dir EXCEPT !["primary"][n] = dir["legacy"][n]] /\ Proceed(r, "unlink")
    BY <1>3, <1>10, <2>2 DEF Copies, Copied
  <2>4. /\ dir'["primary"][n] = dir["legacy"][n] /\ dir'["legacy"][n] = dir["legacy"][n]
        /\ \A x \in Roots, m \in Names : m # n => dir'[x][m] = dir[x][m]
    BY <2>3 DEF DiskTypeOK
  <2> QED
    BY <1>8, <2>1, <2>2, <2>3, <2>4
<1>11. CASE Unlinks(r)
  <2>1. /\ job[r].at = "unlink" /\ binding' = binding /\ Proceed(r, "env")
        /\ dir' = [dir EXCEPT !["legacy"][n] = NoFile]
    BY <1>1, <1>3, <1>11 DEF Unlinks, At
  <2>2. /\ dir'["legacy"][n] = NoFile
        /\ \A x \in Roots, m \in Names : x # "legacy" \/ m # n => dir'[x][m] = dir[x][m]
    BY <2>1 DEF DiskTypeOK
  <2>3. /\ job'[r] # NoJob /\ job'[r].op = "migrate" /\ job'[r].name = n /\ job'[r].at = "env"
        /\ job'[r].todo = job[r].todo
    BY <1>1, <1>2, <1>3, <2>1, Proceeds DEF name
  <2>4. job[r].at \in HasCopy
    BY <2>1 DEF HasCopy
  <2>5. Left(r)' = Left(r) /\ HasEnv("primary", n)'
    BY <1>4, <2>1, <2>2, <2>3, <2>4 DEF Left, HasEnv, Exists
  <2>6. \A p \in Projects : LeadsTo(p, "legacy", n)' =>
                              p \in Left(r)' /\ Listed(p, "primary", n)'
    BY <1>4, <2>1, <2>2, <2>4, <2>5 DEF LeadsTo, Listed, Exists
  <2>7. OwnOK(r)' /\ Works(r, "migrate", HasCopy)'
    BY <1>5, <2>3, <2>5, <2>6
  <2>8. \A p \in Projects, x \in Roots, m \in Names :
          LeadsTo(p, x, m) /\ Listed(p, x, m) /\ (x # "legacy" \/ m # n) => Listed(p, x, m)'
    BY <2>2 DEF Listed, Exists
  <2>9. \A p \in Projects : BindingOK(p)'
    BY <1>3, <1>4, <2>1, <2>3, <2>4, <2>7, <2>8, MovingStays
  <2>10. EnvsWhole' /\ EditsStay
    BY <2>2, SameEnvs DEF HasEnv, Exists
  <2> QED
    BY <2>3, <2>7, <2>9, <2>10 DEF SoundMoves, NoneLeft
<1>12. CASE RewriteReads(r)
  <2> DEFINE copy == ReadsEnv(r, "primary")
             j == [job[r] EXCEPT !.copy = copy, !.at = "envWrite"]
  <2>1. job[r].at = "env" /\ dir' = dir /\ binding' = binding /\ job[r].at \in HasCopy
    BY <1>12 DEF RewriteReads, At, HasCopy
  <2>2. HasEnv("primary", n) /\ copy = dir["primary"][n].env /\ copy \in Envs
    BY <1>3, <1>4, <2>1, KindsOfDir DEF ReadsEnv
  <2>3. job' = [job EXCEPT ![r] = j]
    BY <1>3, <1>12, <2>2 DEF RewriteReads, DiskTypeOK
  <2> HIDE DEF copy
  <2>4. j \in Jobs
    BY <1>2, <2>2, JobEdits
  <2>5. j.op = job[r].op /\ j.name = job[r].name /\ j.at = "envWrite" /\ j.copy = copy
        /\ j.todo = job[r].todo
    BY <1>2 DEF Jobs
  <2> HIDE DEF j
  <2>6. job'[r] = j /\ job'[r] # NoJob
    BY <2>3, <2>4, Sets
  <2>7. Left(r)' = Left(r) /\ HasEnv("primary", n)'
    BY <1>4, <2>1, <2>5, <2>6 DEF Left, HasEnv, Exists
  <2>8. \A p \in Projects : LeadsTo(p, "legacy", n)' =>
                              p \in Left(r)' /\ Listed(p, "primary", n)'
    BY <1>4, <2>1, <2>7 DEF LeadsTo, Listed, Exists
  <2>9. OwnOK(r)' /\ Works(r, "migrate", HasCopy)'
    BY <1>1, <1>3, <1>5, <2>1, <2>2, <2>5, <2>6, <2>7, <2>8 DEF name
  <2>10. \A p \in Projects, x \in Roots, m \in Names : Listed(p, x, m) => Listed(p, x, m)'
    BY <2>1 DEF Listed, Exists
  <2>11. \A p \in Projects : BindingOK(p)'
    BY <1>3, <1>4, <2>1, <2>5, <2>6, <2>9, <2>10, MovingStays DEF name
  <2> QED
    BY <2>1, <2>6, <2>9, <2>11, SameDirEnvs DEF SoundMoves, NoneLeft
<1>13. CASE RewriteWrites(r)
  <2>1. job[r].at = "envWrite" /\ binding' = binding /\ job[r].at \in HasCopy
    BY <1>13 DEF RewriteWrites, At, HasCopy
  <2>2. HasEnv("primary", n) /\ Exists("primary", n) /\ job[r].copy = dir["primary"][n].env
    BY <1>4, <2>1 DEF HasEnv
  <2>3. SetEnv("primary", n, job[r].copy) /\ Proceed(r, "meta")
    BY <1>3, <1>13, <2>2 DEF RewriteWrites
  <2>4. /\ dir' \in Trees /\ HasEnv("primary", n)'
        /\ dir'["primary"][n].env = job[r].copy
        /\ dir'["primary"][n].known = dir["primary"][n].known
        /\ \A y \in Roots, m \in Names : y # "primary" \/ m # n => dir'[y][m] = dir[y][m]
    BY <1>2, <2>2, <2>3, EnvIs
  <2>5. /\ job'[r] # NoJob /\ job'[r].op = "migrate" /\ job'[r].name = n /\ job'[r].at = "meta"
        /\ job'[r].todo = job[r].todo
    BY <1>1, <1>2, <1>3, <2>3, Proceeds DEF name
  <2>6. \A p \in Projects, x \in Roots, m \in Names : Listed(p, x, m) => Listed(p, x, m)'
    BY <2>4 DEF Listed, Exists, HasEnv
  <2>7. Left(r)' = Left(r)
    BY <2>1, <2>5 DEF Left
  <2>8. \A p \in Projects : LeadsTo(p, "legacy", n)' =>
                              p \in Left(r)' /\ Listed(p, "primary", n)'
    BY <1>4, <2>1, <2>6, <2>7 DEF LeadsTo
  <2>9. OwnOK(r)' /\ Works(r, "migrate", HasCopy)'
    BY <1>5, <2>4, <2>5, <2>8
  <2>10. \A p \in Projects : BindingOK(p)'
    BY <1>3, <1>4, <2>1, <2>5, <2>6, <2>9, MovingStays
  <2>11. EnvsWhole' /\ EditsStay
    BY <2>2, <2>4, SameEnvs DEF HasEnv, Exists
  <2> QED
    BY <2>5, <2>9, <2>10, <2>11 DEF SoundMoves, NoneLeft
<1>14. CASE RewritesMeta(r)
  <2>1. /\ job[r].at = "meta" /\ dir' = dir /\ binding' = binding /\ Proceed(r, "bindings")
        /\ job[r].at \in HasCopy
    BY <1>1, <1>14 DEF RewritesMeta, At, HasCopy
  <2> QED
    BY <1>6, <2>1
<1>15. CASE BindingReads(r)
  <2>1. PICK p \in job[r].todo :
          LET stale == LeadsTo(p, "legacy", n)
          IN job' = [job EXCEPT ![r].todo = @ \ {p}, ![r].project = p,
                                ![r].read = IF stale THEN binding[p] ELSE NoFile,
                                ![r].at = IF stale THEN "bindingWrite" ELSE "bindings"]
    BY <1>3, <1>15 DEF BindingReads
  <2>2. /\ dir' = dir /\ binding' = binding /\ job[r].at = "bindings" /\ job[r].at \in HasCopy
    BY <1>15 DEF BindingReads, At, HasCopy
  <2> DEFINE stale == LeadsTo(p, "legacy", n)
             todo == job[r].todo \ {p}
             read == IF stale THEN binding[p] ELSE NoFile
             at == IF stale THEN "bindingWrite" ELSE "bindings"
             j == [job[r] EXCEPT !.todo = todo, !.project = p, !.read = read, !.at = at]
  <2>3. /\ p \in Projects /\ todo \in SUBSET Projects /\ read \in Bindings \cup {NoFile}
        /\ at \in {"bindingWrite", "bindings"} /\ at \in Places
    BY <1>2 DEF DiskTypeOK
  <2>4. job' = [job EXCEPT ![r] = j]
    BY <2>1 DEF DiskTypeOK
  <2>5. at = "bindingWrite" => LeadsTo(p, "legacy", n) /\ read = binding[p]
    OBVIOUS
  <2>6. \A q \in Projects : LeadsTo(q, "legacy", n) =>
          q \in todo \cup (IF at = "bindingWrite" THEN {p} ELSE {})
    BY <1>4, <2>2 DEF Left
  <2> HIDE DEF stale, todo, read, at
  <2>7. j \in Jobs
    BY <1>2, <2>3, JobEdits
  <2>8. j.op = job[r].op /\ j.name = job[r].name /\ j.at = at /\ j.todo = todo
        /\ j.project = p /\ j.read = read
    BY <1>2 DEF Jobs
  <2> HIDE DEF j
  <2>9. job'[r] = j /\ job'[r] # NoJob
    BY <2>4, <2>7, Sets
  <2>10. Left(r)' = todo \cup (IF at = "bindingWrite" THEN {p} ELSE {})
    BY <2>8, <2>9 DEF Left
  <2>11. \A q \in Projects : LeadsTo(q, "legacy", n)' =>
                               q \in Left(r)' /\ Listed(q, "primary", n)'
    BY <1>4, <2>2, <2>6, <2>10 DEF LeadsTo, Listed, Exists
  <2>12. HasEnv("primary", n)'
    BY <1>4, <2>2 DEF HasEnv, Exists
  <2>13. /\ job'[r].op = "migrate" /\ job'[r].name = n
         /\ job'[r].at \in {"env", "unlink", "envWrite", "meta", "bindings", "bindingWrite"}
         /\ job'[r].at # "envWrite"
         /\ job'[r].at = "bindingWrite" =>
              /\ LeadsTo(job'[r].project, "legacy", n)
              /\ binding'[job'[r].project] = binding[job'[r].project]
              /\ job'[r].read = binding[job'[r].project]
    BY <1>1, <1>3, <2>2, <2>3, <2>5, <2>8, <2>9 DEF name
  <2>14. OwnOK(r)' /\ Works(r, "migrate", HasCopy)'
    BY <1>5, <2>9, <2>11, <2>12, <2>13
  <2>15. \A q \in Projects, x \in Roots, m \in Names : Listed(q, x, m) => Listed(q, x, m)'
    BY <2>2 DEF Listed, Exists
  <2>16. \A q \in Projects : BindingOK(q)'
    BY <1>3, <1>4, <2>2, <2>13, <2>14, <2>15, MovingStays
  <2> QED
    BY <2>2, <2>9, <2>14, <2>16, SameDirEnvs DEF SoundMoves, NoneLeft
<1>16. CASE BindingWrites(r)
  <2> DEFINE b == [job[r].read EXCEPT !.root = "primary"]
  <2>1. PICK p \in Projects : p = job[r].project
    BY <1>2
  <2>2. /\ dir' = dir /\ job[r].at = "bindingWrite" /\ job[r].at \in HasCopy
        /\ binding' = [binding EXCEPT ![p] = b] /\ Proceed(r, "bindings")
    BY <1>1, <1>16, <2>1 DEF BindingWrites, At, HasCopy
  <2>3. LeadsTo(p, "legacy", n) /\ job[r].read = binding[p] /\ binding[p] \in Bindings
    BY <1>4, <2>1, <2>2 DEF LeadsTo, DiskTypeOK
  <2>4. b \in Bindings /\ b.root = "primary" /\ b.instance = n /\ b # NoFile
    <3>1. b \in Bindings /\ b.root = "primary" /\ b.instance = n
      BY <2>3 DEF Bindings, LeadsTo
    <3> QED
      BY <3>1, AbsentIsApart
  <2> HIDE DEF b
  <2>5. binding'[p] = b /\ \A q \in Projects : q # p => binding'[q] = binding[q]
    BY <2>2 DEF DiskTypeOK
  <2>6. /\ job'[r] # NoJob /\ job'[r].op = "migrate" /\ job'[r].name = n
        /\ job'[r].at = "bindings" /\ job'[r].todo = job[r].todo
    BY <1>1, <1>2, <1>3, <2>2, Proceeds DEF name
  <2>7. Left(r)' = job[r].todo /\ Left(r) = job[r].todo \cup {p}
    BY <2>1, <2>2, <2>6 DEF Left
  <2>8. \A q \in Projects : LeadsTo(q, "legacy", n)' =>
                              q \in Left(r)' /\ Listed(q, "primary", n)'
    BY <1>4, <2>2, <2>4, <2>5, <2>7 DEF LeadsTo, Listed, Exists
  <2>9. HasEnv("primary", n)'
    BY <1>4, <2>2 DEF HasEnv, Exists
  <2>10. OwnOK(r)' /\ Works(r, "migrate", HasCopy)'
    BY <1>5, <2>6, <2>8, <2>9
  <2>11. ASSUME NEW q \in Projects PROVE BindingOK(q)'
    <3>1. CASE q = p
      BY <1>4, <2>2, <2>3, <2>4, <2>5, <3>1 DEF BindingOK, Listed, Exists
    <3>2. CASE q # p
      <4>1. BindingOK(q) /\ binding'[q] = binding[q]
        BY <2>5, <3>2 DEF SoundState
      <4>2. ASSUME NEW s \in Slots, Works(s, "migrate", HasCopy), LeadsTo(q, "legacy", name(s))
            PROVE  Works(r, "migrate", HasCopy)' /\ LeadsTo(q, "legacy", n)'
        BY <1>1, <1>3, <2>10, <4>1, <4>2 DEF SoundState, OneJob, Works, LeadsTo
      <4>3. LeadsTo(q, "legacy", n)' => LeadsTo(q, "legacy", name(r))'
        BY <2>6 DEF LeadsTo, name
      <4> QED
        BY <2>2, <2>10, <4>1, <4>2, <4>3 DEF BindingOK, Listed, Exists
    <3> QED
      BY <3>1, <3>2
  <2> QED
    BY <2>2, <2>6, <2>10, <2>11, SameDirEnvs DEF SoundMoves, NoneLeft
<1>17. CASE Migrated(r)
  <2>1. /\ job[r].at = "bindings" /\ job[r].todo = {} /\ dir' = dir /\ binding' = binding
        /\ Answer(r) /\ job[r].at \in HasCopy
    BY <1>17 DEF Migrated, At, HasCopy
  <2>2. Left(r) = {}
    BY <2>1 DEF Left
  <2>3. \A p \in Projects : ~LeadsTo(p, "legacy", n)
    BY <1>4, <2>1, <2>2
  <2>4. \A q \in Slots : job[q] # NoJob => q = r
    BY <1>1 DEF SoundState, OneJob
  <2>5. AllListed
    BY <1>3, <2>3, <2>4 DEF SoundState, BindingOK, AllListed, Works
  <2>6. \A p \in Projects, x \in Roots, m \in Names :
          LeadsTo(p, x, m) /\ Listed(p, x, m) => Listed(p, x, m)'
    BY <2>1 DEF Listed, Exists
  <2>7. \A p \in Projects : BindingOK(p)'
    BY <2>1, <2>5, <2>6, ListedStays
  <2> QED
    BY <1>2, <1>3, <2>1, <2>3, <2>7, RequestEnds, IdleIsOK, SameDirEnvs DEF SoundMoves, NoneLeft
<1> QED
  BY <1>7, <1>9, <1>10, <1>11, <1>12, <1>13, <1>14, <1>15, <1>16, <1>17

\* A list that has the project in d.
ListedIn(d, p, x, n) == d[x][n] # NoFile /\ d[x][n].known[p] # NoFile

\* An entry of one project on one list leaves the others as they are.
LEMMA RelistKeeps ==
  ASSUME NEW d \in Trees, NEW n \in Names, d["primary"][n] \in Dirs,
         NEW p \in Projects, NEW mode \in Modes \cup {NoFile},
         NEW e, e = Registered(d, n, p, mode)
  PROVE  /\ \A q \in Projects \ {p}, x \in Roots, m \in Names :
              ListedIn(d, q, x, m) => ListedIn(e, q, x, m)
         /\ mode # NoFile =>
              /\ ListedIn(e, p, "primary", n)
              /\ \A x \in Roots, m \in Names : ListedIn(d, p, x, m) => ListedIn(e, p, x, m)
<1>1. /\ e \in Trees
      /\ e["primary"][n] \in Dirs
      /\ e["primary"][n].known[p] = mode
      /\ \A o \in Projects \ {p} : e["primary"][n].known[o] = d["primary"][n].known[o]
      /\ \A y \in Roots, m \in Names : y # "primary" \/ m # n => e[y][m] = d[y][m]
  BY PutListed
<1> QED
  BY <1>1, AbsentIsApart, BothRoots DEF ListedIn

(* The handlers of the bindings keep every binding listed.                 *)
LEMMA BindingsSound ==
  ASSUME KeptInv, SoundState, AllListed, BindingStep, careful', failures' = failures
  PROVE  EnvsWhole' /\ EditsStay /\ (\A p \in Projects : BindingOK(p)')
<1> DiskTypeOK
  BY DEF KeptInv
<1>1. SameButLists(dir') /\ ~Failure /\ dir \in Trees
      /\ binding' \in [Projects -> Bindings \cup {NoFile}]
  BY BindingsMove, NoFailure, KindsOfDir
<1>2. \A n \in Names : dir["primary"][n] \in Dirs \cup {NoFile}
  BY KindsOfDir, BothRoots
<1>3. EnvsWhole' /\ EditsStay
  <2>1. \A x \in Roots, n \in Names :
           HasEnv(x, n)' => HasEnv(x, n) /\ dir'[x][n].env = dir[x][n].env
    BY <1>1, <1>2, AbsentIsApart, BothRoots DEF SameButLists, HasEnv, Exists
  <2> QED
    BY <2>1, SameEnvs
<1>4. \A p \in Projects, x \in Roots, n \in Names : LeadsTo(p, x, n) => ListedIn(dir, p, x, n)
  BY DEF AllListed, LeadsTo, Listed, Exists, ListedIn
<1>5. ASSUME \A p \in Projects, x \in Roots, n \in Names :
               LeadsTo(p, x, n)' => ListedIn(dir', p, x, n)
      PROVE  \A p \in Projects : BindingOK(p)'
  BY <1>1, <1>5 DEF BindingOK, Bindings, LeadsTo, Listed, Exists, ListedIn
<1>6. ASSUME NEW p \in Projects, \A q \in Projects \ {p} : binding'[q] = binding[q],
             \A q \in Projects \ {p}, x \in Roots, n \in Names :
               ListedIn(dir, q, x, n) => ListedIn(dir', q, x, n),
             \A x \in Roots, n \in Names : LeadsTo(p, x, n)' => ListedIn(dir', p, x, n)
      PROVE  \A q \in Projects : BindingOK(q)'
  <2>1. ASSUME NEW q \in Projects, NEW x \in Roots, NEW n \in Names, LeadsTo(q, x, n)'
        PROVE  ListedIn(dir', q, x, n)
    <3>1. CASE q = p
      BY <1>6, <2>1, <3>1
    <3>2. CASE q # p
      <4>1. LeadsTo(q, x, n)
        BY <1>6, <2>1, <3>2 DEF LeadsTo
      <4> QED
        BY <1>4, <1>6, <3>2, <4>1
    <3> QED
      BY <3>1, <3>2
  <2> QED
    BY <1>5, <2>1
<1>7. ASSUME NEW n \in Names, NEW p \in Projects, NEW mode \in Modes, Bind(n, p, mode)
      PROVE  \A q \in Projects : BindingOK(q)'
  <2>1. /\ dir["primary"][n] \in Dirs /\ mode # NoFile
        /\ dir' = Registered(dir, n, p, mode)
        /\ binding' = [binding EXCEPT ![p] = BindingTo(n, mode)]
    BY <1>1, <1>2, <1>7, AbsentIsApart DEF Bind, Usable, HasEnv, Exists
  <2>2. BindingTo(n, mode).root = "primary" /\ BindingTo(n, mode).instance = n
    BY DEF BindingTo
  <2>3. /\ binding'[p] = BindingTo(n, mode)
        /\ \A q \in Projects \ {p} : binding'[q] = binding[q]
    BY <2>1 DEF DiskTypeOK
  <2>4. /\ \A q \in Projects \ {p}, x \in Roots, m \in Names :
             ListedIn(dir, q, x, m) => ListedIn(dir', q, x, m)
        /\ ListedIn(dir', p, "primary", n)
    BY <1>1, <2>1, RelistKeeps
  <2> QED
    BY <1>6, <2>2, <2>3, <2>4 DEF LeadsTo
<1>8. ASSUME NEW n \in Names, NEW p \in Projects, NEW mode \in Modes, SetMode(n, p, mode)
      PROVE  \A q \in Projects : BindingOK(q)'
  <2>1. /\ dir["primary"][n] \in Dirs /\ mode # NoFile /\ binding[p] \in Bindings
        /\ dir' = Registered(dir, n, p, mode) \/ dir' = dir
        /\ binding' = [binding EXCEPT ![p].mode = mode]
    BY <1>1, <1>2, <1>8, AbsentIsApart DEF SetMode, HasEnv, Exists, DiskTypeOK
  <2>2. /\ binding'[p].root = binding[p].root /\ binding'[p].instance = binding[p].instance
        /\ \A q \in Projects \ {p} : binding'[q] = binding[q]
    BY <2>1 DEF DiskTypeOK, Bindings
  <2>3. \A q \in Projects, x \in Roots, m \in Names :
          ListedIn(dir, q, x, m) => ListedIn(dir', q, x, m)
    BY <1>1, <2>1, RelistKeeps
  <2>4. \A x \in Roots, m \in Names : LeadsTo(p, x, m)' => LeadsTo(p, x, m)
    BY <2>1, <2>2, AbsentIsApart DEF LeadsTo
  <2> QED
    BY <1>4, <1>6, <2>2, <2>3, <2>4
<1>9. ASSUME NEW n \in Names, NEW p \in Projects, NEW target \in Names,
             NEW mode \in Modes \cup {NoFile}, Rebind(n, p, target, mode)
      PROVE  \A q \in Projects : BindingOK(q)'
  <2>1. /\ dir["primary"][n] \in Dirs /\ dir["primary"][target] \in Dirs
        /\ Exists("primary", n) /\ Exists("primary", target)
        /\ binding' = [binding EXCEPT ![p] = Rebound(p, target, mode)]
        /\ target = n => LeadsTo(p, "primary", n)
    BY <1>2, <1>9 DEF Rebind, Serve, Usable, HasEnv, Exists
  <2>2. Rebound(p, target, mode).root = "primary" /\ Rebound(p, target, mode).instance = target
    BY DEF Rebound, BindingTo
  <2>3. /\ binding'[p] = Rebound(p, target, mode)
        /\ \A q \in Projects \ {p} : binding'[q] = binding[q]
    BY <2>1 DEF DiskTypeOK
  <2>4. \A x \in Roots, m \in Names : LeadsTo(p, x, m)' => x = "primary" /\ m = target
    BY <2>2, <2>3 DEF LeadsTo
  <2>5. CASE target # n
    <3> DEFINE d == Registered(dir, n, p, NoFile)
               m == MovedMode(n, mode)[p]
    <3>1. dir' = Registered(d, target, p, m)
      BY <1>1, <1>9, <2>5 DEF Rebind, Moved
    <3>2. m \in Modes /\ m # NoFile
      BY <2>1, ListKinds, AbsentIsApart
    <3>3. /\ d \in Trees /\ d["primary"][target] = dir["primary"][target]
          /\ \A q \in Projects \ {p}, x \in Roots, k \in Names :
               ListedIn(dir, q, x, k) => ListedIn(d, q, x, k)
      BY <1>1, <2>1, <2>5, PutListed, RelistKeeps, BothRoots
    <3> HIDE DEF d, m
    <3>4. /\ \A q \in Projects \ {p}, x \in Roots, k \in Names :
               ListedIn(d, q, x, k) => ListedIn(dir', q, x, k)
          /\ ListedIn(dir', p, "primary", target)
      BY <2>1, <3>1, <3>2, <3>3, RelistKeeps
    <3> QED
      BY <1>6, <2>3, <2>4, <3>3, <3>4
  <2>6. CASE target = n
    <3>1. dir' = dir \/ (mode # NoFile /\ dir' = Registered(dir, n, p, mode))
      BY <1>1, <1>9, <2>6 DEF Rebind
    <3>2. ListedIn(dir, p, "primary", n)
      BY <1>4, <2>1, <2>6, BothRoots
    <3>3. \A q \in Projects, x \in Roots, k \in Names :
            ListedIn(dir, q, x, k) => ListedIn(dir', q, x, k)
      BY <1>1, <2>1, <3>1, RelistKeeps
    <3> QED
      BY <1>6, <2>3, <2>4, <2>6, <3>2, <3>3, BothRoots
  <2> QED
    BY <2>5, <2>6
<1>10. ASSUME NEW n \in Names, NEW p \in Projects, Unbind(n, p)
       PROVE  \A q \in Projects : BindingOK(q)'
  <2>1. /\ dir["primary"][n] \in Dirs /\ dir' = Registered(dir, n, p, NoFile)
        /\ binding' = [binding EXCEPT ![p] = NoFile]
    BY <1>1, <1>2, <1>10 DEF Unbind, HasEnv, Exists
  <2>2. binding'[p] = NoFile /\ \A q \in Projects \ {p} : binding'[q] = binding[q]
    BY <2>1 DEF DiskTypeOK
  <2>3. \A q \in Projects \ {p}, x \in Roots, m \in Names :
          ListedIn(dir, q, x, m) => ListedIn(dir', q, x, m)
    BY <1>1, <2>1, RelistKeeps
  <2> QED
    BY <1>6, <2>2, <2>3 DEF LeadsTo
<1>11. ASSUME NEW n \in Names, List(n)
       PROVE  \A q \in Projects : BindingOK(q)'
  <2>1. Exists("primary", n) /\ binding' = binding /\ Live(n) \in ProjectLists
        /\ (dir' = dir \/ dir' = [dir EXCEPT !["primary"][n].known = Live(n)])
    BY <1>11, ListKinds DEF List, HasEnv
  <2>2. CASE dir' = dir
    BY <1>4, <1>5, <2>1, <2>2 DEF LeadsTo
  <2>3. CASE dir' # dir
    <3>1. /\ dir'["primary"][n].known = Live(n)
          /\ \A y \in Roots, m \in Names : y # "primary" \/ m # n => dir'[y][m] = dir[y][m]
      BY <2>1, <2>3, Relisted
    <3>2. dir'["primary"][n] # NoFile
      BY <1>1, <2>1 DEF SameButLists, Exists
    <3>3. \A p \in Projects : binding[p] # NoFile /\ dir["primary"][n].known[p] # NoFile
                                => Live(n)[p] # NoFile
      BY DEF Live
    <3>4. ASSUME NEW p \in Projects, NEW x \in Roots, NEW m \in Names, LeadsTo(p, x, m)'
          PROVE  ListedIn(dir', p, x, m)
      BY <1>4, <2>1, <3>1, <3>2, <3>3, <3>4 DEF LeadsTo, ListedIn
    <3> QED
      BY <1>5, <3>4
  <2> QED
    BY <2>2, <2>3
<1>12. \A n \in Names : ~RegistryLost(n)
  BY <1>1 DEF RegistryLost
<1> QED
  BY <1>3, <1>7, <1>8, <1>9, <1>10, <1>11, <1>12 DEF BindingStep

(* ... and a request that arrives, whose list is then complete.            *)
LEMMA ArriveSound ==
  ASSUME KeptInv, SoundState, NEW r \in Slots, Arrive(r), careful'
  PROVE  SoundMoves(r) /\ (\A q \in Slots : job[q] = NoJob)
<1> DiskTypeOK
  BY DEF KeptInv
<1> USE BothRoots
<1>1. dir' = dir /\ binding' = binding /\ \E proper : Serve(proper)
  BY ArriveTakes
<1>2. \A q \in Slots : job[q] = NoJob
  BY <1>1 DEF Serve, Busy
<1>3. AllListed
  BY <1>2, AllAreListed DEF Works
<1>4. PICK j \in Jobs : Taken(r, j)
  BY ArriveTakes
<1>5. job'[r] = j /\ job'[r] # NoJob
  BY <1>4, Sets DEF Taken
<1>6. EnvsWhole' /\ EditsStay /\ NoneLeft(r)
  BY <1>1, <1>5, SameDirEnvs DEF NoneLeft
<1>7. \A p \in Projects : BindingOK(p)'
  BY <1>1, <1>3, ListedStays DEF Listed, Exists
<1>8. PICK x \in Roots, n \in Names : x = j.root /\ n = j.name
  BY DEF Jobs
<1>9. j.op \in {"create", "configure", "delete", "migrate"} /\ j.at \in Places
  BY DEF Jobs
<1>10. j.at = "check" =>
         HasEnv(x, n) /\ \A p \in Projects : LeadsTo(p, x, n) => p \in j.todo
  <2> SUFFICES ASSUME j.at = "check"
               PROVE  HasEnv(x, n) /\ \A p \in Projects : LeadsTo(p, x, n) => p \in j.todo
    OBVIOUS
  <2>1. HasEnv(x, n) /\ j.todo = resolveBoundProjects(x, n)
    BY <1>4, <1>8 DEF Taken
  <2>2. ASSUME NEW p \in Projects, LeadsTo(p, x, n)
        PROVE  p \in resolveBoundProjects(x, n)
    BY <1>3, <2>2 DEF AllListed, LeadsTo, Listed, resolveBoundProjects
  <2> QED
    BY <2>1, <2>2
<1>11. j.at = "check" =>
         HasEnv(x, n)' /\ \A p \in Projects : LeadsTo(p, x, n)' => p \in j.todo
  BY <1>1, <1>10 DEF HasEnv, Exists, LeadsTo
<1>12. OwnOK(r)'
  <2>1. name(r)' = n /\ root(r)' = x
    BY <1>5, <1>8 DEF name, root
  <2>2. /\ ~Works(r, "create", {"pepper", "pepperWrite"})'
        /\ ~Works(r, "create", {"pepperWrite"})'
        /\ ~Works(r, "migrate", {"move"})' /\ ~Works(r, "migrate", HasCopy)'
        /\ ~Works(r, "migrate", {"envWrite"})' /\ ~Works(r, "migrate", {"bindingWrite"})'
        /\ Works(r, "delete", {"check", "bindings"})' => j.at = "check"
        /\ Works(r, "migrate", {"check", "move"})' => j.at = "check" /\ x = "legacy"
    BY <1>4, <1>5, <1>8, <1>9 DEF Taken, Works, HasCopy
  <2>3. CreateOK(r)'
    BY <2>2 DEF CreateOK
  <2>4. DeleteOK(r)'
    BY <1>5, <1>11, <2>1, <2>2 DEF DeleteOK, LeadsTo
  <2>5. MigrateOK(r)'
    BY <1>5, <1>11, <2>1, <2>2 DEF MigrateOK, LeadsTo, HasEnv, Exists
  <2> QED
    BY <2>3, <2>4, <2>5 DEF OwnOK
<1> QED
  BY <1>2, <1>6, <1>7, <1>12 DEF SoundMoves

(* Every step of a request, and no other request is under way.             *)
LEMMA RequestSound ==
  ASSUME KeptInv, SoundState, NEW r \in Slots, Arrive(r) \/ FileStep(r),
         careful', failures' = failures
  PROVE  SoundMoves(r) /\ OneJob'
         /\ \A q \in Slots \ {r} : job[q] = NoJob /\ job'[q] = NoJob
<1>1. SoundMoves(r)
  BY ArriveSound, CreateSound, ConfigureSound, DeleteSound, MigrateSound DEF FileStep
<1>2. \A q \in Slots \ {r} : job'[q] = job[q]
  BY RequestKeeps DEF RequestMoves, JobMoves
<1>3. \A q \in Slots \ {r} : job[q] = NoJob
  <2>1. CASE Arrive(r)
    BY <2>1, ArriveSound
  <2>2. CASE FileStep(r)
    <3>1. job[r] # NoJob
      BY <2>2, Zenon DEF FileStep, CliCreates, CliCreateFails, PepperReads, PepperWrites, Provisions,
         CliConfigures, ChecksRunning, RemovesBinding, dropDatabase, RemovesDir, MayMove,
         Renames, Copies, Unlinks, RewriteReads, RewriteWrites, RewritesMeta, BindingReads,
         BindingWrites, Migrated, At
    <3> QED
      BY <3>1, OthersIdle
  <2> QED
    BY <2>1, <2>2
<1> QED
  BY <1>1, <1>2, <1>3 DEF OneJob

(* A request about a binding is served when no other is under way, if the  *)
(* client is careful.                                                      *)
LEMMA ServedAlone ==
  BindingStep /\ careful' => (careful /\ ~Busy) \/ \E n \in Names : RegistryLost(n)
<1>1. \A proper : Serve(proper) /\ careful' => careful /\ ~Busy
  BY DEF Serve
<1>2. ASSUME NEW n \in Names, NEW p \in Projects, NEW mode \in Modes,
             Bind(n, p, mode) \/ SetMode(n, p, mode)
      PROVE  Serve(TRUE)
  BY <1>2 DEF Bind, SetMode
<1>3. ASSUME NEW n \in Names, NEW p \in Projects, NEW target, NEW mode,
             Rebind(n, p, target, mode)
      PROVE  \E proper : Serve(proper)
  BY <1>3 DEF Rebind
<1>4. ASSUME NEW n \in Names, NEW p \in Projects, Unbind(n, p)
      PROVE  Serve(TRUE)
  BY <1>4 DEF Unbind
<1>5. ASSUME NEW n \in Names, List(n)
      PROVE  Serve(TRUE)
  BY <1>5 DEF List
<1> QED
  BY <1>1, <1>2, <1>3, <1>4, <1>5 DEF BindingStep

(* A step that ends with a careful client and no failure began so.         *)
LEMMA SoundBefore ==
  ASSUME KeptInv, [DiskNext]_diskVars, Sound'
  PROVE  Sound /\ failures' = failures
<1> failures \in Nat
  BY StoreAssumption DEF KeptInv, DiskTypeOK
<1>1. failures' = failures \/ failures' = failures + 1
  <2>1. ASSUME NEW r \in Slots, FileStep(r)
        PROVE  failures' = failures \/ failures' = failures + 1
    BY <2>1, Zenon DEF FileStep, CliCreates, CliCreateFails, PepperReads, PepperWrites, Provisions,
       CliConfigures, ChecksRunning, RemovesBinding, dropDatabase, RemovesDir, MayMove,
       Renames, Copies, Unlinks, RewriteReads, RewriteWrites, RewritesMeta, BindingReads,
       BindingWrites, Migrated, isInstanceRunning, Failure
  <2>2. ASSUME NEW r \in Slots, Arrive(r)
        PROVE  failures' = failures
    BY <2>2, ArriveTakes
  <2>3. BindingStep => failures' = failures \/ failures' = failures + 1
    BY BindingsMove DEF Failure
  <2> QED
    BY <2>1, <2>2, <2>3 DEF DiskNext, Starts, Stops, Restart, Failure, diskVars
<1>2. careful
  <2>1. ASSUME NEW r \in Slots, Arrive(r) PROVE careful
    BY <2>1, ArriveTakes DEF Serve, Sound
  <2>2. ASSUME NEW r \in Slots, FileStep(r) PROVE careful
    BY <2>2, Zenon DEF FileStep, CliCreates, CliCreateFails, PepperReads, PepperWrites, Provisions,
       CliConfigures, ChecksRunning, RemovesBinding, dropDatabase, RemovesDir, MayMove,
       Renames, Copies, Unlinks, RewriteReads, RewriteWrites, RewritesMeta, BindingReads,
       BindingWrites, Migrated, Sound
  <2>3. BindingStep => careful
    BY ServedAlone DEF RegistryLost, Sound
  <2> QED
    BY <2>1, <2>2, <2>3 DEF DiskNext, Starts, Stops, Restart, diskVars, Sound
<1> QED
  BY <1>1, <1>2 DEF Sound

(* A step that is not of a request that takes several.                     *)
LEMMA OtherSteps ==
  ASSUME KeptInv, SoundState, BindingStep, careful', failures' = failures
  PROVE  SoundState' /\ EditsStay /\ job' = job
<1>0. KeptInv => DiskTypeOK
  BY DEF KeptInv
<1>1. job' = job
  BY BindingsMove
<1>2. \A r \in Slots : job[r] = NoJob
  <2>1. ~Failure
    BY <1>0, NoFailure
  <2> QED
    BY <2>1, ServedAlone DEF RegistryLost, Busy
<1>3. AllListed
  BY <1>2, AllAreListed DEF Works
<1>4. EnvsWhole' /\ EditsStay /\ (\A p \in Projects : BindingOK(p)')
  BY <1>3, BindingsSound
<1>5. \A r \in Slots : OwnOK(r)'
  BY <1>1, <1>2, IdleIsOK
<1> QED
  BY <1>1, <1>2, <1>4, <1>5 DEF SoundState, OneJob

(* A step that changes none of it.                                         *)
LEMMA QuietSteps ==
  ASSUME KeptInv, SoundState, UNCHANGED <<dir, binding, job>>
  PROVE  SoundState' /\ EditsStay
<1>1. EnvsWhole' /\ EditsStay
  BY SameDirEnvs DEF KeptInv
<1>2. OneJob'
  BY DEF SoundState, OneJob
<1>3. ASSUME NEW r \in Slots PROVE OwnOK(r)'
  BY DEF SoundState, OwnOK, CreateOK, DeleteOK, MigrateOK, Works, HasEnv, Exists, LeadsTo,
     Listed, Left, name, root
<1>4. ASSUME NEW p \in Projects PROVE BindingOK(p)'
  BY DEF SoundState, BindingOK, Works, Exists, LeadsTo, Listed, name
<1> QED
  BY <1>1, <1>2, <1>3, <1>4 DEF SoundState

(* Every step.                                                             *)
LEMMA StepSound ==
  ASSUME KeptInv, SoundInv, [DiskNext]_diskVars, Sound'
  PROVE  /\ Sound /\ SoundState /\ SoundState' /\ EditsStay
         /\ \A r \in Slots : job[r] # NoJob => NoneLeft(r)
<1>1. Sound /\ SoundState /\ failures' = failures /\ careful'
  BY SoundBefore DEF SoundInv, Sound
<1>2. ASSUME NEW r \in Slots, Arrive(r) \/ FileStep(r)
      PROVE  SoundState' /\ EditsStay /\ \A q \in Slots : job[q] # NoJob => NoneLeft(q)
  <2>1. SoundMoves(r) /\ OneJob' /\ \A q \in Slots \ {r} : job[q] = NoJob /\ job'[q] = NoJob
    BY <1>1, <1>2, RequestSound
  <2>2. \A q \in Slots : OwnOK(q)'
    <3> SUFFICES ASSUME NEW q \in Slots PROVE OwnOK(q)'
      OBVIOUS
    <3>1. CASE q = r
      BY <2>1, <3>1 DEF SoundMoves
    <3>2. CASE q # r
      BY <2>1, <3>2, IdleIsOK
    <3> QED
      BY <3>1, <3>2
  <2> QED
    BY <2>1, <2>2 DEF SoundMoves, SoundState
<1>3. CASE BindingStep
  BY <1>1, <1>3, OtherSteps, AllAreListed DEF NoneLeft
<1>4. CASE (\E n \in Names : Starts(n) \/ Stops(n)) \/ Restart \/ UNCHANGED diskVars
  <2>1. ~Restart
    <3> DiskTypeOK
      BY DEF KeptInv
    <3> QED
      BY <1>1, NoFailure DEF Restart
  <2>2. UNCHANGED <<dir, binding, job>>
    BY <1>4, <2>1 DEF Starts, Stops, diskVars
  <2> QED
    BY <1>1, <2>2, QuietSteps DEF NoneLeft
<1> QED
  BY <1>1, <1>2, <1>3, <1>4 DEF DiskNext

(* The initial states.                                                     *)
LEMMA InitSound == DiskInit => SoundInv
<1> SUFFICES ASSUME DiskInit PROVE SoundState
  BY DEF SoundInv
<1>1. PICK n \in Names, x \in Roots, pepper \in BOOLEAN, bound \in SUBSET Projects :
       /\ dir = [y \in Roots |-> [m \in Names |->
                   IF y = x /\ m = n
                   THEN [env |-> [content |-> 0, pepper |-> pepper],
                         known |-> [p \in Projects |->
                                      IF p \in bound THEN "isolated" ELSE NoFile]]
                   ELSE NoFile]]
       /\ binding = [p \in Projects |->
                       IF p \in bound
                       THEN [instance |-> n, root |-> x, content |-> 0, mode |-> "isolated"]
                       ELSE NoFile]
       /\ database = {n}
  BY DEF DiskInit
<1>2. \A r \in Slots : job[r] = NoJob
  BY DEF DiskInit
<1>3. OneJob /\ \A r \in Slots : OwnOK(r)
  BY <1>2 DEF OneJob, OwnOK, CreateOK, DeleteOK, MigrateOK, Works
<1>4. EnvsWhole
  BY <1>1, AbsentIsApart DEF EnvsWhole, HasEnv, Exists
<1>5. ASSUME NEW p \in Projects, binding[p] # NoFile
      PROVE  Listed(p, binding[p].root, binding[p].instance)
  <2>1. p \in bound /\ binding[p].root = x /\ binding[p].instance = n
    BY <1>1, <1>5
  <2>2. dir[x][n] # NoFile /\ dir[x][n].known[p] = "isolated"
    <3>1. dir \in Trees
      BY InitKeeps DEF KeptInv, DiskTypeOK, Trees
    <3>2. HasEnv(x, n)
      <4> DEFINE env == [content |-> 0, pepper |-> pepper]
                 known == [o \in Projects |-> IF o \in bound THEN "isolated" ELSE NoFile]
                 d == [env |-> env, known |-> known]
      <4>1. env \in Envs /\ known \in ProjectLists
        BY AbsentIsApart DEF Envs, ProjectLists, Modes
      <4>2. dir[x][n] = d
        BY <1>1
      <4> HIDE DEF env, known
      <4>3. d \in Dirs /\ d.env = env /\ env # NoFile
        BY <4>1, AbsentIsApart DEF Dirs
      <4> HIDE DEF d
      <4> QED
        BY <4>2, <4>3, AbsentIsApart DEF HasEnv, Exists
    <3> QED
      BY <1>1, <2>1, <3>2 DEF HasEnv, Exists
  <2> QED
    BY <2>1, <2>2, AbsentIsApart DEF Listed, Exists, Modes
<1> QED
  BY <1>3, <1>4, <1>5 DEF SoundState, BindingOK

(* The two invariants together are inductive.                              *)
LEMMA SoundKept ==
  /\ DiskInit => KeptInv /\ SoundInv
  /\ KeptInv /\ SoundInv /\ [DiskNext]_diskVars => (KeptInv /\ SoundInv)'
<1>1. KeptInv /\ SoundInv /\ [DiskNext]_diskVars => (KeptInv /\ SoundInv)'
  BY StepKeeps, StepSound DEF SoundInv
<1> QED
  BY <1>1, InitKeeps, InitSound

(* While requests come one at a time and nothing fails, the registry of    *)
(* every instance that is there lists each project bound to it whenever no *)
(* request is under way, however instances are created, moved and deleted  *)
(* and projects bound, rebound, listed and unbound before.                 *)
THEOREM BindingsAreRegistered == DiskSpec => []BoundIsRegistered
<1>1. KeptInv /\ SoundInv => BoundIsRegistered
  <2> SUFFICES ASSUME SoundInv, Sound, ~Busy
               PROVE  AllListed
    BY DEF BoundIsRegistered, AllListed, Listed
  <2> QED
    BY AllAreListed DEF SoundInv, Busy, Works
<1> QED
  BY <1>1, SoundKept, PTL DEF DiskSpec

(* In the same conditions DELETE and migrate-root are not answered while a *)
(* project is bound to the directory they removed: resolveBoundProjects    *)
(* found every one of them at the start and each was written since.        *)
THEOREM NoBindingStays == DiskSpec => NoBindingLeftBehind
<1> DEFINE Ends == \A r \in Slots :
       /\ job[r] # NoJob /\ job'[r] = NoJob /\ job[r].at = "bindings" /\ Sound /\ Sound'
       => \A p \in Projects : ~LeadsTo(p, root(r), name(r))
<1>1. KeptInv /\ SoundInv /\ [DiskNext]_diskVars => Ends
  BY StepSound DEF NoneLeft
<1> HIDE DEF Ends
<1>2. DiskSpec => [][Ends]_diskVars
  BY <1>1, SoundKept, PTL DEF DiskSpec
<1> QED
  BY <1>2 DEF NoBindingLeftBehind, Ends

(* In the same conditions an `.env` that a handler reads, changes and      *)
(* writes back holds the edits that it held: what was read is still what   *)
(* is there.                                                               *)
THEOREM EditsStayMade == DiskSpec => EditsAreKept
<1> DEFINE Kept == Sound' => \A x \in Roots, n \in Names :
       HasEnv(x, n) /\ HasEnv(x, n)'
         => dir'[x][n].env.content - dir[x][n].env.content \in {0, 1}
            /\ dir'[x][n].env.content # Blank
<1>1. KeptInv /\ SoundInv /\ [DiskNext]_diskVars => Kept
  <2> SUFFICES ASSUME KeptInv, SoundInv, [DiskNext]_diskVars, Sound',
                      NEW x \in Roots, NEW n \in Names, HasEnv(x, n), HasEnv(x, n)'
               PROVE  dir'[x][n].env.content - dir[x][n].env.content \in {0, 1}
                      /\ dir'[x][n].env.content # Blank
    OBVIOUS
  <2>1. SoundState' /\ EditsStay
    BY StepSound
  <2>2. dir'[x][n].env.content # Blank
    BY <2>1 DEF SoundState, EnvsWhole
  <2>3. \/ dir'[x][n].env.content = dir[x][n].env.content
        \/ dir'[x][n].env.content = dir[x][n].env.content + 1
    BY <2>1 DEF EditsStay
  <2>4. dir[x][n].env.content \in Nat
    <3>1. dir[x][n].env \in Envs
      BY KindsOfDir DEF KeptInv
    <3>2. dir[x][n].env.content \in 0..Blank /\ Blank \in Nat
      BY <3>1, AbsentIsApart DEF Envs
    <3> QED
      BY <3>2
  <2> QED
    BY <2>2, <2>3, <2>4
<1> HIDE DEF Kept
<1>2. DiskSpec => [][Kept]_diskVars
  BY <1>1, SoundKept, PTL DEF DiskSpec
<1> QED
  BY <1>2 DEF EditsAreKept, Kept

-----------------------------------------------------------------------------
(***************************************************************************)
(* The keys.  For clients that wait for each answer (Serialised) the stepwise *)
(* registry implements KeyRegistry, and a token that is handed out is that  *)
(* of an active key.  Both rest on one invariant: while a request is on its *)
(* way no other is, so its copy of the registry is the registry.            *)
(***************************************************************************)
OnItsWay(r) == pc[r] \in {"loading", "saving", "syncing"}

OneAtATime == \A q, r \in Requests : OnItsWay(q) /\ OnItsWay(r) => q = r

SnapshotIsFresh ==
  \A r \in Requests : pc[r] = "saving" =>
    /\ snapshot[r] = registry
    /\ op[r].kind = "revoke" => registry[op[r].key] # Absent

SyncedIsActive == \A r \in Requests : pc[r] = "syncing" => TokenIsActive(r)

(* The inductive invariant. *)
IInv == TypeOK /\ OneAtATime /\ SnapshotIsFresh /\ SyncedIsActive

LEMMA WithIsActive ==
  ASSUME NEW S, NEW T, NEW v \in T, NEW x \in [secret : S, isActive : T]
  PROVE  [x EXCEPT !.isActive = v] = [secret |-> x.secret, isActive |-> v]
OBVIOUS

(* What a request saves is a registry. *)
LEMMA EditedType ==
  ASSUME TypeOK, NEW r \in Requests
  PROVE  Edited(r) \in Registries
<1> DEFINE k == op[r].key
<1> USE DEF Registries, KR!Keys, KR!Absent, Absent, Secrets
<1>1. op[r] \in Ops /\ snapshot[r] \in Registries
  BY DEF TypeOK
<1>2. k \in KeyIds
  BY <1>1 DEF Ops
<1>3. CASE op[r].kind = "create"
  <2>1. [secret |-> r, isActive |-> TRUE] \in KR!Keys
    OBVIOUS
  <2> QED
    BY <1>1, <1>2, <1>3, <2>1 DEF Edited
<1>4. CASE op[r].kind # "create"
  <2>1. PICK old \in {Absent} \cup KR!Keys : snapshot[r][k] = old
    BY <1>1, <1>2
  <2>2. [old EXCEPT !.isActive = FALSE] \in {Absent} \cup KR!Keys
    <3>1. CASE old = Absent
      <4>1. old \in [secret : {NoSecret}, isActive : BOOLEAN] /\ old.secret = NoSecret
        BY <3>1
      <4>2. \A v \in BOOLEAN : [old EXCEPT !.isActive = v]
                               = [secret |-> old.secret, isActive |-> v]
        BY <4>1, WithIsActive
      <4>3. \A v : v = FALSE =>
              [old EXCEPT !.isActive = v] = [secret |-> NoSecret, isActive |-> v]
        BY <4>1, <4>2
      <4> HIDE <4>1, <4>2
      <4> QED
        BY <3>1, <4>3, Zenon
    <3>2. CASE old \in KR!Keys
      BY <3>2
    <3> QED
      BY <2>1, <3>1, <3>2
  <2>3. Edited(r) = [snapshot[r] EXCEPT ![k] = [old EXCEPT !.isActive = FALSE]]
    BY <1>1, <1>2, <1>4, <2>1 DEF Edited
  <2> QED
    BY <1>1, <1>2, <2>2, <2>3
<1> QED
  BY <1>3, <1>4

LEMMA InitIInv == Init => IInv
<1> SUFFICES ASSUME Init PROVE IInv
  OBVIOUS
<1>1. TypeOK
  BY AuthKeysAssumption DEF Init, TypeOK, Registries, KR!Keys, Secrets, Answers
<1>2. OneAtATime /\ SnapshotIsFresh /\ SyncedIsActive
  BY DEF Init, OneAtATime, SnapshotIsFresh, SyncedIsActive, OnItsWay
<1> QED
  BY <1>1, <1>2 DEF IInv

(* Every step preserves the types, whether or not clients wait. *)
LEMMA TypeStep == TypeOK /\ [Next]_vars => TypeOK'
<1> SUFFICES ASSUME TypeOK, [Next]_vars PROVE TypeOK'
  OBVIOUS
<1> USE DEF TypeOK, Goto, Answers
<1>1. ASSUME NEW r \in Requests, Step(r) PROVE TypeOK'
  <2> DEFINE Pcs == Answers \cup {"idle", "loading", "saving", "syncing"}
  <2>1. CASE Receive(r)
    BY <2>1 DEF Receive
  <2>2. CASE loadRegistry(r)
    BY <2>2 DEF loadRegistry
  <2>3. CASE LoadFails(r)
    BY <2>3, AuthKeysAssumption DEF LoadFails, Fault
  <2>4. CASE saveRegistry(r)
    <3>1. AfterSave(r) \in Pcs
      BY DEF AfterSave
    <3>2. registry' \in Registries
      BY <2>4, EditedType DEF saveRegistry
    <3> QED
      BY <2>4, <3>1, <3>2 DEF saveRegistry
  <2>5. CASE SaveFails(r)
    <3>1. registry' \in Registries
      BY <2>5, EditedType DEF SaveFails
    <3>2. faults' \in 0..MaxFaults
      BY <2>5, AuthKeysAssumption DEF SaveFails, Fault
    <3> QED
      BY <2>5, <3>1, <3>2 DEF SaveFails
  <2>6. CASE syncTokenToProject(r)
    BY <2>6 DEF syncTokenToProject
  <2>7. CASE SyncFails(r)
    BY <2>7, AuthKeysAssumption DEF SyncFails, Fault
  <2> QED
    BY <1>1, <2>1, <2>2, <2>3, <2>4, <2>5, <2>6, <2>7 DEF Step
<1>2. CASE UNCHANGED vars
  BY <1>2 DEF vars
<1> QED
  BY <1>1, <1>2 DEF Next

(* What a create saves holds its token. *)
LEMMA SavedIsActive ==
  ASSUME TypeOK, NEW r \in Requests, saveRegistry(r), op[r].kind = "create"
  PROVE  TokenIsActive(r)'
<1>1. op[r].key \in KeyIds /\ snapshot[r] \in Registries
  BY DEF TypeOK, Ops
<1>2. registry' = [snapshot[r] EXCEPT ![op[r].key] = [secret |-> r, isActive |-> TRUE]]
  BY DEF saveRegistry, Edited
<1>3. op' = op
  BY DEF saveRegistry
<1> QED
  BY <1>1, <1>2, <1>3 DEF TokenIsActive, Registries

LEMMA IInvStep ==
  ASSUME Serialised, IInv, [Next]_vars
  PROVE  IInv'
<1> USE DEF IInv
<1>1. TypeOK'
  BY TypeStep
<1>2. ASSUME NEW r \in Requests, Step(r)
      PROVE  (OneAtATime /\ SnapshotIsFresh /\ SyncedIsActive)'
  <2>1. ASSUME NEW q \in Requests, q # r PROVE pc'[q] = pc[q]
    BY <1>2, <2>1 DEF Step, Receive, loadRegistry, LoadFails, saveRegistry,
         SaveFails, syncTokenToProject, SyncFails, Goto, TypeOK
  <2>2. ASSUME NEW q \in Requests, q # r PROVE ~OnItsWay(q)
    <3>1. CASE Receive(r)
      BY <2>2, <3>1 DEF Receive, OnItsWay, Answers
    <3>2. CASE ~Receive(r)
      <4>1. OnItsWay(r)
        BY <1>2, <3>2 DEF Step, loadRegistry, LoadFails, saveRegistry, SaveFails,
             syncTokenToProject, SyncFails, OnItsWay
      <4> QED
        BY <2>2, <4>1 DEF OneAtATime
    <3> QED
      BY <3>1, <3>2
  <2>3. ASSUME NEW q \in Requests, q # r PROVE ~OnItsWay(q)'
    BY <2>1, <2>2, <2>3 DEF OnItsWay
  <2>4. OneAtATime'
    BY <2>3 DEF OneAtATime
  <2>5. pc'[r] = "saving" =>
          /\ snapshot'[r] = registry'
          /\ op'[r].kind = "revoke" => registry'[op'[r].key] # Absent
    BY <1>2 DEF Step, Receive, loadRegistry, LoadFails, saveRegistry, SaveFails,
         syncTokenToProject, SyncFails, Goto, TypeOK, AfterSave
  <2>6. SnapshotIsFresh'
    BY <2>3, <2>5 DEF SnapshotIsFresh, OnItsWay
  <2>7. pc'[r] = "syncing" => TokenIsActive(r)'
    <3>1. CASE saveRegistry(r)
      <4>1. pc'[r] = "syncing" => op[r].kind = "create"
        BY <3>1 DEF saveRegistry, AfterSave, Goto, TypeOK, Ops
      <4> QED
        BY <3>1, <4>1, SavedIsActive
    <3>2. CASE ~saveRegistry(r)
      BY <1>2, <3>2 DEF Step, Receive, loadRegistry, LoadFails, SaveFails,
           syncTokenToProject, SyncFails, Goto, TypeOK
    <3> QED
      BY <3>1, <3>2
  <2>8. SyncedIsActive'
    BY <2>3, <2>7 DEF SyncedIsActive, OnItsWay
  <2> QED
    BY <2>4, <2>6, <2>8
<1>3. ASSUME UNCHANGED vars
      PROVE  (OneAtATime /\ SnapshotIsFresh /\ SyncedIsActive)'
  BY <1>3 DEF vars, OneAtATime, SnapshotIsFresh, SyncedIsActive, OnItsWay, TokenIsActive
<1> QED
  BY <1>1, <1>2, <1>3 DEF Next

-----------------------------------------------------------------------------
(* The variables always have their types, however many clients ask at once. *)
THEOREM TypeCorrect == Spec => []TypeOK
<1>1. Init => TypeOK
  BY InitIInv DEF IInv
<1> QED
  BY <1>1, TypeStep, PTL DEF Spec

(* With clients that wait, a request's copy is never stale when it is saved.  *)
THEOREM NeverStale ==
  ASSUME Serialised
  PROVE  Spec => []IInv
<1>1. IInv /\ [Next]_vars => IInv'
  BY IInvStep
<1> QED
  BY <1>1, InitIInv, PTL DEF Spec

(* A step of the code is a step of the registry that changes one key, or a    *)
(* stutter.                                                                   *)
LEMMA StepRefines ==
  ASSUME IInv, [Next]_vars
  PROVE  [KR!Next]_registry
<1>1. ASSUME NEW r \in Requests, Step(r), registry' # registry
      PROVE  KR!Next
  <2> DEFINE k == op[r].key
  <2>1. pc[r] = "saving" /\ registry' = Edited(r)
    BY <1>1 DEF Step, Receive, loadRegistry, LoadFails, saveRegistry, SaveFails,
         syncTokenToProject, SyncFails
  <2>2. snapshot[r] = registry
    BY <2>1 DEF IInv, SnapshotIsFresh
  <2>3. k \in KeyIds /\ op[r].kind \in {"create", "revoke"}
    BY DEF IInv, TypeOK, Ops
  <2>4. CASE op[r].kind = "create"
    <3>1. KR!Create(k, r)
      BY <2>1, <2>2, <2>4 DEF Edited, KR!Create
    <3> QED
      BY <2>3, <3>1 DEF KR!Next, Secrets
  <2>5. CASE op[r].kind = "revoke"
    <3>1. registry[k] # KR!Absent
      BY <2>1, <2>5 DEF IInv, SnapshotIsFresh, Absent
    <3>2. registry' = [registry EXCEPT ![k].isActive = FALSE]
      BY <2>1, <2>2, <2>5 DEF Edited
    <3>3. KR!Revoke(k)
      BY <3>1, <3>2 DEF KR!Revoke
    <3> QED
      BY <2>3, <3>3 DEF KR!Next
  <2> QED
    BY <2>3, <2>4, <2>5
<1> QED
  BY <1>1 DEF Next, vars

LEMMA InitRefines == Init => KR!Init
<1> SUFFICES ASSUME Init PROVE KR!Init
  OBVIOUS
<1> QED
  BY DEF Init, KR!Init, KR!Keys, Absent, Secrets

(* With clients that wait, the registry of the code implements KeyRegistry:   *)
(* a request changes its own key and no other, in one step.                   *)
THEOREM RegistryRefined ==
  ASSUME Serialised
  PROVE  Spec => RegistrySpec
<1>1. IInv /\ [Next]_vars => [KR!Next]_registry
  BY StepRefines
<1> QED
  BY <1>1, InitRefines, NeverStale, PTL DEF Spec, RegistrySpec, KR!Spec

LEMMA StepHandsOutActive ==
  ASSUME IInv, [Next]_vars
  PROVE  \A r \in Requests :
           /\ pc[r] = "syncing" /\ pc'[r] \in {"created", "warned"} => TokenIsActive(r)
           /\ pc[r] = "saving" /\ pc'[r] \in {"created", "syncing"} => TokenIsActive(r)'
<1> TAKE r \in Requests
<1>1. pc[r] = "syncing" => TokenIsActive(r)
  BY DEF IInv, SyncedIsActive
<1>2. ASSUME pc[r] = "saving", pc'[r] \in {"created", "syncing"}
      PROVE  TokenIsActive(r)'
  <2>1. saveRegistry(r)
    <3>1. PICK q \in Requests : Step(q)
      BY <1>2 DEF Next, vars
    <3>2. q = r
      BY <1>2, <3>1 DEF Step, Receive, loadRegistry, LoadFails, saveRegistry,
           SaveFails, syncTokenToProject, SyncFails, Goto, IInv, TypeOK
    <3> QED
      BY <1>2, <3>1, <3>2 DEF Step, Receive, loadRegistry, LoadFails, SaveFails,
           syncTokenToProject, SyncFails, Goto, IInv, TypeOK
  <2>2. op[r].kind = "create"
    BY <1>2, <2>1 DEF saveRegistry, AfterSave, Goto, IInv, TypeOK, Ops
  <2> QED
    BY <2>1, <2>2, SavedIsActive DEF IInv
<1> QED
  BY <1>1, <1>2

(* With clients that wait, a token is never handed out for a key that the     *)
(* registry does not hold as active.                                          *)
THEOREM TokensAreActive ==
  ASSUME Serialised
  PROVE  Spec => CreatedTokenIsRegistered
<1>1. IInv /\ [Next]_vars =>
        [\A r \in Requests :
           /\ pc[r] = "syncing" /\ pc'[r] \in {"created", "warned"} => TokenIsActive(r)
           /\ pc[r] = "saving" /\ pc'[r] \in {"created", "syncing"} => TokenIsActive(r)']_vars
  BY StepHandsOutActive
<1> QED
  BY <1>1, NeverStale, PTL DEF Spec, CreatedTokenIsRegistered

LEMMA StepRevives ==
  ASSUME IInv, [Next]_vars, NEW k \in KeyIds,
         registry[k] # Absent, ~registry[k].isActive, registry'[k].isActive
  PROVE  \E r \in Requests :
           /\ op[r] \in [kind : {"create"}, key : {k}, syncToProject : BOOLEAN]
           /\ pc[r] = "saving" /\ pc'[r] # "saving"
<1>1. PICK r \in Requests : Step(r) /\ registry' # registry
  BY DEF Next, vars
<1>2. /\ pc[r] = "saving" /\ registry' = Edited(r)
      /\ pc' = [pc EXCEPT ![r] = AfterSave(r)] \/ pc' = [pc EXCEPT ![r] = "failed"]
  BY <1>1 DEF Step, Receive, loadRegistry, LoadFails, saveRegistry, SaveFails,
       syncTokenToProject, SyncFails, Goto
<1>3. /\ op[r] \in Ops /\ snapshot[r] = registry /\ registry \in Registries
      /\ op[r].kind = "revoke" => registry[op[r].key] # Absent
  BY <1>2 DEF IInv, TypeOK, SnapshotIsFresh
<1>4. CASE op[r].kind = "create"
  <2>1. op[r].key = k
    BY <1>2, <1>3, <1>4 DEF Edited, Ops, Registries
  <2>2. op[r] \in [kind : {"create"}, key : {k}, syncToProject : BOOLEAN]
    BY <1>3, <1>4, <2>1 DEF Ops
  <2>3. pc'[r] # "saving"
    BY <1>2, <1>4 DEF AfterSave, IInv, TypeOK
  <2> QED
    BY <1>2, <2>2, <2>3
<1>5. CASE op[r].kind = "revoke"
  <2> DEFINE j == op[r].key
  <2>1. registry' = [registry EXCEPT ![j].isActive = FALSE] /\ j \in KeyIds
    BY <1>2, <1>3, <1>5 DEF Edited, Ops
  <2>2. k # j
    <3>1. registry[j] \in KR!Keys
      BY <1>3, <1>5, <2>1 DEF Registries
    <3>2. ~registry'[j].isActive
      BY <1>3, <2>1, <3>1 DEF Registries, KR!Keys
    <3> QED
      BY <3>2
  <2>3. registry'[k] = registry[k]
    BY <1>3, <2>1, <2>2 DEF Registries
  <2> QED
    BY <2>3
<1> QED
  BY <1>3, <1>4, <1>5 DEF Ops

(* With clients that wait, a revoked key becomes active again only by a create *)
(* of that key: it takes two requests that overlap to revive it otherwise.     *)
THEOREM RevokedStay ==
  ASSUME Serialised
  PROVE  Spec => RevokedStaysRevoked
<1> DEFINE Revives == \A k \in KeyIds :
       registry[k] # Absent /\ ~registry[k].isActive /\ registry'[k].isActive
         => \E r \in Requests : op[r] \in [kind : {"create"}, key : {k},
                                            syncToProject : BOOLEAN]
                                /\ pc[r] = "saving" /\ pc'[r] # "saving"
<1>1. IInv /\ [Next]_vars => Revives
  BY StepRevives
<1> HIDE DEF Revives
<1>2. IInv /\ [Next]_vars => [Revives]_vars
  BY <1>1
<1> QED
  BY <1>2, NeverStale, PTL DEF Spec, RevokedStaysRevoked, Revives
=============================================================================
