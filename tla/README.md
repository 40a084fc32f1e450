# A TLA+ model of the Iranti control plane

The control plane is a local web server (Express, TypeScript) and a React
dashboard with which an operator watches and manages instances of Iranti, a
memory server for AI agents that is *not* part of this repository. The server
reads and writes the Iranti database (PostgreSQL), starts and stops Iranti
processes, edits their files, and keeps a mirror of what they did. A command
line (`bin/iranti-cp.js`) starts and stops the server itself, and a script
(`scripts/setup-wizard.js`) sets up the first instance.

This directory holds TLA+ specifications of the parts in which order, failure
and concurrency decide whether the program is right, the TLC runs that check
them on small instances, and TLAPS proofs of the properties that matter most,
for every value of the constants. `PROJECT.json` maps every definition to the
lines it models and lists runs, mutants, findings, hazards and theorems.

To check a run or a proof:

    tlc -config FleetSafety.cfg FleetLedger.tla
    tlapm FleetLedgerProofs.tla

## 1. Inventory

Paths are below `src/src/server` unless they say otherwise; files ending in
`.tsx` are below `src/src/client/src/components`.

| Component | State it keeps | Operations | Hard behaviour | Modelled by |
|---|---|---|---|---|
| Fleet ledger poller (`lib/fleet-ledger-poller`, `lib/fleet-ledger-repo`) | mirror table, per-instance watermark and counters, cycle locals | a cycle every 30 s: read the watermark, fetch, insert, advance, drain; record failures | overlapping cycles, restarts within a drain, ties, timeouts, failed queries | `FleetLedger` |
| Staff event adapter (`lib/staff-event-adapter`) | two cursors in memory, `isPolling`, `staff_events` | poll two tables in parallel, insert, move the cursor | restart from one newest event, lost acknowledgement, parallel polls | `StaffEventAdapter` |
| Event stream (`events`, `ActivityStream.tsx`) | a cursor per connection; the client's last event id, list, pause buffer | connect, resume, poll, send, reconnect; pause, resume, tail | lost connections, late rows, ties, two ways to resume, handlers that see an old drawing | `EventStream`, `ActivityFeed` |
| Instance lifecycle (`lifecycle`) | map of tracked processes | start, stop, restart, process-status | requests interleave at every await, processes end by themselves, platforms differ | `Lifecycle` |
| API keys (`auth-keys`) | one JSON registry in one row, `.env.iranti` of a project | create or rotate, revoke, list | load, edit, save without a transaction | `KeyRegistry`, `AuthKeys` |
| Archive review (`archivist`, `ArchiveExplorer.tsx`) | `archive_flags`, `knowledge_base`; flags the page remembers | flag, unflag, restore | check outside the transaction, pool exhaustion, remembered flags | `FactReview`, `ArchivePage` |
| Escalations (`escalations`, `ConflictReview.tsx`) | `archive.resolutionState`, `knowledge_base` | keep, accept, custom | separate commits, two resolutions at once, one panel for all rows | `FactReview`, `ConflictPage` |
| Database pool (`db`) | five connections | query, connect with a timeout | exhaustion | `FactReview` |
| Instances on disk (`instance-lifecycle`, `lib/db-provision`, `lib/instance-authority`) | directories in two roots, databases, `.env` files | create, configure, delete, migrate | many steps, each able to fail, with the process ending between them | `InstanceFiles` |
| Project bindings (`project-bindings`) | `projects.json` per instance, `.env.iranti` per project | bind, rebind, change of mode, unbind | several files, no handler compares them all | `Instances` |
| Discovery (`instances`) | none | ask each root, read directories, choose one of a name | the answers are of different moments | `Discovery` |
| Instances page (`InstanceManager.tsx` and its forms) | list, selection, questions, drafts | start, stop, create, configure, delete, bind, keys | one panel for all instances, refetches under a form | `InstancesPage`, `InstanceForms` |
| Upgrade jobs (`upgrade`, `UpgradeSection.tsx`) | map of at most 50 jobs; the panel's timer | start, follow, finish | eviction of running jobs, overtaking answers, leftover timers | `UpgradeJobs` |
| Chat (`chat`, `ChatPanel.tsx`) | an abort controller per session, the thread | send, cancel, clear | cancel drops the page's fetch only | `Chat` |
| Providers (`providers`, `ProviderManager.tsx`, `RoutingEditor.tsx`) | `.env` files, two caches, three drafts | keys, default, chain, routing, renaming | stale caches, drafts over refetched data | `Providers`, `ProviderRouting` |
| Sessions (`sessions`, `session-ledger`, their views) | a query per tab | list, resume, abandon; ledgers | invalidation across tabs, merged queries, limits | `Sessions`, `SessionLedger` |
| Knowledge base and logs (`kb`, `logs`, their views) | filters, pages | list, search, history, graph, export | rows move between two queries, a filter changes under a page | `MemoryPage`, `FactHistory`, `EntityGraph`, `StaffLogs` |
| Health and diagnostics (`health`, `diagnostics`, `HealthDashboard.tsx`) | last result per instance, one probe fact | run the checks, rank them | checks see different moments, runs share a fact | `Health`, `Diagnostics` |
| Repair and Claude integration (`repair`, `claude-integration`, their panels) | `CLAUDE.md`, `.mcp.json` | doctor, two repairs, scaffold | read, edit, write of a file that people edit | `Repair` |
| Codex integration (`codex-integration`, `lib/codex-cli`, its panel) | the configuration of Codex | set up, remove | a command that outlives its timeout | `CodexIntegration` |
| Setup (`setup`, `GettingStarted.tsx`; `setup-wizard.js`) | a checklist; an env file, a registry | repair, refresh; five sections | late answers; cancel between sections | `Onboarding`, `SetupScript` |
| Server process, ports, launcher (`index`, `lib/portSelection`, `control-plane-self`, `bin/iranti-cp.js`) | ports | open, start, stop, status, config, uninstall | only ports connect the processes | `Launcher` |
| Frame (`AppShell.tsx`, `CommandPalette.tsx`, hooks) | toasts, settings in `localStorage` | poll health, toggle, save, navigate | drafts, two tabs, two listeners of one key | `Shell`, `CommandPalette` |
| Reads (`metrics`, `agents`, `overview`, `whoknows`, `attendant-debug`, `version-sync`, `install-state`) | none | single queries | none worth a state machine | not modelled |

How they interact: the adapter writes `staff_events`, which every stream and
the logs read (adapter and stream are composed in `StaffActivity`). The poller
and the adapter are started after the server listens and stopped by `shutdown`;
both lose their memory with the process and find their place again in the
database. Restore, resolution and API keys all write one table,
`knowledge_base`, through one pool or one of their own. Lifecycle acts on
processes that other programs (the `iranti` command, the operator) act on too.
Bindings and instances are kept in files that the control plane, the command
line and people edit (composed in `Instances`). A page talks to the server by
requests that overtake one another, and shows what react-query last put into
its cache; every page model has its routes in it, and whatever else changes the
state behind them (agents, editors, other tabs) as actions of its own.

What makes each component right, in a line: the mirror has every event once
and the watermark never passes one that is missing; the adapter emits each row
once; a client sees events in order, without gaps, and again only within
a millisecond; a start, stop or restart acts on the process it means and is
answered; a key that was handed out is registered and one that was revoked stays so; an operator's decision
about a fact is applied wholly or not at all; an instance only goes by a delete
and leaves no binding behind; a page shows what its last request asked for and
comes to show what the operator did; nothing one actor does is undone by a
draft, a rewrite or a cancel of another.

## 2. Modules

| Module | What it is |
|---|---|
| `FleetLedger`, `FleetLedgerProofs` | the poller and mirror; theorems about them |
| `StaffEventAdapter`, `StaffEventAdapterProofs` | the adapter; theorems |
| `EventStream` | one stream and its client, with its theorems |
| `StaffActivity` | adapter and stream on one table, by `INSTANCE` of both with their theorems, and the theorems about the two together |
| `Lifecycle` | one instance's processes and the requests on them |
| `KeyRegistry` | abstract: a registry in which one key changes in one step |
| `AuthKeys` | the handlers that load, edit and save it, which implement `KeyRegistry` |
| `FactReview` | flag, restore and resolve, with the pool, with its theorems |
| `InstanceFiles`, `Instances` | the disk with the handlers on instances; with those on bindings, all on one disk |
| `StoresProofs` | theorems about `Instances` and `AuthKeys` |
| `UpgradeJobs`, `Chat`, `Providers`, `ProviderRouting`, `Sessions`, `SessionLedger`, `MemoryPage`, `ArchivePage`, `FactHistory`, `EntityGraph`, `StaffLogs`, `ActivityFeed`, `ConflictPage`, `Health`, `Diagnostics`, `Repair`, `CodexIntegration`, `InstancesPage`, `InstanceForms`, `Discovery`, `Onboarding`, `Shell`, `CommandPalette` | one page each, with its routes |
| `Launcher`, `SetupScript` | the command line with the servers, the installer |
| `PageState` | the variables that the pages share |
| `Panels`, `PagesProofs` | seven of these pages behind one next-state relation (`CoreSpec`), with the properties they share; theorems |
| `Controls`, `ControlsProofs` | ten more, the command line and the installer (`ControlsSpec`), on which the operator acts; theorems about them and about `Lifecycle` |
| `MCStores`, `MCPages`, `MCLive` | the parts above put side by side for three runs |

Conventions: a handler is split at its awaits, one action per stretch between
two of them, and a synchronous handler is one action. A variable says where
each request is (`pc[r]`, `job[r]`, `reqs`). Failures are actions of their own
with a bound (`MaxFaults`, `MaxFailures`, `MaxEnds`, `MaxDrops`). A statement whose
acknowledgement is lost is its own action: effect and failure. Definitions for
PostgreSQL, the clock, Iranti, editors and the operating system are marked
external and contain only what the code relies on. A definition called "Mutant
of X" is a plausible wrong X, used to show that a property can fail. History
variables (`tailed`, `overtaken`, `slips`, `edited`, ...) are in the comments
of the declarations that introduce them.

### FleetLedger

State: `remote[i]` (the ledger of instance *i*: the timestamps of its events, in
milliseconds), `mirror[i]` (the events mirrored), `watermark[i]` (its row of
`instance_ledger_watermarks`), `cycle[c]` (the locals of a poll cycle),
`running` (the interval is armed) and the count of `faults`. `Tick` starts a
cycle; a cycle takes its instances one after the other (`NextInstance`), reads
the watermark, fetches (`Fetch`, any answer between the two bounds that the
ledger's route may give), inserts (`Upsert`), advances the watermark
(`Advance`), and drains older batches below the oldest stamp minus one
millisecond (`NextUntil`). `FetchFails`, `BodyStalls`, `QueryFails`,
`TickPartial` and `Crash` are the failures. Nothing in the code keeps two
cycles apart, so several can be under way; the cycles are a set of model values.

### StaffEventAdapter

State: `source[t]` (the rows of the two tables by commit order, with their
`createdAt`), `events` (`staff_events`), `cursor`, `poll` and `process`.
`Select` is the query with its `LIMIT`, any answer the query allows; `Insert`
is the statement and the cursor's move, which nothing separates. A restart
reads both cursors from the newest event (`StoredCursor`), or looks back a
fixed time if there is none or the read fails (`startAdapterBlind`).

### EventStream, StaffActivity and ActivityFeed

`EventStream`: `staff_events` as timestamps in the order of insertion, the
connection (`es`, `open`, `wire`), the server's `pollCursor`, what the client
`received` and the id it resumes from. The client kinds are the plain
`EventSource` (header) and the hook of the dashboard (parameter); `ValidSince`
is the server's check of that parameter, which a UUID fails. `staff_events`
keeps microseconds and the server's `Date` milliseconds, so a cursor is a stamp
cut to its millisecond (`Millis`, with `Fraction` stamps in each): an event
stamped within one is newer than the cursor it leaves and is sent again at
every poll until a later one moves the cursor. `received` has each event where
it first came, `again` those that came more than once. `StaffActivity`
puts the adapter and a stream on one table and shows that the adapter is a
writer `EventStream` allows for (`StreamSpec`), which carries the stream's
properties over to the composition; the adapter's stamps are whole milliseconds,
as the rows it reads are `Date`s by then. `ActivityFeed` is what the page does with
what it received: a list of bounded length, a buffer while it is paused by its
badge or by the mouse, the ref a message looks at and the state a handler saw
when it was drawn, and the tail mode.

### Lifecycle

State: the processes of an instance (`status`, `killed`, `signals`, the pid
each wrote into the runtime metadata), `tracked` (the map's entry) and the
requests. `isAlive` is the code's test, which knows `exitCode` and `killed`
only. `windows` is the platform, chosen at the start: on POSIX a process may
end by a signal, on Windows `taskkill` is awaited and fails for a process that
is gone. `iranti status` and `iranti instance restart` are external.

### KeyRegistry and AuthKeys

`KeyRegistry` says what is promised: create and revoke change one key in one
step. In `AuthKeys` a request loads the registry (`loadRegistry`), edits its
copy (`Edited`), saves the whole (`saveRegistry`) and may write the token into
a project (`syncTokenToProject`). `Serialised` says that a request is sent
only when all others are answered, as one operator in one browser does.

### FactReview, ArchivePage, ConflictPage

`FactReview`: the one `knowledge_base` row of a fact with its value and its
`validUntil` (none, ahead or past; `Elapse` is the moment it passes), the flags,
resolutions and `validUntil` of its archived rows, the row lock a transaction holds, the cached knowledge
that `staff_events` exists, and the requests. `Holding` names the places where
a request has a connection, `Free` whether the pool has another; a query that
finds none fails after the pool's timeout, which needs no fault of the bound.
Accepting a challenger (`Decided`) copies the `validUntil` of its row, so that
one that has expired replaces the fact and is not in force itself.
The two pages take the effect of a request as one step and model what they
remember. `ArchivePage`: the flags set by the page itself, which override what
the server answers, the dialog, and the queue of flagged rows, which react-query
caches for each instance (`queue[i]`: the data, whether the last fetch failed,
whether it is stale, and what a fetch under way has read). Selecting an instance
asks for nothing while its answer is fresh; a write that is answered invalidates
the queue of the instance at the click (`Remember`), and its effect may come
without an answer (`Serves`). `slips` says what of this the page cannot see.
`ConflictPage`: the list, the selection and the panel that all rows share.

### InstanceFiles and Instances

`dir[root][n]` is an instance's directory (`.env`, registry of projects),
`binding[p]` a project's `.env.iranti`, `database` and `running` what exists
and runs, `job[r]` the locals of a request. The content of a file is the number
of edits made to it. `InstanceFiles` splits create, configure, delete and
migrate at every await (the CLI, the env file, the registry, the database, each
binding, the copy and the removal of the source when a rename crosses devices);
every step may fail or be the last of the process (`Restart`).
`Instances` has the handlers on bindings, which are synchronous, and puts all on one disk. `careful`
says whether the client so far sent one request at a time and only proper ones
(`BoundIsRegistered` and `OnlyDeleteRemoves` say what holds of all clients and
what of careful ones).

### The pages

Each page module has the state of the component (named as in the source), the
state of its routes, and the requests between them. Requests of one page may
overtake one another unless the code prevents it; react-query's rules (one
request per query, an invalidation during a request, data kept while it is
refetched, refetch on focus) are part of the page. What they are about:

| Module | State beside the page's own | What could go wrong |
|---|---|---|
| `UpgradeJobs` | `jobStore`, `status` | an answer about a job that is no longer shown; a timer left over |
| `Chat` | `inFlight` (controllers), `req` | an answer under the wrong question; an abort of the wrong one |
| `Providers` | env file, both caches | a cache entry of a key that is gone |
| `ProviderRouting` | env files of two instances | a draft saved over what it did not show |
| `Sessions` | Iranti's session states | a tab that shows a session it should not |
| `SessionLedger` | log, mirror | an event twice, a total that is not of the list |
| `MemoryPage` | facts of two instances, with the value of the one column that orders them | a page of another filter, instance or page size; a row missed by paging (which of the facts of one value a page has is any choice, `Pages`) |
| `FactHistory` | the two tables and a clock | a version missed or seen twice while it moves |
| `EntityGraph` | edges | an edge missing from a graph that is called complete |
| `StaffLogs` | events, of which some share a timestamp; exports | rows the filter excludes; a short export that is called whole |
| `Health`, `Diagnostics` | faults; the probe fact | wrong severity; one run failing another; results of another instance |
| `Repair` | the files of a project | text of people damaged; a repair that does not make its check pass |
| `CodexIntegration` | the configuration, late commands | ok though it did not happen; a panel that shows the past |
| `InstancesPage`, `InstanceForms` | instances as discovery finds them, with port and default provider | an action that does not show; deletion of another instance than typed; a draft that reverts a change, a default that is sent |
| `Discovery` | directories, env files, runtimes | of two with one name the worse is listed; one that runs is not found |
| `Onboarding` | the facts steps need | a repair hidden by an older answer |
| `Shell`, `CommandPalette` | health, `localStorage`; the health page's listener | bad health not told; settings reverted; a command run on nothing |
| `Launcher` | servers, commands and the ports that connect them | a server left after a stop; a tab told of a stop that did not happen |
| `SetupScript` | what each section writes | a default provider without key; lost settings |

### Panels, Controls, MCStores, MCPages, MCLive

A run has one next-state relation, and these parts share no state, so
interleaving them would multiply states and show nothing. Each of these modules
therefore has a variable (`part`, `page`) that a behaviour fixes at its first
state: that part runs, the others stay as they begin. `MCStores` extends its
three parts, `MCPages` extends `Lifecycle`, `Panels` and `Controls`, and `MCLive`
extends `FactReview`, so that a theorem about one of these is about the very definitions the run checks
and TLC evaluates the assumptions the theorem rests on; everything else is
instantiated, a page with the shared variables `s1`, `s2`, ... for its own. The
properties of the pages are grouped by what they promise
(`AnswersFindTheirRequest`, `ListsAreWhole`, ...), each a conjunction of the
pages' own, which are stated and explained in the pages' modules. `Panels` and
`Controls` have the pages that theorems are proved about, with their constants
as constants of their own: `CoreInit`, `CoreNext`, `ControlsInit` and
`ControlsNext` are disjuncts of `MCPages!PageInit` and `PageNext`, so the run
checks the specifications the theorems are about, together with the other pages,
whose constants `MCPages` fixes. They are two modules because the provers take
longer with every page that a module knows: `Panels` has the pages whose
promises are about answers, jobs, events and history, `Controls` those on which
the operator does something.

## 3. Runs

Passing runs:

| Run | What it shows | Bound |
|---|---|---|
| `FleetSafety` | the count never exceeds the rows, the watermark names a mirrored event, a ledger that fits one batch never has a gap; a longer one has none while nothing fails and stamps differ | one instance, four events, batches of three, ties allowed, two cycles at once, one fault |
| `Adapter` | no row becomes two events, none above the start cursor is passed over, and polling goes on after a failure | two tables of two rows, `LIMIT` 1, stamps up to one tick late, one fault |
| `Stream` | a client receives each event of a whole millisecond once, none of an older millisecond after a later one, and all without gaps; a client that resumes by the header receives everything in the end | three events in statements of up to two, `LIMIT` 2, three stamps to a millisecond, events up to one late, two polls, two events on the wire when a poll starts, one lost connection, one failed query |
| `Stores`, keys | load, edit, save implements the one-step registry for clients that wait | two keys, two requests and a key of the CLI, one fault |
| `Stores`, disk | bindings stay registered, only a delete removes an instance, what ends well leaves no binding behind, edits of an env file survive | two names, two roots, one project, two requests at once and three in all (or two and a fault), one edit |
| `Stores`, staff | no row of Iranti is shown twice; the adapter refines the writer that the stream's module assumes | one row per table, one restart or failure of the adapter, one lost connection |
| `Pages`, processes | only confirmed processes are tracked; a stop reaches both pids; a start is refused only while something runs | both platforms, two starts (which are alike, so the same one comes first), a stop, a restart, two processes, one that ends by itself, any number of restarts of the control plane |
| `Pages`, each page | the promises of section 2, by theme | two of whatever can be confused (jobs, instances, tabs, keys, requests, pages of a list), lists longer than a page, one or two changes by others; the values are in `Pages.cfg` and in `MCPages`, whose `FewInits` and `FewSteps` name the three further bounds |
| `Live`, fleet | every event of every instance is mirrored in the end | two instances, one of which records once, two cycles, one fault |
| `Live`, fact | no fact in force is ever seen ended without its replacement, but for Iranti, time and an expired challenger that is accepted; a recorded decision became the fact; every restore and resolution is answered, also when the pool runs out | two restores and a resolution on two connections, one write by Iranti before the second restore, one fault; any `validUntil` of the rows where the resolution may read it (`FactInit`) |
| `Live`, processes | every start is answered, also when a process neither comes up nor exits | two starts and a stop, two processes |
| `Live`, ten pages | a polled job ends or is given up, a question, a list, a repair, a diagnosis, an action, a checklist and a command settle, and the dashboard follows the database into failure and out of it | as in `Pages`, smaller: one slot, one question less, a start and a stop |

Why these bounds are enough to see the interesting cases: every limit (batch,
`LIMIT`, pool, job store, page, buffer, export, toast list) is reached and
exceeded; there are at least two of every actor that can race with its like; a
failure can strike at every step; clocks run long enough for stamps below, at
and above a cursor. Each property of each run has a mutant of the code that
breaks it within these bounds (`PROJECT.json`). `FleetSafety` and `Stores` use
symmetry (of cycles; of requests and names); no run of a liveness property
does. `CHECK_DEADLOCK FALSE` stands
where requests, events and the clock are bounded and everything may be done.

Runs that show a disagreement between the code and what the repository says of
it (each finding in `PROJECT.json` quotes the line):

| Run | What the code does |
|---|---|
| `FleetInterruptedDrain` | a drain that fails after its first batch leaves older events unmirrored for good |
| `AuthLostRevocation` | a concurrent create brings a revoked key back |
| `ReviewTwice` | two resolutions of one escalation both succeed |
| `StreamShutOut` | a page that resumes by `since` sends an id there and is answered 400 for ever |
| `UninstallStops` | the uninstall finds its own connection on the port and ends itself |
| `SetupCancelled` | a cancel after a section that wrote says that nothing was written |

Some properties hold with an exception that the code makes, and name it: the
stream and the drain of the fleet ledger promise completeness for distinct
stamps only; a stream whose resume lookup failed starts at the present
(`blind`); `EventuallyReceived` is about clients that resume by the header; a
process ended by a signal blocks a start (`ConflictMeansRunning`); on Windows a
stop whose tracked process has gone does not reach the runtime's
(`StopSignalsAll`); a cached reachability may be of an old key if the key was
written while it was checked (`CacheIsOfKey`); what the archive page remembers
is true while its two places act one at a time and are answered (`RememberedIsTrue`); a repair
keeps text outside its block if nobody edits between its read and its write
(`OutsideIsKept`); the feed may lose events to a handler that ran on an old
drawing (`NothingLost`); an event stamped within a millisecond comes again
(`ReceivedOnce`), and a full batch of them lets nothing after it through (`Sparse`);
a fact may be replaced by a challenger that has expired (`FactStaysInForce`); the
configure form sends `claude` for an instance without a provider
(`ConfigureRevertsNothing`); paging shows each fact once if the column that orders
them has no ties (`WalkSeesEachOnce`); the queue of flagged rows may be behind,
until its next read, after a write from another instance's view, one without an
answer, or one during its first read (`QueueFollowsFlags`).

## 4. Fairness

Weak fairness only, and only of what the runtime guarantees: an interval keeps
firing while the process lives; a query, a fetch or a command that was sent
settles (each has a deadline: `connectionTimeoutMillis`, the timeouts of the
probes, of the status, of the confirmation and of the commands); a timer fires
and a connection that is not cut delivers; a child process of an upgrade ends.
Fairness is stated per process or request (`Answering(r)`, `Posting(s)`,
`ServerStep(s)`, `CommandStep(c)`), so that one cannot starve another's.
Nothing makes time pass, rows appear, an operator act, a request arrive, a
control plane start or an Iranti process come up. `MCFairness` in `MCLive` is
these conditions for the part at work. What is said of the poller and the
adapter is of stretches in which the process stays up.

## 5. Proofs

| Theorem | Says |
|---|---|
| `FleetLedgerProofs!TypeCorrect` | every state is well typed |
| `FleetLedgerProofs!TotalIsNeverOver` | the counter of an instance never exceeds the events it stands for |
| `FleetLedgerProofs!WatermarkNamesIngestedEvent` | the watermark names an event that is in the mirror |
| `FleetLedgerProofs!NothingSkippedWhileQuiet` | while nothing failed and stamps differ, no event below the watermark of a settled instance is missing |
| `FleetLedgerProofs!NoGapInOneBatch` | a ledger that fits one batch has no gap below its watermark, whatever fails |
| `StaffEventAdapterProofs!TypeCorrect` | every state is well typed |
| `StaffEventAdapterProofs!NoRowIsEmittedTwice` | no row becomes two events, unless an acknowledgement or a stored cursor was lost |
| `StaffEventAdapterProofs!CursorLeavesNothingBehind` | a row the cursor has passed has its event, if rows appear in the order of distinct stamps |
| `EventStream!TypeCorrect` | every state is well typed |
| `EventStream!NoWholeEventReceivedTwice` | a client receives no event of a whole millisecond twice |
| `EventStream!OldEventsComeFirst` | what a client receives, repetitions included, never goes back to an earlier millisecond |
| `EventStream!NothingMissedBetween` | between two events it received a client missed none, if stamps are distinct and in order and no resume lookup failed |
| `StaffActivity!AdapterIsAWriter` | adapter and stream together implement the specification of the stream |
| `StaffActivity!EveryRowIsShownOnce` | no row of Iranti reaches a client as two events |
| `ControlsProofs!TypeCorrect` | every state of `Lifecycle` is well typed |
| `ControlsProofs!OnlyConfirmedAreTracked` | only a process that was confirmed to run is ever tracked |
| `ControlsProofs!StoppedMeansSignalled` | an answered stop leaves none of the processes it found running without a signal |
| `ControlsProofs!RefusedMeansRunning` | a start is refused only while a process lives or the tracked one was ended by a signal |
| `FactReview!TypeCorrect` | every state is well typed, the pool never gives more than it has, the row lock is held only within a transaction |
| `FactReview!FactsStay` | no step of a request ends a fact in force without putting another in force, but the acceptance of a challenger that has expired |
| `FactReview!DecisionsTakeForce` | a row recorded as resolved by a new value has that value in force, or another request has replaced it since |
| `StoresProofs!TypeCorrect` | every state of `AuthKeys` is well typed |
| `StoresProofs!RegistryRefined` | under `Serialised`, `AuthKeys` implements `KeyRegistry` |
| `StoresProofs!TokensAreActive` | under `Serialised`, a token is handed out only while its key is active |
| `StoresProofs!RevokedStay` | under `Serialised`, a revoked key becomes active again only by a create of that key |
| `StoresProofs!DiskTypeCorrect` | directories, bindings and the locals of requests keep their kinds |
| `StoresProofs!DeletesOnlyRemove` | an instance's `.env` leaves the disk only if a delete of it was accepted, whatever overlaps, fails or is cut off |
| `StoresProofs!BindingsAreRegistered` | while requests come one at a time and nothing fails, an instance lists every project that is bound to it |
| `StoresProofs!NoBindingStays` | then, too, a delete or migration leaves no binding to the directory that has gone |
| `StoresProofs!EditsStayMade` | then, too, no handler writes back an `.env` that has changed since it was read |
| `PagesProofs!UpgradesPollTrue` | the upgrade dialog polls for the job it shows, and the end it tells of is that of a job |
| `PagesProofs!AnswersFound` | chat, providers, routing and the forms of instances each take an answer for what was asked, and the configure form sends nothing the operator left alone but the default for a missing provider |
| `PagesProofs!FeedLosesNothing` | what the feed received is listed or buffered, once, unless the list is full or the page says that events were dropped |
| `PagesProofs!HistoryTrue` | what the page says was true of a fact at a moment, and of its versions, is what the tables held |
| `ControlsProofs!ActionsComeToShow` | `ActionsAreShown`: on instances, Codex, archive, sessions, escalations, setup and frame a finished action is in what is shown once what is under way has come, nothing is deleted but what was typed, a stop that ends well leaves no server it found, and a tab told of a stop was told the truth |
| `ControlsProofs!RepairsDoHelp` | `RepairsHelp`: a repair that nobody edited over makes its check pass and leaves one block; what a run of the diagnostics wrote reads back as it wrote it; the installer leaves no default provider without its key |
| `ControlsProofs!NothingUndone` | `NothingIsUndone`: a repair keeps the text outside its block, a save the settings it did not edit, a setup the keys of an earlier one; closed sessions stay closed; the result that is fetched is of the selected instance; a command of the palette reaches the page it opens |

They hold for any number of instances, projects, events, rows, cycles, polls, keys,
processes, requests, jobs, questions, tabs, connections and failures, and any limits, under the
`ASSUME` of each module, which TLC evaluates in a run. The assumptions say what
kind of values the constants are (limits and bounds are natural numbers, null
values are not among the values, the sets of actors are disjoint) and nothing
about how many; the one relation between two limits is that the pause buffer of
the feed is no smaller than its list (1000 and 500 in the source). For the pages
of the settings `EnvNames` stands for what an env file may name. `Controls`
assumes that a `CLAUDE.md` as people write it has no more than one start
marker; files with half a block, an end before its start or any text around it
are among them.

*Fleet ledger.* `TotalNeverOvercounts` and `WatermarkIsIngested` are not
inductive: a poll that has fetched but not yet advanced carries an event the
watermark will name. `SafetyInv` adds what each place of a poll knows: the rows
it holds are rows of the instance's ledger, those it inserted are in the mirror,
the newest it remembers is among them, and rows still to be counted are counted
by one cycle only. The drain needs more: `DrainInv` says that every event below
a watermark, or below the lower bound of a poll, that is not mirrored is held
by some cycle (`Covered`), which has it in its batch or will still ask for it.
The induction is over `StampsDistinct => DrainInv`; since ledgers only grow,
stamps that are distinct after a step were so before it (`DistinctBefore`). It
is limited to behaviours without a fault, as `FleetInterruptedDrain` shows that
it is false otherwise. For a ledger within one batch faults and ties do no
harm: `OneBatchInv` says that a poll past its fetch holds every event between
the watermark it read and the newest it fetched, and past its insert has them
in the mirror, so that the watermark moves only over mirrored events.

*Adapter.* That no row has two events follows when none of the rows a poll may
still find has one: the rows of a poll lie past its cursor (`PollsPastCursor`)
and all events of a table at or before it (`EventsBehindCursor`, until a cursor
is lost). A restart reads the newest stamp of all events for both tables, which
is at or past every event (`NewestIsThere`). Completeness adds that a cursor is
where it started or at a row, and that a batch has no gap if rows appear in
order (`CompleteInv`): `Select` takes the oldest rows, so the newest of a batch
has nothing unseen below it.

*Stream.* `StreamInv` says that at most one poll is in flight and asked from
the cursor (`OnePoll`), that the client resumes from the last event it received
(`ResumesFromLast`), that everything received or on the wire is of the cursor's
millisecond or an earlier one (`SeenBehindCursor`), an event of a whole
millisecond once (`SeenOnce`), and in the order of milliseconds (`SeenInOrder`), and
that, for ordered distinct stamps and lookups that succeed, nothing between the first of these and the cursor is missing
(`GapInv`). The lost events of a cut wire leave the cursor with the connection;
the next one starts at the last received.

*Adapter and stream.* The step the proof of the stream allows for its writer,
`Environment`, says only that the clock does not go back and that the table
grows at its end by events that are not stamped in the future. `StaffActivity`
proves that each step of the adapter is such a step, and one of the more
detailed writer of `EventStream!Next`, as long as the table is within
`MaxEvents`. It needs two hypotheses: a statement of the adapter inserts no
more than the stream's writer may (`AdapterLimit <= InsertMax`) and any delay
is among those of the stream (`0..MaxTime \subseteq InsertDelays`). Both are
about the bounds of the two modules, not about the code, and `MCStores` states
them as an `ASSUME` for its instance. That a row is shown once then follows from
`NoDuplicateEvents` of the one module and `ReceivedOnce` of the other, every
stamp of the adapter being a whole millisecond (`Fraction <- 1`).

*Lifecycle.* A signal may be on its way to a process when a stop is answered, so
`StopSignalsAll` needs that no signal is lost but with its process, and that a
process found by a stop is not one that still boots: every pid that is known
has had the port (`KnownHaveBooted`), and a process that has booted never boots
again (`Ageing`, proved of every step). `StopsSignalled` is the property from
the moment the signals are sent, before the answer.

*Facts.* `ReviewInv` says where each kind of request can be (`PlacesInv`), that
the requests with a connection are no more than the pool (`PoolInv`), that only
a resolution with a new value writes (`WritersWrite`), and that between its
write and its record the fact is its value or one another request has put there
(`DecidedInv`). Every step of a request is summarised as `Moves(r)`, with what
it may do to the fact and the lock, so that each invariant is shown once for
all of them.

*API keys.* The invariant is that at most one request is on its way, so its copy
of the registry is the registry, and a request that syncs has an active key.
Without `Serialised` the run `AuthLostRevocation` refutes it.

*Instances on disk.* `OnlyDeleteRemoves` holds whatever overlaps. Its invariant
`KeptInv` says that a directory of the legacy root has its `.env` unless a
delete of it was accepted (`LegacyHasEnv`), and that a migration which is about
to unlink has its copy in the primary root or is of an instance that is doomed
(`JobOK`); each step of a request is then shown to lose no `.env` but to a delete
or to the other root (`EnvsStay`). The other three properties hold for a careful
client and without a failure (`Sound`): a project bound while its instance is
being deleted, an edit between the read and the write of a migration, or a
registry that could not be written breaks them. `SoundInv` is what such a client finds between any two steps: there is one
request at most; a pepper or a migration about to write a file has read what is
there; a delete has every binding that leads to its directory on its list, and
a migration has written it or will (`Left`); and a binding leads to an instance
that lists the project, or to one that is being moved (`BindingOK`), whose list
went along. It is the last that makes `resolveBoundProjects` complete when the
next delete or migration reads the registry. A step that ends in such a state
began in one (`SoundBefore`), so the induction is over `Sound => SoundState`.

*Pages.* A behaviour of `CoreSpec` stays on its page (`StepIsOfPage`), so
`PagesInv` has one inductive invariant per page, and none of the properties is
inductive by itself:

| Page | Invariant | What it adds, and why it is needed |
|---|---|---|
| upgrade | `UpgradeInv` | an answer in flight tells of its job what was true of it, and an end is for good; the store has a job once. Without it an answer could report an end that no job had |
| chat | `ChatInv` | the question that waits is the last message, unless the thread was cleared; a question not yet asked is unknown to the server. So the next message is its answer, and an abort meets an unanswered question |
| providers | `KeysInv` | a check under way is of the key in the file, or of one that was overtaken, since it becomes the cache's entry |
| history | `FactInv` | the spans of the versions do not overlap, in the two tables taken together; what a reader has found in the first table and the second one as it is make up what it began with. That a row moves from the first to the second only, while the reader goes the same way, is what makes two queries as good as one |
| feed | `FeedInv` | list and buffer have no event twice and none in common, and a buffer that dropped an event is at least as long as the list: emptied, it fills that, which is where the relation of the two limits comes in |
| routing | `RoutingInv` | while a part is saved, its draft is what is saved or what the data says; a part reported as saved is in the file, and so is what a read on its way has of it; while it is normalized, a file is in one of three states (`Tidied`) |
| forms | `FormsInv` | past a step of the form its fields have passed that step; a field not typed in shows the list, or the default for a provider the list does not give. A suggested port always exists, there being more to choose from than names (`SuggestedIsPort`) |

Histories and drafts are proved over arbitrary data (`Seq(EnvNames)`, sets of
versions); the lemmas about `Append`, `SubSeq` and `\o` they rest on stand
beside them.

*Controls.* `ControlsInv` is put together in the same way (`StepIsOfControl`):

| Page | Invariant | What it adds, and why it is needed |
|---|---|---|
| instances | `ListedInv` | a list on its way was read after every action that asked for it; a question is open only over an instance that is shown, so that what was typed has been compared with a name |
| Codex | `CodexInv` | a request has seen every state Codex had since it was sent, so that its answer was true at some moment of it; a tab that was told has the truth on its way |
| archive | `ArchiveInv` | while the two places of the page act one at a time and nobody else sets a flag, an answer with success tells what the flag is (`AnswerTells`), and else what the page remembers is true (`PageTells`), and so is a cached queue that is not stale and what a fetch under way has read (`QueuesTell`), stale being whatever is missing or fetched (`StaleIsFetched`): between a write and its answer neither half holds alone |
| sessions | `SessionsInv` | a list that has been read for a tab, and is not shown yet, was read after every action on that tab, so that the answer that ends the wait cannot hide one |
| launcher | `LaunchInv` | for a stop, every server that answered it has a port still to be looked up, is a process still to be ended, has begun to end, or has failed the stop (`StopCovers`), so that a stop which exits with 0 has none left; a tab that heard of an end heard of it from its own server, which was told to end. Processes only age (`Ages`): of a step of anybody else no more is needed |
| setup checklist | `ChecklistInv` | every read of the environment, also one in two halves, began after the repairs whose effect is owed, and a repair's own read after that repair |
| frame | `FrameInv` | a toast that was added is listed even when the list is full, as the oldest goes; the draft differs from the settings of its tab only in the fields that were edited, which is why a save reverts nothing |
| escalations | `ConflictsInv` | what was decided on this page is not pending, so that a list read after it does not have it |
| repair | `RepairInv` | the file, and every copy of it that a repair holds, has one start marker at most; what was settled and not edited since has its block. `RepairedText` says that a repaired text has the block between what stood before and what stood behind it (`AroundBlock`), for any text; it is what both the repair's check and the text outside rest on |
| diagnostics | `DiagInv` | the last run of an instance has been answered and is of that instance; what is being fetched is of the instance selected |
| setup script | `ScriptInv` | past the choice of a database there is one to write, so that the file that is written is one the next section can use |

The palette needs no invariant: that a command which asks for something
signals it follows from each step.

Model-checked only: every liveness property (fairness and ENABLED are out of
the prover's reach), and `ListsAreWhole`, whose pages filter and merge sequences
with `SelectSeq` and folds, so that a proof would be an induction over data. All
other invariants and action properties of the runs are theorems. No module
declares a RECURSIVE operator, so that each can be proved about.

## 6. Plan

All components with state worth modelling are modelled; those of the server
that keep state between requests, the command line, the installer and seventeen
pages are proved about. What is left is `ListsAreWhole`: the pages that page
through rows by arithmetic (`MemoryPage`, `StaffLogs`) could be moved into
`Panels` and proved about as they are; the merges of `SessionLedger`, the
traversal of `EntityGraph` and the ranking of `Health` need induction over data.

## 7. What the models leave out

Data that no property tells apart: ledger items without an id or a timestamp,
filters that do not change the
course of a handler, heartbeats, previews, the wording of answers and the
classification of a write as created or replaced. Of the operating system:
reuse of a pid and processes that ignore a signal; a kill that takes two
commands on Windows is one step. Of other programs: the `iranti` command and
agents change what `Lifecycle`, `InstanceFiles`, `FactReview` and the pages let
them change, and nothing else; under `Serialised` nobody writes the registry
of keys during a request. Several operators appear in `AuthKeys`, `FactReview`,
`Sessions`, `Shell` and `CodexIntegration`, one in the other modules.

Not modelled, and why:

- `agents`, `metrics`, `overview`, `whoknows`, `attendant-debug`,
  `version-sync`, `install-state`, the entity aliases of `kb` and the deletion
  of rules: each is a query or two and an answer, without state of its own.
- `SetupWizard.tsx`: its steps are those `SetupScript` and `Onboarding` have.
- The runner of the migrations, the routes that open files or the browser, the
  patches of the upstream package, building, packaging and releasing: they run
  once, alone, and call tools that are not in this repository.
- The uninstall of the settings page, which hands over to the command line.

Hazards of this code that no property covers, beside those of `PROJECT.json`:

- Fleet ledger: a rejected query ends the poll of one instance unrecorded
  (`lib/fleet-ledger-poller.ts:269`); a newest row without a timestamp resets
  the watermark (`:234`); one row the mirror rejects fails its batch (`:230`).
- Streams: a late answer of the tail mode replaces the live list
  (`ActivityStream.tsx:206`); an event that is sent again is listed again, as the
  page does not look at ids (`:125`).
- Requests that check before they act: the flag of a fact outside the
  transaction (`archivist.ts:341`), two upgrades at once (`upgrade.ts:82`), the
  exit of an upgrade before its last output; `instance-lifecycle.ts:662`, `:687`;
  `project-bindings.ts:404`; `generate-pepper` writes over a pepper
  (`setup.ts:508`); the repair of `.mcp.json` writes the whole file
  (`repair.ts:184`); two instances of one name in two roots (`instances.ts:676`).
- The archive page sends an instance, and the archivist acts on the database
  that is bound. A control that is closed and opened again while its request is
  under way may send a second one, and a request that was given up may act later:
  `slips` takes them as `crossed` and `elsewhere`.
- Lists: with ties a page of `kb` (`kb.ts:421`) or `logs` may repeat rows and skip
  others, and each has a count of its own; a change of instance that keeps the page of the list; an export of
  logs that asks for a format the route rejects (`logs.ts:355`); a session ledger
  whose failed query is answered as an empty list.
- Panels that are not keyed by what they show: providers
  (`ProviderManager.tsx:345`), escalations (`ConflictReview.tsx:609`), keys
  (`ApiKeyManager.tsx:447`), bindings (`BindProjectForm.tsx:293`); drafts that a
  refetch drops (`ConfigureInstancePanel.tsx:65`, `CreateInstanceForm.tsx:120`).
- Caches and closures: the quota of a former key (`providers.ts:1222`); a
  diagnosis started from an old drawing (`HealthDashboard.tsx:1069`, `:1084`);
  defaults of the environment that arrive over a chat's own; an upgrade banner
  for the active instance that upgrades the selected one
  (`InstanceManager.tsx:2147`, `:2310`); a late answer over saved settings.
- Processes: a port that is taken is printed and the process exits with 0
  (`index.ts:213`); `stop --port` stops every server of the range; two commands
  that open at once start two servers (`bin/iranti-cp.js:166`); the package is
  replaced two seconds after a shutdown that may take ten
  (`control-plane-self.ts:98`); a health check waits for its pool to end
  (`health.ts:137`).
- Setup: "Skip for now" leaves the registry out (`setup-wizard.js:795`); failed
  migrations still end as complete; the checklist hides its own end
  (`GettingStarted.tsx:338`); a failed inspection of Codex is answered as well
  (`codex-integration.ts:151`, `:170`).
