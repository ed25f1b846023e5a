# libnodes in TLA+

libnodes keeps a book library on several devices: it runs `rsync` and `ssh` as
child processes, one job at a time per device, from a single-process asyncio web
application. This directory holds TLA+ modules of the parts of it that are hard
to test: which job may run when, what a user, a crash or an edited
configuration may do meanwhile, and what the history must say afterwards. Every
module is written from the source (`src/libnodes`), names its definitions after
it, and is checked by TLC on small instances; what matters most is proved by
TLAPS for every value of the constants.

## The system

| part | state it keeps | operations | talks to |
| --- | --- | --- | --- |
| `jobs.JobRunner` | `_live` jobs, `_queue`, `_procs`, device locks, the admission condition and its counters | submit, submit_pull, abort, dismiss, start_now, cancel, the workers, `_promote`, start, stop | store, probe, manifests, index, event subscribers, systemd |
| `jobs.JobStore` | the rows of jobs.db | create, save, delete, clear_finished, unfinished | SQLite |
| `JobRunner._run_pull` | the hold file, the local service, the catalog and its sidecars | a preflight and six phases | systemctl, ssh, rsync |
| `probe.DeviceProbe` | per device: reachability, space, battery, in-flight flags; subscribers | probe, probe_all, probe_space, rescan_soon, the loop, the cache | sockets, ssh, the deferred watcher |
| `manifests.Manifests` | rows (device, path), the `_last_sync` cache | record, replace_scan, retract, forget, coverage, presence | SQLite, jobs, scanner |
| `scan.Scanner` | one task and result per device | start, `_run` | ssh, manifests |
| `library.LibraryIndex`, `state.AppState` | index.db, the reindex task and its "again" flag | reindex, reindex_soon, start, stop | jobs (after a pull), routes |
| event bus (`_emit`, `subscribe`, the SSE route) | a bounded queue per open tab | emit, drain | browsers |
| `config.DevicesStore`, `models` | the last good configuration, its mtime | reload, validate | everything |
| command lines (`build_argv`, ...) | none | pure | jobs |
| routes, templates, sign-in, host figures | none, or cookies | render | everything |

The program is one event loop. Nothing preempts between two awaits; at an await
anything may run. Children, devices, the user and the configuration file move
on their own. The hard behaviour is therefore: what was checked before an await
and is used after it; jobs that wait for a lock and then for the gate; second
enqueues; a process that dies between two saves; a child whose reader is gone;
an answer that arrives when nobody waits for it any more.

What makes each part correct:

* **queue and workers**: one transfer per device, a pull alone, no starvation,
  no job stranded in QUEUED or RUNNING, a verdict once saved stands, bounded
  attempts, a job given up does not start.
* **pull and local service**: the service comes back whatever happens, and the
  catalog is never replaced under a running reader.
* **manifests, scans, transfers**: what a transfer delivered stays claimed, what
  it removed does not, and a scan ends in what the device holds; every cached
  figure is the one a fresh count would give.
* **library index**: a pull that says its books are indexed is right, whenever
  it asked and whatever became of the walk that was running.
* **probe**: a node that wakes is reported to the jobs that wait for it, and a
  figure of free space that a transfer overtook is not taken for fresh.
* **event bus**: a lost event never leaves a card showing a finished job as running.
* **coverage map**: counts, states and bars say what the rows and the index say,
  for any excludes, and agree with the table's dots.
* **commands**: nothing is removed that nobody asked to remove, a preview is
  faithful, a retry repeats what was run, whatever was edited in between.

## Modules

| module | what it is |
| --- | --- |
| `Admission` | abstract: workers at a gate, pushes together, a pull alone, a waiting pull first |
| `JobQueue` | `JobRunner` + `JobStore` + the job routes |
| `JobQueueProperties` | the properties of `JobQueue`, and the refinement mapping to `Admission` |
| `PullService` | `_run_pull`, `_cleanup`, the hold, the end of `stop()`; the unit, systemd and rsync around them |
| `LibraryIndex` | the library on disk, the walk on its thread, the task that walks again, a pull that waits for it |
| `Manifests` | the rows of one device, the `last_sync` cache, the write counter and the coverage threads' cache |
| `Holdings` | composes the two with one device, transfers to or from it, and listings of it |
| `Probe` | reachability: overlapping sweeps, the notices, the watcher of deferred jobs |
| `Readings` | the free space of one node: df, the stale flag, Test |
| `NodeWatch` | composes the two |
| `EventBus` | `_emit`, the tabs' queues, the stream and the browser behind it |
| `Coverage` | `excluded_roots`, `held_back`, the coverage map and the presence dots |
| `Commands` | the routes that queue a job, `submit`, `submit_pull` and the argv builders |
| `Pages` | puts the two side by side, for one run |
| `AdmissionProofs`, `JobQueueProofs`, `JobQueueRowsProofs`, `PullServiceProofs`, `HoldingsProofs`, `NodeWatchProofs`, `EventBusProofs`, `PagesProofs` | the theorems, checked by TLAPS |
| `MC...` | instances for TLC |

The modules overlap where the code does, and each takes from another what that
one shows. `JobQueue` and `PullService` look at one coroutine from two sides: in
`JobQueue` a pull is a worker that passes through stages and may hold the gate;
in `PullService` the gate is taken for granted (pulls run alone:
`PullsRunAlone`) and what the stages do to the host is the state. `Holdings` has
one transfer of its device at a time (`DevicesAreSerial`) and lets a pull end as
`LibraryIndex` says. `NodeWatch` gives `JobQueue` its `Promote`, which there may
come at any time. `EventBus` sees of a job only its card.

### JobQueue

One action is what runs between two awaits. The variables are the program's:
`obj` and `live` are the Job objects and `_live`; `row` is jobs.db; `queue`,
`holder` (the device locks), `pushes`, `pulling`, `waiting` (the counters of
`_admit`) are the runner's; `child` is `_procs` (a process that was sent SIGTERM
is `dying`); `pc`, `cur`, `stage` and `code` are the position and the locals of
a worker's coroutine; `cancelling` are the coroutines of `cancel` that poll.

A worker goes `idle` (at `_queue.get`), `lock` (at the device lock), `admit` (at
the condition), then inside `_execute`: `spawn`, `child` (reading a process),
`reaped` (its exit code known), `reindex` (a pull awaiting the index), `leave`
(its `finally` blocks), or `raise` when an exception unwinds; `raise late` is one
that comes after the verdict. `stage` says which
phase of the job the child belongs to: the preflight and the service commands
are not abortable and are not in `_procs`, the library and catalog transfers are.

| code | action |
| --- | --- |
| `submit`, `submit_pull` and the routes that call them | `Submit` |
| `abort` | `AbortChild`, `AbortPending` |
| `dismiss` | `Dismiss` |
| `start_now` | `StartNow` |
| `cancel` | `CancelChild` and `CancelPolled`, or `CancelNow` |
| `clear_finished` | `ClearFinished` |
| `_promote` | `Promote` |
| `_worker`, `_run`, first check | `Take` |
| `async with lock` | `LockDevice` |
| `_admit`, second check of `_run` | `AdmitStale`, `Execute` |
| `_stream` | `Spawn`, `SpawnFails`, `ChildExits`, `StreamRaises` |
| the phases | `NextStage` |
| the verdict in `_execute` | `Retry`, `Settle`, `SettlePull`, `Reindexed` |
| `_update_manifest`, `_record_partial`, `_credit_pull` or `_debit` raises; the awaited reindex does | `RecordRaises`; `ReindexRaises` |
| leaving the context managers; the same with an exception, and `_worker`'s handler | `Leave`; `LeaveFailed` |
| a crash, or `stop()` | `Crash` |
| `start`, `_readopt` | `Start` |

What is abstracted: exit codes are the four verdicts `_execute` draws (`ok`:
0 or a 23 about attributes only; `term`: 15, -15, 143, 20; `final`: 25 and a
command that cannot be spawned; `fail`: the rest). The condition wakes any
waiter that may go on, in any order; the lock too, which is more than asyncio's
FIFO lock allows and so a superset of the program. Bounds, all named: `MaxJobs`
ids, `MaxQueue` entries before `StartNow` is refused by the model, `MaxRequests`
user requests, `MaxCrashes` restarts, `MaxReloads` edits of devices.yaml.

Between a verdict and its `store.save` the code writes the manifests and, for a
pull, awaits a reindex, which `AppState.reindex` lets raise (library.py:524 is
outside the walk's own handler). The card shows the verdict all that time and the
row does not. `_worker` answers any exception by failing the job, whatever its card
says by then, if it still has a card (`LeaveFailed`). That the card changes is part
of the model, so `VerdictsStand` says what is true: what is in the history stands,
and what is only on the card is saved as it is or becomes a failure. A failing
write of jobs.db itself, in `save`, is not modelled.

Four constants pick a situation: `LogFaults` (a log may fail to be written),
`RecordFaults` (what follows a verdict may raise), `DismissAny` (a user may close the card of a running job, which the dock
offers), `Unit` (the local service is configured).

### PullService

Variables of the host: `service` and `reading` (the unit, and the version of the
catalog it opened), `db` and `wal` (the version of `lib.db`, and the version the
`-wal` beside it belongs to), `hold` (service-hold.json), `snapshot` (the
upstream's). Variables of the process: `step` (the await `_run_pull` is at),
`stopped` (its local), `copy` (the rsync of the catalog), `up`, `leaving` (inside
`stop()`). `owed` is for the properties: libnodes stopped the unit, and it has
not been started since. A version is the number of the pull it came with.

A command has its effect at one step and is seen to end at a later one:
`StopBegins`, `UnitStops` and `StopReturns` are `systemctl stop`, `StartWorks`
and `StartReturns` the start, `StartCopy`, `CopyLands` (rsync's rename) and
`CatalogDone` the swap. Everything else may run in between.

| code | action |
| --- | --- |
| preflight | `Preflight`, `Authorise` |
| phase 1, phase 2 | `Library`, `Snapshot` |
| phase 3 | `Ask`, `StopBegins`, `StopReturns`, `StopFails` |
| phase 4 | `StartCopy` (sidecars unlinked, rsync spawned), `CatalogDone` |
| the `finally`, phase 5 | `Finally`, `StartWorks`, `StartReturns`, `StartFails` |
| phase 6 | `Cleanup` |
| a log line that cannot be written | `LogRaises` |
| `stop()`: workers cancelled, then children reaped | `Shutdown`, `Reap` |
| a death without a shutdown | `Crash` |
| `start()`: the hold | `Start` |

`Faults` picks what may go wrong: `is-active` (the query cannot be run), `stop`,
`start`, `recovery` (the command fails), `signal` (systemd's SIGTERM reaches the
client of a stop, which dies while the stop goes on), `log` (the disk is full),
`operator` (somebody starts and stops the unit by hand). A crash ends the
children too, as systemd ends the unit's group. An Abort only ever ends the
rsync (`CopyFails`, or a failed `Library`): the service commands are out of its
reach. A dry run and a host without a unit end after the books and touch
nothing that is modelled here.

### LibraryIndex, Manifests, Holdings

`library` is what is on this host, `index` what the last walk published, `disk`
what is on the device, and `row` what this host believes of it: each file's row
with the time it was written. Everything else is about how these four drift
apart and come together again. Time is the number of writes, so rows written
together carry one stamp, as `_rows` gives them one `now`.

Threads see the program between two statements of the event loop. A walk reads
the library entry by entry (`WalkReads`) while books move; a coverage thread
opens the index, reads the counter, tallies and stores in separate steps
(`CoverOpens`, `CoverMisses`, `CoverTallies`, `CoverStores`). A write is
therefore two steps of the loop, the commit and the touch that follows it, with
`writer` saying which is due; the loop does nothing else in between.

| code | action |
| --- | --- |
| `reindex_soon`, the half-hourly loop, Rescan | `Tick` |
| `AppState.reindex`, awaited by a pull | `PullAsks`, `PullHears`, `PullOver` |
| `_reindex`, `LibraryIndex.reindex`, `_walk` | `BeginWalk`, `WalkReads`, `WalkPublishes`, `WalkFails`, `WalkRaises`, `WalkEnds` |
| `record`, `_stamped`, `_touched` | `Record`, `Touch` |
| `retract` | `Retract`, `TouchRetracted` |
| `replace_scan` | `ReplaceScan`, `TouchScanned` |
| `last_sync` | `AskLastSync` |
| `coverage` of the root | `CoverOpens`, `CoverHits`, `CoverMisses`, `CoverTallies`, `CoverStores` |
| `_execute`, start of an attempt | `Attempt` |
| rsync, and the lines the reader of `_stream` takes | `FileLands`, `FileCounted`, `FilePruned` |
| `_update_manifest` and `_debit` | `PushDone` |
| `_record_partial` and `_debit` | `PushStops`; with an attempt left, `PushRetries` |
| `_credit_pull`, the reindex, the verdict | `PullEnds`, `PullWantsIndex`, `PullSettles`; `PullRetries` |
| `Scanner.start`, `_run` | `ScanStarts`, `ScanLists`, `ScanEnds`, `ScanFails` |

A file is one entry of one directory, without size, blob or title. What rsync
sends and deletes it decides when it starts (`Missing`, `Extraneous`), which is
what makes a retry and a changing library interesting. The list of names may be
dropped at SENT_CAP and holds names of directories too, so `_record_partial`
credits any subset of the files it counted. What excludes hold back is in
`Coverage`. `given`, `pruned`, `stirred` and `promised` are there for the
properties: what transfers delivered or removed, and what somebody touched or
wrote about while a scan ran.

### Probe, Readings, NodeWatch

A sweep is a set of nodes with the states it noted (`before`) and the nodes it
has no answer of yet. The loop's sweeps, one forced sweep (`rescan_soon` refuses
a second) and the single probe of Test overlap and write the same states. The
backoff decides which nodes a sweep of the loop takes: any set, here. `reach` is
measured against `up`, which flaps as it likes.

| code | action |
| --- | --- |
| `probe_all` of the loop; `rescan_soon(force)` by Rescan, by `refresh_all` | `LoopSweeps`; `RescanAll`, `RefreshAll` |
| `probe` | `Probed` |
| the end of `probe_all`, `_notify` | `Ends` |
| `_watch_deferred`, `_promote` | `Told`, `Backstop`, `Promote` |
| a `submit` that defers | `Defer` |
| `device_test` | `TestBegins`, `TestEnds` |
| `probe_space` | `SpaceProbe`, `DfReads`, `DfStores`, `DfFails` |
| `invalidate_space` after a push | `TransferSettles` |
| `adopt_space` | `TestAdopts` |

`WakesAreReported` says that a job whose node is online is about to hear of it.
The code has three gaps, which the variable `excused` marks when one of them
opens: another sweep wrote the state in the middle of this one, Test found the
node, or the queue was full. Without it the property does not hold
(`MCNodeWatch_unreported`); with it, `WaitersAreServed` shows that the backstop
closes all three.

### EventBus

`card` is what the dock would show of each job, `shown` what a tab shows. A tab
is closed, subscribed (before its first paint), open, or cut off; its queue is
bounded. `Runner` has one action for each place that changes a card, with the
events that place emits, in its order: the route of a verdict emits `done` and
`dock`, the handler of an exception only `done`. An event paints the state at
the moment it is taken, as `_render_event` does, and a `done` paints only where
a card stands. `Ends` is a pull with its verdict on the card and its reindex awaited
(only `progress` was emitted): the tab may show it as it likes until `Settles` or
`Crashes` emits its `done`. A forgotten card's id stands for a new job when it is submitted
again. `progress` and `line` are one kind of event.

### Coverage

A path is the sequence of its names. Which entries the patterns match is any set
(`matched`): `ExcludeRules` is data. `ExcludedRoots`, `HeldBack`, `HeldOut`,
`State`, `Fill` and the four fills of a bar are the code's functions, in
thousandths of a percent. `asker` is a call of `excluded_roots`, on the loop (a
job's estimate) and on the dialog's thread, with the cache read, the walk and the
store as separate steps and `Publish` between any two. The properties compare
what is drawn with definitions of their own: `Out` (a file is held back when it
or a directory above it matches), `Missing`, `Presence`.

A file stands for `Weight` books that come and go together, so that three files
make a folder of a hundred books: one book is below the floor of a bar's segment
(2 percent) and all but one above its ceiling (97). `WalkFails` is the path on
which sqlite fails or there is no connection: `excluded_roots` answers that nothing
is excluded, and caches nothing. A map drawn from that answer bears no generation
and is not judged. `Draw` is taken at one go: `coverage` and `held_under` each open
a connection of their own, and a write between the two is not modelled.

### Commands

`Select`, `Adopt`, `DeviceDryRun`, `FullSync`, `Replicate`, `Pull`, `PullDryRun`
and `Retry` are the routes; each composes the sources and calls `Submit` or
`SubmitPull`, which refuse or build the argv. An argv is its direction, whether
it is given the root, its sources, and the flags that decide what is removed,
skipped or left out. Flags that only tune (permissions, the modify window,
bandwidth, the cap on deletions) and the words of the ssh transport are left
out; the catalog is taken to lie inside the library, as deployed.
`ask` remembers, for the properties, what was asked for and the world it was
asked in. What a form posts is any set of names, `Posted`, known to the index or not, and the
library itself: the path `''`, `/` or `.`, for which `index.entry` returns the root's
entry (library.py:213-216), so that `_resolve` keeps it. `build_argv` makes `/` of it
(jobs.py:625-628), which on the host is above everything: `Argument`. Therefore
`InfrastructureStaysHome` says which requests can bring a reader the host's root,
and not that none can; `ReadersGetTheLibrary`, which says that none can, is in
`MCPages_gaps.cfg` and does not hold.
`Removed` is what rsync would remove of the files that only the node
has: under which name they lie, and whether the node's excludes match them.

## Runs

| run | checks | shows |
| --- | --- | --- |
| `admission` | `PullRunsAlone`, `PullIsNotStarved` | The gate on its own: five workers that come and go for ever. A pull runs alone, and a waiting pull is not starved by pushes that keep arriving. |
| `control` | `TypeOK`, `RowsFollowJobs`, `ForgottenJobsDoNotStart` | Everything users can do to two jobs (abort, dismiss, start now, delete, clear), dry and real, interleaved with two workers, while what follows a verdict may raise: the history follows the jobs, and what was given up does not start. |
| `fleet` | `PullRunsAlone`, `OneJobPerDevice`, `TransfersApart`, `ImplementsAdmission` | Three jobs, three workers, three devices: the device locks and the gate together keep transfers apart, and the runner implements Admission. |
| `restart` | `AttemptsBounded`, `NoStrandedJob`, `RunningRowsRun`, `PendingRowsAreLive`, `VerdictsStand` | A restart, an edited devices.yaml and a full log disk at any point, for users who do not close the card of a running job: attempts stay bounded, no queued job is stranded, no row reads RUNNING or QUEUED for ever, a verdict that is in the history stands, and one that is only on the card is saved or becomes a failure when a manifest's write or the reindex raises. |
| `live` | `QueuedJobsSettle` | Under the fairness of the event loop, and with exceptions after a verdict, every queued job is settled: locks, gate, retries and duplicate enqueues leave none waiting. |
| `pull_window` | `OwedIsOnRecord`, `QuietSwap`, `WalBelongsToCatalog`, `ServiceComesBack` | Two pulls and two crashes while a stop or the preflight's start may fail: the catalog changes only while nothing reads it, no -wal of an older catalog lies beside it, a service that was stopped is on record, and it comes back. |
| `pull_untouched` | `StartsOnlyWhatItStopped` | Every fault there is, with crashes, a shutdown and an operator: until somebody touches it by hand, libnodes never starts a service it did not stop. |
| `holdings` | `DeliveredIsClaimed`, `TalliesAreCurrent`, `LastSyncIsExact`, `PulledBooksAreIndexed`, `ScanTellsTheTruth` | One device and two books: transfers that stop anywhere, a scan that lists path by path, walks of the library that fail, people on both sides and coverage threads. What was delivered stays claimed, a scan ends in what the device holds, the caches are current, and a pull that says its books are indexed is right. |
| `retried` (violation) | `PrunedIsRetracted` | A push that prunes fails once and is retried: what the first attempt removed stays claimed. |
| `watch` | `WakesAreReported`, `FigureIsOwned`, `WaitersAreServed` | Two nodes under the loop's sweeps, forced sweeps, Test, flaps and a watcher whose queue holds one notice: a job's node that wakes is reported, but for known gaps, and the backstop serves whoever fell into one; a figure older than the last transfer is never taken for fresh. |
| `tabs` | `StaleCardsAreRepainted`, `TabsCatchUp` | Two jobs and a tab with room for three events, which stalls, is cut off and reconnects: a card that is out of date will be repainted, and a tab that stays connected ends up right. |
| `pages` | `HeldBackIsExact`, `CachedRootsAreCurrent`, `StateIsTrue`, `BarsAreHonest`, `PagesAgree`, `RemovalsAreAsked`, `InfrastructureStaysHome`, `PreviewIsFaithful`, `RetriedPreviewIsOne`, `RetryRepeatsAPush` | Every map of a small tree, for every set of excluded entries and every holding, with a reindex under the walk; a walk that sqlite fails, and bars at their floors and ceilings; and every pair of requests to every kind of node, the library itself and names the index lacks among what a form may post, with devices.yaml, the library and the index changing between them. |

The largest are `pages` (4.7 million states) and `holdings` (3.0 million), a
minute or so each; `restart` has 1.4 million, `fleet` and `control` about a
million, `watch` 270 thousand, `live` 180 thousand, `pull_untouched` 40 thousand,
`tabs` 26 thousand. The type invariants of the composed modules hold in the same
instances.

`restart` sets `DismissAny = FALSE`: a user who closes the card of a running job
breaks `PendingRowsAreLive`, which is `MCJobQueue_orphanrow`. `control` and
`fleet` allow it. `RecordFaults` is on in `control`, `restart` and `live`; `fleet`
is about locks and the gate, which `Leave` and `LeaveFailed` leave in the same way,
and the theorems about them hold with it.

Deadlock is checked wherever the system goes on for ever: in `JobQueue`, `Rest`
is a stuttering action enabled only when the runner has nothing to do, so a
worker stuck for ever is a deadlock or, if others go on, a violation of
`QueuedJobsSettle`; in `NodeWatch` and `EventBus` something may always happen.
`MCHoldings` and `MCPages` stop when their budgets are spent, and say so.

The bounds. Two jobs and two workers on one device, or one push and one pull,
give every race between two jobs at the lock and at the gate; `fleet` has three
of each, so that two pushes overlap while a pull waits. One retry and a queue of
three let an id be queued twice behind another. One restart and one edit
between any two steps are enough for anything that compares the store with
memory; a second finds nothing the first left that a first would not.

`PullService` runs two pulls, because the second finds what the first left (a
hold, a stopped unit, a snapshot), and two crashes, one of which may hit the
recovery of the other. `pull_window` leaves out the failures that break one of
its properties, and `pull_untouched` has all of them. The theorems have no bound
at all.

`holdings` has two books, so that a listing, a walk and a transfer can each be
between one and the other, and two coverage threads, so that one can store over
the other. Its `Budgets` name five situations (a pull among walks; transfers,
a scan and people; two transfers and a scan; coverage pages under a scan and
a walk; coverage pages under a transfer), because the product of all of them is
out of reach and no property speaks of more than one: each budget holds the
actors its properties relate. `MaxGen` publications and `MaxWrites` writes are
more than any budget can make. `watch` does the same with its nodes: two under
the loop, one under all three probers, one under transfers and df. A queue of
one notice (`NoticeCap`; 16 in the code) is full after one; three events fill a
tab's (`Cap`; 256). One tab is enough, as tabs share nothing.

`pages` follows either the map or the commands; they share no state and are in
one run for economy. The map has a directory, one below it, and a file in each
level, so that roots lie above, at and below whatever is opened, and every
subset of entries may match. The commands have every mode with the other
settings that matter, and two requests, the second of which may be the retry of
the first after any number of edits. A selection is any subset of three names and
the library itself, so one that the index lacks, one that is never browsed and the
root are all posted.

Symmetry is over workers, books and threads only, and only in runs of safety
properties: those are interchangeable, devices are not (one of them is an
upstream).

### Fairness

`FairSpec` of `JobQueue` assumes weak fairness of each worker (the event loop
resumes a coroutine that can go on; a child ends, because rsync and ssh die with
their connection and have timeouts), of the end of a poll, and of `Start`
(systemd restarts the process). Nothing is assumed of users, of devices, or of
`Promote`: a deferred job may wait for ever. `Admission` assumes that a worker
that may enter does and that a worker inside leaves.

`NodeWatch` assumes of each node that the loop sweeps it again and again, as
strong fairness: the loop goes round for ever and the backoff is bounded, but a
sweep of the loop that leaves the node out may always be in the way of one that
takes it. A probe ends (a connect has a timeout), a sweep ends, and the watcher
takes its notices. The backstop is `asyncio.wait_for(..., 300)`, which starts
again with every notice, so only weak fairness is assumed of it: it is owed if no
notice comes any more. Nothing is assumed of nodes, users, Test or df.

`EventBus` assumes that a tab with a connection takes its events and that one
that lost it reconnects, as EventSource does; nothing of jobs or of users.

`PullService` assumes that the coroutine goes on when it can (a command ends),
that systemd completes a stop it accepted, that the rsync ends, that a process
that is leaving leaves, and that libnodes is started again. Nothing is assumed of
pulls beginning, of crashes, or of an operator. Libnodes stopped for good by
`systemctl stop libnodes` is outside that: the hold then waits for the day it is
started.

### What the runs found

`retried` must end in a violation; the trace TLC prints is the scenario.

* `retried` (`PrunedIsRetracted`, libnodes/jobs.py:1817): An attempt that fails with a retry left returns before _debit, and _execute empties the list of deletions when the next attempt begins; that one does not delete the files again, so the rows of what the first attempt removed stay, and the map claims files that are gone until the device is scanned. _debit says it is run on "Every outcome but a dry run, since an interrupted prune still pruned what it reached" (src/libnodes/jobs.py:1984). For a pull the files the failed attempt brought lose their credit the same way, against "Every outcome: an interrupted pull still received files" (src/libnodes/jobs.py:1830).

More configurations, not among the runs, end in a violation as well.
`tlc -config MCPullService_shutdown.cfg MCPullService` prints the trace.
`MCPages_gaps.cfg`, `MCJobQueue_gaps.cfg` and `MCJobQueue_unstopped.cfg` list
several properties, of which one is to be left uncommented at a time.

| configuration | property | scenario |
| --- | --- | --- |
| `MCJobQueue_orphanrow` | `PendingRowsAreLive` | a job whose card was closed while it ran (the dock has the button) fails with a retry left: `_execute` (jobs.py:1821) saves it as queued and enqueues its id, but `_live` no longer has it, so the row reads QUEUED until the next restart; `_readopt`'s docstring calls that the thing not to do: "Ignored, as they once were, they read QUEUED for ever." (jobs.py:2136) |
| `MCJobQueue_logfault` | `TransfersApart` | an exception while the log is written (jobs.py:1622) leaves `_stream` with the rsync still running and the lock and the gate released, so the next job starts beside it: "One job per device at a time. Two rsyncs into one target race on its temp files" (jobs.py:997) |
| `MCJobQueue_unstopped` | `RemovedJobsStop` | `cancel` (jobs.py:1249) ends a process only if `_procs` has one: a running job between two processes loses its row and goes on |
| `MCJobQueue_unstopped` | `DismissedJobsStop` | `dismiss` (jobs.py:1217) says an unfinished job "is aborted first", and does not end its rsync |
| `MCJobQueue_gaps` | `ShownVerdictsStand` | a pull that is done, or was aborted, awaits its reindex or a manifest's write (jobs.py:1847, 1834); that raises and `_worker` (jobs.py:1285) turns the card it shows into a failed one. The reindex's own handler says "surfaced in the UI, never fatal" (library.py:517), but the `tmp.unlink` of that handler (library.py:524) is itself unhandled |
| `MCJobQueue_gaps` | `NoRowRunsForEver` | the same, of a pull whose card was closed or which was dismissed after its verdict: the handler finds no job to fail (jobs.py:1286), nothing is saved, and the row reads RUNNING until the next start fails it |
| `MCJobQueue_staleargv` | `UpstreamsAreNotPushedTo` | `_execute` (jobs.py:1735) runs the argv built at submission, even if devices.yaml has made the device an upstream since |
| `MCPullService_recovery` | `OwedIsOnRecord` | `start()` (jobs.py:2109) runs `systemctl start` with check=False, logs "restarted" and unlinks the hold; if the start failed nothing remembers it. The file is for: "LibNodes stopped the local service and owes it a start" (jobs.py:1300) |
| `MCPullService_signalled` | `OwedIsOnRecord` | a `systemctl restart libnodes` signals its children, the unit file setting no KillMode; a `systemctl stop` client that dies so is read as "could not stop" (jobs.py:1490), the hold is unlinked, and systemd completes the stop. The test for Abort names the outcome: "dropped the breadcrumb and never started it again" (tests/test_upstream.py:1112) |
| `MCPullService_abandoned` | `SnapshotIsRemoved` | when the service cannot be stopped `_run_pull` (jobs.py:1498) returns past the cleanup: "Remove the snapshot from the upstream, on failure too and never fatally" (jobs.py:1528) |
| `MCPullService_shutdown` | `QuietSwap` | `stop()` (jobs.py:2171) lets the cancelled pull start the service before it reaps the pull's rsync |
| `MCPullService_query` | `QuietSwap` | any exit code of `is-active` but 0 (jobs.py:1477), 127 included, is taken for a service that is not running |
| `MCPullService_logfull` | `ServiceComesBack` | the `finally` (jobs.py:1514) writes to the log before it starts the service; on a full disk it raises instead |
| `MCPullService_stalehold` | `HoldIsOwed` | the hold of a service that did not restart (jobs.py:1517) survives the start by hand that the message asks for, and a later restart acts on it |
| `MCHoldings_relisted` | `PrunedIsRetracted` | a listing passed the file before a prune removed it; `replace_scan` (manifests.py:538) writes it back after `retract` has taken it out |
| `MCHoldings_unsent` | `PushClaimsWhatIsThere` | `_update_manifest` (jobs.py:2027) records the index's books; one that left the library before rsync came to it was never sent, and is claimed: "rsync sent none of it, and a false row stands until the device is next scanned" (jobs.py:2013) |
| `MCNodeWatch_unreported` | `DeferredStartsWhenGreen` | a forced sweep beside the loop's, Test, or a full queue: the node is green, and no notice will name it until the five-minute backstop ("a deferred job starts when its dot goes green", probe.py:424) |
| `MCNodeWatch_hidden` | `FigureIsOwned` | Test's df ran before a transfer ended; `adopt_space` (probe.py:417) clears the flag the transfer set |
| `MCPages_gaps` | `RetryRepeats` | the retry of an Adopt (routes/jobs.py:405) is an ordinary push, on a mirror with --delete: "Repeat what was run" (routes/jobs.py:391) |
| `MCPages_gaps` | `ReadersGetTheLibrary` | a form posts `path=/` (or an empty one): the index vouches for its own root (library.py:215), `_resolve`'s "The index is the whitelist" (routes/jobs.py:122) lets it through, and `build_argv` (jobs.py:628) writes `/`, the host's root, where the library was meant |
| `MCPages_gaps` | `CellsAreHonest` | a hundred books, one excluded, 98 of the other 99 held: the cell draws 80 and 20, a full square, for "`ceiling` so something missing never reads as full" (manifests.py:166) |
| `MCPages_gaps` | `HeldIsVisible` | a device that holds only leftovers draws nothing, for "`floor` so something held never reads as empty" (manifests.py:165) |
| `MCPages_gaps` | `PresentIsComplete` | `presence` (manifests.py:836) counts a file the library retired, so a directory reads `ok` with a book missing; `coverage`'s docstring says why a range count cannot tell (manifests.py:659) |

## Proofs

Everything below is checked by TLAPS, for any number of workers, devices, jobs,
retries, requests, pulls, crashes, books, walks, threads, sweeps, transfers and
tabs, from the named assumptions on the module's constants and nothing else
unless the theorem says so. Of what the passing runs check, the theorems state
every safety invariant and every action property.

| theorem | assumes | without it |
| --- | --- | --- |
| `TransfersAreApart` | `~LogFaults` | `MCJobQueue_logfault` |
| `PendingRowsHaveJobs`, `VerdictsAreFinal` | `~DismissAny`: nobody closes the card of a running job | `MCJobQueue_orphanrow` |
| `OwedServiceIsOnRecord` | no `signal`, no `recovery` | `MCPullService_signalled`, `MCPullService_recovery` |
| `SwapIsQuiet`, `WalStaysWithItsCatalog` | only `stop` and `start` fail, no shutdown | `MCPullService_query`, `MCPullService_shutdown` |
| `FiguresAreOwned` | `[]TestUndisturbed` | `MCNodeWatch_hidden` |
| `RunningRowsHaveWorkers` | nothing; it says that a closed card is the exception when `RecordFaults` | `MCJobQueue_gaps` |
| `InfrastructureHolds` | nothing; it says that a selection of the library itself is the exception | `MCPages_gaps` |
| all others | nothing | |

The first four rows restrict what a situation's constants allow; that of
`FiguresAreOwned` restricts behaviours, to those in which the known gap does not
open; the next two theorems name their exception in the property itself.

**`AdmissionProofs`.** `PullIsAlone`, of the abstract gate. Its invariant is the
property itself, with the types.

**`JobQueueProofs`.** `TypeOK` is not inductive: `_admit` decrements counters,
and a counter stays a natural number only while it counts the workers it stands
for. The inductive invariant is

    GateInv == TypeOK /\ HoldsLock /\ CountsAreTrue /\ PullAlone

a worker past the lock holds its device's lock; `pushes`, `pulling` and
`waiting` are exactly the numbers of workers inside and waiting, by kind; a pull
inside is alone. From it follow `TypeCorrect`, `DevicesAreSerial` and
`PullsRunAlone`. `AdmissionImplemented` maps a worker to its place at the gate
and shows, action by action, that each step of the runner is a step of
`Admission` or leaves it alone; a crash is everybody leaving at once.
`AttemptsAreBounded` needs a strengthening of its own (a job that may still run
has an attempt to spare), for the object and for its row, because a restart reads
the row. `TransfersAreApart` says what the locks and the gate are for: two
processes alive are pushes to different devices.

**`JobQueueRowsProofs`.** What the card, the row, the queue and a worker say of
one job. None of the four properties of the rows is inductive alone: that a
running row has a worker rests on the card, that a queued card is held rests on
what the worker found when it took the job, and what a worker saves rests on the
card it has. The invariant is per job:

    RowInv == DownIsEmpty /\ \A j \in Ids : JobOK(j)

`CardOK` ties a live card to its row (they agree, or the job has finished and its
worker still awaits the reindex or unwinds with an exception) and to the worker or the queue entry it needs;
`WorkerOK` says what a worker's job may have become while it was away;
`RunningRowOK` what a running row stands for (a live job, a pull that awaits its
reindex, or what an exception left of a closed card); `QuietOK`, only where no running
card is closed, that a worker without a card saves nothing. A step touches the
card, the row or the worker of one job, so each action has one lemma about that
job and the others are framed. `RowsFollow`, `QueuedJobsAreHeld`,
`RunningRowsHaveWorkers` and `PendingRowsHaveJobs` follow from it and `GateInv`.
An exception after the verdict has a lemma of its own (`LateRows`): the job it fails
is one whose row still reads running, because a worker past its save raises no more;
`LateOK` says that only situations with `RecordFaults` have such workers.
`VerdictsAreFinal` needs besides that an id that was never made has no row
(`UnmadeInv`); `ForgottenStayForgotten` rests on `GateInv` and `RowInv` and
holds in every situation, duplicates in the queue and closed cards included.

**`PullServiceProofs`.** Three invariants, one per promise, because they hold
under different assumptions about the host, and each assumption is needed.
`RecordInv` adds to the promise of `OwedServiceIsOnRecord` where the pull is when
it removes the record (`started`, where nothing is owed any more, or `stop` with
the unit still active). `QuietInv` says that a unit that is stopping is either
waited for or on record after a crash, so that no swap begins beside it, and that
while the catalog's rsync runs there is no `-wal`: both `SwapIsQuiet` and
`WalStaysWithItsCatalog` are read off it. `TouchInv` says that a hold beside a
unit that is down means that libnodes stopped it; `OnlyWhatItStopped` follows,
and speaks of what happens until somebody touches the service by hand.

**`HoldingsProofs`.** `PulledBooksAreFound` speaks of a pull at the moment it has
its answer, so the invariant `AskInv` says what protects its books while it
waits: they are still before the running walk or in what it read, or `again` is
set; when no walk runs, they are in the index or its error is set. That a walk
begun after the answer cannot lose them follows from `promised` being on disk.
`HoldingsStep` reduces the actions of `Holdings` to what they do to the index.

The rows have an invariant in five parts,

    HeldInv == HeldTypes /\ StampsInv /\ CountInv /\ TallyInv /\ GiveInv

`StampsInv`: a stamp is never newer than the clock, and the `last_sync` cache is
exact unless a touch is due. `CountInv` and `TallyInv` follow a coverage thread
between its reads: what it counted is right for the write count and the
publication it read before, or one of them has moved on, and then nobody will be
served what it stores. `GiveInv` relates what transfers delivered, what the
listing has passed and what has been stirred since: this is where a listing that
passed a file too early is kept from taking its row away. From them follow
`LastSyncHolds`, `TalliesHold`, `DeliveredHolds` and, as a property of a step,
`ScansTell`.

**`NodeWatchProofs`.** `WakesReachTheWatcher`: what a sweep noted of a node it has
still to probe is the node's state, unless another prober wrote that one
(`SweepInv`); so a node that turns green in a sweep will be in its report.
`FiguresAreOwned` assumes that no Test has in its hands a df older than the last
transfer, or older than the one that settles while a plain df is out: those are
the two ways of the gap at probe.py:417, and without the assumption the property
does not hold.

**`EventBusProofs`.** `StaleCardsAreRepainted` is not inductive: a `done` of a job
that was forgotten meanwhile may put a finished card back. `BusInv` adds that a
card shown of a job that is gone has a `dock` queued, which the `done` cannot
take. `PutKeeps` is the reason for the drain: an event leaves a queue only to be
painted, or for a `dock`.

**`PagesProofs`.** `CommandsInv` says of every job ever queued that its argv is
what its builder makes of the node it was queued for (`Built`), where its sources
came from (`Sourced`: the index, the library, or the library itself where a selection
named it), which run its form asks for (`Asked`), and what a retry
took over (`RetryOf`). Only an action adds a job and none changes one, so the
work is in what each route hands to `submit` (`PushQueued`, `PullQueued`, the
steps of the menu and of a retry); `RemovalsHold`, `InfrastructureHolds`,
`PreviewsHold`, `RetriedPreviewsHold` and `RetriesHold` are then consequences for
two jobs at a time, however many were queued and however often devices.yaml, the
library and the index changed between them. `Arguments` is what the whole of it rests
on when sources become arguments: the library itself is no name
(`CommandsConstantsOK`), so `/` comes of nothing else, and names come out as they are.
`Removed` is empty or not by the
argv's flags, which `PushFields` and `PullFields` compute.

The rest of the module is the coverage map. The files are any finite set, a path
is a file's or a directory's (`CoverageConstantsOK`), and the weights any positive
numbers. Its figures are sums of books taken in different ways, over files and
over roots, so four layers are stated in turn.

* Sums. That `SumFunctionOnSet` does not depend on the order it adds in, and splits
  over a union of sets that do not meet, is an induction over the set. The
  library's induction theorems take an operator, but its well-foundedness theorems
  take a set: `LeastSubset` picks a smallest counterexample from the proper-subset
  order on a finite set, and `AddersAgree`, `SumTakesAny` and `SumSplits` refute
  it. `SumOfParts` is the same of a sum of sums over sets that are pairwise apart.
* Roots. Two roots that `ExcludedRoots` keeps have no file in common, and between
  them they have every file that is out (`RootsApart`, `OneRoot`, `Parts`), however
  the patterns nest. From this and the sums, `Figures`: what the map takes off is
  the number of books a push leaves out.
* What is drawn. `StateTold` reads the files off the figures: two sets of which one
  includes the other are equal when their books are (`BooksGrow`). `ProportionsFit`
  and `SharesFit` bound the floors and ceilings of a bar; `PresenceTold` compares
  the dot with the row.
* Steps. `CoverageInv == CacheInv /\ MapInv` and the places an asker can be at.
  `CacheInv` adds to the cached roots what an asker is about to store, which bears a
  generation that was published and, if it is the current one, the current roots;
  reading the generation before the rows is what makes it so; a walk that failed bears
no generation. `MapInv` says that
  while the index is the one the dialog was opened on, its total and its drawing are
  of that index. `CacheHolds`, `HeldBackHolds`, `StatesHold`, `BarsHold` and
  `PagesHold` follow.

Only model-checked: liveness (`QueuedJobsSettle`, `PullIsNotStarved`,
`ServiceComesBack`, `WaitersAreServed`, `TabsCatchUp`), which is beyond this prover.
The invariants that a gap breaks (`MCPages_gaps.cfg` and the others listed under
"What the runs found") are not theorems, being false.

## Not modelled, and the plan

Next:

1. `Admission` as the gate of `PullService`: a theorem in place of the words that
   say that pulls run alone there.
2. `Manifests` with the writes between the map's four queries.

Left out for good: the text of rsync's output, the regular expressions over it
and the progress they feed; battery figures; queries that page through the index
or list a device's extras; host figures; sign-in (a stateless signed cookie);
templates, styles and scripts; deployment. `DevicesStore.reload` appears in
`JobQueue` as an edit that takes effect at any step (`Reload`), and in `Commands`
between two requests (`EditDevices`); its validation is data, but for the two
validators that coerce. `Manifests.forget` is called by nothing.
