# A verification project for the B3nd SDK repository

TLA+ modules that model the concurrent core of this repository, TLC
configurations that check them on small instances, and TLAPS proofs of what
holds for every instance.  Paths below are relative to the repository.

The repository is an umbrella: the protocol packages it re-exports (the rig,
the clients and stores, encryption, servers) live elsewhere.  What is here, and
has behaviour of its own, is the *managed node* (`libs/b3nd-managed-node`,
`apps/b3nd-node`) with its *executors* and the tools that start a network of
nodes, and the *SDK inspector* (`apps/sdk-inspector`), a server and some tasks
that rerun the tests and publish the results.  All of it is JavaScript on one
event loop: the code between two awaits is atomic, and everything that is hard
comes from what happens at the awaits, and in the processes, files and
databases beyond them.

## 1. Inventory

| component | state | operations | interacts with | what makes it correct |
|---|---|---|---|---|
| Config loader `config-loader.ts` | none | `loadConfig` | reads the client, verifies and decrypts | only a valid record with the operator's signature loads |
| Config watcher `config-watcher.ts` | timer, `lastConfigJson`, `polling` | `start`, `stop`, `poll` | reads the client, calls `onConfigChange`/`onError` | polls exclude each other; configs only move forward; it converges |
| Update checker `update-protocol.ts` | timer, `lastVersion` | `start`, `stop`, `check`, `poll` | the same, with `onUpdateAvailable` | it tells its handler of each version once, and who was told what is known; it converges although checks overlap |
| Heartbeat writer `heartbeat.ts` | timer | `start`, `stop`, `writeHeartbeat` | reads the node's getters, writes the status document | each document is a snapshot; the stored one becomes current |
| Metrics collector `metrics.ts` | timer, latencies, counters, window start | `record*`, `snapshot`, `report`, `wrapClient` | wraps a client, writes the metrics document | an operation is counted once, and where not, with a known cause |
| Node, managed mode `apps/b3nd-node/mod.ts:119-293` | `currentConfig` | boot, initial load, `onConfigChange` | composes watcher and heartbeat on one client | it runs with the operator's latest config and says so |
| SQL executors `pg-executor.ts`, `sqlite-executor.ts` | one connection | `query`, `transaction` | the database | a transaction takes effect as a whole or not at all |
| File executor `fs-executor.ts` | none but the disk | `writeFile`, `removeFile`, reads | the disk | a record is there in whole |
| Compose generator `compose-generator.ts` | none | `generateCompose` | the operator's manifest | a container for each node and each database |
| Local runner `local-runner.ts` | child processes | `startLocalNetwork`, `stop` | `deno` processes | after `stop()` none runs |
| Inspector: continuous runner, test state | `currentProcess`, `currentRun`, `runningFiles`, results, log | `start`, `runAllTests`, `runTestFiles`, `onFileChange`, `stop`; `POST /state/rerun`, `/cancel` | child processes, file watcher, artifacts | at most one run; its results are its own; it can be stopped and rerun |
| Inspector: on-demand runner `test-runner.ts`, `routes/tests.ts` | `currentProcess`, `currentRunId` | `run`, `cancel` | child processes | the id reported is the run's that is under way |
| Inspector: health monitor | service list, last answers, interval | `start`, `stop`, `checkAll`, `addService`, `removeService` | HTTP | it shows the services it has, as they answered last |
| Inspector: file watcher | `isRunning`, watcher, pending debounce | `start`, `stop`, events | file system, runner | its owner hears of changes while it runs |
| Inspector: watch mode `tasks/watch-artifacts.ts` | debounce, `isRunning`, results, log | initial run, rebuilds | file system, child processes, artifacts | what is on disk is of the files as they are |
| Inspector: artifacts `test-state.ts:434-673` | writes under way | `completeRun`, `buildArtifact`, `writeStaticArtifacts` | B3nd, disk | results, metadata and log are of one run |
| Inspector: artifact build `tasks/build-artifacts.ts` | result list | one pass over the output | files | it says of a run what the server says |
| Start-up of the node, validators, backend builder, peers, other executors, re-exports, scripts, website | none | | | section 6 |

**What is hard.**  Interval callbacks without a re-entrance guard overlap when
an await takes longer than the interval (update checker, heartbeat, metrics,
forced health checks).  State is read before an await and used after it (metrics
window, the runners' `currentProcess`, the metadata of an artifact).  `stop()`
never cancels what is in flight.  Callers share one connection, one file, one
interval.  Reads, callbacks and writes fail and are retried only by the next
tick, if at all.  Processes end by themselves, or not when they are told to.
The node is its own config client, so that with a memory backend a crash loses
the configuration as well.  `PROJECT.json` lists these hazards one by one, each
at its line, with the properties that cover it.

## 2. Modules

The managed node:

| module | models | how |
|---|---|---|
| `SignedRecords` | `config-loader.ts` | A record is what the loader's branches tell apart: form, verifying signatures, seal, body.  `LoadConfig` is the config or `Nothing` where the code throws. |
| `ConfigFollower` | the promise of a watcher | Abstract: holds the config of some published record, only moves forward, does not put off the latest for ever. |
| `ConfigWatcher` | `config-watcher.ts` | One action per stretch between awaits. `MayPoll`/`EnterPoll` are the guard and the entry of `poll()`, `Skip`/`Deliver` the comparison, `CallbackResolves`/`CallbackRejects` the end, each releasing the guard as the `finally` does. |
| `UpdateChecker` | `update-protocol.ts` | Several checks in flight, of polls and of callers, each reads (`Fetch`) and later judges (`Report`, `Skip`) in one step with `lastVersion`; `Tell` is whom it reports to. |
| `Heartbeat` | `heartbeat.ts` | Writes in flight in the order they began; any may land next or be lost.  The getters' answer is the variable `view`. |
| `Metrics` | `metrics.ts` | Operations are identities, the window a set; reports take a snapshot, land or fail, and then reset the window. |
| `ManagedNode` | `apps/b3nd-node/mod.ts`, managed mode | Composes `ConfigWatcher` and `Heartbeat` by INSTANCE: the watcher's `Deliver` also assigns `currentConfig`, the heartbeat's `view` is computed from it.  Boot, initial load, crash and restart. |
| `FollowingNode` | the promise of the managed mode | Abstract, without polls, heartbeats and errors: a process that has the config of some published record and only moves forward, a status document that shows the name of a published config and the backends of the same or a later one, and a process that may end, with its store or without. |

Executors and networks:

| module | models | how |
|---|---|---|
| `SqlTransactions` | `sqlite-executor.ts`, and the promise of an executor | Abstract: a call has the effect of all its statements in one step, or none.  Of the SQLite executor this is the code as it stands, as nothing runs between its `BEGIN` and its `COMMIT`. |
| `PgExecutor` | `pg-executor.ts` | The server's connection (`inTx`, `aborted`, `work`, `rows`) and the calls that share it, one action per statement: `Begin`, `Insert`, `Commit`, `Rollback`, `Query`, and how each fails, also by the loss of the connection, before it or between a `COMMIT` or a query and its answer (`CommitUnseen`, `QueryUnseen`). |
| `FsExecutor` | `fs-executor.ts` | One file: which write its content is of and whether it is there in whole.  A write makes the directory, truncates, and is over; others, removals and failures come in between. |
| `LocalNetwork` | `local-runner.ts` | Processes spawned in order, one per node with a key; any number of `stop()` calls, each at its place in the list, over processes that may have ended. |
| `ComposeServices` | `compose-generator.ts` | The manifest grows node by node; `Generate` begins a call, `AddService` is one turn of its loop, an assignment to the object of services, `Generated` its end. |

The inspector:

| module | models | how |
|---|---|---|
| `TestState` | `test-state.ts` | The synchronous methods as operators: `InitializeFiles`, `UpdateFiles` (`completeFileRun`, `markFileRunning`), `UpdateTestResult`, `StartRun`, `CompleteRun`. |
| `ContinuousRunner` | `continuous-runner.ts`, `routes/state.ts` | One action per stretch between awaits of `runTestCommand`, over the commands of all runs: `BeginRun` and `GoOn` are what `runAllTests`/`runTestFiles` do up to and after a command, `Header` and `Result` are `parseLine`, `Done`, `Timeout` and `ReadFails` the outcomes of the race. |
| `TestRunner` | `test-runner.ts`, `routes/tests.ts` | Calls of `run()` and `cancel()`, any number at a time, each at its await (`runPc`), with the processes they started (`proc`). |
| `HealthMonitor` | `health-monitor.ts`, `routes/health.ts` | Entries `<<id, url>>`; a round asks each (`CheckAll`), and each answer is recorded on its own (`Answer`, `TimesOut`, `Record`), beside forced rounds and requests that add and remove services. |
| `FileWatcher` | `file-watcher.ts` | Each `start()` has a loop of its own, which may outlive `stop()`; one pending debounced call. |
| `ArtifactWatcher` | `tasks/watch-artifacts.ts` | A file is in `known`, `snapshot`, `written` when what is there is of the file as it is; a change takes it out of all of them.  `Due`, `Tested`, `WatchResultsWritten`, `WatchLogWritten` are a rebuild. |
| `Artifacts` | `test-state.ts`, what a completed run writes | Which of results, metadata and log are of the last run, in each writer's hands, on disk and under the B3nd URI. |
| `TestReport` | the two readings of a test output, in `test-state.ts` and `build-artifacts.ts` | The output line by line; results by name on one side, a list on the other; the counts and the file tables made of each. |

Modules `...Proofs` hold the theorems (section 5), modules `MC...` the instances
for TLC.  `MCNodeServices` and `MCInspector` put several modules that share
nothing side by side: a behaviour is one of any of them.

Variables keep the names of the code where they can (`timer`, `polling`,
`lastVersion`, `currentConfig` as `current`, `isRebuilding` for the `isRunning`
of watch mode).  A variable commented *history* has no counterpart in the code
and no guard reads it: it records positions in the publication order
(`delivered`, `told`, `announced`), who saw or met whom (`exposed`, `shared`, `overlapped`,
`disturbed`), or what went wrong (`doubt`, `orphaned`, `missed`), so that
properties can speak of them.

The definitions named `...Always`, `...Stuck`, `...Forgets` and the like, each
under a comment "Mutant of", are not part of the model.  Each is a definition
of the model with one plausible bug; putting it in place of the original makes
TLC report the property that `PROJECT.json` pairs it with, which shows that the
property depends on that piece of code.

**Abstractions.**  Signatures and encryption are taken as perfect: a signature
verifies if and only if its key made it, a sealed body opens with one key.  A
read returns the latest record at some instant between its call and its
settling.  Two configurations are equal when their JSON is.  Time is not
modelled: an interval may fire whenever it is set, so every latency and every
interval length is covered, at the price of not telling apart the ones that
are impossible in practice.  A statement inserts a row that names it; the server
follows PostgreSQL (a second `BEGIN` is a warning, a `COMMIT` after an error rolls
back).  A file's content is the write it is of.  Logging, document formatting and
the values of latencies are left out.

## 3. Runs

`tlc -config X.cfg M`; each takes two minutes or less.

| run | module, cfg | question |
|---|---|---|
| `watcher` | `MCConfigWatcher`, `ConfigWatcher.cfg` | Do polls exclude each other (in `IInv`), are only signed valid configs delivered, always forward, with at most one late callback after `stop()`?  Does it converge, and implement `ConfigFollower`? |
| `watcher_timestamp` | ..., `ConfigWatcherTimestamp.cfg` | Violated: is every new record delivered, as the comments say? |
| `update` | `MCUpdateChecker`, `UpdateChecker.cfg` | With overlapping checks: when is the handler called twice in a row with one version, does a check never go behind what was told when it began, does it converge? |
| `update_serial` | ..., `UpdateCheckerSerial.cfg` | One check at a time: does it implement `ConfigFollower`? |
| `heartbeat` | `MCHeartbeat`, `Heartbeat.cfg` | With heartbeats in flight together, reordered and lost: is each document a snapshot, does the stored one become current? |
| `metrics` | `MCMetrics`, `Metrics.cfg` | Which operations may be counted twice, or lost, and does the window move on? |
| `node` | `MCManagedNode`, `ManagedNode.cfg` | End to end, over crashes that the store may or may not survive: only the operator's configs, forward while the process lives, shown in the status document in the end; all in all a `FollowingNode`, liveness included. |
| `node_sealed` | ..., `ManagedNodeSealed.cfg` | Violated: is a sealed config, for which the node has the key, loaded by the retry? |
| `node_services` | `MCNodeServices`, `NodeServices.cfg` | What does a shared connection leave of transactions (`PgIInv`), and is it `SqlTransactions` when its callers do not meet (`SerialRefines`)?  When is a file what was written last (`FsInv`)?  Does `stop()` miss no process (`LnInv`, `NetworkStops`)?  When does a compose file have all it should (`CsInv`)? |
| `runner` | `MCContinuousRunner`, `ContinuousRunner.cfg` | Runs that overlap, are cancelled, time out or cannot be read: does `currentProcess` hold what can be stopped, is a file running or complete for a reason, does every run's metadata end, and is the inspector exact while runs do not overlap? |
| `runner_one_process` | ..., `ContinuousRunnerOneProcess.cfg` | Violated: is a run stopped before a new one starts? |
| `inspector_services` | `MCInspector`, `Inspector.cfg` | Does the on-demand runner know its run (`TrIInv`)?  Does the health monitor show the services it has (`HmIInv`), and the right answer in the end (`ShowsTheAnswer`)?  What does a stopped file watcher still tell (`FwInv`)?  What is on disk in watch mode (`AwInv`), and does a rebuild end (`RebuildsEnd`)?  Do artifacts match (`ArInv`)?  Do the two readings of an output agree (`RpInv`)? |

**Bounds.**  Publications: three (a change, and a change back or to a record
that does not load; going back behind needs two).  Records: one for each branch
of the loader, and the same body signed twice.  Two polls, checks or reports in
flight, three heartbeats: reordering needs two, and what a third adds is one
more such pair.  Faults, losses and crashes: one or two each, so that a fault
can hit at every step, and one can follow another in the watcher.  In
`ContinuousRunner` two runs of up to two commands, one command that cannot be
read, and three files, one for each way a file can be run (SDK, end-to-end,
written after start-up, so unknown to the state): the hazards are all between
an older run and a newer one.

`NodeServices.cfg` (40,115 states): two transactions of two statements and a
query, one error and a lost connection, so that a transaction can begin, end or
fail at each place of another, with a query on either side; two writers of one
file; four nodes, one without a key between others, and two calls of `stop()`; a
manifest of up to three nodes whose names are equal once sanitised, or equal to
a database's or to the config server's.  `Inspector.cfg` (280,364 states): three
test runs, as a third is needed to clear the fields of a second that superseded
a first, and a cancellation; one service id under two URLs, with one forced
round beside the interval's and one answer that comes too late; two starts of a
file watcher and two events; two source files and two rebuilds under way if the
flag allowed it; two writers of artifacts; three results over three tests, two
of which share a file and two a name, and a third file without any.

No property depends on where the bound is: after the last fault the liveness
properties are about what follows, for which the number of faults before is of
no matter; and nearly all safety properties are proved without any of these
bounds (section 5).

**Deadlock** is checked in every run but `node_services`, where the system may
stop: its callers may have no more calls to make.  (In `ContinuousRunner` and in
some of the inspector's services a request or a stutter is always possible, so
that it says little there.)

**Fairness.**  `setInterval` keeps firing while it is set (WF of `Tick`), and
the promises that are awaited settle (WF of each invocation's `Settle`): the
clients answer or fail.  The second is an assumption: nothing in the code bounds
a read.  A read that never settles leaves the watcher's guard set for good; this
is listed as a hazard.  Weak fairness is enough throughout, because ticks and
settlements stay possible until they are taken.  In `ManagedNode` the process
is also restarted after a crash (WF of `Boot`), as the generated compose file
asks with `restart: "unless-stopped"` (`compose-generator.ts:143`).  In
`ContinuousRunner` only the timer of a command is sure to fire (WF of `Timeout`):
a process may hang, even after a SIGTERM.  In `LocalNetwork` a node that got a
SIGTERM ends: `mod.ts` installs no handler for it.  In `HealthMonitor` a round
is over before the next one begins: the interval is ten seconds, and a fetch is
given up after five.  In watch mode a test command is given up after two minutes
and writes to disk end.  Nothing is assumed of the operator, who need not
publish, nor of `start()`, `stop()`, `check()` and requests, which need not come.

## 4. What the checks show

The managed node:

* The watcher's guard does exclude, on each path, and no order of `start`,
  `stop`, failures and slow callbacks reorders configurations.  `stop()` lets
  the poll in flight call back once more; never twice, however often it is
  restarted (`AtMostOneLateCall`, a part of `IInv`).
* The checker has no guard, and overlapping checks do report an older version
  after a newer one; but a check never undoes what was reported before it began
  (`NoOlderThanAtBegin`), and so the last version told settles on the right one.
  What a caller of `check()` is told, the handler `onUpdateAvailable` is not; and
  only that lets the handler hear of one version twice in a row
  (`AnnouncedAnew`): without callers, each of its calls brings another version.
* Heartbeats may land out of order and `lastHeartbeat` may go back; documents
  never mix two configurations, and the stored one catches up.
* The collector counts an operation twice only when reports overlap, and misses
  one only when it was recorded while a report was being sent or the report
  failed: these are the exact prices of resetting the window after the await,
  in every case.
* The node never goes back behind its initial load although its watcher starts
  from no config and, unlike the initial load, cannot open sealed records; and
  what its status document shows was always a configuration of the operator,
  over crashes that lose the store or let a late document through.

Executors and networks:

* On the one PostgreSQL connection a call that met no other is atomic and
  durable, whatever errors, failed commits and lost connections came, unless its
  own callback swallowed an error: then the commit is acknowledged and keeps
  nothing.  What failed left nothing behind, except that a commit, or a query
  outside any transaction, whose answer is lost with the connection is reported
  as failed and kept in whole.  Calls that do meet lose both promises: what one
  commits contains what the other did so far, and what one rolls back takes the
  other's with it (`AckedOrNothing`
  names them `exposed`).  The SQLite executor has no such case.
* Between calls a file holds the last acknowledged write in whole, until two
  writes meet, a file is removed under a writer, or a write fails half-way; then
  the next write that is alone repairs it.
* Several `stop()` calls go through a network side by side; each resolves, and
  when it does every process is dead, also those that had ended by themselves.
* A compose file has a container per node, and what they wait for, exactly if the
  sanitised names of the nodes differ from each other and from the services that
  are always or sometimes there.  When they do not, the last node of a name
  wins, and what waits for a database by that name waits for a node.

The inspector:

* Runs of the continuous runner overlap in every way, and each still ends
  (`RunMetadataEnds`); `currentProcess` never holds a command that is past
  stopping, though it may hold none while one runs.  A file stays marked as
  running, so that `POST /state/rerun` is refused, only while a command has to do
  with it or because one that was killed, timed out or could not be read left it
  so (`RunningHasCause`): the second case never heals by itself, only by a file
  change that runs the file again.
* The on-demand runner reports a run only while it is under way.  As long as no
  run was asked for beside another call, its process and its id are the right
  ones; after that a superseded run may have cleared the fields of the newer one.
* The health monitor shows a service exactly while it is listed, except one that
  was removed during a check: the answer brings it back for good.  Older answers,
  and those of another entry with the same id, can be shown for a while; with
  one entry per id the right one is shown in the end.
* A stopped file watcher calls its owner once more at most, though watchers that
  were opened after `stop()` stay open until their next event.
* In watch mode, when nothing is due or under way, disk and files agree except
  for files whose last change or whose last run was missed.  A change is missed
  when it comes during the initial run, when its event is replaced by another
  within half a second, or during a rebuild.  A run, the initial one too, may give
  no result of a file: its command was killed after two minutes, could not be
  spawned, failed before its tests, or skips them; the runner reports none of
  this, and the file is written as pending, or with an older result, until it
  changes.  A rebuild always ends, so that later changes are not dropped for ever.
* Results are never published beside the metadata of an older run, but may be
  beside that of a newer one, and the log may be of either; a write that was
  alone, with no run begun during it, leaves results, metadata and log of one run.
* The server's counts and the dashboard build's agree up to tests that were not
  reported again, unless two tests of a file have one name: then the server
  loses a failure to a later result, and the build counts both.

**Where code and comments disagree** (`findings` in `PROJECT.json`):

* *`node_sealed`, a bug.*  `mod.ts:204` gives the initial load the node's
  decryption key, and `mod.ts:216` promises that the "config watcher will
  retry"; but `createConfigWatcher` is never given the key and has no option
  for it.  A sealed configuration that is not there at boot is never loaded.
* *`runner_one_process`, a bug.*  `continuous-runner.ts:229` says "Stop any existing
  run before starting a new one".  What is stopped is one command.  The run it
  belongs to resumes, sets `currentProcess` to null although it holds the newer
  run's command (`:337`), and launches its end-to-end command, which finds nothing
  to stop: two `deno test` run side by side, and `stop()` reaches one of them.
* *`watcher_timestamp`.*  `config-watcher.ts:5` and `:28` say changes are
  detected by the record's timestamp; the code compares the configs' JSON, so a
  record written again with the same config is not a change.

Seen while reading, and not the subject of a run:

* The tests of `stop()` ("No additional calls after stop",
  `config-watcher.test.ts:172`) hold between two polls only.
* The checker remembers a version before it calls `onUpdateAvailable`: when that
  call rejects (`update-protocol.ts:130`), the version is not offered again.
* `types.ts:8` speaks of a signed update manifest while `update-protocol.ts:107`
  also takes an unsigned one.
* `types.ts:36` allows the backend type "filesystem" that `validators.ts:15`
  rejects, and a valid configuration may name a backend that
  `buildClientsFromSpec` throws on.
* The compose file passes `NODE_ENCRYPTION_PUBLIC_KEY_HEX` to nodes that read
  `NODE_ENCRYPTION_PRIVATE_KEY_HEX`, and has `CORS_ORIGIN: *` unquoted
  (`compose-generator.ts:76` with `:166-170`), which YAML reads as an alias.
* `compose-generator.ts:7`, "One managed-node container per node in the manifest",
  holds exactly when `NamesAreApart` does.
* `mod.ts` starts the collector but never calls `wrapClient`, so that its metrics
  stay zero.
* `startLocalNetwork` that throws half-way leaves the processes it has spawned,
  and nobody has the handle that would stop them.
* `test-runner.ts:83`, "Cancel any existing run", does not reach a run that is
  still discovering its files.  Its `parseDuration` counts "500ms" as 500
  minutes as well, and its summary patterns do not know "(n steps)".
* `file-watcher.ts:30` debounces "to avoid flooding on rapid changes (e.g.,
  save-all)"; the debounced call keeps the files of the last event only.
* `TestState` writes its artifacts to
  `apps/sdk-inspector/b3nd-web-rig/public/dashboard`, the tasks to
  `apps/b3nd-web-rig/public/dashboard`.
* The file table of `buildArtifact` is taken after its awaits and may disagree with
  the summary, which is taken before.

## 5. What is proved

`tlapm M.tla` checks each module below to its last leaf.  The theorems hold for
every value of the constants and every bound, under the assumptions named in the
modules that declare them, which say that records are records, bounds are
numbers, and the value that stands for null is none of the others.  TLC
evaluates these assumptions in the runs.  Each theorem is
`Spec => []Inv` or an action property of `Spec`, from an inductive invariant; the
invariants are properties of the runs as well.

* `ConfigWatcherProofs`.  *Invariant:* `SafetySpec => []IInv`.  `OneAtATime` is
  not enough for the forward properties alone: that deliveries move forward
  needs `ReadsAreCurrent` (what a poll read is not older than what was
  delivered, because nothing else delivers while it is under way, which is
  `OneAtATime` again), `LastIsDelivered` ties `lastConfig` to the record it
  came from, and `LateCallWasTheLast` says why a second late call is
  impossible.  From it: `TypeCorrect`, `PollsExclude`, `OnlySignedIsDelivered`,
  `OneLateCall`, `ForwardOnly` (an action property), and `Refines`: every
  behaviour is one of `ConfigFollower` (safety), where `Deliver` is `Follow`,
  `Start` and `Stop` are `Switch`, and the rest stutters.
* `UpdateCheckerProofs`.  `Invariant`, `NeverOlder`, `AnnouncesAnew`, for any
  number of overlapping checks.  The strengthenings are `ReadsAfterBegin`, that a
  manifest is read after its check began, and `Remembers`, that what the checker
  remembers was told last, to the handler or else to a caller since.  `SerialRefines`: if there is one
  check at a time, the checker implements `ConfigFollower` (safety).
* `HeartbeatProofs`.  `StatusSafety`: the stored document is a snapshot because
  those in flight are (`InFlightAreSnapshots`), for any number in flight and
  lost.  The lemma `RemoveAtKeeps` says what a sequence keeps when a write is
  taken out of its middle.
* `MetricsProofs`.  `Invariant`, `TypeCorrect`, `LossHasACause`,
  `DoubleCountHasACause`, `ErrorRateIsARate`, for any number of overlapping
  reports.  `SnapshotsCoverWindow`, `SentIsSettled` and `CountedAtMostOnce` say
  where an operation can be at each moment of a report; without them a `Reset`
  could drop an operation that no snapshot has.
* `ManagedNodeProofs`.  `NodeSafety` and `NodeMovesForward`, over any number of
  crashes and restarts.  The strengthening is `PollsAreCurrent`: a poll under
  way is alone, belongs to a node that is up, and has read what is no older than
  what the node runs with, for the watcher's own `delivered` begins at zero and
  says nothing of the initial load.  `StatusSafety`: a document shows the name of
  a published config and the backends of the same or a later one, for any number
  of heartbeats in flight, some of which outlive their process.  It needs the
  same of the documents on their way, and `ViewIsPublished` of the getters that
  the next one will ask; `CrashDocs` says that a crash leaves no document that was
  not there, `DocumentsStay` that what is published stays at its position.
  `NodeRefines`: `ManagedNode` implements `FollowingNode` (safety).  `InitialLoad`
  and `Apply` are `Follow` (`LoadsFollow`; the watcher, which has no key, loads the
  same as with it wherever it loads anything, `KeyAddsOnly`), the landing of a
  heartbeat is `Show` (`LandingShows`), `Crash` is `End`, with the store or without,
  and the rest stutters.
* `ContinuousRunnerProofs`.  `Invariant`, `TypeCorrect`, `StopsWhatRuns`,
  `RunningIsExplained`, for any number of overlapping runs.  `CommandsInOrder`
  says that a launch never replaces a command in flight and that nothing given
  up launches anything; without it the files of a replaced command would be
  marked with no command to complete them.  `MarkedAreKnown` is what makes
  `completeFileRun` effective for every file that is marked.  The lemmas
  `BeginRunKeeps` and `GoOnKeeps` say what the beginning and the going on of a
  run do to all commands, `UpdateFilesMarks` what happens to the files.
  `StatusIsExplained` (`StatusMatchesResult`): a completed file has the status of
  its last result, or a command reports on it still or was given up while it
  did; it takes `FreeReportsNothing`, that a command reports on no file before it
  is launched.  `SerialRunsAreExact` (`SerialIsExact`): as long as no run begins
  while another is under way, `currentProcess` and `currentRun` tell the truth;
  `SerialExactly` says it without counting, of any two commands awaited.
* `NodeServicesProofs`.  `ExecutorSafety`: that a call which met no other is
  atomic needs `AloneIsExact` (the connection's transaction is its own, with all
  it did so far) and `TransactionIsOfACall` (nobody left one open before); that
  a lost answer leaves all or nothing in doubt is a part of `AckedOrNothing`.
  `ExecutorRefines`: `PgExecutor` implements `SqlTransactions`, where the step that
  ends a transaction is `Commit`, `Fail` or `InDoubt` and all before it stutter,
  as long as no call met another or swallowed an error.  `FileSafety`, by
  `LoneWriteIsLinked`: an undamaged file has one writer at most, which still
  writes to the file of that name.  `NetworkSafety`, by `ListIsComplete`: when the
  first `stop()` comes, nothing is spawned any more, so that who has gone past
  all of the list has seen every process.  `ComposeSafety`: at each turn of the
  loop each service is that of the last node so far with its name (`LastOfName`,
  kept by `Placing`), for manifests of any length, and what containers wait for is
  in the file; that the complete file has a container for every node exactly
  if their names are apart follows (`CompleteFile`).
* `InspectorProofs`.  `RunnerSafety` and `RunnerKnowsItsRun`, by `NoneBeside`
  (without overlap one run at most is past its beginning) and `AwaitedIsThere`.
  `HealthSafety` and `ShownServices`, by `ChecksAreKnown`: a check under way is of
  an id that is listed or was removed during one.  `FileWatcherSafety`, by
  `LateTellWasTheLast`.  `WatchSafety`: `OneRebuild` keeps rebuilds apart, and
  `NoneIsForgotten` follows each file from the change to the disk, through
  `debounced`, `testing`, `known`, `snapshot` and `written`, or to `missed`, from the
  end of the initial run on.
  `ArtifactSafety`: `HeldMatch` and `LoneWriterIsExact` say what a writer holds and
  has written at each of its steps.  `ReportSafety`: the two readings of one output
  agree, on outputs of any length over finitely many tests, but for names that
  come twice in a file.  By `KnowsTheLast`, that the server knows of each test
  the last result listed, lines and tests correspond one to one where no name comes
  twice, and so do their counts; this takes no induction over the lines
  (`SameCount` counts by a bijection).

Checked with TLC only:

* everything under fairness (`Converges`, `FollowsConfig`, `FollowsVersion`,
  `WindowMovesOn`, `OperatorSeesItsConfig`, `NetworkStops`, `RunMetadataEnds`,
  `RebuildsEnd`, `ShowsTheAnswer`, and of `FollowsOperator` what is liveness), which
  is out of the prover's reach.

Every invariant and every action property of a passing run is a theorem.

## 6. Not modelled

* *Validators and URI helpers* (`validators.ts`, `types.ts`): pure checks of one
  document's fields.  Which bodies pass is the constant `ValidBodies`, so that
  what is checked holds whatever they accept.
* *Backend builder and peer replication* (`node-builder.ts`,
  `peer-replication.ts`): each builds external clients from a list in one pass
  and keeps nothing, and the node does not call them when its configuration
  changes.
* *Start-up of the node* (`mod.ts:1-117`, `backends/`): straight-line code over
  external packages.  The managed mode also creates an update checker and a
  collector; they share no state with the watcher and the heartbeat and are
  modelled by themselves.
* *IPFS, S3 and Mongo executors*: one call of an external client per operation,
  no state.
* *Percentiles and rates of the metrics*, *latencies of the health monitor*, the
  *environment and text of the compose file*: arithmetic and formatting.
* *Discovery of test files and which tests a changed source concerns*: constants
  of `ContinuousRunner`.  *Extraction of test sources and classification of
  paths*: one pass over texts.
* *Re-exports, build and publish scripts, website*: no behaviour of their own.

What is left out keeps no state between its calls, or none that another part
reads; no further module is planned.
