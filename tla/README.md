# A TLA+ verification of Husonym

Husonym copies the data of source databases to destinations, anonymizing it on
the way. A *job* is run by Temporal workflows in a worker; a Go backend keeps
jobs, connections, runs, usage and the license; a control plane issues the
licenses and takes in the usage. This directory holds TLA+ models of the parts
of that code whose correctness depends on orders of events nobody can enumerate
in a test, the TLC configurations that check them, and proofs that TLAPS checks.

## How to run

    tlasany M.tla                           parse a module
    tlc -workers 2 -config X.cfg M          check a configuration of module M
    tlapm MProofs.tla                       check the proofs about module M

`MProofs` exists for `TableScheduler`, `DestinationTriggers`, `SyncActivity`,
`ConnectionManager`, `TableSync`, `AthanorTable`, `RunUsage` and `UsageReport`.
The configurations and the modules they are for are in the table under
"The runs".

## The system

| component | where | state | operations | hard part |
|---|---|---|---|---|
| run configs | `internal/runconfigs` | none (pure) | tables and foreign keys to insert and update passes; refusal of plans no order can run | cycles, self references, subsets |
| execution groups | `datasync/workflow/execution_group.go` | none (pure) | cycles, merged, to groups with dependencies | cycles that share a table |
| table scheduler | `datasync/workflow/workflow.go`, `group_completion_tracker.go` | tracker, counters, one child workflow per config | start root and dependent configs, handle ends, stop, fail | interleavings of completions, failure, stop, cancellation, the limit |
| destination triggers | `datasync/activities/destination-triggers`, `workflow.go` | the triggers in the destination, the record of them in the backend | record, suspend, restore, retries | crashes between the record and the change |
| table sync | `tablesync/workflow`, `tablesync/shared`, `tablesync/activities/sync` | continuation token, identity cursors | read a page, continue as new | retries of a page, disjoint identity blocks |
| athanor runner | `worker/pkg/athanor` | page transaction, published keys in Redis | insert, publish, update, commit, page after page | Redis is outside the transaction; a page tried again beside an attempt that lives on |
| sync activity | `tablesync/activities/sync` | channels of stream, stop and result | run a stream, stop it, heartbeat | lost stop requests |
| connection manager | `internal/connection-manager` | connections, sessions | get, release, reap, shut down | a reaper racing a user |
| run usage | `worker/.../shared/run_usage.go`, `backend/internal/usagestore`, `usagesettle` | a usage row per run | start, end, settle | first end wins, a crashed run |
| usage report | `backend/internal/usagereport` | one report a day, claims, marks | prepare, send | several replicas with clocks of their own, lost answers |
| license | `backend/internal/licensestore`, `licensegate`, `worker/internal/licenseloader` | the license in force | load, refresh, refuse | a cache each process refreshes |
| control plane | `controlplane/{intake,issuing,renewal,cpstore}` | customers, licenses, reports | take in a report, renew a license | repeats, conflicts, a license not known yet |
| user activity | `backend/internal/useractivity` | who was active | record, count | batches |
| SQL retry | `backend/pkg/sqlretry`, `sqldbtx` | none | retry a statement or transaction | retry of what was done |
| other workflows | schema init, account hooks, PII detection, preflight | workflow locals | fan out and collect | partial failure |
| management API | `backend/services/mgmt` | rows of the backend database | CRUD, job runs | - |
| surface | frontend, CLI, docs, charts, generated code, transformers | - | - | - |

How they interact: the backend starts a datasync workflow; it asks for the run
configs of the job, suspends the triggers of the destination, starts one child
workflow (table sync) per run config in the order of the groups, restores the
triggers and reports the run's usage to the backend. A table sync calls the
sync activity page by page, which copies rows through the athanor runner over a
connection of the connection manager. The backend settles open usage, prepares
a daily report and sends it to the control plane, which issues the license the
backend and the worker enforce.

What makes each correct, and what is checked of it:

| component | correct when | modelled |
|---|---|---|
| run configs, execution groups | every plan that is accepted can be run in an order that inserts parents first | yes, as operators the scheduler runs on |
| table scheduler | parents first, the limit kept, success means complete, the step ends | yes |
| destination triggers | every trigger is back as it was, and none fires on the run's writes | yes |
| table sync | every page once, no identity given twice, the table ends | yes |
| athanor runner | every row once, references to the rows they were to, retries that go through | yes, but for what is named under "Not modelled" |
| sync activity | success means a whole page, it always answers, nothing is left running but for a stop that panicked | yes |
| connection manager | what is in use stays open, what is not is closed | yes |
| run usage | a run counted once, with the end that was told, and not left open | yes |
| usage report, intake | one report a day, whole, that arrives | yes, but for what is named under "Not modelled" |
| the rest | - | no |

## Modules

| module | models | role |
|---|---|---|
| `RunConfigs` | `internal/runconfigs` | operators: the plan of a schema, and whether it is accepted |
| `ExecutionGroups` | `execution_group.go` | operators: the groups of a plan |
| `TableScheduler` | `workflow.go` (table sync step), `group_completion_tracker.go` | the state machine, its properties and its inductive invariant |
| `RunOrder` | - | abstract: what the table sync step promises, without groups, phases or slots |
| `DestinationTriggers` | `activities/destination-triggers`, `workflow.go` around it | suspension and restore, their properties and inductive invariant |
| `SyncActivity` | `tablesync/activities/sync`, `internal/benthos-stream` | the three goroutines of an attempt and its stream |
| `ConnectionManager` | `internal/connection-manager` | sessions, cached clients, reaper, shutdown |
| `TableSync` | `tablesync/workflow`, `tablesync/shared` | pages, continuation as new, blocks of identities |
| `FreshValues` | - | abstract: a value of a column is given once |
| `AthanorTable` | `worker/pkg/athanor` | a table written, updated and referenced, page by page |
| `RunsByDay` | - | abstract: a run counts once, on a day, for good; also the clock of the database |
| `RunUsage` | `run_usage.go`, `usagestore`, `usagesettle` | the row of a run, its reporters and its settlers |
| `Intake` | `controlplane/.../intake` | what the control plane keeps of the reports of an instance |
| `UsageReport` | `usagereport`, over `RunsByDay` and `Intake` | replicas that prepare and send, composed with the intake |
| `MC...` | - | instances for TLC |
| `...Proofs` | - | the theorems of the module they are named after |

A definition whose comment begins with "Wrong:" is a variant of the one below
it with a plausible bug; no specification uses it. Each property was seen to
fail when such a variant takes the place of the definition it mimics.

### The table scheduler

One process is the workflow function, main, whose place in the code is `pc`:

| `pc` | code (`workflow.go`) |
|---|---|
| `roots` | the loop over `splitConfigs.Root` (496-523) |
| `drain` | the head of the main loop (531-536) |
| `select` | in one of the three `workselector.Select` calls (500, 537, 597), named by `site` |
| `post`, `cleanup` | in the handler of a future, blocked in the post table sync activity (480) or in the redis clean up (459) |
| `scan` | the loop over `splitConfigs.Dependents` (553-616) |
| `spawn` | past the wait for a free slot, about to start `next` (615) |
| `synced`, `failed` | the step is over, well or with an error |

`child[c]` is the goroutine of config `c` (`invokeSync`) and its future: `idle`,
`running`, ended (`ok`, `err`), ended and handled by main (`handled`,
`failed`). A goroutine marks its config complete in the tracker *before* its
future is ready, and main handles the future later: `completedConfigs` runs
ahead of `completedCount`. `poller` is the account status goroutine, whose stop
travels through an unbuffered channel, hence the state `sending`.

Temporal runs the goroutines of a workflow one at a time, until they block. So
the other goroutines only move while main is `Blocked`; which ready event
`Select` takes is left open, as is the order in which the loops come to the
configs: the order of the code is one of those checked.

Left out: the wording of errors, the row totals other than which configs were
counted (`counted`), error paths of the tracker for configs and groups that do
not exist, and what children do once the step is over. A config is a table and
a pass; what the pass reads and writes is the columns, nothing else. The id of a
group is its set of tables.

### The destination triggers

`SuspendTriggers` records what puts the triggers back, then drops (MySQL) or
disables (PostgreSQL) them one by one; `RestoreTriggers` puts them back and
keeps in the record what it could not put back. The workflow suspends before the
table syncs and restores after them, or on its way out, on a context of its own
that a cancellation does not reach.

| variable | code |
|---|---|
| `db[x]` | the state of trigger `x = <<destination, number>>`: it fires in one of three ways, or is `off` (disabled, or dropped) |
| `before[x]` | the triggers of its event that fire before it: a MySQL trigger created again fires last |
| `original` | `db` before the first run; never changes |
| `record[j]` | the run context of job `j`: for each trigger its state, and the ones before it in the list |
| `destinations[j]` | what `GetJob` answers |
| `run[j]` | `suspending`, `syncing`, `restoring` (after the syncs), `leaving` (the deferred restore); then `restored`, `left` (it gave up) or `terminated`; with the attempts used and the worker waited for |
| `attempt[w]` | the locals of the activity attempt on worker `w`, and its place `pc` |
| `abandoned` | history: a run stopped waiting for an attempt that went on |

A step of an attempt is one call to the backend or to a destination. Between any
two, `AttemptFails` may take it away: an error, a time out or a lost worker; what
it did stays done. The workflow tries again up to the maximum its retry policy
gives. `RestoreStops` is the failure the code handles itself. Neither activity
heartbeats and `WaitForCancellation` is not set, so after `CancelRun` or
`TerminateRun` the attempt goes on beside what the workflow does next, which for
a canceled run is another attempt, of the deferred restore.

Abstractions. The two reads that open `SuspendTriggers` (destinations, record)
are one step: neither changes between them unless an attempt was abandoned. The
order in which the destinations are done is left open (the code follows the
record). A MySQL destination has one table and event, so `before` orders all its
triggers. The user changes no trigger during a run, and edits a job between its
runs only. SQL Server, whose triggers the code leaves alone, is not there.

### The sync activity

One attempt of the activity that runs a page through Benthos. `main` is the
activity (`Sync`), `monitor` the goroutine started before the stream is built,
`runner` the goroutine in `runStream`. `stops`, `done` and `result` are the
channels, with their capacities (3 and 1 and 1); `shared`, `running` and
`stopAsked` the fields of the stream adapter, which it reads and writes under its
lock; `stream` is Benthos, by what its callers rely on: a stream that has not
started does not hear a stop, one that is stopped closes, `Run` may fail and
leave the stream flowing. The select of the monitor takes any ready case.
`HearDone` looks at the stop channel as the code does. A panic of a heartbeat or
of the monitor's stop is recovered and answered (`MonitorPanics`); one of the
runner's stop of a failed stream is recovered and the failure reported, with the
stream maybe flowing (`StopFailedPanics`). The activity's context is canceled by the
run, a timeout, or Temporal once the activity has returned.

### The connection manager

Every method of the manager holds its lock from beginning to end, so each is one
action: `GetCached`, `GetNew`, `ReleaseSession`, `CleanUnused`, `HardClose`. Only
the reaper and `Shutdown` meet outside of it: `ShutdownStarts` reads `isReaping`,
`SignalReaper` is the send on the channel without buffer, `SignalTimesOut` its
five seconds. `conns` is `groupConnMap`, `bound` is `groupSessionMap`, `held` what
the callers were given. Both configurations are initial states:
`closeOnRelease` (API, no reaper) and the reaper (worker).

### The table sync and its identities

`run`, `iterations` and `page` are the workflow's place, `sums` what it has
added up, `cursor` its identity cursors, which the update handler `AllocateBlock`
raises. `attempt[w]` is the activity on worker `w` with its allocators (`block`,
`used`) and the update it waits for (`asks`, `reply`). `awaited` and `tries` are
Temporal's. An attempt that timed out may live on: it still draws from its
blocks, and still asks the run that started it, until that run is over.
Every ask for a block is an update of its own, as `GetNextBlock` gives it no id.
`IdentitiesAreFresh` is the refinement of `FreshValues`. A value is drawn at random in the
code; the model draws any.

### The Athanor runner

Three passes over pages: `insert` gives rows new keys (`InsertBatch`), publishes
them (`Publish`), and commits (`Commit`); `update` fills in the reference of a
row to another of its table by looking both up in Redis (`UpdateBatch`);
`children` inserts a table that references it (`ChildBatch`). `store` is Redis,
`dest` and `childDest` the destination, `attempt[w].tx` what a transaction has
written so far. Rows and children are numbered in the order they are read, and
a set of rows stands for a sequence of them: the position of a row is its `Rank`
in the set. Rows may be left out by one mandatory foreign key after the other:
`Checked` keeps the positions of those that survive, as `keyPublisher` does. A retry inserts with `do nothing`. The commit and the answer are two
steps, so the answer may be lost after the commit. A key another open
transaction inserted is waited for.

### The usage of a run

`row[r]` is its row in `run_usage`, `wf[r]` its workflow, `calls` the requests on
their way to the API with what the handler has read of the job, `fate[r]` what
Temporal says of the workflow, `settler[s]` the pass of a settler: the rows it
listed, and the one it has an answer for. A request may arrive long after the
attempt that made it was given up, in any order with later ones. `RecordRunStarted`,
`RecordRunEnded` and `Settled` are the conditional statements of `usage.sql`.
`CountedOnce` is the refinement of `RunsByDay`.

### The usage report and its intake

`pass[p]` is what replica `p` does, statement by statement: it reads its clock
once (`at`), looks for the report of yesterday, counts the runs (`count`), counts
the errors and saves (`errors`), keeps the sending state (`send`, `since`,
`last`), then claims (`claim`), posts (`post`) and marks (`mark`) one report after the
other. `inbox` holds requests, which outlive the pass that posted them.
`Intake` has what the control plane keeps; `ReceiveUnknown` is a step of its own
because the license may be recorded, and the pending reports promoted, between
its look up and the insert. A pass ends with any failure, and settings change at
any time (`Configure`). The clock of a replica is `now + Skew[p]`.

## The runs

| run | configuration | what it checks |
|---|---|---|
| `scheduler` | `MCTableScheduler` | the table sync step on the plans of four schemas with a difficulty each (a diamond; two cycles that share a table; a self reference next to a cycle; a subset with two update passes), of every two tables and of every ring of three |
| `update_order` | `MCUpdateOrder` | a disagreement: a second update pass does not wait for the first |
| `triggers` | `MCDestinationTriggers` | two runs of one job over a MySQL and a PostgreSQL destination, the job edited in between, any two faults |
| `canceled_suspend` | `MCCanceledSuspend` | a disagreement: a run canceled while it suspends |
| `trigger_places` | `MCTriggerPlaces` | a disagreement: MySQL triggers after a suspend that failed half way |
| `sync_activity` | `MCSyncActivity` | every interleaving of the goroutines of an attempt |
| `ended_activity` | `MCEndedActivity` | a disagreement: a stream that starts after its activity has ended |
| `connections` | `MCConnectionManager` | the manager of a worker and of the API, with a shutdown |
| `table_sync` | `MCTableSync` | three pages in two runs of the workflow, attempts that live on |
| `athanor_table` | `MCAthanorTable` | four rows that reference each other and three that reference them, two attempts lost |
| `run_usage` | `MCRunUsage` | a run, its calls lost, late or refused, and two settlers |
| `usage_report` | `MCUsageReport` | two replicas, two days, a control plane that gets to know the license |

`sync_activity` and `athanor_table` check the type invariant of their module too.
Those of the other six are left to the proofs: `TypeCorrect`, `UsageRowsHold`
and `ReportsArriveOnce`.

### Bounds

- `scheduler`: `MaxConcurrency` 2, so that the limit is reached with three
  configs ready; four tables, enough for a merged cycle of three with an outsider.
- `triggers`: two runs, because a record outlives a run and the next one merges
  it; two faults, one to leave a record behind and one to interrupt what comes
  after; two triggers, because order and a half done destination need two; two
  workers, an attempt left behind and the next; one job: what several jobs do to one
  destination is covered by the proofs, which are for any jobs.
- `sync_activity`: the capacities of the code, one attempt. `MayPanic` is on; the
  disagreement shows without it.
- `connections`: two sessions of a group and one of another, two connections:
  one session that is released while another uses a connection, a connection only
  one of them uses, and a group that must not be touched. `MaxClients` 3 lets a
  client be opened anew after a close.
- `table_sync`: three pages and two to a run, so that the table ends in a run that
  took over; blocks of two, used up by a page; two workers; `MaxValue` 6 is three
  blocks; two tries.
- `athanor_table`: pages of three and batches of two, so that a page ends in the
  middle of a batch, with an empty page at the end for the three children; two
  faults, two workers. 18 initial states: keys kept apart, colliding or drawn at
  random; nothing left out, or rows by the first, the second or both foreign
  keys; both conflict policies.
- `run_usage`: one run, since runs share nothing but the pass of a settler; two
  settlers that race; two tries; two faults. A day is two ticks, and a run starts
  early enough (`now + SettleAfter < MaxTime`) for a settler to look at it.
- `usage_report`: a replica a tick ahead, whose reports carry the diagnostics, and
  an exact one; one run; two days of two ticks; `ClosedAfter` 1 tick, as much as
  the clocks differ; room for one pending report, so that the second finds the
  intake full; one fault. A pass outlives at most one tick (`buildTimeout` and the
  timeout of a pass are minutes), and runs are recorded on the days whose
  reports can be prepared.

What the proofs say holds without these bounds.

### Fairness

- `TableScheduler`: main's steps (Temporal runs a workflow that can go on) and
  the end of each child (the sync activity has a start-to-close timeout and
  bounded retries). Nothing forces a cancellation, or a failure of the account.
- `SyncActivity`: the goroutines are scheduled, the context of an attempt ends at
  the latest with its deadline, a stream that was stopped closes. Nothing says
  that a stream drains or fails by itself.
- `ConnectionManager`: the goroutines of the reaper and of the shutdown.
- `TableSync`: a worker takes the page once one is free, an attempt that does
  not answer times out, and one given up ends. No answer is promised: `TableEnds`
  holds because failures are bounded, and the pages are. A job that asks for
  `MaximumAttempts` 0, which is no bound for Temporal, is not covered.
- `RunUsage`: the clock, and the ticker and passes of the settlers. Nothing about
  the calls nor about Temporal.
- `UsageReport`: the hourly maintenance of the control plane that promotes what
  is pending, and nothing else.
- `DestinationTriggers` and `AthanorTable`: none; only safety is stated.

Runs that may stop (bounded runs, an attempt that is over, a clock at its bound)
say `CHECK_DEADLOCK FALSE`; `scheduler` is checked for deadlock.

## The properties

Properties of `TableScheduler`:

- `ParentsInserted`: a config starts only when every table it depends on is
  inserted, although readiness is checked before a wait and by two different
  rules (groups, and configs of the own group).
- `GroupOrder`: groups and the phases of a cycle run in order.
- `SlotsBounded`: `inFlight` is exact and at most the limit, although a
  dependent waits with an `if`.
- `SuccessIsComplete`: success means everything synced and counted, with no
  failure, stop or cancellation.
- `NoStartOnceStopped`: after any of these, nothing is started.
- `StepEnds`: no order of events leaves main waiting for ever (the code has a
  `todo: deadlock detection`).
- `ImplementsRunOrder`: the step refines `RunOrder`.

Properties of `DestinationTriggers`:

- `RecordsTellOriginal`: no record, stored or held by an attempt, says of a
  trigger anything but its state before the first run, although later attempts
  and runs, and other jobs, read destinations with triggers suspended.
- `OutOfTheWayIsRecorded`: a trigger that is not as it was is off and in a record,
  one that no restore under way has ticked off; at every step, whatever fails.
- `RestoredAsBefore`: when the last run of every job has put its triggers back,
  all destinations are as before the first run, also those a job no longer has.
- `WritesUndisturbed`: while a job that is alone syncs, every trigger of its
  destinations is off. With two jobs on one destination it is not so: the first
  to end puts triggers back under the other. The code does not promise it.
- `PlacesKeptIfWhole`: with no fault and one job, MySQL triggers are back in
  their places once every run has restored. Of two jobs that share a destination
  each may have a part of its triggers out of the way, and then they are not.

All but the first are about runs that abandon no attempt, or without faults: what
happens otherwise is the two disagreements below.

Properties of `SyncActivity`:

- `SuccessIsWhole`: a success means the stream has drained and no stop signal was
  sent, though the select may see the end of the stream first and a signal may
  find no room.
- `AlwaysAnswered`: the activity waits for one result without a timeout of its
  own, and gets it whatever stops, ends or panics.
- `NothingLeftRunning`: no goroutine outlives an attempt for good, and no stream
  does, also after a monitor that panicked at its stop, unless the stop of its own
  runner panicked: `stopFailedStream` recovers that, the failure is reported, and
  a stream that had not heard the stop goes on with nobody left to stop it.

Properties of `ConnectionManager`:

- `InUseStaysOpen`: a client handed to a session is open until the session is
  released, but for a shutdown.
- `OneClientPerConnection`: sessions of a group share the client of a connection.
- `NothingForgotten`: every open client can still be closed, those opened after a
  shutdown included.
- `ReleaseClosesUnused`: in the API the release leaves no unused client, also
  while other sessions of the group remain.
- `UnusedCloses`: in a worker, an unused client is closed or used again.
- `ShutdownClosesAll`: a shutdown closes what was open, whether the reaper hears
  it, is busy or has not started.

Properties of `TableSync`:

- `SumsAreExact`: the rows counted are those of the pages done, each once, unless
  a page could not be counted, which the sum says.
- `IdentitiesAreFresh`: no value of a column is given twice, also by a retry that
  has lost the values used: it is given another block.
- `TableEnds`: the pages come to an end, or one fails for good.

Properties of `AthanorTable`. The first three are about deterministic
transformers (with a random key, an attempt that lives on publishes another key
than the one committed), and where said about those that keep keys apart.

- `ReferencesHold`: a reference is to a row that is there.
- `ReferencesFollow` (keys apart): it is to the row it was to, and is cleared only
  when that row was left out.
- `RowsWhole` (keys apart): each row is there once, and none left out is.
- `DiscardedIsExact`: the count of rows left out is exact.
- `RetriesGoThrough` (keys apart): no page fails on what an attempt before it wrote.

Properties of `RunUsage`:

- `CountedOnce`: a run is counted once, on a day, for good.
- `NotClosedEarly`: no row is closed while the run works, and a closed row has a day.
- `ToldIsKept`: an end the API answered for is kept, as long as the job is there.
- `OpenRunsAreSettled`: a run that is over does not stay open.

Properties of `UsageReport`:

- `ReportIsWhole`: a report counts exactly the runs of its day, and its errors
  are those of the same runs, though they are two statements and the day ends by
  another clock.
- `NoConflict`: the control plane never sees two documents for a day.
- `SentArrived`: a report marked as sent is stored or pending.
- `FirstWaits`: the first report leaves only after its wait.
- `PendingIsStored`: what is pending when the license gets known ends up stored.

### Disagreements

The disagreement `update_order`: `internal/runconfigs/builder.go:466` adds, to
an update pass, a dependency on the columns of the update pass before it ("This
helps with deadlocks"). `CanConfigStart` resolves a dependency to one config of
the table, its insert, so the two update passes of a table run at the same time
(`ColumnsWritten` is violated).

The disagreement `canceled_suspend`: a run is canceled while its attempt of
`SuspendTriggers` is between two triggers. The deferred restore reads the full
record, puts the triggers back and stores an empty record; the attempt then goes
on and takes away the next trigger, which is now in no record
(`NeverWithoutRecord`, the words of `activity.go:68`). No later run puts it back.

The disagreement `trigger_places`: a suspend that fails after the first of two
MySQL triggers leaves the second in place; the restore creates the first behind
it (`CreatedInPlace`, from `triggers.go:9`).

The disagreement `ended_activity`: a cancellation between the check of the
context in `runStream` and the start of the stream. The monitor asks the adapter
to stop a stream that has not started, answers, and the activity returns and
releases its session; the stream then starts (`EndedStartsNone`, from
`activity.go:477`). It does not stay: its own runner stops it, unless that stop
panics.

Two comments say the opposite of a property that holds; the run that checks it,
and its proof, show that the comment is wrong and not the code:

- `manager.go:62-63` says of `WithCloseOnRelease` that a connection is closed when a
  session is closed if "no other sessions within that group exist", and otherwise
  "will not be closed until Shutdown()" or a cycle of the reaper. `ReleaseSession`
  closes what no remaining session of the group is bound to, while such sessions
  exist: `ReleaseClosesUnused` (`connections`), as `manager_test.go:219-222` expects.
  In the API, which has no reaper, the comment would leave the connection open as
  long as the group lives.
- `identity-allocator.go:143-147` says that after a restart of the worker a retry
  gets "the same block for allocation" without the values used, and so could give
  values again. The update has no id, so the one of a retry is another update, and
  the handler raises the cursor at each: `IdentitiesAreFresh` (`table_sync`), in
  which attempts and their allocators are lost at any point.

One more was seen and has no run: `keys.go:54` of Athanor says that a row a
conflict skips is not published. A retry inserts with `do nothing`, which does
not tell what it skipped, so the model publishes such a row, as the code does.

## Proofs

`TableSchedulerProofs` proves, for every plan and every limit, `TypeOK`,
`ParentsInserted`, `GroupOrder`, `SlotsBounded`, `SuccessIsComplete`,
`NoStartOnceStopped` and the refinement of `RunOrder`. Assumptions: a plan has
finitely many configs, at most one insert per table, and `None` is none of them;
the limit is a positive number (`getTableSyncMaxConcurrency` replaces others).

The argument. The groups partition the configs and each table a config depends
on is in its own group or in a group it waits for (`GroupFacts`): this rests on
merged cycles being disjoint (`MergedDisjoint`), which is why the code merges
them. The inductive invariant `IndInv` then says that the tracker agrees with
the goroutines (`TrackerFacts`), that the counters are cardinalities
(`CountFacts`), that what main has still to start is idle (`TodoFacts`), that the
config which waits for a slot stays ready (`NextFacts`: completions only add),
and that a failure, stop or cancellation finds main on its way out
(`StopFacts`). The safety properties alone are not inductive: nothing in them
says that `next` is ready or that a slot is free when main resumes.

`DestinationTriggersProofs` proves, for any jobs, destinations, triggers, workers
and numbers of attempts, runs and faults, `TypeOK`, `RecordsTellOriginal`,
`OutOfTheWayIsRecorded`, `RestoredAsBefore`, `WritesUndisturbed` and
`PlacesKeptIfWhole`. Assumptions:
finitely many destinations and triggers; at least one attempt of each activity;
`None` is no worker.

The argument. `IndInv` has three layers. What always holds: attempts are well
formed, a run waits for an attempt of its own activity (`WaitFacts`), a trigger
is as it was or off (`DbFacts`), and records tell the original state; the latter
two hold each other up, as what is recorded is read from the database. While no
attempt was abandoned: every attempt is waited for (`Awaited`), so that a job has
one attempt at most (lemma `AwaitedAlone`) and it knows the record (`RecordFacts`);
from this a record never loses a trigger that is out of the way. For a job
alone: what a suspending attempt has come to is off (`SuspendFacts`), which with
`OnError` gives `WritesUndisturbed`.

For the places of the triggers there is a second invariant, `PlaceInv`, which
holds for one job as long as nothing failed. Triggers that are there are in
their places (`PresentInPlace`), a record has all the triggers of a destination
or none, each with those it was behind (`Listed`), between its attempts a run
has nothing out of the way or all of it (`RunPlaces`), and a restore puts
triggers back from the front of the list (`AttemptPlaces`), so each one it
creates is created behind those it was behind. That a list is read only when the
destination is untouched is what a failed attempt, or another job, would break.

`SyncActivityProofs` proves `TypeOK` and `SuccessIsWhole` for a stop channel of
any room, whether or not the heartbeat and the stops may panic, and the safety half
of the two liveness properties: the monitor does not end before there is an answer
(`MonitorAnswersFirst`), and the runner does not end with a stream that flows unless
its own stop panicked, after which the attempt does not succeed (`RunnerStopsFirst`). The argument. A success is passed on in three steps, from
the stream to the runner to the monitor to the activity, and a stop signal may
come at each: `IndInv` says how far the stream is by what the runner has come to
(`StreamFacts`), that a stream is closed early only by a monitor that has heard
something or a runner that failed (`CloseFacts`), that a signal sent stays in
the channel until the monitor hears one (`SignalFacts`), and so that the
monitor answers a success only with none sent (`OkFacts`).

`ConnectionManagerProofs` proves, for any sessions, groups and connections and
in both configurations, `TypeOK`, `InUseStaysOpen`, `OneClientPerConnection`,
`NothingForgotten` and `ReleaseClosesUnused`. Assumptions: `GroupOf` gives each session a group; clients are
numbers. The argument. The safety properties do not see the cache: `IndInv` adds
that what is cached is open and cached once, that a client is numbered as it is
opened, and that what a session holds is the cached client of a connection it is
bound to (`HeldBound`). Closing any set of pairs keeps the first three
(`CloseKeeps`), so every action needs only to say which pairs it closes.

`TableSyncProofs` proves `TypeOK`, `SumsAreExact` and that `TableSync` implements
`FreshValues`, for any table, block size, workers and numbers of pages and tries. Assumptions:
these numbers are positive, `None` is no worker and no column. The argument. What an
attempt may still give of a column (`MayGive`) has not been given, is behind the
cursor and is nobody else's; what was given is behind the cursor. A block is
made at the cursor and raises it; all other steps give up values or use them.
For the sums: the total is that of the pages done, because the answer of a page
is taken once, and by the attempt that is waited for. The sum of the pages,
`RowsTo`, is a recursive function: that it is what its equation says follows
from induction over a set of numbers (`NatSetInduction`, from the well-founded
order of the naturals, which needs no operator as a parameter).

`AthanorTableProofs` proves `TypeOK`, `ReferencesHold`, `ReferencesFollow`,
`RowsWhole`, `DiscardedIsExact` and `RetriesGoThrough`, for any table, references,
foreign keys that leave rows out, transformers, page and batch size, workers and
number of attempts lost. Assumptions: references are to rows of the table; `None`
is no key and no worker; a page and a batch hold a row at least
(`TableAssumption`, `KeysAssumption`, `PageAssumption`).

The argument. `IndInv` has four layers. `TypeInv`: an attempt writes only for its
pass, and the one waited for is of the page the workflow is at. `KeyInv`, about
every attempt, those given up on included: a key published, written or about to
be is one of a row that was not left out, a reference is to such a key, and no
two transactions hold one key (`FreshKeys`). `DoneInv`: what the pages done have
published and written, and the attempt waited for so far. `CountInv`: the count of
the rows left out (`Counted`), that an attempt given up on is of an earlier page
or of one that is tried again (`Stale`), and that no row is ahead of the first
attempt of a page (`NotAhead`), so that only a retry meets what is there, and a
retry inserts with `do nothing`. All of this needs that `Checked` drops the right
rows: after each foreign key, the positions kept are those of the rows that
remain (`CheckedFacts`), although each key counts positions in what the one
before it left. This is the induction over the list of foreign keys, with
the lemmas `RankGrows`, `RankMoves` and `DroppedSurvive` about positions in a set.
The properties alone are not inductive: a reference is right because of what was
published before, and what is there is right because nobody else had the key.

`RunUsageProofs` proves `TypeOK`, `NotClosedEarly`, `ToldIsKept`, and that
`RunUsage` implements `RunsByDay`, for any runs, settlers, tries, days and
faults. Assumptions: positive lengths, `None` is no run and no time. The argument. A settler has an answer only for a
workflow that is over (`OverWhenAsked`, from `OverWhenSaid`); a call of an end
exists only once the run has done its work (`EndIsCalled`); a row that closed
while the workflow still reports was closed by its own end (`OwnEndFirst`), so an
answered end is the one kept. Every step is then a step of one row that
`RowBecomes` allows, and these are the steps of `RunsByDay`.

`UsageReportProofs` proves `TypeOK`, `NoConflict`, `SentArrived`,
`ReportIsWhole` and `FirstWaits`, for any replicas, days, runs, settings and faults. Assumption
of the last: no clock is ahead of the database by more than `closedAfter`
(`ClockAssumption`, `preparer.go:17`). The argument. Whatever is on its way, pending or
stored is the document of the report of its day, and that document stays
(`ReportInv`); a replica waits for one request at a time (`OneEach`), so the
answer it marks by is to its own post. For the runs: the day a pass prepares is
over by the clock of the database (`PreparesOver`, from `SameDay`: past the
margin, both clocks agree on the day), and nothing is recorded for a day that is
over, so the two counts agree and stay right. For the wait before the first
report: a pass about to claim waits, or a report was sent since the start it has
read (`WaitInv`). After its own post that is so even if another replica had marked
the report before: it marked it on a day after the report's own (`SentOnceOver`), and
no report of a day before the start is claimed.

Every invariant, action property and refinement that a passing run checks is
stated by a theorem. Only model-checked: all liveness (`StepEnds`, `AlwaysAnswered`, `NothingLeftRunning`, `UnusedCloses`,
`ShutdownClosesAll`, `TableEnds`, `OpenRunsAreSettled`, `PendingIsStored`), which
is out of the prover's reach. The theorems about `TableScheduler` are for any plan;
that the groups of an accepted plan never wait for each other in a ring, which
`StepEnds` rests on, is checked for the plans of its run.

## Plan

Done: the modules above, with proofs where named. What is left, by what it
would add:

1. The datasync run as a composition: account status, configs, preflight, hooks,
   schema init, the table sync step, the deferred restore with table syncs that go
   on beside it, redis clean up.
2. The license in force, and its renewal between the sender and the control
   plane.
3. `AthanorTable`: the upsert, keys of several columns.
4. Abstract specifications that `AthanorTable` and `Intake` implement: rows
   that get one key each and references that follow them; a day that is stored once.
5. A proof that groups never wait for each other in a ring, by the induction over
   sets of naturals that `TableSyncProofs` uses.

## Not modelled

Of the components that are modelled:

- `TableScheduler`: the steps of the workflow before and after, and table syncs
  that go on beside the deferred restore. A run whose job is edited while it runs.
- `DestinationTriggers`: the text of the statements and the session settings of
  MySQL they change.
- `SyncActivity`: how a config becomes a stream.
- `ConnectionManager`: how a provider opens a client.
- `AthanorTable`: the upsert (`do update`), keys of several columns, a source
  that changes between two pages, tables without a key (which a retry after a
  lost answer writes twice), and which colliding rows a retry skips.
- `RunUsage`: workflows of versions that report nothing, the row counts and the
  category of an error.
- `UsageReport`: the content of a report other than its runs and errors, its
  seal, the deletion after 24 months, several licenses, the renewal a pass ends
  with, and a pass that goes by a start another replica has changed since
  (`FirstWaits` is about the others). A run whose row is committed after the
  clock it was recorded with: one step here.
- `Intake`: seals, the cap on instances and their rows, the purge of what stays
  pending for 45 days, and the room for pending reports exceeded by calls at the same time.

Not at all, with the reason in `PROJECT.json`: the steps of the datasync run
around the table sync; the license in force; issuing, renewal, console and
import of the control plane; user activity; SQL retry; connections to databases;
the other workflows; the Benthos engine, its plugins and Athanor's transformers
(functions of the data of a row); the schema manager and query builders (text);
access control and the management API (single statements); the CLI's own sync;
frontend, docs, landing page, charts, Python, benchmarks; generated and vendored code
(`backend/gen`, `internal/tsqlparser`, data sets).
