# TLA+ models of cn4m-cascade

cn4m-cascade copies a source directory to one or more destinations, local
folders or SMB shares, by schedule, by webhook or by hand. It is one Go process
with an SQLite database: jobs are started from several places at once, runs wait
for people, destinations come and go, mounts are shared, and the process may be
stopped or die at any point. These modules model that control: who may start
what, what a wait may end with, what a row says afterwards.

Paths below are relative to `src/`.

## Inventory

| Component | State | Operations | Hard part |
|---|---|---|---|
| Run registry, `internal/runner/runner.go` | `byJob`, `active`, `queued`, `closing`, a wait group, one handle per run (`cancelled`, context, gate) | `Start`, `StartPreview`, `QueueNext`, `Cancel`, `Confirm`, `finish`, `startQueued`, `Shutdown` | five kinds of caller race for one slot per job; the row is written outside the lock; shutdown and crash |
| Run pipeline and gate, `runner.go`, `gate.go`, `filters.go` | where the run and each destination are, prompts, outcomes | resolve, scan, availability gate, prompt, execute, preview park, classify, cancel | destinations in parallel share one context; people answer late or never; early returns |
| Run rows, `internal/store/runs.go` | `runs.status`, `run_destinations.status` | `CreateRun`, `SetRunStatus`, `FinishRun`, `FinishRunDestination`, `ReconcileInterruptedRuns` | the only state that survives a crash; each write is its own statement, and one that fails is logged and not repeated |
| Mount manager, `internal/mountmgr/manager.go` | one entry per target (`refs`, `mounted`, `idleSince`, a mutex), the kernel's mount table | `Acquire`, `release`, `Unmount`, `Forget`, the reaper, `Shutdown`, `ReconcileStale` | shared mounts under edit, delete, idle timeout and a dead server |
| Executor and copier, `internal/engine/executor.go`, `copier.go`, `bounded.go` | a plan, results, temp files | clear blockers, make folders, copy with retries, guarded deletes | deletions after failed copies; an attempt that outlives its watchdog |
| Scanner and differ, `internal/engine/scanner.go`, `differ.go` | listings, a plan | walk, diff per sync mode | type changes, case folding, pruned directories |
| Filter chain, `internal/filter` | rules | match, prune | the two sides of a diff pruned by different rules; a rule that did not load |
| Scheduler, `internal/scheduler`, `internal/store/schedule.go` | `next_run_at` per job, copies of the due jobs | tick, catch-up, reschedule, start | a job edited or deleted between its load, its reschedule and its start; firings missed while down; failing statements |
| Outbound notifier, `internal/notify` | one lane per webhook with a bounded queue and a worker, a breaker, throttle keys | `Notify`, deliver, retry, `Forget`, `Stop` | a full queue, a dead receiver, the flusher beside the run, shutdown |
| Event hub, `internal/api/hub.go` | WebSocket clients, recently finished runs | subscribe, broadcast | slow clients, a run that ends between snapshot and subscribe |
| Trigger hooks, `internal/api/hooks.go` | tokens, failure limiter | trigger, `?queue=1`, status | the run ends between the refusal and the queueing |
| Progress and events, `internal/runner/progress.go`, `events.go` | counters, a buffer | add, flush | display only |
| Store, auth, HTTP surface, web UI, process shell | rows, sessions | CRUD | sequential |

How they interact: an HTTP handler, a hook, the scheduler's tick or the goroutine
`finish` spawns calls the registry; the registry spawns `execute`, which resolves
its source and destinations through `internal/storage`, which takes and returns
references of the mount manager; the gate parks a destination until an API
handler answers; `finalise` writes rows; `finish` gives the job's slot back and
starts the queued run. The run's goroutine and its progress flusher call
`Notify`, which queues for the webhooks' workers. The API's target handlers and
the reaper share the mount manager with the runs, its job handlers the jobs table
with the scheduler. At boot `ReconcileInterruptedRuns` and `ReconcileStale`
clean up what the last process left.

The correctness properties, by component:

* registry: one run per job; a slot is never leaked; a live row has somebody who
  will settle it, or the last write to it failed; a terminal row is final; a queued
  run follows the run it waits for; shutdown waits for what it must.
* pipeline: an unconfirmed preview writes nothing; the run's status is true of
  its destinations, and so are the rows whose writes succeeded; `cancelled` means
  somebody cancelled or a preview ended before it wrote; an answer is taken only
  by the prompt it was given to; every run ends without a person's help.
* mounts: references are holders; one mounter; the reaper and the handlers take
  no mount from a holder; a mount nobody uses leaves the kernel, by the reaper or at
  the next boot.
* engine: a plain success means the destination is what the mode promises, but
  for folders that could not be removed; a mirror deletes nothing the source has, and nothing before every copy is in
  place; an update loses nothing; what the filter excludes is not touched.
* scheduler: a firing is started at most once; what was missed stays missed; a
  scheduled run has its job's destinations and rules; no job stays due.
* notifier: what a receiver hears of a run is in order; the end of a run is
  announced; a drain loses nothing it accepted and ends; nothing is kept of a
  run that is over.

`PROJECT.json` lists the hazards behind these, each at its line.

## Modules

| Module | Models | Checked by |
|---|---|---|
| `Runner` | the run registry, its callers, the run rows, shutdown, crash, boot | `MCRunner`: `Runner_registry`, `Runner_v_shutdown` |
| `JobSlots` | what the registry promises: the abstract specification that `Runner` implements | `Runner_registry` |
| `RunPipeline` | one run from `execute` to `finish` with its gate | `MCRunPipeline`: `Pipeline_all`, `Pipeline_v_outcome` |
| `RunLife` | what a run's row may go through: the abstract specification that `RunPipeline`, and every run of `Runner`, implements | `Runner_registry`, `Pipeline_all` |
| `MountManager` | one SMB target's mount | `MCMountManager`: `Mount_refs`, `Mount_v_edit` |
| `SyncEngine` | one destination from its listings to its status: filter, scan, plan, execution | `MCSyncEngine`: `Sync_all`, `Sync_v_link`, `Sync_v_update` |
| `Scheduler` | the cron loop, `next_run_at`, the job handlers beside it | `MCScheduler`: `Scheduler_ticks` |
| `Notifier` | the lanes, their workers, the runs that feed them, the drain | `MCNotifier`: `Notify_lanes`, `Notify_v_silent` |
| `Outbox` | what becomes of a run's outcome: the abstract specification that `Notifier` implements | `Notify_lanes` |
| `RunnerProofs`, `PipelineProofs`, `MountProofs`, `SyncProofs`, `SchedulerProofs`, `NotifierProofs`; `SyncExecProofs` extends `SyncProofs`, `OutboxProofs` extends `NotifierProofs` | proofs about the module they are named after | tlapm |

The `map` of `PROJECT.json` gives the source lines of every definition.

### Runner

The variables are the fields of `Runner` plus the database rows and the program
counters of callers (`pc`) and run goroutines (`rpc`). Every critical section of
`Runner.mu` is one action; whatever the code does outside the lock is another.
So `start` is `Reserve`, `CreateRun` (or `CreateRunFails`), `AddToGroup`,
`Publish`, and other callers run in between. The goroutine that `finish` spawns
for a queued run is a caller named after the finished run. `Cancel` sets the flag
under the lock and ends the context after it. `DeleteCheck` and `DeleteJob` are
separate, as in `handleDeleteJob`. `Down` is a crash or the end of the process:
it loses everything but `row` and `stored`. `Boot` reconciles the rows
(`Reconcile`), or some of its statements fail and the process serves on beside the
rows that are still live (`ReconcileFails`), as `main` does.
The pipeline is reduced to the points where it touches the registry or the row.

With `StoreFaults` any statement may fail, any number of times: the loads before a
start, the insert, every write of a status, the boot's reconciliation. A failed
write of a status is only logged in the code, so in `SetRow` the row keeps what it
said and the run goes on to `finish`. The history `unsaved` holds the runs whose last
such write failed; the properties about rows name it where a row may stay live.
A preview may be asked for with `?queue=1` like a run (`previewq`).

`JobSlots` says the same without goroutines, locks or rows: a job is claimed,
its claim becomes a run or is withdrawn, one more run may wait behind it, a run
that ends takes the waiting one with it, and a closed registry grants nothing.
The mapping in `Runner` (`Slots == INSTANCE JobSlots WITH ...`): a claim is a
reservation in `byJob` whose run has no goroutine yet, the live runs are the
goroutines that have not passed `finish`, the waiting jobs are `queued`, and
the slots are open while the process is up and `closing` is not set. A crash
empties all of it at once, and a boot reopens.

### RunPipeline

One run. `pc` is where `execute` is, `dpc` where each destination is inside
`planOneDestination` and `executeOneDestination`. A job's settings
(`unavailable_policy`, `create_dest_dirs`, `prompt_fallback`,
`parallel_destinations`) and whether it is a preview are chosen in `Init` and
fixed. `outcome` is the in-memory result, `destRow` and `runRow` the rows; they
are kept apart because the code writes one without the other on several paths.
Each row is written by a statement of its own (`WriteDest`, `WriteRun`), and where
`failRun`, `cancelRun` and `abandonPreview` loop over the destinations before they
finish the run, `CloseDest` and `FinishRun` are steps and the process may die between
any two. A statement may fail (`faults`, at most `MaxFaults` of them); it is logged
and the run goes on, with the row as it was: `lost` holds the rows whose last write
failed. A failing `GetTarget` fails its destination. A boot reconciles in two steps,
`ReconcileRun` and `ReconcileDests`, either of which may fail (`ReconcileFails`), and
then nothing after it is done; the process may die and boot again. Of a cancel the
flag is set under the lock (`Cancel`) and the context ends after it
(`CancelContext`).
Each prompt has a channel of its own: `gen` numbers the prompts, and a person's
answer carries the number of the prompt whose channel it looked up, because
`gate.answer` sends after it dropped the lock. Whether a folder is missing, a
scan fails, or an execution succeeds, fails or is degraded is the environment's
choice. `touched` is the set of destinations written to.

### RunLife

`Runner` reduces the pipeline to the points where it touches the registry or the
row, and `RunPipeline` takes the registry to be one `cancelled` flag. `RunLife` is
what each assumes of the other: a run is created, works, and fails, is interrupted,
parks or concludes; a parked one is confirmed or abandoned; somebody may ask for
its cancellation; the process may die and the next one reconciles; its job's
deletion takes the row. Any of these writes may fail: the phase moves on, the row
stays, and `lost` says so until a later write succeeds. `PhaseOf(r)` in `Runner` and `Phase` in `RunPipeline` map
the program counters to the run's phase. A deletion and a start before `execute`
happen only in `Runner`, the rest in both. Because both implement `RunLife`, what
one model proves of a run's row is true of the run the other one has.

### MountManager

One target. An entry is an object that users keep a pointer to (`my`), while the
map (`cur`) may forget it and make another. `lock` is the entry's mutex, held
across the mount; `table` is the kernel's mount table. A user works from its own
copy of the target's row (`snap`), loaded before the lock. The dialect ladder and
the multichannel fallback are one mount that works or fails. The read of the mount
table at the start of `Acquire` may fail (`mountAt`), and so may every detach, the
boot's included. The history `missed` says that this process tried to
detach the share lazily and could not.

`MountIsReclaimed` is about the kernel's table, not the entry: a mount is gone,
held, or one of two things happened that the code has no answer to until the target
is used again or the process restarts. Either `missed`: the detach before a mount
that failed too, or the one of `ReconcileStale`, did not work. Or `Forgotten`: a
delete dropped the entry through which somebody had mounted in between
(`manager.go:631`).

### SyncEngine

Source and destination are functions from paths to entries (nothing, a folder, a
link, a file with size and time); a path is a sequence of names. The filter chain
is what `Admits` and `PrunesDir` compute, with a glob as the set of paths it
selects. `Plan` takes both listings at once, with any set of failed reads and
stats and of vanished files, and applies `Diff`. `Execute` is a stage and the
stage's actions still to do: blockers deepest first, folders shallowest first, a
pool of copiers (`busy`, `tries`), the deletion guard, deletions, folders deepest
first. `bounded` gives up waiting for a call but cannot stop it, and the stall
watchdog leaves an attempt running: such calls go to `late` and take effect, or
fail, at any later moment, the time after the run included. `leftDirs` are the
folders whose removal failed, of which `removeDirs` only warns. `outside` is what was
written through a link. `Status` is `classifyDestination`, with `degraded` kept
apart from `success` as the code's third result does.

Actions of the same depth run in any order here; the code orders them by name.
Nothing but the run changes the destination between its scan and the end, and of
the source only that files vanish: a preview confirmed an hour later, or a
source edited while it is copied, is not in the model. Case folding for SMB
destinations, byte counts and progress are not either.

### Scheduler

`pc` is where the loop is, `batch` the copies `DueJobs` returned that are still to
be handled; `Wake` is `DueJobs`' first statement, `LoadDests` and `LoadFilters` the
reads of one job's children, and the handlers run between any two of them. A
save is told apart from others by its number (`ver`), which is also the version of
the children saved with it: a copy's `ver`, `dests` and `filters` say which save
each part of it is from, 0 that the list came back empty. `catchUpMissed` and
`Tick` are the same pass but for what follows the reschedule. The handlers are
taken apart where the code leaves the database: the check of `ActiveForJob`, the
computation of the next firing, the transaction. A statement may fail
of itself or because the signal cancelled the context. `StartScheduled` is the
whole of `Runner.start`, which `Runner` takes apart; `StartOther` is a start
from anywhere else. The cron library is external: `NextFiring` gives a later time
or none. The clock does not go back.

### Notifier

A lane is a sequence and a worker; `call` is where each of a run's `Notify` calls
is: the hooks still to do and the hook whose lane was found and is not yet sent
to, because `enqueue` sends after it dropped the lock. The run's goroutine and
its flusher are two roles of one run. `FindLane` is the locked part of `enqueue`,
`Send` the rest. `keys` are the throttle's entries, `shunned` the breaker's. `Land`
is an attempt reaching its receiver, answered or not. The histories `last`,
`unheard` and `silent` say what each receiver heard last of a run, which outcomes
were dropped for a reason the code knows of, and which runs ended without
announcing it. A request lands before its client gives up on it or not at all;
the prompts of parallel destinations are taken one after the other. `main`'s end
is `CloseRuns`, `Stop`, then the drain or its deadline.

`Outbox` forgets queues, workers, attempts and progress: a run announces its
outcome, each webhook then owes it, and a debt is accepted or refused, told to the
receiver or given up. The mapping (`ImplementsOutbox`) reads `Owes` off the
`Notify` call's remaining hooks, `Holds` off the lane and the worker's hand, and
the two ends off `last` and `unheard`. No debt is forgotten and none is made up:
retries, edits, a full lane and the drain change only who holds it.

## Runs

| Run | Instance | Shows |
|---|---|---|
| `Runner_registry` | 1 job, 2 runs, 2 callers that schedule, trigger with `?queue=1`, preview, confirm, cancel or delete, any statement failing, a shutdown, 1 crash and boot | the registry's safety properties, that it implements `JobSlots` and each run `RunLife`, that every run ends and a queued one follows; about 232 000 states |
| `Runner_v_shutdown` | 1 job, 2 callers | expected violation, see below |
| `Pipeline_all` | 2 destinations, 16 job settings, 2 people, 1 failing statement, a crash anywhere and one more in the boot after it; about 924 000 states | the pipeline's safety properties, that an abort stops what is behind it, that the run implements `RunLife`, and that every run ends |
| `Pipeline_v_outcome` | runs without people | expected violation |
| `Mount_refs` | 2 users, 2 shares, 2 edits, a delete, failures, shutdown and crash | references, exclusion, no mount taken from a holder, a mount nobody uses is one the reaper will take, a mount is reclaimed |
| `Mount_v_edit` | 2 users, an edit | expected violation |
| `Sync_all` | a folder with a file and a file beside it, 7 source and 5 destination trees, 5 chains, 3 job settings, 2 workers, 2 attempts, 1 hanging call at a time; about 740 000 states | the engine's safety properties, that an execution never goes back to a stage or an attempt it has left (`ExecuteAdvances`), and that it returns |
| `Sync_v_link`, `Sync_v_update` | the trees with a link, with a folder; updates | expected violations |
| `Scheduler_ticks` | 1 job with an hourly, a nightly, a disabled or an unparsable schedule, 1 client, 2 saves, 4 moments, 1 failing statement, 1 shutdown or crash; about 580 000 states | a firing runs once, missed firings do not run, a run has its rules, no job stays due, a stale firing time does not stay |
| `Notify_lanes` | 1 webhook of the best-effort kind with 3 settings and 1 edit, 1 run, a lane of 2, 2 attempts, 2 ticks or prompts, failing lookups, shutdown | order, that the lanes implement `Outbox`, the outcome's announcement, the drain, the throttle's entries |
| `Notify_v_silent` | the same run without edits or failing lookups | expected violation |

Why the bounds are enough to be interesting. Jobs do not share anything in the
registry but `closing` and the wait group, so one job with two runs has a run, a
queued one behind it and a trigger that is refused; two callers beside the
goroutine that takes a queued run over are a start racing a start, or racing a
cancel, a delete or a confirm. Two destinations are the
fewest in which one stops the other, in sequence and in parallel; two people are
the fewest for a double click, or a cancel racing an answer. In the 16
settings (`CoveringJobs`) every policy meets every rule for missing folders, each
rule both orders, and every kind of prompt both fallbacks. One failing statement is any one of the writes of a
run or of the boot behind it, and two crashes are one between two of those writes and
one in the reconciliation. Two users of a
mount are a holder and one who acquires, releases or finds the share edited; two
edits bring the first share back. The trees hold every
pair of kinds at one path, an empty source, a newer and an older file on either
side; the chains a degraded one, a folder rule of the job, a rule of the
destination alone and an include; two workers are the fewest that an abort or a
dead share can interrupt, two attempts the fewest for a late rename beside a
retry. Times are 0 and 3 with a tolerance of 1 and an hour of 3, so a file may
differ by the daylight-saving hour. Two saves are a copy that is older than its
row, four moments a firing of each expression before, at and after the other's, one
shutdown or crash a process that missed firings. The scheduler's jobs share only
the loop, which handles one copy at a time: the proofs cover any number. Two
queued callbacks fill the lane with a start and a progress while the outcome is
still to come. The proofs remove the bounds for the safety properties. Deadlock
checking is off because a program with nothing left to do stops: the liveness
properties say that nothing stops early.

Symmetry: clients, run ids, users and shares are interchangeable and are
declared symmetric in two of the violation runs only, never where liveness is
checked.

### Fairness

* `Runner`: weak fairness of every step of a caller that has begun and of every
  run goroutine, of `Shutdown`'s steps and of `Boot`. Goroutines are scheduled,
  critical sections are short, the service manager restarts the process. Nobody
  has to send a request.
* `RunPipeline`: weak fairness of the run's and each destination's steps and of
  the boot's (`BootStep`). The steps include the timers: `waitForPrompt` and
  `awaitConfirmation` select on one. People are not fair; each makes a bounded
  number of requests, so a retry cannot be pressed for ever.
* `MountManager`: weak fairness of each user's steps (a storage is closed by a
  `defer`), of the reaper's tick, of a handler that has begun, of the end of a
  stopping process and of `Boot`. The mutex is a lock with weak fairness only:
  Go's mutex hands over to a starving waiter, but no property needs that here.
  Of the reaper it is the successful unmount that is fair: `MountIsReclaimed`
  assumes that a detach which is tried at every tick does not fail for ever.
* `SyncEngine`: weak fairness of `Plan` and of the executor's steps: every call is
  bounded by a timeout, every copy by its attempts. A call that was given up may
  hang for ever, and nobody has to cancel.
* `Scheduler`: weak fairness of the loop's steps, among which the choice of a
  failing statement is bounded, and of the clock. Nobody has to save, start, stop
  or restart anything.
* `Notifier`: weak fairness of each run's goroutine, its flusher, its `Notify`
  calls and each worker, and of `Stop`'s return: every attempt and every wait before a
  retry is bounded by a timeout. No deadline has to pass, nobody has to edit or cancel.

## Proofs

tlapm checks every step of the eight proof modules; nothing is assumed but the
named assumptions on the constants (`RunnerAssumption`, `PipelineAssumption`,
`MountAssumption`, `EngineAssumption`, `SchedulerAssumption`, `NotifierAssumption`),
which only say that the ids are distinct, a queue holds something, the sets of requests and settings are what the API accepts,
the users finite, the trees are trees, a job's excludes are among its
destinations', and cron's next firing is later than the time it is asked about. TLC
evaluates them in every run. The type invariant of every module is proved
(`TypeCorrect`, `PipelineTypes`, `MountTypeCorrect`, `SyncTypes`, `SchedulerTypes`,
`NotifierTypes`), so the runs spend their properties on the rest.

**RunnerProofs.** `OneRunPerJob` is not inductive: that a job's slot is free
says nothing by itself about the runs that exist. `IInv` adds who is where:
`CallersInv` (a caller inside `start` holds its job's slot, and no two do),
`CreatedInv` (a row created and not yet published belongs to exactly one caller),
`ActiveInv` (a goroutine inside `execute` is in `active` and is what `byJob`
says), `SlotInv` (a reserved slot has a caller, a published one a goroutine),
`NoOrphanRow`, and `ShutdownInv`. The last two name `unsaved`: a settled run whose row
is live is one whose write failed, and the row writes have a lemma of their own for
both outcomes (`RunWrites`). One lemma per action, over two general
ones (`CallerMoves`, `RunMoves`) for steps that move one program counter.
Proved: `TypeOK`, `OneRunPerJob`, `NoOrphanRow`, `NoLeakedSlot`,
`ShutdownSettlesRegistered` for any jobs, runs, callers, failures and crashes, and
`NothingIsLost`: where no statement fails `unsaved` stays empty, so there every live
row has its owner and `Shutdown` leaves no registered one.
`RowsInv` adds what a row may say where its run is; from it `TerminalRowsStay` and
`CancelledWasAskedFor` (both are also consequences of `RunLife`, which the run
checks), and, step by step with the same lemmas, that `Runner`
implements `JobSlots`: every action maps to one abstract step or to none.
`ImplementsRunLife` is proved run by run: a step that leaves a run's row,
goroutine, flag and start alone is none of its life's (`LifeUntouched`), and the
others are one step each; `Shutdown` asks every active run at once, a crash ends all
lives at once. It needs `LifeInv` besides: only a preview parks or executes after a
confirmation, nobody has asked a run without a row, and a process that is down has
no flags.
`QueuedHasRunAhead` holds as an action property whatever fails (only a failing
insert takes away the start a flag waits behind); as an invariant it holds under
`~StoreFaults` and no deletions (`QueuedBehindRun`).

**PipelineProofs.** The invariant ties outcomes to `dpc` (`OutcomeInv`), the
destinations to the run's phase (`PhaseInv`), the run's row to its phase
(`RunRowInv`) and to how far its final writes have come (`FinalInv`), the
destinations' rows to their outcomes (`RowsInv`), each up to the writes that are in
`lost`, and says why a context has ended (`CancelInv`): a person cancelled, or some
destination failed. `FaultInv`: a row is in `lost` only if a statement failed. The one
about contexts is what makes `CancelledOnlyOnRequest` provable: `classifyRun`
returns `cancelled` only if nothing failed, so whatever cancelled the
destinations was a person, or an abort that the first branch already turned into
`failed`. `PreviewInv` and `ParkedInv` say what a preview that was not confirmed has
and has not done. `MoveParts` and `EndParts` say what a step that moves or ends one
destination keeps; each action is an instance of one of them. Proved for any
number of destinations, people, requests and settings, with crashes: `TypeOK`,
`PreviewTouchesNothing`, `RunStatusIsHonest`, `CancelledOnlyOnRequest`,
`AnswerIsForThisQuestion`, `RebootSettlesRows`. `SeqInv` says how far the
destinations of a sequential job can be apart: those behind the one at work have
not begun, and behind an unavailable one under the abort policy nothing has been
written; `WorkInv` that a destination is written to only after its resolution, and
executed in a preview only after every plan. From them
`AbortStopsTheRest`, and `OneAtATime`: such a job never works on two destinations
at once. `EndsAreFinal`: an outcome and a final status are never overwritten.
`ImplementsRunLife` follows from the same invariant; that an interrupted scan and a
`cancelled` verdict were asked for is `EarlyCancel` and `ClassifyIsHonest`.

**MountProofs.** `LockInv` (who is inside holds the entry's mutex), `EntryInv`
(while the target exists there is one entry, and everybody's pointer is to it)
and `CountInv` (its references are the holders; cardinality lemmas from
`FiniteSetTheorems`). Proved: `TypeOK`, `RefsCountHolders`, `OneMounter`, and the
action property `HeldMountStays`. `ReaperInv` says when an entry's idle clock runs;
from it `UnusedIsReapable`: a mount with no reference and nobody inside is one the
next tick of the reaper may take, which is what `MountIsReclaimed` needs of every
state. `MissedType` types the history. Where nothing fails, a stored target's entry knows of every mount in the
kernel's table (`MountsAreKnown`).

**SyncProofs.** `PruneIsSound`: what `PrunesDir` hides, `Admits` refuses, because a
pattern that matches a folder matches all beneath it and parents are transitive.
From it `DeletesOnlyWhatSourceLacks` for every pair of trees, every chain and
every fault: if anything is deleted the guard was silent, so the listing had no
error, so what it lacks and the source has was pruned by a rule of the job, which
is a rule of the destination too, so `Admits` refuses it and it is not
extraneous. `TypeOK` includes the bound on a copy's attempts.

**SyncExecProofs.** `DiffFacts` says of any two listings what `Diff` puts into which
part of a plan, what it leaves out because it is right already, and what a copy
replaces (`PlanInv`, `CoverInv`). `CallsInv`: Execute, and every call it left in the
kernel, works on the plan only. So each entry of the destination steps in one of
four ways (`EntryStep`: nothing, a planned removal, a directory where nothing was, a
planned copy over no directory), and `DstInv` follows entry by entry, late calls
included; from it `UpdateLosesNothing` and `ExcludedStays`. `ProgressInv` says how
far an execution without a failure has come, stage by stage; it is inductive
because such an execution has no removal or mkdir left behind that could undo its
work (`LateInv`; only a retried rename, which lands the same file again, or the
removal of a directory, which is no failure). It covers the folders to be removed as
well: at the end each is gone or in `leftDirs`. `SuccessMeansInSync` is `ProgressInv`
at the end. `DeletesInv` carries `DeletesFollowCopies` on once a deletion fails and
`ProgressInv` says nothing any more. `ExecuteAdvances` is the measure behind
`ExecuteReturns`: every step of an execution takes something away from what is left
of its stage, uses up an attempt, or goes on to a later stage, and no late call, vanished file or
cancel gives any of it back; that the steps are taken is the fairness TLC adds.

**SchedulerProofs.** `CopiesInv`: the copies are of different jobs and of firings
that have come due. `FiringInv`: a row has moved past everything that was started
from its save, and past a copy that goes on to its start; a reschedule writes a
time after the pass's own `now`, which no firing of the pass exceeds, so it moves
past all of them, a stale copy's included. That no copy in hand was started before
(`FiringRunsOnce`) is a part of it, and not inductive alone. `ChildrenInv`: a
copy's lists are of its row's save or a later one, and empty only if the job is
gone, which it stays, because an id is not minted twice; so a copy whose job may
have a run has its rules. `MissedInv`: from the pass at startup on, a firing from
before it is in that pass's hands or gone. Proved for any jobs, clients,
expressions, faults and restarts: `TypeOK`, `FiringRunsOnce`, `MissedDoNotRun`,
`RunsWithItsRules`.

**NotifierProofs.** `FlowInv`: the run's goroutine is inside `Notify` only where
`execute` calls it, and its flusher lives only between its start and the join.
From it `ForgottenStays`: only a flusher writes a throttle key, and it has been
joined before `Forget`. `WorkersInv`: a lane has a worker before anything is sent to
it, and a worker that has left holds nothing; a send after the unlock can reach a
lane whose worker has left, but then its run was not over when `Stop` began, which
is what `clean` rules out in `DrainLosesNothing`. `OrderInv`: `Level` is how far a
run's announcements have come; a callback enters its lane with the rank of that
level, which never falls, so lane, hand and what was heard are sorted per run and
`LandsInOrder` follows, whatever the retries do. Proved for any webhooks, runs,
queue depth and attempts.

**OutboxProofs.** `NoOutcomeLost`: once a run has announced its end, every webhook's
copy of it is still to be placed by the `Notify` call, held by a lane or its worker,
heard, or on record as dropped. `DrainSettles`: when the drain is over and the runs had
ended before it, only the last two remain, the safety half of `HearsTheEnd`. From
the accounting, step by step, that `Notifier` implements `Outbox`.

**Model-checked only.** The liveness properties (`RunsEnd`, `QueuedRunFollows`,
`RunEnds`, `MountIsReclaimed`, `ExecuteReturns`, `DueIsHandled`, `ForeignHeals`,
`HearsTheEnd`, `DrainEnds`): fairness is out of the prover's reach. Every
invariant and every action property of the passing runs is proved.

## Where the code departs from its documentation

Six departures are runs that TLC violates:

* `Runner_v_shutdown`: `wg.Add(1)` comes after `CreateRun` and outside the lock
  that checked `closing` (`internal/runner/runner.go:273`). A `Shutdown` in
  between finds the wait group empty, returns, and leaves a row in `running`. The
  comment above the line says it cannot. What does hold, and is proved, is
  `ShutdownSettlesRegistered`: the runs in `active` when `Shutdown` takes the lock have
  written their final status, or failed to, when it returns without a timeout; the
  next boot settles the rest.
* `Pipeline_v_outcome`: a destination that an abort stopped, or that was never
  attempted behind one, keeps its row `pending` or `awaiting_prompt` after the
  run has ended (`internal/runner/runner.go:691`); SPEC 6.1 step 8 says
  finalisation writes per-destination summaries.
* `Mount_v_edit`: an `Acquire` after an edit detaches the mountpoint and mounts
  the new share under the users of the old one
  (`internal/mountmgr/manager.go:162`); the handler's comment says a busy target
  keeps its mount.
* `Sync_v_link`: an update that finds a link where the source has a folder skips
  the folder but plans the files beneath it, and they are written through the
  link (`internal/engine/differ.go:195`); the run's log says nothing is.
* `Sync_v_update`: the errors of the destination's scan are never looked at
  (`internal/runner/runner.go:751`), so a file the scan missed counts as new and an
  update copies over it, older or not; `ModeUpdate` "copies new and newer files".
  This is why `UpdateLosesNothing` and `SuccessMeansInSync` are stated for a
  destination that listed in full.

* `Notify_v_silent`: `failRun`, an early `cancelRun` and `abandonPreview` return
  without a callback (`internal/runner/runner.go:425`), after `run_started` went
  out; the comment at `runner.go:531` says of one such path that it left "anything
  told "started" waiting for a completion that never came". `HearsTheEnd` is
  stated for the runs that reach their destinations.

Others the models contain, each met while reading or as a trace, and not given a
run of its own:

* A failed `CreateRun` gives the slot back but leaves `queued` set by somebody
  who queued behind it (`runner.go:250`); the flag then fires after the job's next
  run, whoever starts it. This is why `QueuedHasRunAhead` needs
  `~StoreFaults`.
* `handleDeleteJob` checks that the job holds no run and deletes it later
  (`internal/api/jobs.go:159`); a start in between runs for a deleted job, its row
  gone.
* With `?queue=1`, the run may end between the refusal and `QueueNext`; the one
  retry may lose to another trigger, and the answer is 409 with nothing queued
  (`internal/api/hooks.go:272`).
* A failed write of a run's or a destination's status is only logged
  (`runner.go:547`, `925`, `1051`, `1331`, `1346`; `gate.go:248`): the job's slot is
  given back and the row stays `running` or `awaiting_confirmation` behind a run that is
  over, until a boot reconciles it. A boot whose `ReconcileInterruptedRuns` fails only
  warns and serves on (`cmd/cn4m-cascade/main.go:167`), and its statements are in no
  transaction (`internal/store/runs.go:333`), so a run may be settled and its
  destinations not. `NoOrphanRow`, `ShutdownSettlesRegistered`, `RunsEnd`,
  `RunStatusIsHonest` and `RebootSettlesRows` except exactly the rows whose last write
  failed.
* If the write that un-parks a confirmed preview fails (`gate.go:219`) and the process
  then dies, the boot takes the run for a parked one and records `cancelled` for a run
  that had begun to write. `CancelledOnlyOnRequest` names the case.
* An abort in a preview reads `cancelled`: it ends the run's context,
  `awaitConfirmation` returns on it (`gate.go:229`) and `abandonPreview` records
  `cancelled` though nobody cancelled (`gate.go:248`). SPEC.md:131 says "abort: fail
  the whole run immediately", and `classifyRun` (`runner.go:1269`) does so for every
  other run.
* A mirror whose folder could not be removed at the end still reads plain `success`
  (`internal/engine/executor.go:489`): the extraneous folder stays and only a warning
  says so. `SuccessMeansInSync` excepts those folders and nothing else.
* Answering Abort under the `prompt` policy stops the other destinations, but the
  run is classified by outcomes (`runner.go:1235`) and may be `partial`.
* A cancel while filters or source resolve is recorded `failed` (`runner.go:432`).
* In sequential mode a healthy destination waits for the prompt of the one before
  it (`runner.go:687`).
* An unanswered question about creating a folder uses the prompt fallback, abort
  included (`gate.go:178`).
* The pending destinations of a parked preview become `failed` at reconciliation
  although the run becomes `cancelled` (`internal/store/runs.go:346`).
* `Forget` checks references and drops the entry under different locks
  (`manager.go:631`): a late user of a deleted target may count on an entry the
  map no longer has. `RefsCountHolders` and `OneMounter` are stated for a target
  that exists.

* A folder that is not empty where the source has a file is never cleared: the
  unblocking removal is `os.Remove`, its failure trips the deletion guard, and its
  contents are extraneous and so withheld (`internal/engine/executor.go:104`
  wants to avoid exactly that).
* An update that finds a file where the source has a folder says it leaves the
  subtree alone (`internal/engine/differ.go:237`), but plans the files beneath it,
  which then fail.
* Of two source names that differ only in case the comment says "Neither is
  copied" (`internal/engine/differ.go:153`); the first of them is.
* An include such as `a/` admits the folder `a` of the source and not a file `a` of
  the destination, which is removed all the same to make room; `DiffOptions.Filter`
  says an excluded path is never deleted (`internal/engine/differ.go:117`).
  `ExcludedStays` excepts a path at which the source has something in scope.
* A reschedule from a copy older than an edit writes the old expression's next
  firing over the new one's (`internal/scheduler/scheduler.go:228`); the job runs once
  at a time its schedule does not name, and the tick after that puts the row right
  (`ForeignHeals`). The comment at `internal/store/schedule.go:106` says that
  changing the expression "cannot leave the old expression's firing time behind". If the old expression did not parse, the row is
  cleared, and the edited job is not scheduled until it is saved again.
* An edit computes the job's next firing before its transaction: a tick in between
  starts that firing, and the commit arms it again. `FiringRunsOnce` is about the
  firings of one save.
* A pass at startup that fails is not repeated: the first tick then starts what was
  missed (`scheduler.go:145`). `MissedDoNotRun` excepts it.
* A copy may be torn: a row of one save with the destinations or rules of the next
  (`internal/store/schedule.go:180`), and a run started from it uses the old row's
  settings.
* A run that ends without `Forget` leaves its throttle keys for the life of the
  process; `ForgottenStays` excepts the silent ends.
* A full lane, or a receiver in its retry window, drops the outcome of a run as it
  drops progress (`internal/notify/notify.go:258`); `HearsTheEnd` counts it as
  unheard.
* When `Runner.Shutdown` times out, a run that is still going may have found its
  lane before `Stop` and send after the worker has left; `DrainLosesNothing` is
  stated for a shutdown that did not time out. A crash loses what is queued.
* After a detach that failed and a mount that failed, the entry says nothing is
  mounted while the kernel's table still holds the old share.

## Plan

In this order; the first ten are done.

1. `Runner`, its runs and proofs.
2. `RunPipeline`, its runs and proofs.
3. `MountManager`, its runs and proofs.
4. `SyncEngine`, its runs and the first proofs.
5. `Scheduler`: `next_run_at`, catch-up and the stale copy of an edited job, with
   its proofs.
6. `Notifier`: lanes, the bounded queue, throttle, breaker and drain, with the
   run's announcements and the proofs.
7. `JobSlots`, refined by `Runner`.
8. `SyncExecProofs`: the remaining safety properties of `SyncEngine`.
9. `Outbox`, refined by `Notifier`; the measure of an execution; abort, order and
   finality in the pipeline; what the reaper can take.
10. `RunLife`, refined by `RunPipeline` and by every run of `Runner`.
11. For the mount manager, what holds of an entry its target's deletion left behind
    (`manager.go:631`); for the scheduler, an abstract specification of a job's
    firings.
12. In `SyncEngine`: case folding, a source that changes while it is copied, a second
    run over what the first left.

## Not modelled

* The event hub: it polls the runner's snapshots once a second and sends them on; a
  client that falls behind is disconnected and reads the rows again. Nothing
  depends on what it sent.
* Progress and the event buffer: counters, estimates and log lines for display
  behind one mutex. Nothing reads them back to decide anything.
* The failure limiter of the trigger hooks, tokens, passwords, sessions and
  encryption: sequential, or cryptography.
* Glob and JSON-key syntax, SQL text and migrations, the bodies of the callbacks:
  strings.
* The health cache, the dialect ladder of a mount and the Windows connector and
  service: what the rest sees of them, an attempt that works or fails, is in the
  models.
* The HTTP surface and the web UI beyond the handlers named above: presentation.

`PROJECT.json` gives the status of each component.
