# A TLA+ development of the task control plane

The program automates HR work in browser portals. A dashboard process lets an operator
enqueue, cancel, retry and approve work; daemon processes, one or more per workflow, drive
the browsers. They share a SQLite database (`src/core/task-store`), append-only tracker files
and lock files. Nothing else coordinates them. What a daemon does to an HR system cannot be
undone, so what matters is that an item is worked on by one daemon at a time, is not repeated
once done, and is not lost. This development models that control plane, the files it reports
through, and the places where processes wait for one another. Paths are relative to the
repository; `PROJECT.json` maps every definition to the lines it translates.

## The system

| component | state it keeps | operations | in the models |
|---|---|---|---|
| task store (`src/core/task-store`) | `tasks`, `task_attempts` | enqueue, adopt, claim, renew, mark running, return, recover, end (fenced, unfenced), block, cancel request, retry | `TaskStore`, abstractly `TaskLifecycle` |
| task dependencies (`child-state.ts`, `src/tracker/tasks/scheduler.ts`) | `task_dependencies` | create, settle, block or release the parent, scheduler tick | `Dependencies` |
| daemon claim loop (`src/core/daemon/daemon.ts`, `terminalization.ts`, `queue.ts`, `worker-commands.ts`) | item in flight, its lease, abort and terminal token; wake latch, park, command polls | start, recover, claim, run, decide, terminalize, settle, heartbeat; poll, park, wake, tick | `Daemon` (with its peers), `DaemonLoop` (its event loop) |
| shutdown (`shutdown.ts`, `in-flight-shutdown.ts`, `teardown-transition.ts`) | intents of a stop, where the clean-up is | stop, drain, signal, lost browser, hand on or fail the item in flight, sweep the queue | `Teardown` |
| run registry (`src/core/run-registry.ts`) | live runs, terminal-write token | reserve, commit, roll back, abort and its origin | `Teardown`, `Daemon` |
| worker store (`worker-store.ts`) | workers, browser processes, commands | heartbeat, mark stale, enqueue and complete commands | commands in `DaemonLoop`, `Daemon` |
| daemon registry, spawn, client (`registry.ts`, `http.ts`, `client.ts`) | lockfiles | probe, spawn, wake, stop | probes in `Teardown`, wakes in `DaemonLoop` |
| dashboard requests (`src/control/ops`) | a request between its read and its writes | cancel queued, cancel running, retry | `Daemon` |
| orphan sweep (`src/tracker/dashboard/sweeps.ts`) | the same | list, probe, fail | `Daemon` |
| kernel (`src/core/kernel`) | sessions, lanes of a batch, who owes which row | run a batch: sequential, pool, shared context | `BatchPool` |
| tracker rows (`src/tracker`) | JSONL files, their lock, the SQLite projection | append, repair, apply, rebuild, delete, compact | `RowLog`, `JsonlLock` |
| Duo (`src/tracker/sessions/duo-queue.ts`) | the session log | request, poll, time out, complete | `DuoQueue` |
| delegation, OCR approval, worker control, supersede, control actions | | | not modelled, see the end |
| drivers, services, workflows, dashboard UI, domain helpers | none shared | I/O and pure computation | not modelled |

How they interact. Daemons and dashboard never call each other about a task: each reads and
writes rows in `BEGIN IMMEDIATE` transactions. A daemon looks at HTTP liveness and lockfiles
to decide which peers are alive, and recovers the claims of the others at startup and when
idle. A cancel of a running item is a state (`cancel_requested`) and a `cancel_task` command
that the command poll turns into an abort of the run. A child's end is settled on the
dependency by whoever wrote it (daemon, cancel, sweep), and by a scheduler in the dashboard
that reads the tracker instead of the task. The tracker's rows are appended by all of them
under a lock file, but for the last row of a run that SIGINT or SIGTERM ends, which its signal
handler appends without the lock; they are projected into SQLite, and a recovering daemon reads
them to learn whether a run was already done.

What is hard here: a process that stops between two of its writes (and, on a laptop, for
longer than its 60 s lease); cancellation, which races with everything; decisions taken after
an await on what was read before it; unguarded writes from dashboard and scheduler next to
the fenced writes of daemons; several daemons told to stop at once, each deciding whether a
peer will take its work; a signal handler that appends to a file others lock; and queues built on a log that everyone reads for himself.
`PROJECT.json` lists each hazard at its line with the properties aimed at it.

## Modules

`TaskStore` has the rows as functions from task to record (`task`), attempt states
(`attempt`), and one action per transaction. `issued` is a history variable, every claim
ever returned; the store's specification is the store under its most general client, which
may use any issued claim at any later time. `cancelCmd` says for which tasks an unfinished
`cancel_task` command exists, which keeps recovery away. Its fence, `FenceHolds`, is the
WHERE clause of `markTerminal`: not terminal, same attempt, same worker, same generation.

`TaskLifecycle` is what the store promises: a task is created, granted to one worker under
an epoch of its own, released, ended by its holder or out of the queue, reopened.
`StoreLifecycle` reads that life off the columns (`INSTANCE TaskLifecycle WITH ...`). The
abstract life has one step that a lease should not have, `Resume`: a worker the task was
once granted to takes it from the queue without a new epoch. The code has it
(`markTaskRunning` does not compare generations), so the promise names it.

`Daemon` supplies the real clients. `hand[w]` is the claim loop of daemon `w`: a phase and
the item it holds. Its actions follow the loop of `runWorkflowDaemon`: `Spawn`, `Recover`
(startup and idle keepalive), `Take` (claimNextItem), `Start` (markTaskRunning), `Finish` or
`Unwind` (the handler is over and the kernel has, or has not, emitted the terminal row),
`Decide` (the cancellation check), `Terminalize` or `TerminalizeUncertain`, `Settle`; beside
it `Heartbeat` and `ConsumeCancel`; `Crash` at any point. The dashboard's requests are split
where another process can write: `Ask*` is what a request reads, then its store write, then
its row or command. `shown` is the latest terminal row of every run, which is what recovery
asks of the tracker.

`Dependencies` puts a parent and its children, with the daemons of two workflows, on top of
`Daemon`: `SettleItem` and `SettleRequest` replace the settlement steps, `SchedulerRead` and
`SchedulerWrite` are one dependency of a scheduler tick, `Claimable` is the part of the claim
query that looks at dependencies.

`DaemonLoop` is the inside of one daemon, a single thread whose awaits are the points where a
5 s tick, an HTTP request, a park timer or a lost browser comes in. `loop` names the await
the claim loop is at, `poll` the command polls under way (the loop's own and the ticks'),
`latch`, `armed` and `timers` the wake latch, the waiters of a park and the timers that still
run, those of parks long over included.

`Teardown`, over `TaskStore`, is how daemons of one workflow stop. `proc[w]` holds the
intents (`stopping`, `force`, `reassign`, `drain`), the item in flight with its token and
abort, what the daemon has seen of its peers, and a phase that runs through the loop, then
the clean-up. A probe of peers, a store write and a row are steps of their own. At most one
failure happens per behaviour (`fault`): a crash, a throw of store or append, a stalled
heartbeat; a daemon may wedge besides.

`BatchPool` is a batch that runs without a daemon. `lane[l]` is a worker of the pool with its
browser, `terminated` what the lifecycle knows to be over, `Fanout` the failed rows it owes
the rest.

`RowLog` is one JSONL file and its projection: complete lines and what follows the last
newline, tombstones, the projection with its checkpoint per generation, and the compactor,
whose every durable write is a step that may be its last. It has two kinds of writer. The one
of `appendJsonlLineLocked` takes the lock, repairs the tail and notes the offset (`LockAppend`),
then appends (`AppendRow`, `TornAppend`). The signal handler of a tracked run
(`tracked-workflow.ts:306-354`) appends with neither lock nor repair (`SignalAppend`,
`TornSignal`), so it can come between those two steps, behind a torn tail, or between the
compactor's read of the file and its rename. A row that joins a torn tail makes a line no reader
can parse (`garbled`): a rebuild skips it, and the compactor throws at it. `exposed` is a history
variable: the rows appended at a moment when nothing protected them. `RowsSurvive` is about all
others, `EventsMatchFile` and `RebuildCatchesUp` about the offsets of all others. The compactor
reads the tombstones with the file (the code once for all files), and repair and read are one
step. Rows have unit length, so the rebuild's check that a checkpoint is at a line's start is left
out.

`JsonlLock` is the lock file that `RowLog` takes as atomic, one system call per step. `DuoQueue`
is the queue for the one phone.

`TaskStoreProofs`, `DaemonProofs`, `TeardownProofs`, `DaemonLoopProofs`, `DuoQueueProofs`,
`RowLogProofs`, `JsonlLockProofs` and `BatchPoolProofs` hold the theorems (those about
`Dependencies` are in `DaemonProofs`); the `MC*` modules the symmetry sets and tables of the
instances. A definition introduced as a plausible bug (`ClaimNextSameGeneration`, `BelievedSelfOnly`, ...)
is a mutated form of the definition after it; no specification uses one. `PROJECT.json` says
which property notices it when it takes the other's place.

## Runs

| run | instance | distinct states | shows |
|---|---|---|---|
| `store` | 1 task, 2 workers, 3 attempts, generations to 5 | 83,962 | rows consistent, leases exclusive, the abstract life implemented, for any callers |
| `daemon` | 1 task, 2 daemons, 2 attempts, generations to 5, no stall, fairness | 128,538 | one daemon per run, no rerun after done, done in the store is done on the dashboard; what is queued or running ends, or has its cancellation asked for, while some daemon stays up |
| `daemon_stall` | the same, any process may stall, generations to 4 | 487,037 | daemons and dashboard implement the store's specification; an accepted cancellation is never undone by re-queueing |
| `deps` | a parent and 2 children, one of which is cancelled, swept and retried; the children's daemon dies | 3,259,522 | settled for a reason, blocked only on a failure, handed out only after its children |
| `teardown` | 1 task, 2 daemons, 1 attempt, generations to 4, one failure | 295,082 | one terminal row per run, rows agree with the store, nothing left behind, nothing failed that a peer would have taken |
| `daemon_loop` | 2 items, a cancel, a refresh and a drain, 1 tick poll, 2 timers, fairness | 447,816 | no wake or stop lost at the park, cancels hit their target, no claim after a stop; queued items are claimed, a stop ends the loop, commands are answered |
| `batch` | 3 items, 3 lanes, every mode, one throwing append | 31,707 | one outcome per item, survivors finish the queue, no browser left open |
| `row_log` | 2 writers, 2 runs, 2 rows, 3 generations | 804,819 | acknowledged rows survive unless a signal handler exposed them, an interrupted compaction can be resumed unless rows strayed, history and projection catch up with the file |
| `jsonl_lock` | 3 processes, 2 of which may die, fairness, deadlock checked | 15,478 | exclusive while no holder dies or is slow; never stuck behind a dead one |
| `duo` | 3 processes, 3 requests, prompt 1, stale 2, wait 3 ticks, fairness | 210,082 | one prompt at a time, in order, nobody waits for ever |
| `concurrent_attempts`, `teardown_signal` | as `daemon`, `teardown` | | one disagreement each, below |

`MCDependenciesTwo.cfg` is a further instance that passes (2,319,967 states): the parent is
the one cancelled, swept and retried, the two children interchangeable.

The type invariant of each module (`StoreTypeOK`, `DaemonTypeOK`, `DepTypeOK`, `TdTypeOK`,
`LoopTypeOK`, `BatchTypeOK`, `RowLogTypeOK`, `LockTypeOK`, `DuoTypeOK`), and `OwnerIffActive`
and `ClaimedIsFenced` of the store, hold on the same instances and are proved. No run lists them.

Bounds. `MaxAttempt` bounds retries, `MaxGen` claim generations, `Operated` the tasks an
operator acts on, `Mortal` the daemons or processes that may crash, `MaxRow`, `MaxRequests`,
`MaxTimers` the events of a log or the timers at once. Rows of different tasks never
constrain one another in the store (every conjunct of the proved invariant but one speaks of
one task), so one task is enough for `Daemon` and `Teardown`; two workers are the smallest
number with a peer; two attempts the smallest with a retry beside a late first attempt; three
generations the smallest in which a task is claimed, recovered and claimed again, and 4 or 5
leave room for a retry too. Two rows and three generations of a file let a compaction die,
be resumed and be followed by a second one, and let a signal handler's row meet the torn tail or
the locked append of another; three lanes let one die while one works and one
is through; three requests let a waiter see the head before its own turn resolved by another
and a new one behind it. Where a bound is reached the action is disabled, so most runs do not
check deadlock: the system really stops when everything is done and nobody asks for more.
`jsonl_lock`, whose processes start over for ever, does check it. In `deps` each workflow has
one daemon, so recovery by a peer is not exercised there (it is in `daemon`).

Fairness. `daemon`: weak fairness of each claim loop, each daemon's timers, the dashboard's
current request, and the clock for a dead worker's lease. A live daemon's loop and intervals
keep running, a handler ends (its Playwright steps have timeouts), and the clock moves.
Nothing is assumed of operators, of crashes, or of a daemon ever being started: `WorkEnds`
assumes only that from some point on some daemon is up, and excepts a task with an unread
cancel command, which holds recovery off. `daemon_loop`: weak fairness of the one thread, of
its timers and ticks, and strong fairness of a claim: the store does not throw on every try.
A run that nobody aborts owes no end. `jsonl_lock`: processes that live keep appending, take
their next system call, and files grow old. `duo`: weak fairness of the polls and of the
clock; only in a timely run does a prompt owe an end.

Assumptions of timing. In `Daemon`, when `MayStall` is FALSE, no live process outlasts its
lease, a human or a timer does not fit between a daemon's claim and its `markTaskRunning`
(`OperatorTime`), a handler outlasts a dashboard request (`HandlerTime`), and a daemon that
starts or idles sees exactly the daemons that are up. When it is TRUE none of these is
assumed: a recovering daemon may believe any subset of its peers alive, including only
itself. Dashboard requests that do not await exclude each other; while the sweep awaits its
probe, tasks may be enqueued and retried (`Free`), but a cancel in that time is left out (`Read`
needs the request slot). `TerminalRow` is the row of the task's current attempt, where the code
looks up its run (`queue.ts:400-412`): they differ only under a stall. A handler that throws a
`CancelledError` of its own, with nobody aborting it, is left out of `Unwind`. A crashed daemon never returns under the same instance id (ids are random). In
`Teardown` a launch (a browser and a Duo prompt) outlasts the sweep of a peer that did not
see it; a daemon that is launching may be missing from what a peer sees, which is how old
the registry's 2 s cache of who is alive can be. `Wedge` comes only while every other daemon
serves, and a signal only before the clean-up, although the listeners stay registered during it
(`shutdown.ts:642-646`). In `Dependencies` the scheduler finds a dependency pending when it reads
the child's row; the code lists the pending ones at the start of a tick (`scheduler.ts:99`).
`DaemonLoop` leaves out the 50 ms before a stop kills the browsers, `BatchPool` the batch without
items. In `DuoQueue`, `timely` says that no prompt outlasts the longest manual timeout and no poll is
late; properties that need it name it. The row and the settlement of one item, and of one
request, are taken as one step in `Daemon` (`Teardown` splits row and store write).

What holds only without stalls: with them a peer may recover a claim while its first owner
still runs, so that a run is executed at least once, not exactly once. That is the design
(leases fence the writes, not the handlers), so `OneDaemonPerRun`, `NoRerunAfterDone`,
`RunningIsFenced` and `DoneIsShown` are checked only in `daemon`, and `OneTerminalRow` of
`Teardown` excepts a stalled heartbeat: a worker reclaimed while it cleans up may write a
second row.

## What the models disagree with

Two runs keep a violated property, with a trace, against a sentence of the code:

- `concurrent_attempts`: a queued cancel that races the claim cancels a task in its daemon's
  hands; retry is then allowed and a second attempt runs beside the first.
- `teardown_signal`: a SIGTERM while an item is processed is taken by the tracker's listener,
  which writes a failed row and exits; the daemon's own clean-up, which its comment promises
  to run first, never does. The task stays `running` in SQLite and the queue is not swept.

Further statements are refuted by the modules; each has a configuration of its own:

| configuration | statement | why it fails |
|---|---|---|
| `MCDaemonDoneRow` | `CancelOverwritesDone`: the cancelled row overwrites a racing `done` row | the kernel already took the terminal-write token |
| `MCDaemonCancelEnds` | `CancelCompletes`: a requested cancellation is completed | recovery skips the row of a dead daemon, retry refuses it |
| `MCDependenciesRetried` | `RetriedChildUnblocks` | a parent blocked by a failed child stays blocked when the retried child is done |
| `MCDependenciesCancelled` | `CancelledChildNotFailed` | the scheduler settles the dependency on a cancelled child as failed |
| `MCDependenciesReleased` | `SettledParentReleased` | a dependency the scheduler settles for a dead daemon releases no parent |
| `MCTeardownDying` | `LeftToTheLiving`: work is left only to a daemon that will take it | a daemon that cleans up after a throw still answers `shuttingDown: false` (`http.ts:72-77`) |
| `MCTeardownCutShort` | `ThrownRequeueRecoverable`: what a thrown re-queue leaves is recovered by a peer | an item with a requested cancellation is not, and the rest of the clean-up was skipped (`shutdown.ts:336-340`) |
| `MCDaemonLoopWake` | `WakeNeverSleptOver` | the timer of an earlier park is not cleared and disarms a later one (`daemon.ts:274-279`, 1107-1111); a wake then is slept over for up to 30 s |
| `MCJsonlLockTwo` | `CriticalSection`: the lock excludes, always (`jsonl-lock.ts:47`) | stat, read and unlink are three calls: after a death two waiters may each remove "the dead owner's" file, the second one a living owner's |
| `MCRowLogSignal` | `EveryRowSurvives`: the tail is repaired, under the append lock, before every append (`jsonl-recovery.ts:28-30`), so that no row whose append has returned is lost | the signal handler's `appendFileSync` does neither (`tracked-workflow.ts:341-342`): behind a torn tail its row joins the fragment, between a compactor's read and rename it goes with the old file, and when the handler dies in the middle it tears the tail a locked append is about to write to |
| `MCDuoQueueHealthy` | `HealthyPromptKeepsTurn`: only a dead or hung prompt is timed out | the stale age counts from the request, the time in the queue included (`duo-queue.ts:85-86`) |

Seen in the models and stated by no property:

- `Daemon`: a cancel accepted between the check at `daemon.ts:686` and the fenced write loses
  to done or failed; the orphan sweep fails a task claimed after it was listed, if its
  claimer died before the probe; under a stall, `markTaskRunning` takes back a re-queued task
  under a generation its worker does not hold. An unread cancel command of an earlier attempt
  keeps recovery from a later one.
- `Dependencies`: a failure the scheduler settles first leaves the parent waiting instead of
  blocked.
- `Teardown`: a handler that ends well while a reassigning stop aborts it has its done row
  overwritten and is run again; the item in flight that the clean-up fails leaves its
  dependency to the scheduler (`shutdown.ts:373`).
- `RowLog`: a compaction that died between archive and replacement refuses for good once rows
  were appended; an original of which the compacted file is a prefix is taken for replaced; a
  rebuild between replacement and generation bump may skip rows until the compaction is
  resumed; a live apply that comes late, during a compaction that is not offline, files its
  event under the wrong generation; once a line is garbled, no compaction of the file gets past
  it (`compaction.ts:182`); a signal handler's row between another writer's stat and append makes
  that writer file its event at the offset of the handler's row.
- `BatchPool`: an item whose first row cannot be written kills its lane and is left without a
  terminal row and uncounted, although `batch-lifecycle.ts:336-337` says every item needs
  one; SIGTERM leaves all but one item in flight, and all queued ones, without a row; a throw
  while the caller's pending rows are emitted is before the lifecycle, so nothing is fanned out.
- `DuoQueue`: a live waiter that is already stale when it reaches the head can be timed out
  by another before its own next poll.

## Proofs

`TaskStoreProofs`, for any tasks, workers, `MaxAttempt` and `MaxGen` (assumption
`StoreAssumption`: `NoWorker` is no worker, the bounds are naturals). The invariants the
runs check are inductive only together, and with `RowsWellFormed` (a row that exists points
at one of its attempts), because a statement about `attempt[t][task[t].cur]` needs `cur` to
be an attempt. The conjunction is `StoreInv`. Every part of it but `OneClaimPerGeneration`
speaks of one task, so each operation is proved by `OneRowStep`: write one well-formed row
and one attempt, show the row's invariant. `ClaimNext` (which issues a claim) and
`RecoverOrphanedClaims` (which rewrites many rows) have proofs of their own.

- `StoreInvariance`: `StoreSpec => []StoreInv`; `StoreSafety` its readable parts.
- `ClaimsAreLeases`: no two claims of a task share a generation.
- `AtMostOneFenced`: of all claims ever issued for a task, at most one passes the fence.
- `NeverResurrected`: an ended task is changed only by returning it, unowned, to the queue.

- `AttemptsFollowTasks`: `AttemptLockstep`.
- `StoreImplementsLifecycle`: `StoreSpec => Lifecycle!LifecycleSpec`. Initial rows map to absent
  tasks, and under `StoreInv` every transaction is, for each task it touches, one step of the
  abstract life and for the others none. The invariant is needed because the mapping reads the
  phase off three columns which only agree under it.

`DaemonProofs`, for any tasks, daemons and bounds, with and without stalls (the additional
assumption is that `NoClaim` is no claim). The invariant `DaemonInv` adds to `StoreInv` what
each daemon holds: a claim issued to it, of which a row that carries its worker id and
generation is on the claim's attempt (`LeaseNamesAttempt`). It is needed because the terminal
write of `queue.ts` passes an attempt it has just read from the row, so that its fence is
worker and generation only. It is preserved because only a claim and `markTaskRunning` give a
row an owner, and both set the attempt with it (`TakeHands`, `StartHands`); every other store
operation keeps worker, generation and attempt together or clears the worker
(`DisownKeepsLeases`).

- `DaemonsImplementStore`: `DaemonSpec => StoreSpec`, so that what is proved of the store
  under any client holds of these clients; `DaemonsNeverResurrect` and
  `DaemonsImplementLifecycle` are two instances.
- `LeaseIsWholeFence`: the fence the code checks is equivalent to the one with the attempt.
- `CancellationsStand`: an accepted cancellation is never undone by handing the task out.
- `DaemonTypes`, `DaemonInvariance`: the type invariant and the inductive invariant.

What holds only when no process stalls (`~MayStall` is the hypothesis of each) rests on a
second invariant, `PromptInv`: a daemon with an item either still owns its row, under the
generation of its claim, or has lost the attempt for good (it ended, or the task is on a later
one); an owner is a daemon that holds the item or one that has exited; a lease runs out only
when its daemon has exited; and the terminal rows shown say `done` from the end of the handler
on and not before. With stalls it is false from its first part on: a lease of a live daemon
expires, the task is handed out again, and a late `markTaskRunning` of the first claim takes it
back. The step lemmas classify what a step does to one row (`RowMove`: it stays, is held, ends,
returns, is renewed, is taken) and to one hand, so that each part is proved per class instead
of per action.

- `RunsAreExclusive` (`OneDaemonPerRun`), `RunningCanEnd` (`RunningIsFenced`), `DoneIsVisible`
  (`DoneIsShown`), `NoRerun` (`NoRerunAfterDone`).

The last part of `DaemonProofs` is about `Dependencies`, for any tasks, children, daemons and
bounds; the theorems above use nothing of it. The scheduler ends a child without clearing its
owner, and `block_parent` rewrites the parent whatever its state, so that `StoreInv` is false
there and the proofs above do not carry over. The invariant is `ChildFits`, one statement per
child of how its row, the tracker, its dependency and whoever is about to write one of them
agree: the hands on it (`HandFits`, and `ApartOn`, that no two hold one attempt), a failure
nobody has settled yet (`FailedFits`), the scheduler between its read and its write
(`TickFits`), a request before and after its write (`PendingFits`, `MarkedFits`), the cancel
command. What makes it long is one race: the scheduler writes the dependency with no guard, so
the dependency of a child it has read as `done` must not be settled as failed meanwhile. Which
row it reads depends on everybody who may append one.

- `DependencyTypes`: `DepTypeOK`, with and without stalls.
- Without stalls (`~MayStall`): `DependencyInvariance`; `DependenciesSettledForAReason`
  (`SettledForAReason`); `DependencyParentWaits` (`ParentWaitsForChildren`) and
  `DependencyBlockedOnFailure` (`BlockedOnFailure`), from `ParentStep`, which says what any step
  may make of the parent's row, and `FailureStands`, that a failed dependency stays failed.

`TeardownProofs`, for any tasks, daemons and bounds. The invariant has three layers, each kept
by every step from those before it. `Desk` is about one process at a time: its claim is its
own, in which phases it has one and has taken the token; and what a process that decides on its
peers has seen of them, which includes everybody who serves, and what is on the list of a
sweep. `Hand` relates the item to store and tracker: the claim passes the fence until the task
is closed, the token is taken exactly when the row is there, and no two daemons hold one task.
`Kept`, before any failure, says who looks after each task: an owned one is in its owner's
hands, a queued one has a daemon that will claim it, sweep it, or is excused.

- `QueueIsLeftToPeers` (`PeersSpared`) and `TeardownTypeCorrect` from `Desk`; `OneRowPerRun`
  (`OneTerminalRow`) and `TrackerAgrees` (`RowsMatchStore`) from `Hand`; `StopsStrandNothing`
  (`NothingStranded`) from `Kept`.

`DaemonLoopProofs`, for any items, commands and overlapping ticks. The properties of the run
are inductive once it is added that the only command a poll waits for is a browser refresh
(`WaitsForBrowserOnly`): the answer a late poll writes is then never a cancel's.

- `LoopTypeCorrect`, `ParkMissesNothing`, `CancelsAreExact`, `StopEndsClaiming`.

`DuoQueueProofs`, for any processes, requests and waits. `OldestFirst` (requests are appended,
so an earlier one is at least as old) makes the head of the queue stale whenever a waiter is;
`RequestsFit` says that a process in the queue was timed out only when stale and that nothing
ahead of a prompt is open.

- `DuoTypeCorrect`, `OnePrompt`, `InOrder`, `TurnInTime`.

`RowLogProofs`, for any writers, runs, rows and generations. `LogInv` adds to the types that a
row about to be appended is nowhere yet, and four parts. `Locks` is the append lock: one holder,
writer or compactor; the file ends where the holder noted it unless its row is exposed; and every
garbled line is an exposed row. `Half` is what a compaction under way or half done has promised:
what it has read is how the file begins and holds every row that has a right to be there, the
journal's original is archived, its compacted form is the pending file and lacks only rows of
deleted runs, and the file is one, the other, or (when a writer appended meanwhile) an extension
of one. `RowsSurvive` follows the acknowledged rows of every writer: a signal handler's row that
meets a compactor between its read and its rename is exposed, and only those can be missing from
what it has read. `Synced` is the projection: rows before the checkpoint that parse have been
applied, and the history names rows where the file has them, the exposed ones excepted, as long
as compactor and writers kept apart. Two lemmas carry the compaction:
`WithoutKeeps`, that the file without the deleted runs is a file again in which nothing else is
missing (by least counterexample on its length, since the filter is defined by choice), and
`TestIsRight`, that the compactor's test for a replacement already done is right for every file
and journal that the invariant allows.

- `LogIsConsistent`, `RowLogTypeCorrect`; `AcknowledgedSurvive` (`RowsSurvive`),
  `ResumableUnlessStrayed` (`RefusesOnlyIfStrayed`), `HistoryNamesPlaces` (`EventsMatchFile`),
  `RebuildCatches` (`RebuildCatchesUp`).

`JsonlLockProofs`, for any set of processes. The invariant ties the file to the process that
is between creating and removing it, as long as nobody died holding it or was slow (`smooth`):
a waiter about to unlink then finds nothing it may remove.

- `LockInvariance`, `LockTypes`; `MutualExclusion` (`Excludes`) and `HolderKeeps`
  (`HolderKeepsFile`).

`BatchPoolProofs`, for any items and lanes and all three modes. The invariant says where every
item is: in the queue, in the hands of exactly one lane, over, or (one only) lost to the append
that threw; and in which phases lanes can be anywhere but through. The first part is what makes
the fan-out safe: it runs when no lane is at work, or ends the process.

- `BatchInvariance`; `NobodyLeftHangingHolds`, `OneOutcomePerItemHolds`,
  `SurvivorsDrainQueueHolds`, `BrowsersClosedHolds`.

Each inductive invariant was model-checked before it was proved, on the instance of the run
and, where two tasks or more rows could matter, on another: `PromptInv` on 1 task and 2 daemons
(128,538 states) and on 2 tasks and 2 daemons with generations to 2 (2,429,985), the layers of
`TeardownProofs` on the run's instance and `Kept` on 2 tasks, `LogInv` on the run's instance
(804,819) and on 1 writer, 3 rows and 2 generations (2,987,367), `ChildFits` on 2 tasks, 3
daemons, 2 attempts and generations to 4.

Only model-checked: all liveness, since fairness and ENABLED are beyond the prover. Not to be
expected: `Dependencies` does not implement `StoreSpec`, because `block_parent` and the
scheduler write task rows with no guard, which the store's own operations never do.

## Not modelled

Left out of the modelled parts: tasks whose source is not `daemon`; priorities and queue
order; `requestCancelParentAndChildren` and its `cancelling` state (no caller); the adopting
enqueue in `Daemon` (it is in `TaskStore`); dependency kinds and continuations of OCR anchors;
worker rows and browser processes (who is believed alive is a choice, which includes every
table); spawning and the choice of a daemon to wake; the columns, logs and step rows of the
tracker; what a session and a step do with a browser.

- Delegation (`src/core/delegate.ts`) polls the rows of its child runs and writes no state
  that other components read.
- OCR preview and approval is one operator reviewing at a time; the dependency rows it
  creates are the first steps of `Dependencies`.
- Worker control, supersede, delete and bump call the store operations of `TaskStore`; the
  manifests of a deletion are in `RowLog`. Control actions route to the operations above.
- SQLite is taken at its word: a `BEGIN IMMEDIATE` transaction is a step.
- A system call of the JSONL lock that fails for want of disk or rights is left out; browser
  logins are I/O, and meet only in the Duo queue.
- End-to-end gates exist for tests; drivers, services, workflow handlers, UI and domain
  helpers share no state with what is modelled.

What is worth doing next: the continuation of an approval, which would join `Dependencies`
and the shutdown's unsettled dependencies.
