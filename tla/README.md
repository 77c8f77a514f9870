# TLA+ verification of the OpenClaw super advisor engine

The engine (`src/engine/src/openclaw_super_advisor/`) is a Python program that
collects market data, turns it into signals and alerts, and lets a MAIN agent
dispatch work to specialist agents under human gates. It has no server: it is a
set of classes and command-line entries that **several processes use at once on
shared files** (SQLite databases, JSON checkpoints, NDJSON logs, Parquet). What
is hard about it is therefore not in any one function: it is what happens between
the read and the write of a file, after a crash, and on the second call.

This directory holds TLA+ modules that model those parts, TLC configurations
that check them on small instances, and TLAPS proofs. `PROJECT.json` lists
components, runs, hazards, findings and theorems, and maps every definition to
source lines.

## 1. Inventory

Paths are relative to the engine package.

| Component | State it keeps | Operations | Hard behaviour |
|---|---|---|---|
| Job queue, `scheduler/job_queue.py` | tables `jobs`, `dead_letters`; failure counters in memory | enqueue, lease_next, renew_lease, checkpoint, complete, fail, cancel, resume_in_progress, reset_circuit | several processes; time and rows read before the write lock; leases that expire; workers that crash; retry budget |
| MAIN runtime, `main_agent/runtime.py` | a JSON checkpoint per request, an audit log with a hash chain | execute, resume, recover, pause, stop | load–work–save on a copy; crash after a dispatch; re-execution after failure; one temporary file for all processes; operator commands while running (the code loses them) |
| Market data, `market_data/collector.py`, `quality.py`, `connection.py`, `cursors.py`, `storage/*` | cursors, latest rows, incidents, backfill state, heartbeats in SQLite; Parquet files | collect_once, backfill | time passes between questions to the broker; files are written before the transaction, through temporary files that writers share; a bar is collected while it forms; resume of a backfill, also of a range that ends in the future |
| Evidence archive, outcome ledger and backup, `persistence/__init__.py`, `storage/atomic.py` | NDJSON with hash chain, manifest, backup directories | append, verify, create/verify backup, restore drill | read-verify-append without a lock; one temporary name; manifest written afterwards, not atomically; files copied while they change |
| Agent memory and skill candidates, `persistence/__init__.py` | append-only memory, JSON file per candidate | append, create, transition, validate | ids counted from files, load–check–write |
| Experiments, `research/experiment.py`, `research_cycle.py` | JSON file per experiment | create, transition | allowed transitions, reviewer is not the proposer, concurrent reviewers |
| Signals and events, `signal_engine.py`, `events.py`, `event_consumer.py` | ids seen, in memory | evaluate, emit, consume | order of the gates, duplicates after a restart, expiry |
| Telegram publication, `telegram.py`, and its journal, `persistence/__init__.py` | dedup file with expiry times; keys in memory | format_market, send_alert, operator transport; dry_run | check-then-mark, marked before delivery, file emptied before it is written |
| Shutdown and the serve loop, `runtime/shutdown.py`, `cli.py` | shutdown event, lock, callbacks | register, trigger, signal handlers, wait | locks taken in a signal handler, callbacks registered late, racing triggers |
| FRED adapter, `market_data/fred_adapter.py` | cache, last known observations, circuit breaker | fetch_series, fetch_all | one breaker for all series, closing again, retries |
| Agent registry, snapshot, planner, router, `agent_registry.py`, `main_agent/*`, `cli.py` | definition files, generated registry, the snapshot a process loaded | build, validate, write, plan, route, manager query | files read one by one and twice while authors edit them; generated file emptied before it is filled; plans made under another snapshot |
| Heartbeat emitter, watchdog, features, MT5 binding, topology, skills, configuration, scanning, providers | none, a counter, or read-only definitions | – | pure functions, parsing, I/O |

How they interact: the collector's tables feed the signal engine; its events pass
the consumer's gates to the publisher and into the evidence archive; the queue
carries jobs to workers, which are processes outside the repository; MAIN's
runtime calls a dispatcher, also outside. All sharing is through files. No
component holds a lock across processes except SQLite's write lock, and no method
checks who else is at work.

What makes each component correct:

- *queue*: a lease excludes, a retry budget holds, a final state is final, keys
  are unique, dead letters are archived, every job ends;
- *MAIN runtime*: no recorded dispatch is repeated, crashes cost a bounded number
  of extra calls, a crash in a save leaves a checkpoint that can be read,
  the audit log is never behind the checkpoint; and operator commands are respected, which
  the code does not keep while an execution is under way;
- *market data*: no bar falls behind the cursor unstored, gaps are
  reported, a complete backfill is a true statement, calls return;
- *archive*: the chain verifies after any appends, an acknowledged record is in
  the file; *experiments and candidates*: every history is a path of the allowed
  graph with independent approval; *publication*: at most once in a cooldown, and
  not suppressed by a failed delivery;
- *registry*: a READY registry is one that the files held at one instant, complete,
  and tasks are routed under the contract they were planned under;
- *shutdown*: each callback once, the process ends; *FRED*: a silent source is asked
  a bounded number of times, a source that is back is used again.

## 2. Modules

| Module | Models |
|---|---|
| `JobQueue` | the queue: any process calls any method for any job at any time |
| `QueueWorkers` | extends `JobQueue` with clients and workers that follow the lease protocol |
| `JobLifecycle` | abstract specification of a job's life; `QueueWorkers` implements it |
| `QueueProofs` | TLAPS proofs about `JobQueue` and `QueueWorkers`, the refinement of `JobLifecycle` among them |
| `PlanOrder` | `_validate_and_order_plan`: the depth-first order of a plan |
| `MainRuntime` | `MainRuntimeManager` on one request, by several processes |
| `MainRuntimeProofs` | TLAPS proofs about `MainRuntime` |
| `MarketData` | `collect_once` and `backfill` over SQLite and Parquet |
| `EvidenceArchive` | the two hash-chained files, the archive's manifest, and a backup taken meanwhile |
| `EvidenceArchiveProofs` | TLAPS proofs about `EvidenceArchive` |
| `Publication` | from a signal through the consumer and the publisher's dedup file to the chat |
| `PublicationProofs` | TLAPS proofs about `Publication` |
| `ResearchLifecycle` | the stores of experiments and of skill candidates |
| `ResearchProofs` | TLAPS proofs about `ResearchLifecycle` |
| `AgentRegistry` | from the agents' definition files over the validated registry to a routed task |
| `AgentRegistryProofs` | TLAPS proofs about `AgentRegistry` |
| `Shutdown` | graceful shutdown with signal handlers, threads and the serve loop |
| `ShutdownProofs` | TLAPS proofs about `Shutdown` |
| `FredAdapter` | the FRED adapter: cache, retries, circuit breaker |
| `MarketProofs` | TLAPS proofs about the two modules of `market_data`, `MarketData` and `FredAdapter` |
| `MCJobQueue`, `MCQueueWorkers`, `MCRuntimePlans`, `MCMainRuntime`, `MCMarketData`, `MCEvidenceArchive`, `MCPublication`, `MCResearch`, `MCAgentRegistry`, `MCShutdown`, `MCFred` | constants and symmetry for TLC |

Definitions named "Faulty" in a comment are wrong variants of the definition that
follows them; no specification uses them. They are kept to show that each checked
property fails for a plausible mistake (`mutants` in `PROJECT.json`).

### JobQueue

`jobs[j]` is the row of a job (`ABSENT` without one), `dead_letters[j]` the number
of its rows there, `circuit[p]` the counters of a process, `clock` the wall clock.
`call[p]` holds what a method has read and not yet used. The granularity follows
sqlite3: a Python connection opens its transaction at the first write, so a method
that carries only its arguments into the transaction is one action (`Checkpoint`,
`Complete`, `Cancel`), and one that carries a time or a row is two (`EnqueueSelect`
/ `EnqueueInsert`, `LeaseNextNow` / `LeaseNextJob` / `LeaseNextNone` and the
`get` afterwards, `RenewLeaseNow` / `RenewLeaseUpdate`, `FailSelect` /
`FailDeadLetter` / `FailRequeue`, `ResumeNow` / `ResumeUpdate`). `DatabaseLocked` ends a
call that does not get the write lock, `Restart` empties a process's memory. Data
of a job are left out; a checkpoint is a number.

### QueueWorkers and JobLifecycle

The repository has no worker loop, so the loop is external: resume on startup,
poll, work with heartbeats and checkpoints, report. Each step on the database is an
action of `JobQueue`. `InTime` is the protocol's assumption (a worker renews or
reports before its lease ends); with a worker in `LateWorkers`, or with `CancelHeld`, it does not
hold and TLC refutes `LeaseExclusive` and the refinement (see the findings). `JobLifecycle` states the docstring's
transitions and "one owner at a time" without clock, calls or tables; the
refinement maps a row to its state and its owners to the workers that hold the
job or are being given it.

### MainRuntime and PlanOrder

`disk`, `tmp` and `audit` are the files, `proc[p]` is a process's place in a method
and its copy of the checkpoint. A step ends where a file or the dispatcher is
touched: recording a result is `ReadAudit`, then `RecordResult`/`RecordFailure`, then a save, and a save
is `OpenTmp` (write_text truncates), `FillTmp` and `Replace` or `ReplaceFails`. The temporary file has one name for all
processes. `handle[p]` is what has become of the file that a process has open: a rename makes the temporary file the checkpoint, and whoever is writing
it goes on writing the checkpoint; a process that fills it over another text may leave a mixture (`Torn`). `ReplaceFails` is a temporary file that is
gone, or, on Windows, open elsewhere. A checkpoint that cannot be read stops every method at its load. `Sorted` models that the checkpoint's dict comes
back from JSON in key order (`InKeyOrder`: each entry goes to the place its key has among the keys), which decides what `_detect_conflicts` compares.
A result is abstracted to the value of one evidence key. `Timeout` may happen
at any task that is not completed. `PlanOrder` writes the code's recursive `visit` as a
recursive function on the tasks of a plan and the states of the search (order so far, tasks being visited, cycle met). What it returns is proved
for plans of any size, and `MCMainRuntime` assumes `MCOrderSound`, which TLC evaluates for every plan of at most three tasks with at most two
dependencies each: a plan with a cycle is refused, any other has its dependencies first and each task once. Whether the agents of the tasks are
available is left out of the checks before the ordering. `MCRuntimePlans` has the plans that both runs use.

### MarketData

One symbol, one timeframe. A bar is named by its opening time; what two readings
of a bar can differ in are the number of ticks in it and whether the broker revised
it. The lists of bars that the code passes on are in the order of their opening times, each bar once, so a set stands for a
list: `LastBar` is its last element, `Neighbours` its pairs that follow one another, which `detect_missing_bars` goes through. `files` are Parquet files with the name's real discriminating power (`FileName`); `temps` are the temporary files of `atomic_write`, each under the
name of its file, so that all writers of a name share it, and `handle[p]` is what has become of the one a process has open. Writing a
file is `OpenTemp`, `FillTemp`, `ValidateTemp` (the schema is read back by name) and `ReplaceFile`, a date after the other; `LeaveFile` is an exception at any
of these steps, with the removal of the temporary file; a crash leaves what was written. A file without bars is one that cannot be read. `tangled` is a
history: the names that two processes were writing at once.
`collect_once` is `CollectOnce` (observed_now), `ResolveSymbols` or `Unresolved`, `LoadTicks`, `LoadLatestTick`,
`ReadBarCursor`, `LoadBars`, `WriteTicks`, the files of bars, `CommitSymbol` (the
transaction), `RecordHeartbeat`; `backfill` is `Backfill`, `ReadBackfillState`, and per chunk
`LoadChunk`, the files of bars, `CommitBars`, `SaveChunk`, with `BackfillRaises` and `SaveFailure` for
the except branch. The range of a backfill may end in the future, as in the code; the history value `asked` of its row is when it was first called. The writes inside a transaction are operators named after the methods of
`SQLiteStateStore`. `Retry` is `BoundedRetryRunner`. The cursor of bars carries, as a history value, the
start of the first collection it goes back to: coverage is claimed from there on.

### EvidenceArchive

`file` and `tmp` hold the records of `evidence.ndjson` and `ledger.ndjson` and of their
temporary files. `append` reads the file three times and the model lets other
processes in between: `ArchiveAppend`/`LedgerAppend` (read, verify, take the head of
the chain), `ReadExisting` (`_writer` reads again), `WriteTemp`, `Replace` (or `ReplaceMissing`, when
another process has taken the shared temporary file), `ManifestRead`/`ManifestRaises`,
`ManifestOpen`, `ManifestWrite`. `WriteRaises` and `Crash` may happen at their places in it.
`BackupStart`, `BackupCopy`, `BackupManifest`, `BackupRaises` are `BackupManager.create`; of what it copies only
the two chains are kept, because nothing reads the manifest or temporary files of a
backup. A record is its item and the hash before it. `record_hash` fingerprints the
item alone, so the item stands for it (no collisions are assumed).

The code has no lock, and two appends to one file that overlap can lose a record or
break the chain. The history variable `overlapped` says that this has happened to a
file, and the guarantees are stated for files it has not happened to: they say what
crashes, errors, retries and concurrent backups cannot do. They say nothing about
concurrent appenders, for which the code makes no provision.

### Publication

A process is a session. `EvaluateSignal` is `evaluate_signal` (gates, freshness, thresholds,
expiry) with `build_signal_event`; `OtherEvent` stands for events from elsewhere, among
them ones whose integrity or provenance fails. `Consume` applies the rules of
`consume_event` in their order with the session's `seen_event_ids`, which a crash
empties. `Validate`, `NotSeen`/`Duplicate`/`Unreadable`, `TooLong`, `MarkLoad`, `MarkOpen`, `MarkWrite` are
`format_market`; each reads the clock by itself as the code does. `Send` and
`SendRaises` are `send_alert`: the post may fail, or succeed with its reply lost. What the
caller does then (`Retry`, `GiveUp`) is external. A mark is the end of a key's cooldown,
and the file is unreadable between `MarkOpen` and `MarkWrite`, for ever if the session dies
there. Here too `overlapped` records that two sessions were between `seen` and `mark` at
once, which the file does not prevent.

### ResearchLifecycle

`ExperimentStore` and `SkillCandidateStore` share their shape: load, check, write with
`write_text`, which empties the file first; no lock. A behaviour follows one of the two. A
call is the decision (`CreateExperiment`, `CreateCandidate`, `Transition` with the checks in the code's
order), then the emptying (`Open`) and the filling (`Fill`) of the file; a crash or a write error (`Abandon`) may come at each. A transition is checked against the
file as it was loaded. An experiment starts new, or brought along its course by earlier
calls, so that the gates are within the bound on calls. `overlapped` tells the files that two
calls were in at once: `AcknowledgedKept` and `CandidateIdsUnique` hold what they say of the others, `HistoryIsPath` and
`ReleaseGated` of all. `cut` tells the files that a call emptied and did not fill. Such a file is torn, and with it goes everything that was
acknowledged (see the findings): `AcknowledgedKept` says that this is the only way to lose it, that is, that the file has the last acknowledged record unless a call is between
emptying and filling it or failed there, and that each acknowledged transition goes on from the one before.

### AgentRegistry

A process is one command. It reads the `AGENT.md` files one by one, for the rendered
configuration and once more for the registry it validates (`ReadDefinition`, `ParseError`), validates
(`RegistryIssues`, `PayloadIssues`, `GeneratedIssues`, `ConfigIssues` stand for the groups of checks), and holds a snapshot
with the status it got; `WriteOpen` and `WriteFill` are `validate-agent-registry --write`. `PlanRequest` is
`MainPlanner`, `RoutePlan` the router under the snapshot of the process that routes, which may be another
one. Only plans that some manager's planner made are routed; one put together by other means would pass the router with any contract, since it compares the registry's hash only. A definition keeps the fields that the checks compare; each file goes through a given
sequence of texts (`Edit`), and the generated file may be edited by hand. `ReadyCoherent` says that what
a READY process runs under was in the files at one instant. It rests on the histories: a file
that goes to another text and back between two readings is not told apart by hashes.

### Shutdown

`stack[t]` is what a thread is inside of, innermost first; a signal handler is a call that the
system pushes on the main thread's stack at any step once the handlers are installed. `lock` and
`cond` own `_SHUTDOWN_LOCK` and the lock of `threading.Event`, neither of them reentrant. `_do_shutdown` is
`ShutLock`, `ShutCheck`, `SetEnter`, `SetFlag`, `ShutUnlock`, `CopyCallbacks`, `RunCallback`, `ShutReturn`; `wait_for_shutdown` is `WaitEnter`,
`WaitCheck`, `WaitWake`, `WaitReacquire`, `WaitLeave`. Workers are external: they register, trigger and poll. They
are taken not to be daemons, else the process could end in the middle of their callbacks. The code can deadlock
when a signal interrupts the main thread inside one of the locks: `ShutdownCompletes` names that case as
the only exception (`Deadlocked /\ InterruptedHolder`), and TLC refutes it without the exception. A callback
registered after the list was copied is never called; the property speaks of those registered when the
event was set.

### FredAdapter

Time is kept as ages that stop growing where the code no longer tells them apart, so behaviours are
infinite and liveness is checked without a last instant. `FetchSeries` is the part up to the first request
(unknown key, no API key, cache, open breaker); then an attempt ends by `Answered`, `AnsweredOddly` (JSON that is
not an object), `AnsweredUnparsable`, `Retries` or `GivesUp`. The history variable `silent` has the ages of the latest
fetches that failed with no answer in between. Its specification is `FredSpec`, so that `MarketProofs` can extend this module and `MarketData`.

## 3. Runs

| Run | Configuration | Shows |
|---|---|---|
| `job_queue` | 2 processes, 2 jobs, 1 key, clock 0..2 | the queue's guarantees against arbitrary callers: the tables agree (`TableConsistent`: lease and expiry, keys unique under racing enqueues, dead letters archived, attempts charged), no live lease handed out |
| `queue_workers` | 2 workers, 1 client, 2 jobs, 1 crash | under the protocol: leases exclude, `attempt <= max_attempts + crashes`, checkpoints only go forward, refinement of `JobLifecycle`, every job ends |
| `main_runtime` | 1 method at a time, 1 crash, 1 retry, plans of up to 3 tasks | what repeated executions add up to: call budget, recorded dispatches not repeated; and a checkpoint that can be read, at whichever step of a save the process dies |
| `runtime_concurrent` | 2 processes inside methods at once, 1 crash, a chain of 2 tasks | with one temporary file for both, also when an empty or torn one is installed: what a readable checkpoint says is covered by the audit log and closed under dependencies, every step of a method brings it closer to its end, every method returns |
| `market_data` | 1 call at a time, 2 calls, 1 crash, 2 attempts, bars of 2 ticks, one bar a date, a backfill past the present | nothing lost behind the cursor, gaps reported, complete backfills true of what had closed, every step of a call brings it closer to its end, calls return |
| `market_concurrent` | 2 processes, 2 calls, 1 crash, 1 revision, one date | coverage when collectors and backfills overlap and share temporary files, but for the bars of a file that both were writing at once |
| `evidence_archive` | 2 processes, 2 items, 3 appends, 2 faults, a backup | chains verify, acknowledged records stay, a whole manifest describes a prefix, a verified backup holds what was acknowledged before it, files only grow |
| `publication` | 2 sessions, 1 setup, 2 events, clock 0..2, 1 fault | no alert twice in a cooldown, nothing stale or unsound posted, no alert suppressed without an earlier one of its own key |
| `research` | 2 processes, 2 agents, 1 experiment, 2 candidates, 5 calls, 1 fault | a file that loads tells a path of the lifecycle, a release went through its gates with no approval by the proposer named in them, a transition goes on from what the last call returned, and that is in the file or was lost by a call that failed in the middle of its write, candidate ids are unique (the last two as far as calls on a file did not overlap) |
| `agent_registry` | 2 processes, 3 commands, 1 plan, 1 edit by hand, texts that break each kind of rule | a READY registry is coherent and complete; routing (`RoutingSound`) keeps to the contract of the plan, and nobody reviews itself |
| `shutdown` | 2 workers, 2 callbacks of which one raises, 2 signals, 2 triggers | callbacks once and in reverse order; no deadlock but that of a handler on top of a lock's holder; a shutdown that was asked for ends |
| `fred` | 2 series, 2 attempts, threshold 2, reset 1, TTL 2 (the code's TTL is longer than its reset too) | a silent source is asked at a bounded rate; a source that is back is used again |

All runs pass. Where the code disagrees with what the repository says of it, `findings` says how; the properties of
the passing runs are stated for what the code does keep. In short:

- queue: a worker that reports late shares a job with its successor, and a job cancelled while it is held comes back;
- MAIN runtime: a task runs although one it depends on failed;
- market data: ticks between observed_now and the latest tick fall behind the cursor;
- queue: the reset of expired leases is not bounded by `max_attempts`;
- MAIN runtime: an execution that is under way overwrites a stop or a pause, and two savers can install a checkpoint
  that cannot be read (TLC refutes `CheckpointReadable` in the configuration of `runtime_concurrent`);
- market data: two writers of one file name can install an empty file, whose bars the cursor then passes (TLC refutes
  `CursorArchived` in the configuration of `market_concurrent`);
  a backfill whose range ends in the future is complete before its last bars exist, and never fetches them; gaps across chunks of a backfill, forming bars stored as closed, a
  file replaced by an older reading at a date boundary;
- archive: `record_hash` does not cover `previous_hash`;
- publication: `SYSTEM_RECOVERED` never passes the envelope, and the mark is written
  before the post, so that a failed post suppresses its own retry;
- research: a released experiment cannot be rolled back, approval by the proposer is only looked for in
  two transitions' reviewer argument, a rejection can be lost to an overlapping write, and a crash or full disk in the middle of
  a write loses the whole experiment;
- registry: nothing keeps a second MAIN from running;
- shutdown: a second signal can deadlock the process; watchdog: nothing is restarted;
- FRED: one breaker for all series, and an answer that is not an object never opens it.

**Bounds.** Two processes suffice for the races here, each of which is between one
read and one write; two jobs let one be leased while the other is reset; a clock of
0..2 with leases of 1 has before, at and after the expiry. Plans of three tasks
have chains, forks and a conflict among results. Three bars of two ticks have
one that is complete, one that is missing and one that forms; two calls allow
a collection that fails or dies and one that goes on from its cursor, and a backfill that fails and one that resumes and completes it; two that overlap, and a crash, are the races
over a file. For any number of calls the safety properties are theorems. Three appends have a first record, one whose predecessor
counts, and one more in progress while a backup copies; two faults allow a crash that
leaves a temporary file and an error in the append that finds it. A clock of 0..2 with
a cooldown of 2, a window of 2 and an invalidation expiry of 1 has the instants before and
at each end; two events are one delivered twice to two sessions, or a confirmation and
an invalidation of one setup. `MaxClock`, `MaxDeadLetters`, `MaxCrashes`, `MaxAudit`, `MaxCalls`, `Horizon`,
`MaxRevisions`, `LastSubmit`, `MaxAppends`, `MaxFaults`, `MaxEvents`, `MaxCandidates`, `MaxStarts`, `MaxPlans`, `MaxHandEdits`, `MaxSignals` and
`MaxTriggers` are bounds of the model, in guards. Two signals are a handler that interrupts a handler; a threshold of 2 has a failure that
does not open the breaker; five calls reach past both gates from each point of an experiment's course. `FredAdapter` needs no bound on time. Deadlock is not
checked: at the bounds the models stop.

**Fairness.** `QueueWorkers` assumes that a worker goes on with its loop and does not
lose the race for the database lock for ever (strong fairness of the writing
steps: `busy_timeout` and the caller's retry), that it ends what it works on, and
that time passes; it does not assume that anyone heartbeats, saves, cancels or
crashes. `MainRuntime` and `MarketData` assume that a process inside a method goes on with
it: these are sequential Python methods whose only waits are bounded sleeps. Nothing is assumed of callers.
`Shutdown` assumes that the system schedules every thread and that a lock which is free time and again is obtained (the
serve loop sleeps with the event's lock released); callbacks return; signals and triggers need not come. `FredAdapter`
assumes that time passes, a fetch that began goes on, and that its caller keeps calling `fetch_all`, which is the condition under
which `SourceComesBack` says anything. The other modules state safety only and assume no fairness.

## 4. Proofs

`QueueProofs` proves of `JobQueue`, for **every** number of processes, jobs, keys, any lease length and any
threshold (from `ConstantAssumption` only):

| Theorem | Statement |
|---|---|
| `QueueInvariant` | `Spec => []IndInv` |
| `QueueTypeOK`, `QueueTableConsistent` | type correctness and the invariant of run `job_queue`: exactly the leased jobs have an expiry, keys are unique, dead letters are archived, every lease was charged to the attempts |
| `QueueLiveLeaseNotHandedOut` | its action property |

The invariants are not inductive by themselves: a method acts on what it read in an
earlier step. `CallsSound` adds what remains true of it (a remembered time is not in the
future; the job that `fail` is about to touch has a row). `IndInv` is the
conjunction of `TypeOK`, `CallsSound` and the parts of `TableConsistent`. The argument has two layers:
`StepShape` shows once, action by action, that every step inserts a row, or leaves each
row as it was or updates it in one of a few ways (`TableStep`, `RowUpdated`: lease, renew, drop a lease, change data), and the lemma of each invariant
reasons about these shapes instead of about all actions. Facts about the row operators
(`WithoutLeaseFacts`, `LeasedFacts`, ...) are lemmas of their own.

`QueueProofs` also proves of `QueueWorkers`, for **every** number of workers, clients, jobs and crashes:

| Theorem | Statement |
|---|---|
| `WorkersInvariant` | `WorkersSpec => []WorkersInv` |
| `WorkersLeaseExclusive`, `WorkersRetryBudget` | the invariants of run `queue_workers` |
| `WorkersCheckpointForward` | its action property |
| `WorkersImplementLifecycle` | `WorkersSpec` implements `JobLifecycle`, under the refinement mapping |

They assume `LateWorkers = {}`, the protocol's condition: a worker renews or reports before its lease ends. With a
late worker they are false, and the code cannot prevent one (see the findings). The refinement also assumes
`~CancelHeld`: a job that is cancelled while a worker holds it comes back when the worker reports. `WorkersInv` builds on the
queue's `IndInv` and says what a lease means beyond the table. `OneOwner` and `OwnedLive`: a job has at most one worker, under a lease
that covers the present. `HeldCurrent`: what a worker knows of its job is what the row says. `Protocol`: which
method a worker is in, given what it holds, and that no call outlasts the lease it asks for. `AttemptLeft` makes the retry budget
inductive: a job that can be leased has an attempt left, and `fail` about to requeue one leaves one. `Budget(j)` is
`max_attempts`, but 1 for a job enqueued with `max_attempts = 0`: `lease_next` does not read it.

`EvidenceArchiveProofs` proves for **every** set of processes and items and every number of appends
and faults (from `ArchiveAssumption` only):

| Theorem | Statement |
|---|---|
| `ArchiveInvariant` | `Spec => []IndInv` |
| `ArchiveTypeOK`, `ArchiveChainIntact`, `ArchiveAckedPresent`, `ArchiveManifestPrefix`, `ArchiveBackupSound` | type correctness and the invariants of run `evidence_archive` |
| `ArchiveAppendOnly` | its action property |

None of them is inductive: a chain stays intact because of what the process that is about to
replace the file has in memory. `OneCall` says that without overlap at most one process is in
an append to a file; `CallsSound` says what that process's copy is worth at each place (the head it
took is still the head, the text it will write is the file and one line, the temporary
file has that text, the count and head it computed are still the file's);
`StoredInArchive` says that only archive appends reach the manifest; `BackupInv` says the
same of a half-made backup's copies as `BackupSound` of a finished one. `FileStep` then shows, once, that
every step leaves a file that has not been overlapped as it was or appends the line of the
one call to it, and chain, acknowledgements, manifest and backup follow from that
and from what `Append` preserves (`VerifiesAppend`, `LastOfAppend`, `HasAckedAppend`).

`ResearchProofs` proves for **every** set of processes, agents and experiments and every bound (from
`ResearchAssumption` only):

| Theorem | Statement |
|---|---|
| `ResearchInvariant` | `Spec => []IndInv` |
| `ResearchTypeOK`, `ResearchHistoryIsPath`, `ResearchReleaseGated`, `ResearchCandidateIdsUnique` | type correctness and the invariants of run `research` |
| `ResearchAcknowledgedKept` | its action property |

What a file says was decided by a call that loaded an earlier one, so the invariant speaks of the records in the
calls: each is `Sound` (a path, not approved by its proposer) when it is decided and stays so. `OneCall` and `CallsSound` add
that without overlap the record in a call goes on from what was last returned, which `Coupled` ties to the file; `TornKnown` that a torn file has a call in the middle of its write or is `cut`; `Numbered` says
that the candidates with a file, torn ones included, are 1..k, so that counting files gives the first free
id; `Fresh` that an id about to be given out has not been; `StoreKept` that a behaviour touches the files of its store only.
`BeginStep` proves once what the three kinds of calls share. `ReleaseGated` follows from the path alone: each state of the release has one way in (`OnlyWay`), so the step
before is known, at most three times over (`StepsInOrder`).

`MarketProofs` proves of `MarketData`, for **every** number of processes, calls, retries and crashes, any bars, weekends, ranges
and lookback (from `MarketAssumption`):

| Theorem | Statement | Hypothesis |
|---|---|---|
| `MarketInvariant` | `Spec => []MarketInv` | |
| `MarketGapsReported` | invariant of run `market_data` | |
| `MarketCursorCovered` | invariant of run `market_concurrent` | `Exclusive \/ OneDate` |
| `MarketCursorArchived` | invariant of run `market_data` | `Exclusive` |
| `MarketBackfillComplete` | invariant of run `market_data` | `Exclusive` |
| `MarketCallsRunOut` | action property of run `market_data` | |

`Exclusive` says that a call starts while no other is under way, `OneDate` that all bars are of one date. Without either
`CursorCovered` is false: a file's name tells its date, its first and last bar and their number, so that at a date boundary a slow collector can replace
a file by an older reading (see the findings); with overlapping calls a backfill that is complete can lose its last bar in
the same way. `MCCovering` evaluates the hypothesis in both runs. `CursorCovered` excepts the bars of a file that two processes were writing at once (`tangled`): they share its
temporary file, and the code can lose those bars and no others. One call at a time tangles none, which is `CursorArchived`. In `market_concurrent` with two bars a date, which `MCCovering` refuses, TLC refutes `CursorCovered`; with `BackfillComplete` in place of
`CursorCovered` it refutes that.

The properties speak of the row and the files; why they hold lies in the calls that are about to write them. `MarketInv` says of every call
(`CallOK`): what it holds is all there is from its start on (`BatchOK`: no bar before its last one is missing or
unfinished), what it has written stays (`WrittenKept`), everything behind its start is reported and stored (`BehindOK`), and a backfill has
stored those bars before its chunk that had closed when it was first called (`Done`). `RowOK` and `EntryOK` say the same of the cursor and the backfill rows. A bar is
`Kept` if its file is tangled, or a file has it in its final form *and no call under way will replace that file by an older reading*: with overlapping calls, that is
so if a later bar follows it in the file. The reason is `ReplacedBars`: a file is replaced only by one with the same first and last bar and the same number of
bars, and since the bars that are over are the same for all who look, the new file has the same bars, and all but the last are final in it. `Fresh` gives
the last one too when calls do not overlap. What a call renames into place is what it wrote, because `StoreOK` says that a name at which two processes are is
tangled, and that otherwise the temporary file is the work of the one call there, or gone (`OwnTemp`); a crash, an error in the middle of a file and a late write through a handle whose file was
renamed keep that. The broker adds ticks at any time, so all this is said of a moment `w` (`World`), and `Grew` and `Keeps` collect what passing time and each
step leave true; a bar that is over neither gains ticks nor disappears (`TickFacts`).

`CallsRunOut` is the safety half of `CallsReturn`: `StepsLeft` bounds what a call has still to do, and each of its steps lowers the bound, whatever other
calls do to the rows and files. It counts the attempts at the broker that are left, four steps for each date not yet written of the bars in hand (less those done of the present one), and the chunks up to the end of the range.
The window of a backfill must move: `WindowMoves` shows that every chunk ends later than it starts, also when the row says where to go on. `StepsInv` adds what makes the bound a
natural number: an attempt is counted within its limit, and a backfill and its row are at an instant not before the range.

`MarketProofs` also proves type correctness (`FredTypesCorrect`) and `FredFailuresSpaced` (`FredSpec => []FailuresSpaced`) for **every** list of series, threshold, reset time and number of
attempts (from `FredAssumption` only). The invariant relates the counter to the history: the failures it no longer counts are more than `Reset` ago (`OldOnesPast`). A
breaker that closes by time forgets them all at once, which is sound because none came after it opened (`OpenedLast`), and that rests on
`ClosedInCall`: no fetch is under way while it is open.

`PublicationProofs` proves for **every** set of sessions and setups and every threshold, cooldown and expiry time (from
`PublicationAssumption` only):

| Theorem | Statement |
|---|---|
| `PublicationInvariant` | `Spec => []PublicationInv` |
| `PublicationTypeOK`, `PublicationOncePerCooldown`, `PublicationPostedFresh` | type correctness and the invariants of run `publication` |
| `PublicationDuplicateJustified` | its action property |

`OncePerCooldown` speaks of messages that were posted; the reason for it is in the file and in the sessions. `MarksBacked`
holds always: neither the file nor what a session read from it says more than the approvals justify; `DuplicateJustified` follows from it.
As long as no two sessions overlapped between `seen` and `mark` (`overlapped`), `MarksExact` says that the file is exactly the
approvals, `MarkerFree` that the one session about to mark found its key free, `MessagesApart` that each message, posted or still in a session's hands, has
a cooldown of its own. `FreshInv` carries through the gates what the gates looked at.

`MainRuntimeProofs` proves for **every** set of processes, plans and values and any `max_retries`:

| Theorem | Statement | Hypothesis |
|---|---|---|
| `PlanOrdered` | of a valid plan, `Ordered` has each task once, behind all that it depends on | |
| `PlanRefused` | a well-formed plan is refused exactly when some of its tasks wait for one another | |
| `RuntimeInvariant` | `Spec => []RuntimeInv` | |
| `RuntimeTypeOK`, `RuntimeAuditCovers`, `RuntimeKeysClosed` | type correctness and the invariants of run `runtime_concurrent` | |
| `RuntimeStepsRunOut` | its action property | |
| `RuntimeAlone` | `Spec => [](RuntimeInv /\ AloneInv)` | `Exclusive` |
| `RuntimeDispatchBudget`, `RuntimeCheckpointReadable` | the invariants of run `main_runtime` | `Exclusive` |
| `RuntimeRecordedNotRedispatched` | its action property | `Exclusive` |

`visit` calls itself, so first it must be shown that a function with its equation exists. A call is ranked by how many tasks are not being visited (`Level`), which every call
it makes lowers; `VisitsFurther` builds the function one level up, and `EveryNat` carries that to all levels (it is induction through
a set of numbers, because the library's induction theorems take an operator). By the same rank, `CallOutcome` says what a call does: it returns what it found with tasks appended, itself among
them and each behind its dependencies (`Extended`), or it met a task being visited that `Leads` along dependencies back to itself, and then the tasks on
that way wait for one another. Conversely an order with every task behind its dependencies leaves no such tasks.

`Exclusive` says that a method starts while no other process is inside one. Without it the
three properties are false: two executions work on two copies of the checkpoint, and two savers on one temporary file. The first group needs no such condition, because `Good` is
said of every checkpoint that can be read, in the file, beside it or in memory, and whoever filled the file that was installed (a file is absent, empty, torn or `Good`): the log covers it and its dispatched tasks are closed under
dependencies, so whichever copy is saved last is good. `Behind` ties a copy to the place in the loop.
`AloneInv` adds what one method at a time gives: `Whole` (nobody writes to the checkpoint in its place, so that it can be read), `InStep` (the copy agrees with the file until it is saved, and the method is only in
its loop if neither says paused or stopped) and `Accounted` (the calls of a task that is not
recorded are being made, or their record being saved, or were lost to a crash). `PlacesFilled` shows by counting that sorting a dict by its keys loses no entry.
`StepsRunOut` is the safety half of `EveryExecutionReturns`: a method takes at most `max_retries + 7` steps a task and eight more, and no process can put another one back.

`AgentRegistryProofs` proves for **every** set of agents, definition files and texts of them, and any number of processes, commands, plans
and edits (from `RegistryAssumption`: ids, texts and reviewers are sequences, every file has a text):

| Theorem | Statement | Hypothesis |
|---|---|---|
| `RegistryInvariant` | `Spec => []RegistryInv` | |
| `RegistryReadyComplete`, `RegistryRoutingSound` | invariants of run `agent_registry` | |
| `RegistryReadyCoherent` | its other invariant | `TextsDistinct` |

The validation happens once, the properties are about what is used later, so `RegistryInv` carries its result along: a READY
process has a registry that is `Valid` (it passed every check that `RegistryIssues`, `PayloadIssues` and `ConfigIssues` make), and so has every plan; a
plan or a route is something that planner or router accepted (`PlansSound`, `RoutedSound`). `Readings` is about the two readings while files are edited: every
definition read was in its file, and some instant `m` separates what the first reading saw (texts up to `m`) from what the second saw (texts
from `m` on). If both saw the same, each file had, at `m`, just the text they saw (`Coherent`). That needs
`TextsDistinct`, no file goes back to a text it had before: an edit that is undone between the readings of two
other files would let both readings see the same mixture. `MCTextsDistinct` evaluates it for the histories of the run.
`EachAgentOnce` shows why nothing has to count the agents: the ids are known, distinct, and as many as there are directories.
`RouteFacts` is why `route_task` may leave out the checks of the planner: validation has made them for every definition.

`ShutdownProofs` proves for **every** set of threads and callbacks and any number of signals and triggers (from `ShutdownAssumption` only):

| Theorem | Statement |
|---|---|
| `ShutdownInvariant` | `Spec => []ShutdownInv` |
| `ShutdownTypeOK` | type correctness |
| `ShutdownCallbacksOnce`, `ShutdownNoOtherDeadlock` | the invariants of run `shutdown` |
| `ShutdownNoCallbackTwice` | no callback is called twice |
| `ShutdownDueCalled` | once no call of `_do_shutdown` is at work, what was registered when the event was set was called: the safety half of `ShutdownCompletes` |

The threads are stacks of calls, and a handler may sit on top of any of them, so the invariant speaks of the set `Calls` of all calls, each with its depth, which does
not change while calls are made above it. `StackChange` and `Moves` turn every step into a call added, removed or replaced. `LockInv` says that one call is
inside the lock, `DoingInv` that one is past the check of the event, and from then on no other. `CalledInv`: what was called, and what that call still has to call, go backwards through
the list (`BackThrough`), also while the list grows at its end. `RegisteredInv` is why going through it once calls nothing twice.
For the deadlock, `OwnInv` adds that a lock that is taken belongs to a thread with a call inside it. Threads can only wait for one another in a circle of at most two, because there are two locks. A holder that
waits has another call on top of the one that holds (`HolderBelow`), and only the main thread has more than one call: a handler interrupted it there.

Only model-checked: liveness (`EveryJobEnds`, `EveryExecutionReturns`, `CallsReturn`, `ShutdownCompletes`, `SourceComesBack`), which
is out of the prover's reach. Every other property of the runs is a theorem, and so are safety halves of three of these: `StepsRunOut`, `CallsRunOut`, and
of `ShutdownCompletes` `NoOtherDeadlock` and `ShutdownDueCalled`.

## 5. Plan

The components with state of their own are modelled. What is left, in this order:

1. Proofs: the type invariant of `MarketData`, which no theorem states yet, and safety halves of `EveryJobEnds` and `SourceComesBack`.
2. `MarketData`, the rest: freshness, duplicate and order incidents, the snapshot's reading of tables that a collector
   is changing.
3. `Publication`, the rest: the journal and its system events; composition with the archive.

## 6. Not modelled

Floating-point features, parsing of configuration and environment, the printing commands of the
CLI, scanning, providers, skills, the topology report, the research cycle's table of steps and the MT5 binding have
no state that changes, or are input and output. The heartbeat emitter and the watchdog keep a counter each that one
thread uses and nothing reads; nothing in the engine creates them. `AgentMemoryStore` appends lines that nothing reads
back. Dry runs write nothing.
Payloads, wording and hashes are abstracted: the chain of the MAIN runtime's audit log is
a chain of positions, that of the archive a chain of items.
