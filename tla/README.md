# Verification of the repository health analyzer

TLA+ specifications of `repo_health` (`src/src/repo_health`) and of the lab that
validates it (`src/scripts/validation`), the TLC configurations that check them
on small instances, and TLAPS proofs of the properties that matter most. Paths
below are relative to `src/src/repo_health` unless they begin with `src/`.
`PROJECT.json` maps every definition to the lines it models.

## 1. The system

A client posts an analysis of a repository. The orchestrator stores it, collects
facts from several sources, runs six analyzers on them, scores the outcomes and
commits one result that never changes again. A durable queue in the same SQLite
file lets worker processes run the analyzers; a scheduler repeats analyses. A
script runs the whole pipeline over thirteen repositories and decides whether
the engine may be released.

| Component | State it keeps | Operations | Talks to | What is hard |
|---|---|---|---|---|
| SQLite store (`persistence/sqlite.py`, `models.py`, `ports.py`) | tables `repositories`, `analyses`, `analyzer_tasks`; one connection and one RLock per object | `register_repository`, `create_analysis`, `commit_envelope`, `get_*`, `enqueue_task`, `claim_task`, `complete_task`, `fail_task`, `renew_task` | other processes through the file | SELECT and UPDATE are separate statements; only `claim_task` starts its transaction before it reads |
| Worker executor (`execution/worker.py`, `worker.py`) | the claim and the batch being executed | `run_once`, `execute_many`, `run_until_empty`, `renew` | store, local executor | leases that expire during execution, retries with a delay, tasks of other batches |
| Local executor (`execution/local.py`) | semaphore, result cache, threads | `execute`, `execute_many` | analyzers in threads | timeouts that leave threads behind, cancellation |
| Orchestrator (`orchestration/orchestrator.py`) | none | `start`, `analyze` | collection, executor, score engine, store | duplicates of a request, failures between two awaits |
| HTTP API (`api/app.py`) | background tasks | `POST /analyses`, `/repositories`, `/scheduler/analyses`, reads | orchestrator, store, scheduler | an accepted request outlives its answer |
| Interval scheduler (`infrastructure/scheduler.py`) | jobs, one lock and one task each, the stopping flag | `add_interval`, `trigger`, `status`, `shutdown` | the API's scheduled analyses | overlap, shutdown during a callback |
| Subprocess runner (`infrastructure/process.py`, `git.py`) | one child, its pipes and readers | `run` | git, vale, git-sizer | exit against timeout, pipes kept open by descendants, output caps |
| Collection (`collection/service.py`, `merge.py`, `fallback.py`, `cache.py`) | the facts merged so far | `collect` | collectors | one collector of several fails, merge order, exclusion by profile |
| SourceCraft client and collectors (`collection/sourcecraft.py`) | attempt, page token, rows | `get_json`, `get_json_pages`, `collect` of three resources | HTTP | retries, paging limits, states of a scan |
| Other collectors (`collection/documentation`, `code_health`, `git`) | none | `collect` | subprocess runner, SonarQube | failures that look like measurements |
| Analyzers (`analyzers`) | registry | `analyze` | local executor | blocks of facts that several sources fill |
| Score engine (`scoring/v1.py`) | none | `score` | orchestrator | missing categories, caps, thresholds |
| Validation lab (`src/scripts/validation`) | checkout directory, rows, `summary.json` | `run_matrix`, `validate_checkout`, `build_summary` | the whole pipeline, git | a run that died, a second analysis that differs, what opens the gate |
| Contracts (`contracts`) | none | validators, digests | everything | what a validator rejects decides which path a run takes |
| Runtime, configuration (`runtime.py`, `config.py`) | wiring | `build_production_runtime`, `close` | everything | which collectors exist; one worker id by default |
| Calibration, legacy replay, telemetry, redaction, verification scripts | none | pure functions, one-off commands | | see section 7 |

What makes each correct, in the order of importance: a committed result is final
and is the one callers were given; a task of the queue is finished by the worker
that claimed it last, within its attempts, and finished at all; an accepted
analysis does not get lost; a batch returns the outcomes the queue recorded;
collected facts are neither lost nor invented when a source fails, and a missing
category is never scored as zero; nothing of the owner's reaches a public
assessment; a scheduled job does not overlap itself and none outlives the
shutdown; every call of the executor is answered and no slot is lost; a
subprocess call ends and does not report cut output as whole; paging ends and
"complete" means everything; the release gate opens only for a corpus that was
read whole.

The hazards behind these, each at its line and with the properties that would
catch it, are listed under `hazards` in `PROJECT.json`.

## 2. Modules

    TaskLedger            what the queue promises about one task
      ^ refines
    TaskQueue             analyzer_tasks and run_once       MCTaskQueue          QueueProofs
      ^ extends
    WorkerBatch           execute_many over the queue       MCWorkerBatch        QueueProofs

    AnalysisLifecycle     analyses, orchestrator, API       MCAnalysisLifecycle  AnalysisLifecycleProofs
    IntervalScheduler     scheduler and lifespan            MCIntervalScheduler  IntervalSchedulerProofs
    ExecutorContract      what execute promises its callers
      ^ refines
    LocalExecutor         execute, execute_many             MCLocalExecutor      LocalExecutorProofs

    ProcessRunner         one subprocess call               MCProcessRunner      ProcessRunnerProofs
    SourceCraftClient     retries and paging                MCSourceCraftClient  SourceCraftClientProofs

    Collection            collectors and their merge
      ^ extends
    Assessment            analyzers, score, publication     MCAssessment         AssessmentProofs

    ValidationMatrix      the validation lab and its gate   MCValidationMatrix   ValidationMatrixProofs

### TaskQueue

The table `analyzer_tasks` and the runners that work on it. `row[t]` is the row
of task `t` (`NoRow` when it is absent), `run[r]` the local state of one
`run_once` slot, `clock` the time all processes read.

| Action | Code |
|---|---|
| `Enqueue` | `enqueue_task` of a new task; a known one changes nothing |
| `Claim`, `ReadBack`, `ClaimNothing` | `claim_task` to its commit; the SELECT that follows the commit and returns the claim; no row, or a row that cannot be decoded |
| `Check`, `Reject` | the SELECT and the guards of `complete_task` and `fail_task`, with the outcome that `LocalExecutor.execute` returned |
| `Complete`, `Retry` | their UPDATEs, `WHERE task_id = ?` |
| `Renew` | `renew_task`, one guarded UPDATE |
| `Crash`, `Cancel` | a process dies; `run_once` is cancelled at its await |
| `Tick` | time passes |

Who shares what is a constant: `Conn` gives each runner its connection (one per
process) and `WorkerId` the id it presents. Runners of one process share the
RLock, so `Free(c)` guards every entry into the store; runners of different
processes interleave between a SELECT and its UPDATE. The process-wide id is
`REPO_HEALTH_WORKER_ID`, by default the same everywhere, so nothing in the code
makes `WorkerId` injective. Assumptions on either are made where they are used
(`OneStore` and `OwnIds` in the proofs) and not in the module.

### TaskLedger

The abstract specification: a task is absent, waiting, active or settled;
attempts are numbered as they begin; only the latest hands the task back or
settles it. `complete_task` never sees an attempt number. That it still settles
only on behalf of the latest attempt follows from the ids of the workers, and
the refinement `ImplementsLedger` is the statement of that.

### WorkerBatch

`execute_many` above TaskQueue: a runner with a batch first enqueues its tasks
one by one (`Seek`, `Put`), then loops over `run_once` (`Round`, `Reread`,
`Report`, `Return`) and leaves (`Leave`). A runner without a batch (`Alone`) is
`worker --once` or `run_until_empty`. Calls of one process share its event loop,
so `LoopFree` lets one move from an await to the next. `Edition` stands for the
moment of collection, which is in the stored JSON of a task and not in its id.
The API builds its orchestrator with the local executor; `execute_many` is what
an orchestrator built with `mode="worker"` calls.

### AnalysisLifecycle

`repository[x]`, `analysis[q]` are the tables, `job[j]` one request being served.

| Action | Code |
|---|---|
| `Arrive` | a POST (`start`) or a direct `analyze`; `register_repository` looks the repository up |
| `Analyze` | the background task of an accepted POST, which creates the analysis again |
| `Register`, `Select`, `Insert` | the statements of `register_repository` and `create_analysis` |
| `Collected`, `CollectionFails`, `Executed` | the two awaits of `analyze` and the commit that follows them: score, build the envelope, read the row |
| `Write` | the UPDATE of `commit_envelope` |
| `Crash`, `Cancel` | a process dies; a job is cancelled at an await by a shutdown |

A result is the pair of facts digest and category class, which is what
`commit_envelope` compares; the score is a function of the categories. `Conflicts`
says when the store speaks against a request: another snapshot of its repository is
registered (`persistence/sqlite.py:99`), or its key is another request's. The
profile `OWNER_EXTENDED` is the set `Extended`, a subset of analyzers is `Partial`.
A collection may await between two collectors, which the collector port allows;
the production collectors are synchronous and hold the loop, which is one of
the behaviours the model has.

### IntervalScheduler

One event loop runs everything, so a step goes from one await to the next: the
sleep of a runner, the callback, the gather of `shutdown`. `runner[j]` is the
asyncio task of job `j`, `running[j]` who is inside of its callback.

| Action | Code |
|---|---|
| `AddInterval` | `add_interval` |
| `Fire` | the runner wakes: `trigger` runs the callback or skips the turn |
| `Trigger` | `trigger` called from outside |
| `Return`, `Raise` | the callback ends; `scheduled_run` logs exceptions (`Swallows`), another callback lets them end its runner |
| `Shutdown`, `Stopped` | `shutdown` up to its gather, and after it |
| `Cancelled`, `Absorb` | the CancelledError leaves the task, or an await inside of the callback swallows it |
| `Close` | the lifespan closes the runtime |

### LocalExecutor

`pc[c]` follows one call of `execute`, `thread[c]` the thread of its factory, which
`wait_for` can give up on and not stop. `queue` and `free` are the semaphore,
`cache` the results by digest.

| Action | Code |
|---|---|
| `ExecuteMany`, `Return`, `CancelMany` | the batch, its gather, the cancellation of its caller |
| `Acquire` | the semaphore is entered: cache hit, refusal (no factory, facts too large), or the factory starts |
| `StartThread`, `EndThread` | a thread of the event loop's pool |
| `Settle` | what the factory returned or raised becomes the outcome, a good one enters the cache |
| `Timeout`, `Cancel` | `wait_for` gives up; a CancelledError arrives in the queue or in the factory |

### ExecutorContract

The abstract specification: a call is made, waits, works and ends with one outcome.
It says nothing of threads, of the order of the semaphore or of the cache: a
factory begins only for a task that nobody has completed and while fewer than
`Slots` work, and "completed" is what the call's own factory answered or is
recalled from an earlier call of the same task. `ImplementsContract` maps `pc` and
`answer` of LocalExecutor to it; the cache has to know exactly the solved tasks,
and the semaphore exactly the free slots, for every step to be allowed.

### ProcessRunner

One call of `run` on POSIX: the caller, the reader of stdout (which stands for both
outputs), the writer of stdin, the child, and one descendant that inherits the
pipes, in the process group (`killpg` reaches it) or in a session of its own (it
does not). Bytes are counted, `Chunk` of them make one read.

| Action | Code |
|---|---|
| `StartFails`, `Start` | `Popen` and the threads |
| `Exited`, `Expired` | `wait` returns or times out |
| `Kill`, `CloseEarly`, `Reap` | `_terminate_process_tree`, the first round of closes, `wait(5)` and the second kill |
| `Join`, `CloseLate`, `Return` | the one-second joins; the last closes; the output |
| `Enter`, `Read`, `Eof`, `FindClosed`, `Leave` | `_bounded_reader`: into a read, out of it with a chunk, at the end of the output, the ValueError of a closed stream, the append |
| `InputTaken`, `InputRefused` | the writer of stdin |
| `Write`, `Fork`, `Detach`, `Exit`, `Die`, `DescendantEnds` | what processes may do |

`io[s]` is where the thread of a stream is. A buffered stream has a lock that a read
holds until it returns and that `close` takes too, so a close waits for a thread that
is `busy`; between two reads (`between`) the close comes first, the next read raises
and the loop ends with what was read so far (`FindClosed`).

### SourceCraftClient

`get_json_pages` over `get_json`, against a server that may answer anything. `Retry`
is a transient answer with attempts left, `Refuse` an answer without an object,
`Page` a page. `PageEnd` is the loop body of `get_json_pages` in its order: missing
array, row cap, malformed row, no next token, repeated or odd token, page cap.
`sent` and `left` are ghosts: what the server had, to compare with what was kept.

### Collection

The nine collectors that `runtime.py` wires, in the order of their source ids, and
the merge of what they return. `Deliver`, `Refuse` and `Raise` are a collector that
measured something, that returned facts without a measurement, and that raised
into the `except` of `collect`; `Leave` is an excluded or unconfigured one. The
operators `...Facts` list, per collector, every kind of facts it can return; those
of the SourceCraft collectors are functions of what the client answered
(`PageSets`, the three stages of AppSec), so the page sets of SourceCraftClient
("complete", "capped", "not_found", an exception) are their inputs. The body of
an AppSec stage may lack its array (`"odd"`) or be the first page of more, or hold rows
that are no objects (`"paged"`): `_payload_rows` and `_stage` read what is left. `silent`
and `truth` are ghosts: which sources have measured nothing, and where the active
findings are that the selected scan has at the server, all groups included: read,
unread in a group that was shown, or left out by a body (`Place`).

### Assessment

Extends Collection. `ExecuteMany` is every analyzer on its fact group, with any of
them lost to a failure of the executor or not requested; `CommitResult` the score
engine and `_commit_result`. The branches of the six `evaluate` methods that decide
status, number or none, coverage and confidence are operators (`Documentation`, ...,
`CodeHealth`); a formula behind a number is a member of `Scores`, except for
Security, whose penalty the caps are related to. `ScoreOf` is the engine in exact
integers: overall score as points over weight, K in units of 1/30000.

### ValidationMatrix

The script `run_validation_matrix.py` with `clone_repository` and `validate_checkout`
of `run_repository_validation.py`.

| Action | Code |
|---|---|
| `Start` | `run_matrix`, with a fresh checkout directory or that of the last run |
| `CloneRefused`, `CloneFails`, `CloneWorks` | `clone_repository`; a failure may leave a directory behind |
| `Analyse`, `Repeat` | `validate_checkout` and its second analysis, of which only the comparison is kept |
| `WriteResult`, `BuildSummary` | one row; `summary.json` with the nine hypotheses, the outliers and the gate |
| `Dies` | the process ends between any two of them |

`Readings` are what the pipeline says of a repository. The lab exists to catch a
wrong engine, so they include what a correct one never says.

### What the models abstract

* Payloads, digests, telemetry and error texts. `complete_task` of a task that
  was already recorded with an equal outcome returns it; outcomes carry their
  timestamps, so two executions never produce equal ones, and `by` says so.
* `fail_task(retry=False)` has no caller. `database is locked` errors and the
  write lock a failed statement leaves behind are not modelled (hazards without
  a property say where they would matter).
* Analysis ids a caller chooses: each request has its own.
* In TaskQueue time advances only while a row waits for it. At any other moment
  no guard of the code depends on the clock. The other modules have no clock: a
  timer is a step that may be taken as soon as its wait has begun.
* `AttemptLimit` stands for the 100 of `contracts/execution.py:54`.
* Text formats: the parsers of git, Vale, git-sizer, PyDriller and SonarQube output
  appear as whether they succeed and as the counts an analyzer looks at.

## 3. Runs

| Run | Instance | Shows |
|---|---|---|
| `queue` | 2 tasks, 2 runners of one process with their own ids, one heartbeat, lease 2, 2 attempts, clock to 5, one fault | unique attempts, no stale outcome, bounded retries, settled rows final, refinement of TaskLedger |
| `queue_live` | the same without heartbeats, lease 1, clock to 14, fair | every task is settled, unless a row was reclaimed past the attempt limit |
| `batches` | calls with tasks {1, 2} and {2} and a worker with heartbeats in one process, clock to 4, one fault, fair | what a batch scored is what the queue stores; a call fails only over a task that waits for a retry, is running elsewhere or that somebody else answered; every call ends |
| `lifecycle` | 2 jobs of one process, 3 requests: one OWNER_EXTENDED, one that names another snapshot of its repository, and one that uses that one's key; 2 digests, one fault, fair | results are final and are what callers got, requests are refused exactly for a conflict, no PUBLIC analysis stays queued without a job or a fault, each is finished, after a fault when it is asked for again |
| `scheduler` | 2 jobs, one of which lets exceptions out, 1 trigger from outside, fair | no overlap and no lock left behind, nothing starts while stopping, quiet after shutdown, jobs keep firing, shutdown returns |
| `executor` | 5 calls in 2 batches on 2 slots and 1 thread, two of one task, one too large, one without a factory, fair | slots are kept, the cache is sound, the executor implements its contract, every call is answered though threads hang |
| `process` | output up to 5 units against a cap of 3 read in chunks of 2, both kinds of descendants, a kill that may fail, fair | output in time is whole or marked, a timeout returns all that was read; `run` returns unless a descendant holds a pipe |
| `client` | 3 attempts, 4 pages of up to 2 rows, a cap of 5 rows, 3 tokens | "complete" means everything, work and waiting are bounded, no token is followed twice |
| `assessment` | both profiles, all providers or none, two faults, every reply within the bounds | evidence survives failures, every source is accounted for, a finished scan missed nothing it was shown, PUBLIC uses nothing of the owner's, numbers have evidence, a missing category is no zero and its loss promotes nothing, findings cap the score |
| `matrix` | 5 repositories with up to 2 readings, 2 runs, a crash anywhere | the gate is earned, drift closes it, invented numbers are bugs |
| `queue_two_processes`, `appsec_zero` | the smallest instances | two disagreements of section 5 |

Why the bounds are enough. Two runners are what it takes to take a task over, two
tasks what it takes to order claims; with lease 2 and a first backoff of 2 a
clock of 5 admits a claim, its expiry, the reclaim, a retry and its second
attempt in one behaviour, with a fault anywhere. In `queue_live` the clock never
reaches its bound: a row that is neither settled nor past the limit waits at most
2 + 1 seconds per attempt and every attempt is used up by then, so liveness is not
decided by the bound. In `batches` two calls share a task and a third runner
works on both, so a task of a call is claimed, retried or answered by somebody
else in every order; a clock of 4 reaches the second attempt. In `lifecycle` two
jobs make a duplicate request that collected something else at any await of the
first, and the three requests conflict over a snapshot, over a key and not at
all; a refusal for the key comes after the registration of the repository, which
then refuses the third. In `executor` the thread count is below the slots, so a hung
thread starves the next factory, and two calls share a cache key across batches.
In `process` the cap falls inside a chunk, on its boundary and above the output. In
`client` the row cap falls inside a page and at its end, the page cap after
repeated tokens. In `assessment` two faults make any two sources or analyzers fail
together; five rows are as many issues as a score wants, with their comments or
without, and `MaxGroups + 1` groups go beyond the cap; the scores are extremes, good in
some categories and bad in others, which is where a mean or a cap could go wrong. In `matrix` the corpus has a repository for each
hypothesis and `EnoughScores` is scaled to it; two runs are what it takes to find
checkouts of one that died.

Fairness. In `queue_live` a runner is called again, continues after each
statement, and an execution ends, because `LocalExecutor` bounds it by
`asyncio.wait_for`; time passes. In `lifecycle` and `batches` it is strong
fairness per job or call: asyncio takes ready coroutines in turn, so a coroutine
that is ready again and again gets the loop although others hold it in between.
`batches` needs no fairness of time, as `execute_many` never waits for the clock. In
`scheduler` timers fire, callbacks end and CancelledErrors are delivered; nobody has
to add a job, trigger or stop, and a callback that absorbs its cancellation
returns later. In `executor` the event loop hands out slots, fires the timers of
`wait_for` and delivers cancellations; no thread has to start or to end. In
`process` the caller and its threads go on and a process that got SIGKILL dies; no
process has to exit, to read or to write. Clients, heartbeats, crashes and
cancellations owe nothing. `client`, `assessment` and `matrix` check safety only;
that they end is a bound (`Bounded`) or plain sequence.

More configurations stand beside these, for a reader who wants to see an instance:

| Configuration | Module | Result |
|---|---|---|
| `TaskQueueDefaultId` | MCTaskQueue | `OutcomeOfLastClaim` violated: two runners with one id |
| `BatchRetry` | MCWorkerBatch | `NothingLeftBehind` violated: a batch gives up on a retry |
| `BatchForeign` | MCWorkerBatch | `OutcomesReachTheirBatch` violated: another call's outcome is dropped |
| `BatchesLive` | MCWorkerBatch | `BatchEnds` holds with two processes |
| `LifecycleExtended` | MCAnalysisLifecycle | `EveryProfileHasJob` violated: OWNER_EXTENDED raises while it is scored |
| `LifecycleJobs` | MCAnalysisLifecycle | the safety properties hold with three jobs, under symmetry |
| `ProcessEscape` | MCProcessRunner | `HardTimeout` violated: a descendant holds the pipe |
| `MatrixRepeat` | MCValidationMatrix | `SafeMeansRepeated` violated: the gate opens without a repeat |

`queue` and `lifecycle` look for deadlock. The other systems stop when their calls have
been answered, and their configurations say so.

## 4. Proofs

All theorems hold for any values of the constants that the modules assume of
them: any number of tasks, runners, requests, jobs, calls, repositories, any
limits. tlapm checks every leaf.

Every invariant and every safety action property that a passing run checks has a
theorem here.

| Run | Theorems |
|---|---|
| `queue` | `UniqueAttempts`, `SettledRowsAreFinal`, `NoStaleOutcome`, `RetriesAreBounded`, `QueueImplementsLedger` |
| `batches` | `ScoredIsStored`, `FailuresAreRetries` |
| `lifecycle` | `AnswersAreStored`, `ResultsAreFinal`, `RefusalsAreExact`, `QueuedIsWorkedOn` |
| `scheduler` | `JobsNeverOverlap`, `ShutdownIsQuiet`, `NothingStartsWhileStopping` |
| `executor` | `SlotsAreKept`, `CacheIsSound`, `ExecutorImplementsContract` |
| `process` | `OutputIsHonest`, `TimeoutKeepsTheRead` |
| `client` | `CompletePagesHaveEverything`, `CallsAreBounded`, `TokensAreFresh` |
| `assessment` | `EvidenceIsKept`, `SourcesAreAccounted`, `FinishedIsHonest`, `PublicStaysPublic`, `NumbersHaveEvidence`, `MissingIsNoZero`, `LossIsNoPromotion`, `FindingsAreCapped` |
| `matrix` | `GateIsEarned`, `DriftIsABug`, `InventionsAreBugs` |

**QueueProofs**, first TaskQueue. `TypeCorrect` needs no assumption on the deployment.
The others assume `OneStore` (all runners use one connection), and need it: with two
processes TLC refutes `AttemptsUnique`, because the SELECT that follows the commit of
a claim may read the attempt of the next one, and `RetryWithinBudget`, because
`fail_task` updates by `task_id` alone and hands back an attempt it never looked
at. The argument is in two layers. `StoreInv`: one runner at a time is inside the
store, so what it read when it entered stands until it writes; nobody executes a
task before its first claim; and every live execution carries an attempt at most
the row's, a claim being read back carries a strictly newer one. `AttemptsUnique`
and `TerminalIsFinal` follow (`UniqueAttempts`, `SettledRowsAreFinal`), whatever the
worker ids. `OwnerInv` adds, for runners with ids of their own (`OwnIds`), that the
runner whose id is on a running row executes its latest attempt:
`AttemptsUnique` alone does not say so, since a stale execution of the same runner
id would pass `Owns`. It gives `NoStaleOutcome`, `RetriesAreBounded` and
`QueueImplementsLedger`: initial states map to initial states and every step to a
step of TaskLedger or a stutter.

Then WorkerBatch. `BatchesUseTheQueue`: every behaviour of the batches is one of
TaskQueue, so the theorems above hold under `execute_many` too. `BatchTypeCorrect`,
and `ScoredIsStored`: with one store, what a batch kept is what the row holds, by
`TerminalIsFinal` after the step that kept it. `FailuresAreRetries` is about a call
while no other call has begun (`SoleCall`), whatever workers without a batch do. Its
invariant `SoleInv` (end of `WorkerBatch.tla`) says what such a call knows: the rows are
those it enqueued, a claim of its own is of a task that is still pending, and an
outcome it reported is not pending any more. The hard part is that the rounds
suffice. `Spent` is the set of attempts, as pairs of a task and a number up to
`MaxAttempts`, that need no round any more; every round adds one, and the last
attempt of a pending task is never among them, so by cardinality rounds are left
while a task is pending. The call gives up only when the queue has nothing to
claim, and then a pending task is one that waits for its retry, runs elsewhere or
was settled by a worker, and `Undisturbed` excludes the last.

**AnalysisLifecycleProofs.** The invariant `LifecycleInv`: one job at a time is
inside the store (`Serial`), what it read stands (`ReadStands`), and a job past
`create_analysis` has a row whose repository and key are its own (`RowsKept`).
All theorems but `TypeCorrect` assume one process (`OneProcess`), the deployment of
`src/docs/architecture.md`: several break `Serial`, and two that both find no row race
for the INSERT. `AnswersAreStored` and `ResultsAreFinal` follow. `QueuedIsWorkedOn` is
about the requests with the profile PUBLIC, whatever others are asked for beside them.
`RefusalsAreExact` goes both ways: registrations and rows stay, so a conflict that
refused a request is still there (`Refused`), and by `RowsKept` no two accepted
requests conflict, for any requests, snapshots and keys.

**IntervalSchedulerProofs.** `NoOverlap` alone is not inductive: who is inside of a
callback must be tied to the state of the runner's task. `LinkInv` does that: a
runner inside of a callback is calling or about to be cancelled, and before the
shutdown only registered jobs have one. With `QuietAfterShutdown` it gives
`JobsNeverOverlap`, `ShutdownIsQuiet` and `NothingStartsWhileStopping`, for any
number of callers and any callbacks.

**LocalExecutorProofs.** `SlotsAreKept` is a count: entering adds one call to
`Working` and takes one slot, and every way out (settled, timed out, cancelled in
the factory) removes exactly one, while a cancellation in the queue removes none.
`AnswerInv` says that a call has an answer exactly when it has ended; with it,
`CacheIsSound` and `OutcomesAreFinal`. `ExecutorImplementsContract` is the refinement
of ExecutorContract step by step: a cache hit is a recollection because the cache
holds exactly the tasks somebody completed (`CacheKnowsTheSolved`), a factory may
begin because a free slot means fewer calls at work than slots (`FreeMeansFewer`),
and threads, which outlive their calls, do nothing the contract can see.

**ProcessRunnerProofs.** `OutputInv` (end of `ProcessRunner.tla`) has four parts. A pipe is
held by living processes only (`HeldByTheLiving`). The reader marks its output as cut
exactly when it took more than the cap, and leaves only at the end of all that was
written or because its stream is closed (`ReaderIsExact`). `run` gets past its `wait`
with a dead child and an open stream, or past the first close with a closed one
(`Passed`). So past the joins the reader is done: with all of the output, when the
child ended in time and left nobody behind, and with what it had read at the close,
when the run timed out (`ReaderIsDone`). From these `OutputIsHonest` and
`TimeoutKeepsTheRead`, for any cap, any size of reads and any output.

**SourceCraftClientProofs.** `Account` relates what was kept to what was sent as long
as the call goes on, and the number of requests and the time waited to the pages
read and the attempt at hand; `Going` bounds both before the limits are reached.
`CompletePagesHaveEverything`, `CallsAreBounded`, `TokensAreFresh`.

**AssessmentProofs**, first the collection. The merge is right-biased, so
`EvidenceIsKept` rests on `KeysDisjoint`: no two of the nine collectors write the same
status or the same observation of a group. The invariant says which source each
key in the facts came from (`FactsOrigin`), that the sources still to come have left
nothing, that no evidence of a category is from a source in `silent`
(`SilentUnheard`) and that excluded sources have left nothing at all (`OwnedUnused`).
`SourcesAreAccounted` goes through what each collector can return: every source
that has been passed has a status and, unless it is available, a limitation
(`AccountInv`). `FinishedIsHonest` follows the findings from the server through the page of groups and
the stage that counts them into the facts (`FinishedScans`, `ScanInv`), for bodies of any
shape. That "finished zero" means no finding at the server (`ZeroMeansZero`) is false
of the code as soon as a body leaves something out, which the run `appsec_zero` shows.

Then the analyzers and the score. `NumbersHaveEvidence` goes through the evaluations
one by one: each needs a key that only its core source writes. `PublicStaysPublic`
follows from `OwnedUnused`. The rest rests on `RInv` (`ResultsAreRated`): results are in
range and a judged Security result holds the counts of the facts. The score is a
quotient of sums over the six categories, which `SumOf` writes as six terms, so that
the bounds of a mean are facts about each term: `MissingIsNoZero` puts the score
between the lowest and the highest category with a number, unless a finding capped
it, `LossIsNoPromotion` compares the coverage with and without a category, and
`FindingsAreCapped` follows the caps. All hold for any replies, any limits and any
number of faults.

**ValidationMatrixProofs.** `GateIsEarned`: a row's checkout is the run that made it
(the rows are honest), `clone_repository` refuses a directory that exists, and
`summary.json` counts as the last run's only if it is its own (`SummaryIsOwn`).
`DriftIsABug` follows one row from its second analysis into `actual_bugs` and the gate;
it needs the manifest without duplicates that `validate_manifest`
(`src/scripts/validation/run_repository_validation.py:315`) insists on
(`ManifestAssumption`). `InventionsAreBugs` holds for any readings: whatever a wrong
engine says.

Only model-checked is liveness: `EventuallySettled`, `BatchEnds`, `EventuallyFinished`,
`KeepsFiring`, `ShutdownReturns`, `EveryCallAnswered`, `ReturnsUnlessHeld`. They rest on
fairness, and so on ENABLED, which the provers do not reason about.

## 5. Where the code and its texts disagree

Two are recorded under `findings`, each with a run that ends in a counterexample.

* `queue_two_processes`: `complete_task` (`persistence/sqlite.py:301`) updates by `task_id` alone.
  With two processes (`src/docs/deployment.md` offers worker processes over one
  database) a completed row is overwritten, against `persistence/sqlite.py:30`.
* `appsec_zero`: `_payload_rows` (`collection/sourcecraft.py:1069`) returns no rows for an
  object without the expected array, so a malformed reply becomes "finished zero
  findings", against `src/docs/sourcecraft.md:32`.

The configurations of section 3 show more:

* `TaskQueueDefaultId`: the lease check (`persistence/sqlite.py:291`) takes the late
  outcome of a runner whose lease expired when two share a worker id, which the
  default configuration gives, against `persistence/sqlite.py:38`.
* `BatchRetry`: a retry becomes available at least 2 seconds later, but
  `execute_many` claims again at once and gives the batch up (`execution/worker.py:59`).
* `BatchForeign`: an outcome of another call's task is dropped (`execution/worker.py:61`),
  and that call never gets it.
* `LifecycleExtended`: an `OWNER_EXTENDED` analysis raises while it is scored
  (`scoring/v1.py:230` builds a PUBLIC result) and stays queued, against
  `src/docs/validation/pre-main-hardening.md:13`, which has the profile flow into the
  persisted envelope. The HTTP API cannot create such a request.
* `ProcessEscape`: after the joins `run` closes the pipes (`infrastructure/process.py:393`),
  which waits for a reader inside of its read; a descendant in a session of its
  own keeps it there past the hard timeout its docstring promises.
* `MatrixRepeat`: a second analysis that failed is NOT_TESTABLE and does not close the
  gate, while `src/docs/validation/production-readiness-after-validation.md:50`
  says that validation checks repeat projections.

And these were met while modelling, and are how the models behave:

* Reclaims are not counted against any budget, so a row whose worker keeps dying
  passes the attempt limit of its contract and then blocks the head of the queue
  (the exception in `EventuallySettled`). `commit_envelope` has the same unguarded
  UPDATE as `complete_task`. `enqueue_task` refuses a task again whose facts were
  collected at another moment, since it compares the whole JSON (`Seek`).
* A POST that is refused for its key has already registered its repository, so its
  snapshot is pinned and later requests for another one are refused (`Register`
  before `Insert`). A row that a crash left queued is finished only if somebody posts
  the same request again.
* The close after a timeout can come between two reads of the reader: what is still
  in the pipe is lost and `truncated` stays False, so that only `timed_out` tells the
  caller (`FindClosed`). The output of a child that ended in time is cut without any
  mark when a descendant outlives it and its reader is given up (`Joined`).
* The body of a reply is decoded before its status is looked at, so a 401 with an
  HTML body is retried as a transport failure (`Transient`). AppSec's own stages
  read the first page only and drop rows that are no objects, so such a scan may be
  called finished although findings were left out (`Shown`). A timeout of SonarQube is raised past the handler that
  would make it a state of the source (`MayRaise`).
* A partial AppSec scan counts as wholly covered (`Security`), where
  `src/docs/validation/pre-main-hardening.md:51` gives it 0.5 / 0.5. An
  empty body of the scans stage is "failed" without a limitation.
* Losing the comments of issues can raise the Issues score, because the component
  they feed is dropped (`Components`); losing the security analyzer forgets the cap
  on the score (`FindingsCap` is about judged categories). A category may be
  judged without a number (`Activity`, `Documentation`).
* With the wired collectors a PUBLIC assessment has at most three categories with a
  number, so it is always INSUFFICIENT_DATA; the other profile cannot be published.
* In the lab, observations of drift against a baseline never enter `actual_bugs`, and
  the reason of an open gate says that all repositories completed although the gate
  also accepts ones with limited coverage.

## 6. Plan

Done: the queue, its ledger and the batches; the life of an analysis; the
scheduler; the local executor; the subprocess runner; the SourceCraft client;
the collection with all collectors; analyzers and score engine; the validation
lab and its gate; proofs of every safety property of the runs, and of two
refinements. Left, in this order:

1. The composition of WorkerBatch with AnalysisLifecycle and LocalExecutor: the
   outcomes an analysis commits are those of its batch, and a retried attempt
   never meets the cache.
2. An abstract analysis (accepted, answered once, kept) that AnalysisLifecycle
   implements, with its refinement proved like those of the queue and the executor.
3. The write lock and `database is locked` of SQLite, for the hazards that have no
   property yet.

## 7. Not modelled

* Calibration (`scoring/calibration_v2.py`) and the analyzers' formulas: pure functions over
  real numbers; a model would be the formulas again.
* Legacy replay (`persistence/legacy.py`) and the verification scripts: one-off commands
  without state of their own.
* Telemetry, redaction, environment parsing: no control state.
* The Markdown reports and the baseline comparison of the lab: no decision reads them.
* The fact cache (`collection/cache.py`): a port and pure functions; no cache implements it and nothing calls them.
* The Windows branch of the subprocess runner: its `taskkill` is `TreeKillFails`, its
  pipe semantics are not modelled.
* Read-only routes of the API, `get_summary`, and the parsers of tool output.
