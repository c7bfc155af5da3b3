----------------------------- MODULE TaskQueue -----------------------------
(***************************************************************************)
(* The durable analyzer queue: table analyzer_tasks of                     *)
(* persistence/sqlite.py, used by WorkerExecutor.run_once of               *)
(* execution/worker.py.                                                    *)
(*                                                                         *)
(* A runner is one run_once invocation slot.  Runners of one process share *)
(* a SQLitePersistence, hence one connection and its RLock: a method of    *)
(* the store is atomic for them.  Another process has another connection,  *)
(* and its steps fall between a SELECT and the UPDATE that relies on it    *)
(* (only claim_task opens its transaction before it reads).  WorkerId is   *)
(* the configured identity that the lease check compares; nothing in the   *)
(* code makes it differ between two runners.                               *)
(*                                                                         *)
(* Time is a global integer clock in seconds.  It advances only while some *)
(* row waits for it: no other moment can be told apart by the code.        *)
(***************************************************************************)
EXTENDS Integers

CONSTANTS
  Tasks,         \* task ids, numbered in the order (analyzer_id, task_id)
  Runners,       \* run_once slots of all worker processes
  Connections,   \* SQLitePersistence objects, one per process
  WorkerIds,     \* values of REPO_HEALTH_WORKER_ID
  Conn,          \* the connection each runner uses
  WorkerId,      \* the worker id each runner presents
  Heartbeats,    \* runners whose caller uses WorkerExecutor.renew
  MaxAttempts,   \* WorkerExecutor.max_attempts
  AttemptLimit,  \* upper bound of AnalyzerTask.attempt in the contract
  Lease,         \* WorkerExecutor.lease_seconds
  None,          \* SQL NULL
  MaxClock,      \* bound: the clock stops here
  MaxFaults      \* bound: crashes and cancellations in one behaviour

ASSUME TasksAssumption == Tasks \subseteq Nat \ {0}
ASSUME RunnersAssumption ==
  /\ Conn \in [Runners -> Connections]
  /\ WorkerId \in [Runners -> WorkerIds]
  /\ Heartbeats \subseteq Runners
  /\ None \notin WorkerIds
ASSUME LimitsAssumption ==
  /\ MaxAttempts \in Nat \ {0}
  /\ AttemptLimit \in Nat \ {0}
  /\ Lease \in Nat \ {0}
  /\ MaxClock \in Nat
  /\ MaxFaults \in Nat

VARIABLES
  clock,         \* now, as every process reads it
  row,           \* the analyzer_tasks row of each task
  run,           \* the local state of each runner
  faults         \* crashes and cancellations so far

vars == <<clock, row, run, faults>>

(* ExecutionOutcome: "retryable" stands for a timeout or a transient       *)
(* failure.  "by" makes two executions' outcomes different documents, as   *)
(* their timestamps do.                                                    *)
Kinds == {"completed", "failed", "retryable"}
Outcomes == [kind : Kinds, attempt : Nat, by : Runners]

Terminal == {"completed", "failed"}
Statuses == {"absent", "queued", "running", "retry"} \cup Terminal
Rows == [status : Statuses, attempt : Nat, owner : WorkerIds \cup {None},
         expires : Nat, available : Nat, outcome : Outcomes \cup {None}]
NoRow == [status |-> "absent", attempt |-> 0, owner |-> None,
          expires |-> 0, available |-> 0, outcome |-> None]

(* "claimed", "completing" and "retrying" lie inside a method of the store *)
(* and hold its RLock; "executing" is the await of LocalExecutor.execute.  *)
InStore == {"claimed", "completing", "retrying"}
Runs == [pc : {"idle", "executing"} \cup InStore, task : Nat,
         attempt : Nat, kind : Kinds, due : Nat]
Idle == [pc |-> "idle", task |-> 0, attempt |-> 0,
         kind |-> "completed", due |-> 0]

Free(c) == \A r \in Runners : Conn[r] = c => run[r].pc \notin InStore

(* The stored task JSON carries the attempt and must satisfy the contract. *)
Decodable(t) == row[t].attempt <= AttemptLimit

(***************************************************************************)
(* Mutated forms of the definitions below, one plausible slip each.        *)
(***************************************************************************)
MutantNoReclaim ==
  {t \in Tasks : row[t].status \in {"queued", "retry"}
                 /\ row[t].available <= clock}
MutantClaimFailed ==
  {t \in Tasks : \/ /\ row[t].status \in {"queued", "retry", "failed"}
                    /\ row[t].available <= clock
                 \/ /\ row[t].status = "running"
                    /\ row[t].expires <= clock}
MutantAttempt(t) ==
  row[t].attempt + (IF row[t].status = "retry" THEN 1 ELSE 0)
MutantOwns(r) == row[run[r].task].status = "running"
MutantRetries(r, kind) ==
  kind = "retryable" /\ run[r].attempt <= MaxAttempts
MutantSettled(record, outcome) ==
  [record EXCEPT !.status = outcome.kind, !.outcome = outcome]

(***************************************************************************)
(* Guards and row updates of the store.                                    *)
(***************************************************************************)
Claimable ==
  {t \in Tasks : \/ /\ row[t].status \in {"queued", "retry"}
                    /\ row[t].available <= clock
                 \/ /\ row[t].status = "running"
                    /\ row[t].expires <= clock}

(* ORDER BY available_at, analyzer_id, task_id LIMIT 1 *)
First(t) == /\ t \in Claimable
            /\ \A u \in Claimable \ {t} :
                 \/ row[t].available < row[u].available
                 \/ row[t].available = row[u].available /\ t < u

NextAttempt(t) ==
  row[t].attempt + (IF row[t].status \in {"retry", "running"} THEN 1 ELSE 0)

Leased(record, attempt, id) ==
  [record EXCEPT !.status = "running", !.attempt = attempt,
                 !.owner = id, !.expires = clock + Lease]

Settled(record, outcome) ==
  [record EXCEPT !.status =
                   IF outcome.kind = "completed" THEN "completed" ELSE "failed",
                 !.outcome = outcome, !.owner = None, !.expires = 0]

Requeued(record, due) ==
  [record EXCEPT !.status = "retry", !.available = due,
                 !.owner = None, !.expires = 0]

(* status is running and lease_owner is this worker; the lease's expiry is *)
(* not consulted. *)
Owns(r) == /\ row[run[r].task].status = "running"
           /\ row[run[r].task].owner = WorkerId[r]

Retries(r, kind) == kind = "retryable" /\ run[r].attempt < MaxAttempts

(* min(60, 2 ** attempt) *)
Backoff(attempt) ==
  IF attempt \in 1..5 THEN <<2, 4, 8, 16, 32>>[attempt] ELSE 60

Outcome(r) ==
  [kind |-> run[r].kind, attempt |-> run[r].attempt, by |-> r]

-----------------------------------------------------------------------------
Init == /\ clock = 0
        /\ row = [t \in Tasks |-> NoRow]
        /\ run = [r \in Runners |-> Idle]
        /\ faults = 0

(* enqueue_task of a new task.  For a known one it returns the row or      *)
(* raises IdempotencyConflict and changes nothing; of two processes that   *)
(* insert at once the primary key fails one.                               *)
Enqueue(c, t) ==
  /\ Free(c)
  /\ row[t].status = "absent"
  /\ row' = [row EXCEPT ![t] = [NoRow EXCEPT !.status = "queued",
                                             !.attempt = 1,
                                             !.available = clock]]
  /\ UNCHANGED <<clock, run, faults>>

(* claim_task up to its commit: one BEGIN IMMEDIATE transaction. *)
Claim(r) ==
  /\ run[r].pc = "idle"
  /\ Free(Conn[r])
  /\ \E t \in Tasks :
       /\ First(t)
       /\ Decodable(t)
       /\ row' = [row EXCEPT ![t] = Leased(@, NextAttempt(t), WorkerId[r])]
       /\ run' = [run EXCEPT ![r] = [Idle EXCEPT !.pc = "claimed",
                                                 !.task = t]]
  /\ UNCHANGED <<clock, faults>>

(* The row is read again after the commit; that is the claim run_once      *)
(* executes.  A row past the attempt limit was written but cannot be read. *)
ReadBack(r) ==
  /\ run[r].pc = "claimed"
  /\ run' = [run EXCEPT ![r] =
               IF Decodable(run[r].task)
               THEN [@ EXCEPT !.pc = "executing",
                              !.attempt = row[run[r].task].attempt]
               ELSE Idle]
  /\ UNCHANGED <<clock, row, faults>>

(* claim_task finds no row, or raises on one that cannot be decoded. *)
ClaimNothing(r) ==
  /\ run[r].pc = "idle"
  /\ Free(Conn[r])
  /\ \A t \in Tasks : First(t) => ~Decodable(t)
  /\ UNCHANGED vars

(* The analyzer's outcome arrives; complete_task or fail_task reads the    *)
(* row and goes on to its UPDATE. *)
Check(r, kind) ==
  /\ run[r].pc = "executing"
  /\ Free(Conn[r])
  /\ Owns(r)
  /\ run' = [run EXCEPT ![r] =
               [@ EXCEPT !.pc = IF Retries(r, kind) THEN "retrying"
                                                    ELSE "completing",
                         !.kind = kind,
                         !.due = clock + Backoff(run[r].attempt)]]
  /\ UNCHANGED <<clock, row, faults>>

(* ... or raises LeaseOwnershipError or ImmutableResultConflict. *)
Reject(r, kind) ==
  /\ run[r].pc = "executing"
  /\ Free(Conn[r])
  /\ ~Owns(r)
  /\ run' = [run EXCEPT ![r] = Idle]
  /\ UNCHANGED <<clock, row, faults>>

(* UPDATE ... WHERE task_id = ?, with no guard on the state read before. *)
Complete(r) ==
  /\ run[r].pc = "completing"
  /\ row' = [row EXCEPT ![run[r].task] = Settled(@, Outcome(r))]
  /\ run' = [run EXCEPT ![r] = Idle]
  /\ UNCHANGED <<clock, faults>>

Retry(r) ==
  /\ run[r].pc = "retrying"
  /\ row' = [row EXCEPT ![run[r].task] = Requeued(@, run[r].due)]
  /\ run' = [run EXCEPT ![r] = Idle]
  /\ UNCHANGED <<clock, faults>>

(* renew_task: one guarded UPDATE. *)
Renew(r) ==
  /\ r \in Heartbeats
  /\ run[r].pc = "executing"
  /\ Free(Conn[r])
  /\ Owns(r)
  /\ row' = [row EXCEPT ![run[r].task] = [@ EXCEPT !.expires = clock + Lease]]
  /\ UNCHANGED <<clock, run, faults>>

(* A process dies: its runners forget everything, an UPDATE that was not   *)
(* committed is lost, and it may be started again. *)
Crash(c) ==
  /\ faults < MaxFaults
  /\ faults' = faults + 1
  /\ run' = [r \in Runners |-> IF Conn[r] = c THEN Idle ELSE run[r]]
  /\ UNCHANGED <<clock, row>>

(* The coroutine of run_once is cancelled at its await. *)
Cancel(r) ==
  /\ faults < MaxFaults
  /\ faults' = faults + 1
  /\ run[r].pc = "executing"
  /\ run' = [run EXCEPT ![r] = Idle]
  /\ UNCHANGED <<clock, row>>

Tick ==
  /\ clock < MaxClock
  /\ \E t \in Tasks :
       \/ row[t].status = "retry" /\ row[t].available > clock
       \/ row[t].status = "running" /\ row[t].expires > clock
  /\ clock' = clock + 1
  /\ UNCHANGED <<row, run, faults>>

Finish(r) == \E kind \in Kinds : Check(r, kind) \/ Reject(r, kind)
Write(r) == Complete(r) \/ Retry(r)

RunOnce(r) == \/ Claim(r) \/ ReadBack(r) \/ ClaimNothing(r)
              \/ Finish(r) \/ Write(r)

Next == \/ \E c \in Connections, t \in Tasks : Enqueue(c, t)
        \/ \E r \in Runners : RunOnce(r) \/ Renew(r) \/ Cancel(r)
        \/ \E c \in Connections : Crash(c)
        \/ Tick

Spec == Init /\ [][Next]_vars

(* Every runner that is alive keeps taking its steps and is called again,  *)
(* an analyzer returns or is timed out by LocalExecutor, and time passes.  *)
(* Callers, crashes and heartbeats owe nothing.                            *)
Fairness == /\ WF_vars(Tick)
            /\ \A r \in Runners : /\ WF_vars(Claim(r))
                                  /\ WF_vars(ReadBack(r))
                                  /\ WF_vars(Finish(r))
                                  /\ WF_vars(Write(r))
FairSpec == Spec /\ Fairness

-----------------------------------------------------------------------------
(* Every row and runner has its type, and a row carries a lease exactly    *)
(* while it is running: what claim_task, complete_task and fail_task write *)
(* together.                                                               *)
TypeOK ==
  /\ clock \in Nat
  /\ row \in [Tasks -> Rows]
  /\ run \in [Runners -> Runs]
  /\ faults \in Nat
  /\ \A t \in Tasks : row[t].status = "running" <=> row[t].owner # None
  /\ \A r \in Runners : run[r].pc # "idle" => run[r].task \in Tasks

(* Two live executions of one task never carry the same attempt number,    *)
(* although an expired lease lets a second runner start it while the first *)
(* still executes: the attempt is what telemetry, the cache key and the    *)
(* outcome identify an execution by.                                       *)
AttemptsUnique ==
  \A r, s \in Runners :
    /\ r # s
    /\ run[r].pc \in {"executing", "completing", "retrying"}
    /\ run[s].pc \in {"executing", "completing", "retrying"}
    /\ run[r].task = run[s].task
    => run[r].attempt # run[s].attempt

(* The outcome a terminal row keeps is the outcome of the last claim of    *)
(* the task: a worker whose lease expired and was taken over never has its *)
(* late outcome recorded (LeaseOwnershipError).                            *)
OutcomeOfLastClaim ==
  \A t \in Tasks :
    row[t].status \in Terminal => row[t].outcome.attempt = row[t].attempt

(* A task goes back for a retry only while attempts are left, whatever     *)
(* reclaims happened in between. *)
RetryWithinBudget ==
  \A t \in Tasks : row[t].status = "retry" => row[t].attempt < MaxAttempts

(* A completed row never changes again: "An already committed result       *)
(* cannot be overwritten." *)
CompletedIsFinal ==
  [][\A t \in Tasks : row[t].status = "completed" => row'[t] = row[t]]_vars

(* Neither does a row that ended as failed: no late answer, retry or       *)
(* reclaim resurrects it. *)
TerminalIsFinal ==
  [][\A t \in Tasks : row[t].status \in Terminal => row'[t] = row[t]]_vars

(* Every task in the queue is finished, unless some row was reclaimed past *)
(* the attempt limit of the contract: such a row can no longer be read and *)
(* stays at the head of the queue.                                         *)
EventuallySettled ==
  \A t \in Tasks :
    row[t].status # "absent" ~>
      row[t].status \in Terminal \/ \E u \in Tasks : ~Decodable(u)

-----------------------------------------------------------------------------
(* Why these hold when one store serves all runners.                       *)

Live == {"executing", "completing", "retrying"}

(* The RLock admits one runner at a time. *)
StoreSerial ==
  \A r, s \in Runners :
    run[r].pc \in InStore /\ run[s].pc \in InStore => r = s

(* What a method read when it took the lock still holds. *)
OwnedInStore == \A r \in Runners : run[r].pc \in InStore => Owns(r)

VerdictStands ==
  \A r \in Runners :
    /\ run[r].pc = "retrying" => Retries(r, run[r].kind)
    /\ run[r].pc = "completing" => ~Retries(r, run[r].kind)

(* Nobody executes a task before its first claim, which is attempt 1. *)
QueuedUntouched ==
  \A t \in Tasks :
    /\ row[t].status = "queued" => row[t].attempt = 1
    /\ row[t].status \in {"absent", "queued"} =>
         \A r \in Runners : run[r].pc # "idle" => run[r].task # t

(* Executions carry attempts the row has reached; a claim that is being    *)
(* read back is newer than all of them. *)
AttemptsReached ==
  \A r, s \in Runners :
    /\ run[r].pc \in Live
    /\ run[s].pc \in Live \cup {"claimed"}
    /\ run[r].task = run[s].task
    => /\ run[r].attempt <= row[run[r].task].attempt
       /\ run[s].pc = "claimed" =>
            run[r].attempt < row[run[r].task].attempt

(* The invariant of the methods and the lock: it holds for any worker ids  *)
(* and is what makes AttemptsUnique and TerminalIsFinal inductive.         *)
StoreInv == /\ StoreSerial /\ OwnedInStore /\ VerdictStands
            /\ QueuedUntouched /\ AttemptsReached /\ AttemptsUnique

(* With worker ids of their own, the runner whose id a running row carries *)
(* executes its latest attempt. *)
OwnerIsLatest ==
  \A r \in Runners :
    run[r].pc \in Live /\ Owns(r) => run[r].attempt = row[run[r].task].attempt

(* The invariant of worker ids and attempts: it makes OutcomeOfLastClaim   *)
(* and RetryWithinBudget inductive. *)
OwnerInv == OwnerIsLatest /\ OutcomeOfLastClaim /\ RetryWithinBudget

-----------------------------------------------------------------------------
(* The ledger this table keeps. *)
PhaseOf(t) ==
  CASE row[t].status = "absent" -> "absent"
    [] row[t].status \in {"queued", "retry"} -> "waiting"
    [] row[t].status = "running" -> "active"
    [] row[t].status \in Terminal -> "settled"
LatestOf(t) ==
  IF row[t].status \in {"absent", "queued"} THEN 0 ELSE row[t].attempt
ResultOf(t) ==
  IF row[t].status \in Terminal
  THEN [kind |-> row[t].outcome.kind, attempt |-> row[t].outcome.attempt]
  ELSE None

Ledger == INSTANCE TaskLedger WITH
            phase <- [t \in Tasks |-> PhaseOf(t)],
            latest <- [t \in Tasks |-> LatestOf(t)],
            result <- [t \in Tasks |-> ResultOf(t)]

(* The table implements the ledger: an outcome is recorded, or a task      *)
(* handed back, only on behalf of the attempt that began last, although    *)
(* complete_task and fail_task never see an attempt number.                *)
ImplementsLedger == Ledger!Spec
=============================================================================
