---------------------------- MODULE WorkerBatch ----------------------------
(***************************************************************************)
(* WorkerExecutor.execute_many of execution/worker.py: a runner enqueues   *)
(* the tasks of one analysis and calls run_once until it has seen a final  *)
(* outcome of each, over the queue of module TaskQueue.                    *)
(*                                                                         *)
(* A runner with a batch is one execute_many call; a runner without one is *)
(* a "worker --once" process or run_until_empty.  The calls of one process *)
(* share its event loop: from one await of LocalExecutor.execute to the    *)
(* next only one of them moves.                                            *)
(***************************************************************************)
EXTENDS TaskQueue, FiniteSets

CONSTANTS
  Batch,         \* the tasks each runner was called with
  Editions,      \* serialized forms of a task that share its task id
  Edition        \* the form in which each runner enqueues its tasks

ASSUME BatchAssumption ==
  /\ Batch \in [Runners -> SUBSET Tasks]
  /\ \A r \in Runners : IsFiniteSet(Batch[r])
  /\ Edition \in [Runners -> Editions]
  /\ None \notin Editions \cup Outcomes

VARIABLES
  edition,       \* the form in which each row was inserted
  batch

batchVars == <<clock, row, run, faults, edition, batch>>

(* "rounding" is the head of the loop, "running" a run_once that was       *)
(* claimed. *)
Holding == {"enqueuing", "inserting", "rounding"}
Ended == {"returned", "raised", "lost"}
BatchStates == [pc : {"ready", "running"} \cup Holding \cup Ended,
                todo : SUBSET Tasks,
                pending : SUBSET Tasks,
                rounds : Nat,
                got : [Tasks -> Outcomes \cup {None}]]
Ready == [pc |-> "ready", todo |-> {}, pending |-> {}, rounds |-> 0,
          got |-> [t \in Tasks |-> None]]

(* The event loop of r's process is at an await. *)
LoopFree(r) ==
  /\ Free(Conn[r])
  /\ \A s \in Runners : Conn[s] = Conn[r] => batch[s].pc \notin Holding

(***************************************************************************)
(* Mutated forms of the definitions below, one plausible slip each.        *)
(***************************************************************************)
MutantFinal(outcome) == outcome.kind = "completed"
MutantDelivered(r, outcome) == run[r].task \in batch[r].pending
MutantDrained(r) == batch' = batch
MutantKept(call, t, outcome) ==
  [call EXCEPT !.pc = "rounding", !.got[t] = outcome]

(***************************************************************************)
(* Decisions of execute_many.                                              *)
(***************************************************************************)
(* Tasks are enqueued in the order of their analyzer ids. *)
FirstTodo(r, t) ==
  t \in batch[r].todo /\ \A u \in batch[r].todo : t <= u

(* enqueue_task compares the stored JSON, which holds the attempt of the   *)
(* last claim and the moment the facts were collected. *)
SameTask(r, t) ==
  Decodable(t) /\ row[t].attempt = 1 /\ edition[t] = Edition[r]

Budget(r) == Cardinality(Batch[r]) * MaxAttempts

(* An outcome execute_many keeps; the others it expects to see again. *)
Final(outcome) ==
  ~ (outcome.kind = "retryable" /\ outcome.attempt < MaxAttempts)
Delivered(r, outcome) == run[r].task \in batch[r].pending /\ Final(outcome)

Kept(call, t, outcome) ==
  [call EXCEPT !.pc = "rounding", !.pending = @ \ {t}, !.got[t] = outcome]

-----------------------------------------------------------------------------
BatchInit == /\ Init
             /\ edition = [t \in Tasks |-> None]
             /\ batch = [r \in Runners |-> Ready]

Go(r, pc) == batch' = [batch EXCEPT ![r].pc = pc]
Drained(r) == Go(r, "raised")

Start(r) ==
  /\ Batch[r] # {}
  /\ batch[r].pc = "ready"
  /\ LoopFree(r)
  /\ batch' = [batch EXCEPT ![r] = [Ready EXCEPT !.pc = "enqueuing",
                                                 !.todo = Batch[r],
                                                 !.pending = Batch[r]]]
  /\ UNCHANGED <<clock, row, run, faults, edition>>

(* The task is in, the next one follows. *)
Enqueued(r, t) ==
  LET rest == batch[r].todo \ {t} IN
    batch' = [batch EXCEPT
                ![r].todo = rest,
                ![r].pc = IF rest = {} THEN "rounding" ELSE "enqueuing"]

(* enqueue_task reads the row; a different task with the same id is an     *)
(* IdempotencyConflict. *)
Seek(r) ==
  /\ batch[r].pc = "enqueuing"
  /\ \E t \in Tasks :
       /\ FirstTodo(r, t)
       /\ \/ row[t].status = "absent" /\ Go(r, "inserting")
          \/ row[t].status # "absent" /\ SameTask(r, t) /\ Enqueued(r, t)
          \/ row[t].status # "absent" /\ ~ SameTask(r, t) /\ Go(r, "raised")
  /\ UNCHANGED <<clock, row, run, faults, edition>>

(* INSERT; the primary key refuses it when another process was first. *)
Put(r) ==
  /\ batch[r].pc = "inserting"
  /\ \E t \in Tasks :
       /\ FirstTodo(r, t)
       /\ \/ /\ Enqueue(Conn[r], t)
             /\ edition' = [edition EXCEPT ![t] = Edition[r]]
             /\ Enqueued(r, t)
          \/ /\ row[t].status # "absent"
             /\ Go(r, "raised")
             /\ UNCHANGED <<clock, row, run, faults, edition>>

(* No task is pending, or the rounds are used up. *)
Leave(r) ==
  /\ batch[r].pc = "rounding"
  /\ batch[r].pending = {} \/ batch[r].rounds = Budget(r)
  /\ Go(r, IF batch[r].pending = {} THEN "returned" ELSE "raised")
  /\ UNCHANGED <<clock, row, run, faults, edition>>

(* run_once claims a task, of this batch or of any other, ... *)
Round(r) ==
  /\ batch[r].pc = "rounding"
  /\ batch[r].pending # {} /\ batch[r].rounds < Budget(r)
  /\ \/ Claim(r) /\ batch' = [batch EXCEPT ![r].pc = "running",
                                           ![r].rounds = @ + 1]
     \/ ClaimNothing(r) /\ Drained(r)
  /\ UNCHANGED edition

(* ... reads it back, ... *)
Reread(r) ==
  /\ batch[r].pc = "running"
  /\ ReadBack(r)
  /\ IF run'[r].pc = "idle" THEN Go(r, "raised") ELSE UNCHANGED batch
  /\ UNCHANGED edition

(* ... executes it and reports: LeaseOwnershipError and                    *)
(* ImmutableResultConflict end the whole batch. *)
Report(r) ==
  /\ batch[r].pc = "running"
  /\ LoopFree(r)
  /\ \E kind \in Kinds : \/ Check(r, kind) /\ UNCHANGED batch
                         \/ Reject(r, kind) /\ Go(r, "raised")
  /\ UNCHANGED edition

(* The row is written and run_once returns the outcome to the loop. *)
Return(r) ==
  /\ batch[r].pc = "running"
  /\ Write(r)
  /\ batch' = [batch EXCEPT ![r] =
                 IF Delivered(r, Outcome(r))
                 THEN Kept(@, run[r].task, Outcome(r))
                 ELSE [@ EXCEPT !.pc = "rounding"]]
  /\ UNCHANGED edition

(* A runner without a batch. *)
Alone(r) ==
  /\ Batch[r] = {}
  /\ run[r].pc \in {"idle", "executing"} => LoopFree(r)
  /\ RunOnce(r) \/ Renew(r)
  /\ UNCHANGED <<edition, batch>>

(* A crash takes the batches of a process with it, a cancellation one. *)
Lose(lost) ==
  /\ batch' = [r \in Runners |->
                 IF r \in lost /\ batch[r].pc \notin Ended \cup {"ready"}
                 THEN [batch[r] EXCEPT !.pc = "lost"] ELSE batch[r]]
  /\ UNCHANGED edition

ExecuteMany(r) == \/ Seek(r) \/ Put(r) \/ Leave(r) \/ Round(r)
                  \/ Reread(r) \/ Report(r) \/ Return(r)

BatchNext ==
  \/ \E r \in Runners : Start(r) \/ ExecuteMany(r) \/ Alone(r)
  \/ \E r \in Runners : LoopFree(r) /\ Cancel(r) /\ Lose({r})
  \/ \E c \in Connections : Crash(c) /\ Lose({r \in Runners : Conn[r] = c})
  \/ Tick /\ UNCHANGED <<edition, batch>>

BatchSpec == BatchInit /\ [][BatchNext]_batchVars

(* The event loop runs every coroutine that is ready again and again, and  *)
(* an analyzer returns or is timed out.  Time owes nothing: the loop never *)
(* waits for it.                                                           *)
BatchFairness ==
  \A r \in Runners : SF_batchVars(ExecuteMany(r)) /\ WF_batchVars(Alone(r))
FairBatchSpec == BatchSpec /\ BatchFairness

-----------------------------------------------------------------------------
(* Batches have their types, and a batch still waits for exactly the tasks *)
(* it has no outcome of.                                                   *)
BatchTypeOK ==
  /\ edition \in [Tasks -> Editions \cup {None}]
  /\ batch \in [Runners -> BatchStates]
  /\ \A r \in Runners : batch[r].pc # "ready" =>
       batch[r].pending = {t \in Batch[r] : batch[r].got[t] = None}

(* Whatever execute_many hands to the score is what the queue keeps for    *)
(* good: no retry, reclaim or late answer of another run_once replaces an  *)
(* outcome that was scored.                                                *)
GotIsStored ==
  \A r \in Runners, t \in Tasks :
    batch[r].got[t] # None =>
      row[t].status \in Terminal /\ row[t].outcome = batch[r].got[t]

(* A call whose tasks nobody else has answered fails only when a task of   *)
(* it is taken: back for a retry that is not due, or left running by a     *)
(* worker that was cancelled.  Its rounds always suffice, and no outcome   *)
(* it reported itself is refused. *)
Undisturbed(r) ==
  /\ \A s \in Runners \ {r} : run[s].pc = "idle" /\ batch[s].pc = "ready"
  /\ \A t \in Tasks : row[t].outcome # None => row[t].outcome.by = r
OnlyRetriesFail ==
  \A r \in Runners :
    batch[r].pc = "raised" /\ Undisturbed(r) =>
      \E t \in batch[r].pending : row[t].status \in {"retry", "running"}

(* "Execute a bounded batch through the durable queue and return final     *)
(* outcomes": a call does not end while the queue holds a task of it that  *)
(* has attempts left. *)
NothingLeftBehind ==
  \A r \in Runners : batch[r].pc = "raised" =>
    \A t \in batch[r].pending : row[t].status # "retry"

(* ... nor while a final outcome of its task is recorded, by whomever the  *)
(* task was run. *)
OutcomesReachTheirBatch ==
  \A r \in Runners : batch[r].pc = "raised" =>
    \A t \in batch[r].pending : row[t].status \notin Terminal

(* Every execute_many call ends, whoever else uses the queue. *)
BatchEnds ==
  \A r \in Runners : batch[r].pc = "enqueuing" ~> batch[r].pc \in Ended
-----------------------------------------------------------------------------
(* Why OnlyRetriesFail holds when one store serves all runners: what is    *)
(* true of a call while no other call has begun, whatever workers without  *)
(* a batch do to its tasks. *)
SoleCall(r) == \A s \in Runners \ {r} : batch[s].pc = "ready"

(* enqueue_task makes a task due at once, and a settled row has an outcome. *)
RowsAreKept ==
  \A t \in Tasks :
    /\ row[t].status = "queued" => row[t].available <= clock
    /\ row[t].status \in Terminal => row[t].outcome \in Outcomes

(* The queue holds the tasks that this call has enqueued and no other. *)
Enlisted(r) ==
  /\ batch[r].todo \subseteq Batch[r]
  /\ batch[r].pc \in {"rounding", "running"} => batch[r].todo = {}
  /\ \A t \in Tasks : row[t].status = "absent" <=>
       batch[r].pc = "ready" \/ t \notin Batch[r] \ batch[r].todo

(* A claim is of a task the call still waits for. *)
AtWork(r) == run[r].pc # "idle"
OwnAttempt(r) ==
  IF run[r].pc = "claimed" THEN row[run[r].task].attempt ELSE run[r].attempt
Working(r) ==
  AtWork(r) => /\ batch[r].pc = "running"
               /\ run[r].task \in batch[r].pending
               /\ OwnAttempt(r) >= 1

(* An outcome the call reported is no longer pending. *)
Answered(r) ==
  \A t \in batch[r].pending :
    row[t].status \in Terminal => row[t].outcome.by # r

(* The attempts the call need not spend a round on any more: all of a task *)
(* that is not pending, and of a pending one those before the last, as far *)
(* as claims went, except the one it is running.  Every round adds one.    *)
Over(r, t, n) ==
  /\ n < MaxAttempts
  /\ n <= LatestOf(t)
  /\ AtWork(r) /\ run[r].task = t => n < OwnAttempt(r)
Spent(r) ==
  {p \in Batch[r] \X (1..MaxAttempts) :
     p[1] \in batch[r].pending => Over(r, p[1], p[2])}
Counted(r) ==
  /\ batch[r].pc \in Holding => batch[r].rounds <= Cardinality(Spent(r))
  /\ batch[r].pc = "running" => batch[r].rounds <= Cardinality(Spent(r)) + 1

(* A call that failed found a task of its own taken. *)
Taken(r) ==
  batch[r].pc = "raised" =>
    \E t \in batch[r].pending :
      row[t].status \in {"retry", "running"} \cup Terminal

SoleState(r) ==
  Enlisted(r) /\ Working(r) /\ Answered(r) /\ Counted(r) /\ Taken(r)
SoleInv == RowsAreKept /\ \A r \in Runners : SoleCall(r) => SoleState(r)
=============================================================================
