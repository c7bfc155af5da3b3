--------------------------- MODULE LocalExecutor ---------------------------
(***************************************************************************)
(* LocalExecutor of execution/local.py: calls of execute that share a      *)
(* semaphore, a result cache and the thread pool of the event loop, and    *)
(* execute_many, which gathers the calls of one batch.                     *)
(*                                                                         *)
(* A synchronous factory runs in a thread.  wait_for can give up on a      *)
(* thread but not stop it: the slot of the call is free again while the    *)
(* thread still runs.  An outcome is named by its failure_kind; which      *)
(* value a factory produced is chosen when the event loop looks at it.     *)
(***************************************************************************)
EXTENDS Naturals, FiniteSets, Sequences, SequencesExt

CONSTANTS
  Calls,         \* calls of execute, ordered by analyzer id in a batch
  Tasks,
  TaskOf,        \* calls of equal tasks have one digest, the cache's key
  Batches,
  BatchOf,       \* the execute_many each call belongs to
  Sync,          \* calls whose factory is not a coroutine function
  Missing,       \* calls whose analyzer has no factory
  TooLarge,      \* calls whose facts exceed the resource limits
  Slots,         \* max_concurrency
  PoolSize,      \* threads of asyncio's default executor
  None

(* The failure kinds of outcomes; "cancelled" is raised. *)
Answers == {"completed", "analyzer_error", "error", "transient", "timeout",
            "cancelled", "unsupported", "resource_limit"}

ASSUME ExecutorAssumption ==
  /\ IsFiniteSet(Calls) /\ Calls \subseteq Nat
  /\ TaskOf \in [Calls -> Tasks] /\ BatchOf \in [Calls -> Batches]
  /\ Sync \cup Missing \cup TooLarge \subseteq Calls
  /\ Slots \in Nat \ {0} /\ PoolSize \in Nat \ {0}
  /\ None \notin Calls /\ None \notin Answers

VARIABLES
  pc, thread, answer,    \* of each call
  cache,         \* the call whose result is stored for each task
  queue,         \* calls that wait for the semaphore, in order
  free,          \* the value of the semaphore
  batch

vars == <<pc, thread, answer, cache, queue, free, batch>>

(* What a factory returns or raises: a result of its task, a result with   *)
(* status ERROR, something that is not a result of the task, an exception. *)
Produced ==
  {"good", "error", "foreign", "transient", "timeout", "raises", "cancelled"}
AnswerOf ==
  [v \in Produced |->
     CASE v = "good" -> "completed"
       [] v = "error" -> "analyzer_error"
       [] v \in {"foreign", "raises"} -> "error"
       [] OTHER -> v]

(***************************************************************************)
(* Mutated forms of the definitions below, one plausible slip each.        *)
(***************************************************************************)
MutantCacheable(v) == v \in {"good", "error"}
MutantSettles(c) == thread[c] = "ended" \/ pc[c] = "working"
MutantReleased == free
MutantAfterCancel(c) == free + 1

(***************************************************************************)
(* Decisions of execute.                                                   *)
(***************************************************************************)
Released == free + 1
(* A call that leaves the semaphore's queue has no slot to give back. *)
AfterCancel(c) == IF pc[c] = "working" THEN Released ELSE free
Cacheable(v) == v = "good"
(* wait_for still waits for the factory, and the factory has ended. *)
Settles(c) == pc[c] = "working" /\ thread[c] \in {"none", "ended"}
Refusal(c) ==
  CASE c \in Missing -> "unsupported"
    [] c \in TooLarge \ Missing -> "resource_limit"
    [] OTHER -> "none"
Ends(c, kind) ==
  /\ pc' = [pc EXCEPT ![c] = "ended"]
  /\ answer' = [answer EXCEPT ![c] = kind]
(* A thread that has not started is taken back, a running one goes on. *)
Abandon(c) ==
  thread' = [thread EXCEPT ![c] = IF @ = "queued" THEN "none" ELSE @]

CallsOf(b) == {c \in Calls : BatchOf[c] = b}
Working == {c \in Calls : pc[c] = "working"}
(* execute_many sorts by analyzer id. *)
InOrder(calls) == SetToSortSeq(calls, <)
RunningThreads == {c \in Calls : thread[c] = "running"}

Init ==
  /\ pc = [c \in Calls |-> "new"]
  /\ thread = [c \in Calls |-> "none"]
  /\ answer = [c \in Calls |-> None]
  /\ cache = [t \in Tasks |-> None]
  /\ queue = <<>>
  /\ free = Slots
  /\ batch = [b \in Batches |-> "ready"]

(* execute_many up to its gather. *)
ExecuteMany(b) ==
  /\ batch[b] = "ready"
  /\ batch' = [batch EXCEPT ![b] = "gathering"]
  /\ pc' = [c \in Calls |-> IF c \in CallsOf(b) THEN "waiting" ELSE pc[c]]
  /\ queue' = queue \o InOrder(CallsOf(b))
  /\ UNCHANGED <<thread, answer, cache, free>>

(* The first call in line gets a slot.  A hit in the cache and a refusal   *)
(* give it back without an await. *)
Acquire(c) ==
  /\ pc[c] = "waiting"
  /\ free > 0 /\ queue # <<>> /\ Head(queue) = c
  /\ queue' = Tail(queue)
  /\ UNCHANGED <<cache, batch>>
  /\ \/ /\ cache[TaskOf[c]] # None
        /\ Ends(c, "completed")
        /\ UNCHANGED <<thread, free>>
     \/ /\ cache[TaskOf[c]] = None /\ Refusal(c) # "none"
        /\ Ends(c, Refusal(c))
        /\ UNCHANGED <<thread, free>>
     \/ /\ cache[TaskOf[c]] = None /\ Refusal(c) = "none"
        /\ pc' = [pc EXCEPT ![c] = "working"]
        /\ thread' =
             [thread EXCEPT ![c] = IF c \in Sync THEN "queued" ELSE "none"]
        /\ free' = free - 1
        /\ UNCHANGED answer

(* A thread of the pool takes a factory, and ends some time or never. *)
StartThread(c) ==
  /\ thread[c] = "queued" /\ Cardinality(RunningThreads) < PoolSize
  /\ thread' = [thread EXCEPT ![c] = "running"]
  /\ UNCHANGED <<pc, answer, cache, queue, free, batch>>
EndThread(c) ==
  /\ thread[c] = "running"
  /\ thread' = [thread EXCEPT ![c] = "ended"]
  /\ UNCHANGED <<pc, answer, cache, queue, free, batch>>

(* wait_for returns or raises what the factory did. *)
Settle(c, v) ==
  /\ Settles(c)
  /\ Ends(c, AnswerOf[v])
  /\ cache' = IF Cacheable(v) THEN [cache EXCEPT ![TaskOf[c]] = c] ELSE cache
  /\ free' = Released
  /\ UNCHANGED <<thread, queue, batch>>

(* The timer of wait_for, which may also beat a thread that has just       *)
(* ended. *)
Timeout(c) ==
  /\ pc[c] = "working"
  /\ Ends(c, "timeout") /\ Abandon(c)
  /\ free' = Released
  /\ UNCHANGED <<cache, queue, batch>>

(* The caller of execute_many is cancelled, and every call that has not    *)
(* ended gets a CancelledError. *)
CancelMany(b) ==
  /\ batch[b] = "gathering"
  /\ batch' = [batch EXCEPT ![b] = "cancelled"]
  /\ UNCHANGED <<pc, thread, answer, cache, queue, free>>
Cancel(c) ==
  /\ batch[BatchOf[c]] = "cancelled" /\ pc[c] \in {"waiting", "working"}
  /\ Ends(c, "cancelled") /\ Abandon(c)
  /\ queue' = SelectSeq(queue, LAMBDA d : d # c)
  /\ free' = AfterCancel(c)
  /\ UNCHANGED <<cache, batch>>

(* gather returns; execute_many makes an executor_error of an answer that  *)
(* is not an outcome, that is of "cancelled". *)
Return(b) ==
  /\ batch[b] = "gathering" /\ \A c \in CallsOf(b) : pc[c] = "ended"
  /\ batch' = [batch EXCEPT ![b] = "returned"]
  /\ UNCHANGED <<pc, thread, answer, cache, queue, free>>

CallStep(c) ==
  \/ Acquire(c) \/ StartThread(c) \/ EndThread(c) \/ Timeout(c) \/ Cancel(c)
  \/ \E v \in Produced : Settle(c, v)

Next ==
  \/ \E b \in Batches : ExecuteMany(b) \/ CancelMany(b) \/ Return(b)
  \/ \E c \in Calls : CallStep(c)

Spec == Init /\ [][Next]_vars

(* The event loop gives slots away, delivers CancelledErrors and fires the *)
(* timers; no thread has to start or to end. *)
Fairness ==
  /\ \A c \in Calls : WF_vars(Acquire(c)) /\ WF_vars(Timeout(c))
                        /\ WF_vars(Cancel(c))
  /\ \A b \in Batches : WF_vars(Return(b))
FairSpec == Spec /\ Fairness

(***************************************************************************)
(* Properties.                                                             *)
(***************************************************************************)
TypeOK ==
  /\ pc \in [Calls -> {"new", "waiting", "working", "ended"}]
  /\ thread \in [Calls -> {"none", "queued", "running", "ended"}]
  /\ answer \in [Calls -> Answers \cup {None}]
  /\ cache \in [Tasks -> Calls \cup {None}]
  /\ queue \in Seq(Calls)
  /\ free \in 0..Slots
  /\ batch \in [Batches -> {"ready", "gathering", "cancelled", "returned"}]

(* Timeouts, cancellations in the queue or in a factory, cache hits and    *)
(* refusals neither lose a slot nor give one back twice: never more than   *)
(* max_concurrency calls work, and never fewer may (execute). *)
SlotsKept == free + Cardinality(Working) = Slots

(* The cache holds nothing but results their own call has answered with:   *)
(* no error result and no result of a thread the call gave up on, and a    *)
(* call is "completed" only if its task has a result (_execute). *)
CacheSound ==
  /\ \A t \in Tasks :
       cache[t] # None => TaskOf[cache[t]] = t /\ answer[cache[t]] = "completed"
  /\ \A c \in Calls : answer[c] = "completed" => cache[TaskOf[c]] # None

(* An outcome is never replaced, by a thread that ends late or by a        *)
(* cancellation that arrives late (_execute). *)
AnswersAreFinal ==
  [][\A c \in Calls : answer[c] # None => answer'[c] = answer[c]]_vars

(* Callers need to know no more than the contract: thread, cache, queue    *)
(* and semaphore only ever do what it allows.  One outcome per call, no    *)
(* more factories at work than slots, no second run of a task that has a   *)
(* good result, and no "completed" without one (execute, _execute).        *)
Contract == INSTANCE ExecutorContract WITH stage <- pc, outcome <- answer
ImplementsContract == Contract!Spec

(* Threads may hang for ever and fill the pool: every call of a batch is   *)
(* still answered, and the batch returns unless it was cancelled           *)
(* (execute_many). *)
EveryCallAnswered ==
  \A b \in Batches :
    batch[b] = "gathering" ~>
      /\ batch[b] \in {"returned", "cancelled"}
      /\ \A c \in CallsOf(b) : answer[c] # None
=============================================================================
