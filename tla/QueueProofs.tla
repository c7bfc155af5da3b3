---------------------------- MODULE QueueProofs ----------------------------
(***************************************************************************)
(* Proofs about TaskQueue, for any number of tasks, runners and attempts,  *)
(* and about WorkerBatch, which moves the queue only by steps of           *)
(* TaskQueue, so that what is proved of the queue holds under it.          *)
(*                                                                         *)
(* Type correctness holds in every deployment.  The other theorems assume  *)
(* OneStore (all runners share one SQLitePersistence, so its RLock makes   *)
(* every method atomic) and, where stale outcomes matter, OwnIds (no two   *)
(* runners present the same worker id).  The runs of TaskQueue show that   *)
(* neither assumption can be dropped.                                      *)
(***************************************************************************)
EXTENDS WorkerBatch, FiniteSetTheorems, WellFoundedInduction, TLAPS

OneStore == \A r, s \in Runners : Conn[r] = Conn[s]
OwnIds == \A r, s \in Runners : WorkerId[r] = WorkerId[s] => r = s

-----------------------------------------------------------------------------
(* What the three row updates of the store produce, field by field.        *)

LEMMA LeasedRow ==
  ASSUME NEW record \in Rows, NEW attempt \in Nat, NEW id \in WorkerIds,
         clock \in Nat
  PROVE  /\ Leased(record, attempt, id) \in Rows
         /\ Leased(record, attempt, id).status = "running"
         /\ Leased(record, attempt, id).attempt = attempt
         /\ Leased(record, attempt, id).owner = id
         /\ Leased(record, attempt, id).outcome = record.outcome
<1>1. clock + Lease \in Nat
  BY LimitsAssumption
<1>2. QED
  BY <1>1 DEF Leased, Rows, Statuses

LEMMA SettledRow ==
  ASSUME NEW record \in Rows, NEW outcome \in Outcomes
  PROVE  /\ Settled(record, outcome) \in Rows
         /\ Settled(record, outcome).status \in Terminal
         /\ Settled(record, outcome).attempt = record.attempt
         /\ Settled(record, outcome).owner = None
         /\ Settled(record, outcome).outcome = outcome
  BY DEF Settled, Rows, Statuses, Terminal

LEMMA RequeuedRow ==
  ASSUME NEW record \in Rows, NEW due \in Nat
  PROVE  /\ Requeued(record, due) \in Rows
         /\ Requeued(record, due).status = "retry"
         /\ Requeued(record, due).attempt = record.attempt
         /\ Requeued(record, due).owner = None
         /\ Requeued(record, due).outcome = record.outcome
  BY DEF Requeued, Rows, Statuses, Terminal

LEMMA IdleRun == Idle \in Runs /\ Idle.pc = "idle"
  BY DEF Idle, Runs, InStore, Kinds

LEMMA OutcomeType ==
  ASSUME NEW r \in Runners, run[r] \in Runs
  PROVE  /\ Outcome(r) \in Outcomes
         /\ Outcome(r).kind = run[r].kind
         /\ Outcome(r).attempt = run[r].attempt
  BY DEF Outcome, Outcomes, Runs

LEMMA BackoffType == ASSUME NEW attempt \in Nat PROVE Backoff(attempt) \in Nat
  BY DEF Backoff

-----------------------------------------------------------------------------
(* Type correctness.                                                       *)

LEMMA TypeInit == Init => TypeOK
  BY RunnersAssumption
     DEF Init, TypeOK, NoRow, Rows, Statuses, Terminal, Idle, Runs, InStore,
         Kinds

LEMMA TypeStep == TypeOK /\ [Next]_vars => TypeOK'
<1> SUFFICES ASSUME TypeOK, [Next]_vars PROVE TypeOK'
  OBVIOUS
<1> USE IdleRun DEF TypeOK
<1>1. ASSUME NEW c \in Connections, NEW t \in Tasks, Enqueue(c, t)
      PROVE TypeOK'
  <2> DEFINE new == [NoRow EXCEPT !.status = "queued", !.attempt = 1,
                                  !.available = clock]
  <2>1. new \in Rows /\ new.status = "queued" /\ new.owner = None
    BY DEF NoRow, Rows, Statuses
  <2>2. row' = [row EXCEPT ![t] = new] /\ UNCHANGED <<clock, run, faults>>
    BY <1>1 DEF Enqueue
  <2> HIDE DEF new
  <2>3. QED
    BY <2>1, <2>2
<1>2. ASSUME NEW r \in Runners, Claim(r) PROVE TypeOK'
  <2>1. PICK t \in Tasks :
          /\ row' = [row EXCEPT ![t] =
                       Leased(row[t], NextAttempt(t), WorkerId[r])]
          /\ run' = [run EXCEPT ![r] = [Idle EXCEPT !.pc = "claimed",
                                                    !.task = t]]
          /\ UNCHANGED <<clock, faults>>
    BY <1>2 DEF Claim
  <2> DEFINE new == Leased(row[t], NextAttempt(t), WorkerId[r])
             went == [Idle EXCEPT !.pc = "claimed", !.task = t]
  <2>2. NextAttempt(t) \in Nat
    BY DEF NextAttempt, Rows
  <2>3. WorkerId[r] \in WorkerIds /\ WorkerId[r] # None
    BY RunnersAssumption
  <2>4. new \in Rows /\ new.status = "running" /\ new.owner # None
    BY <2>2, <2>3, LeasedRow
  <2>5. went \in Runs /\ went.task \in Tasks
    BY TasksAssumption DEF Idle, Runs, InStore, Kinds
  <2>6. row' = [row EXCEPT ![t] = new] /\ run' = [run EXCEPT ![r] = went]
    BY <2>1
  <2> HIDE DEF new, went
  <2>7. QED
    BY <2>1, <2>4, <2>5, <2>6
<1>3. ASSUME NEW r \in Runners, ReadBack(r) PROVE TypeOK'
  <2> DEFINE went == [run[r] EXCEPT !.pc = "executing",
                                    !.attempt = row[run[r].task].attempt]
  <2>1. run[r].pc = "claimed" /\ run[r].task \in Tasks
    BY <1>3 DEF ReadBack
  <2>2. went \in Runs /\ went.task \in Tasks
    BY <2>1 DEF Runs, InStore, Rows
  <2>3. /\ \/ run' = [run EXCEPT ![r] = went]
           \/ run' = [run EXCEPT ![r] = Idle]
        /\ UNCHANGED <<clock, row, faults>>
    BY <1>3 DEF ReadBack
  <2> HIDE DEF went
  <2>4. QED
    BY <2>2, <2>3
<1>4. ASSUME NEW r \in Runners, NEW kind \in Kinds, Check(r, kind)
      PROVE TypeOK'
  <2> DEFINE went == [run[r] EXCEPT
                        !.pc = IF Retries(r, kind) THEN "retrying"
                                                   ELSE "completing",
                        !.kind = kind,
                        !.due = clock + Backoff(run[r].attempt)]
  <2>1. run[r] \in Runs /\ run[r].attempt \in Nat /\ run[r].task \in Tasks
    BY <1>4 DEF Check, Runs
  <2>2. Backoff(run[r].attempt) \in Nat
    BY <2>1, BackoffType
  <2>3. clock + Backoff(run[r].attempt) \in Nat
    BY <2>2
  <2>4. went \in Runs /\ went.task \in Tasks
    BY <2>1, <2>3 DEF Runs, InStore
  <2>5. run' = [run EXCEPT ![r] = went] /\ UNCHANGED <<clock, row, faults>>
    BY <1>4 DEF Check
  <2> HIDE DEF went
  <2>6. QED
    BY <2>4, <2>5
<1>5. ASSUME NEW r \in Runners, NEW kind \in Kinds, Reject(r, kind)
      PROVE TypeOK'
  BY <1>5 DEF Reject
<1>6. ASSUME NEW r \in Runners, Complete(r) PROVE TypeOK'
  <2> DEFINE new == Settled(row[run[r].task], Outcome(r))
  <2>1. run[r].task \in Tasks
    BY <1>6 DEF Complete
  <2>2. Outcome(r) \in Outcomes
    BY OutcomeType
  <2>3. new \in Rows /\ new.status # "running" /\ new.owner = None
    BY <2>1, <2>2, SettledRow DEF Terminal
  <2>4. /\ row' = [row EXCEPT ![run[r].task] = new]
        /\ run' = [run EXCEPT ![r] = Idle]
        /\ UNCHANGED <<clock, faults>>
    BY <1>6 DEF Complete
  <2> HIDE DEF new
  <2>5. QED
    BY <2>1, <2>3, <2>4
<1>7. ASSUME NEW r \in Runners, Retry(r) PROVE TypeOK'
  <2> DEFINE new == Requeued(row[run[r].task], run[r].due)
  <2>1. run[r].task \in Tasks /\ run[r].due \in Nat
    BY <1>7 DEF Retry, Runs
  <2>2. new \in Rows /\ new.status = "retry" /\ new.owner = None
    BY <2>1, RequeuedRow
  <2>3. /\ row' = [row EXCEPT ![run[r].task] = new]
        /\ run' = [run EXCEPT ![r] = Idle]
        /\ UNCHANGED <<clock, faults>>
    BY <1>7 DEF Retry
  <2> HIDE DEF new
  <2>4. QED
    BY <2>1, <2>2, <2>3
<1>8. ASSUME NEW r \in Runners, Renew(r) PROVE TypeOK'
  <2> DEFINE new == [row[run[r].task] EXCEPT !.expires = clock + Lease]
  <2>1. run[r].task \in Tasks
    BY <1>8 DEF Renew
  <2>2. /\ new \in Rows
        /\ new.status = row[run[r].task].status
        /\ new.owner = row[run[r].task].owner
    BY <2>1, LimitsAssumption DEF Rows
  <2>3. /\ row' = [row EXCEPT ![run[r].task] = new]
        /\ UNCHANGED <<clock, run, faults>>
    BY <1>8 DEF Renew
  <2> HIDE DEF new
  <2>4. QED
    BY <2>1, <2>2, <2>3
<1>9. ASSUME NEW c \in Connections, Crash(c) PROVE TypeOK'
  BY <1>9 DEF Crash
<1>10. ASSUME NEW r \in Runners, Cancel(r) PROVE TypeOK'
  BY <1>10 DEF Cancel
<1>11. CASE Tick
  BY <1>11 DEF Tick
<1>12. CASE UNCHANGED vars
  BY <1>12 DEF vars
<1>13. QED
  BY <1>1, <1>2, <1>3, <1>4, <1>5, <1>6, <1>7, <1>8, <1>9, <1>10, <1>11,
     <1>12
     DEF Next, RunOnce, Finish, Write, ClaimNothing

(* In every deployment the table and the runners keep their types, and a   *)
(* row carries a lease exactly while it is running. *)
THEOREM TypeCorrect == Spec => []TypeOK
  BY TypeInit, TypeStep, PTL DEF Spec

-----------------------------------------------------------------------------
(* Field by field, what each step does to the row and to its runner.       *)

LEMMA ClaimEffect ==
  ASSUME TypeOK, NEW r \in Runners, Claim(r)
  PROVE  \E t \in Tasks :
           /\ run[r].pc = "idle" /\ Free(Conn[r])
           /\ row[t].status \in {"queued", "retry", "running"}
           /\ row' = [row EXCEPT ![t] = row'[t]]
           /\ row'[t].status = "running"
           /\ row'[t].owner = WorkerId[r]
           /\ row'[t].attempt = NextAttempt(t)
           /\ run' = [run EXCEPT ![r] = run'[r]]
           /\ run'[r].pc = "claimed" /\ run'[r].task = t
<1>1. PICK t \in Tasks :
        /\ First(t)
        /\ row' = [row EXCEPT ![t] =
                     Leased(row[t], NextAttempt(t), WorkerId[r])]
        /\ run' = [run EXCEPT ![r] = [Idle EXCEPT !.pc = "claimed",
                                                  !.task = t]]
  BY DEF Claim
<1>2. row[t].status \in {"queued", "retry", "running"}
  BY <1>1 DEF First, Claimable
<1> DEFINE new == Leased(row[t], NextAttempt(t), WorkerId[r])
           went == [Idle EXCEPT !.pc = "claimed", !.task = t]
<1>3. /\ new.status = "running"
      /\ new.owner = WorkerId[r]
      /\ new.attempt = NextAttempt(t)
  <2>1. row[t] \in Rows /\ WorkerId[r] \in WorkerIds /\ clock \in Nat
    BY RunnersAssumption DEF TypeOK
  <2>2. NextAttempt(t) \in Nat
    BY <2>1 DEF NextAttempt, Rows
  <2>3. QED
    BY <2>1, <2>2, LeasedRow
<1>4. went.pc = "claimed" /\ went.task = t
  BY DEF Idle
<1>5. run[r].pc = "idle" /\ Free(Conn[r])
  BY DEF Claim
<1>6. row' = [row EXCEPT ![t] = new] /\ run' = [run EXCEPT ![r] = went]
  BY <1>1
<1> HIDE DEF new, went
<1>7. row'[t] = new /\ run'[r] = went
  BY <1>6 DEF TypeOK
<1>8. QED
  BY <1>2, <1>3, <1>4, <1>5, <1>6, <1>7

LEMMA ReadBackEffect ==
  ASSUME TypeOK, NEW r \in Runners, ReadBack(r)
  PROVE  /\ run[r].pc = "claimed" /\ row' = row
         /\ run' = [run EXCEPT ![r] = run'[r]]
         /\ \/ run'[r].pc = "idle"
            \/ /\ run'[r].pc = "executing"
               /\ run'[r].task = run[r].task
               /\ run'[r].attempt = row[run[r].task].attempt
<1> DEFINE went == [run[r] EXCEPT !.pc = "executing",
                                  !.attempt = row[run[r].task].attempt]
<1>1. /\ went.pc = "executing" /\ went.task = run[r].task
      /\ went.attempt = row[run[r].task].attempt
  BY DEF TypeOK, Runs
<1>2. /\ run[r].pc = "claimed" /\ row' = row
      /\ \/ run' = [run EXCEPT ![r] = went]
         \/ run' = [run EXCEPT ![r] = Idle]
  BY DEF ReadBack
<1> HIDE DEF went
<1>3. QED
  BY <1>1, <1>2, IdleRun DEF TypeOK

LEMMA CheckEffect ==
  ASSUME TypeOK, NEW r \in Runners, NEW kind \in Kinds, Check(r, kind)
  PROVE  /\ run[r].pc = "executing" /\ Free(Conn[r]) /\ Owns(r)
         /\ row' = row
         /\ run' = [run EXCEPT ![r] = run'[r]]
         /\ run'[r].pc \in {"retrying", "completing"}
         /\ run'[r].pc = "retrying" <=> Retries(r, kind)
         /\ run'[r].task = run[r].task /\ run'[r].attempt = run[r].attempt
         /\ run'[r].kind = kind
<1> DEFINE went == [run[r] EXCEPT
                      !.pc = IF Retries(r, kind) THEN "retrying"
                                                 ELSE "completing",
                      !.kind = kind,
                      !.due = clock + Backoff(run[r].attempt)]
<1>1. /\ went.pc = (IF Retries(r, kind) THEN "retrying" ELSE "completing")
      /\ went.task = run[r].task
      /\ went.attempt = run[r].attempt
      /\ went.kind = kind
  BY DEF TypeOK, Runs
<1>2. /\ run[r].pc = "executing" /\ Free(Conn[r]) /\ Owns(r) /\ row' = row
      /\ run' = [run EXCEPT ![r] = went]
  BY DEF Check
<1> HIDE DEF went
<1>3. QED
  BY <1>1, <1>2 DEF TypeOK

LEMMA CompleteEffect ==
  ASSUME TypeOK, NEW r \in Runners, Complete(r)
  PROVE  /\ run[r].pc = "completing" /\ run[r].task \in Tasks
         /\ row' = [row EXCEPT ![run[r].task] = row'[run[r].task]]
         /\ row'[run[r].task].status \in Terminal
         /\ row'[run[r].task].attempt = row[run[r].task].attempt
         /\ row'[run[r].task].outcome.kind = run[r].kind
         /\ row'[run[r].task].outcome.attempt = run[r].attempt
         /\ run' = [run EXCEPT ![r] = Idle]
<1> DEFINE new == Settled(row[run[r].task], Outcome(r))
<1>1. run[r].pc = "completing" /\ run[r].task \in Tasks
  BY DEF Complete, TypeOK
<1>2. /\ Outcome(r) \in Outcomes
      /\ Outcome(r).kind = run[r].kind
      /\ Outcome(r).attempt = run[r].attempt
  BY OutcomeType DEF TypeOK
<1>3. /\ new.status \in Terminal
      /\ new.attempt = row[run[r].task].attempt
      /\ new.outcome = Outcome(r)
  BY <1>1, <1>2, SettledRow DEF TypeOK
<1>4. row' = [row EXCEPT ![run[r].task] = new]
      /\ run' = [run EXCEPT ![r] = Idle]
  BY DEF Complete
<1> HIDE DEF new
<1>5. row'[run[r].task] = new
  BY <1>1, <1>4 DEF TypeOK
<1>6. QED
  BY <1>1, <1>2, <1>3, <1>4, <1>5

LEMMA RetryEffect ==
  ASSUME TypeOK, NEW r \in Runners, Retry(r)
  PROVE  /\ run[r].pc = "retrying" /\ run[r].task \in Tasks
         /\ row' = [row EXCEPT ![run[r].task] = row'[run[r].task]]
         /\ row'[run[r].task].status = "retry"
         /\ row'[run[r].task].attempt = row[run[r].task].attempt
         /\ run' = [run EXCEPT ![r] = Idle]
<1> DEFINE new == Requeued(row[run[r].task], run[r].due)
<1>1. run[r].pc = "retrying" /\ run[r].task \in Tasks /\ run[r].due \in Nat
  BY DEF Retry, TypeOK, Runs
<1>2. new.status = "retry" /\ new.attempt = row[run[r].task].attempt
  BY <1>1, RequeuedRow DEF TypeOK
<1>3. row' = [row EXCEPT ![run[r].task] = new]
      /\ run' = [run EXCEPT ![r] = Idle]
  BY DEF Retry
<1> HIDE DEF new
<1>4. row'[run[r].task] = new
  BY <1>1, <1>3 DEF TypeOK
<1>5. QED
  BY <1>1, <1>2, <1>3, <1>4

LEMMA RenewEffect ==
  ASSUME TypeOK, NEW r \in Runners, Renew(r)
  PROVE  /\ run[r].task \in Tasks /\ Owns(r) /\ run' = run
         /\ row' = [row EXCEPT ![run[r].task] = row'[run[r].task]]
         /\ row'[run[r].task].status = row[run[r].task].status
         /\ row'[run[r].task].owner = row[run[r].task].owner
         /\ row'[run[r].task].attempt = row[run[r].task].attempt
<1> DEFINE new == [row[run[r].task] EXCEPT !.expires = clock + Lease]
<1>1. run[r].task \in Tasks /\ Owns(r) /\ run' = run
  BY DEF Renew, TypeOK
<1>2. /\ new.status = row[run[r].task].status
      /\ new.owner = row[run[r].task].owner
      /\ new.attempt = row[run[r].task].attempt
  BY <1>1 DEF TypeOK, Rows
<1>3. row' = [row EXCEPT ![run[r].task] = new]
  BY DEF Renew
<1> HIDE DEF new
<1>4. row'[run[r].task] = new
  BY <1>1, <1>3 DEF TypeOK
<1>5. QED
  BY <1>1, <1>2, <1>3, <1>4

LEMMA EnqueueEffect ==
  ASSUME TypeOK, NEW c \in Connections, NEW t \in Tasks, Enqueue(c, t)
  PROVE  /\ row[t].status = "absent" /\ run' = run
         /\ row' = [row EXCEPT ![t] = row'[t]]
         /\ row'[t].status = "queued" /\ row'[t].attempt = 1
  BY DEF Enqueue, NoRow, TypeOK

(* Crashes and cancellations only empty runners. *)
LEMMA FaultEffect ==
  ASSUME TypeOK,
         \/ \E c \in Connections : Crash(c)
         \/ \E r \in Runners : Cancel(r)
         \/ \E r \in Runners, kind \in Kinds : Reject(r, kind)
  PROVE  row' = row /\ \A r \in Runners : run'[r] = run[r] \/ run'[r] = Idle
  BY DEF Crash, Cancel, Reject, TypeOK

-----------------------------------------------------------------------------
(* StoreInv: one store, any worker ids.                                    *)

LEMMA StoreInit == Init => StoreInv
  BY DEF Init, StoreInv, StoreSerial, OwnedInStore, VerdictStands,
         QueuedUntouched, AttemptsReached, AttemptsUnique, Idle, NoRow,
         InStore, Live

(* Outside the store a runner that takes the lock finds nobody inside. *)
LEMMA LockFree ==
  ASSUME OneStore, NEW r \in Runners, Free(Conn[r])
  PROVE  \A s \in Runners : run[s].pc \notin InStore
  BY DEF OneStore, Free

LEMMA StoreClaim ==
  ASSUME OneStore, TypeOK, StoreInv, NEW r \in Runners, Claim(r)
  PROVE  StoreInv'
<1> USE DEF StoreInv, TypeOK
<1>1. PICK t \in Tasks :
        /\ run[r].pc = "idle" /\ Free(Conn[r])
        /\ row[t].status \in {"queued", "retry", "running"}
        /\ row' = [row EXCEPT ![t] = row'[t]]
        /\ row'[t].status = "running"
        /\ row'[t].owner = WorkerId[r]
        /\ row'[t].attempt = NextAttempt(t)
        /\ run' = [run EXCEPT ![r] = run'[r]]
        /\ run'[r].pc = "claimed" /\ run'[r].task = t
  BY ClaimEffect
<1>2. \A s \in Runners : run[s].pc \notin InStore
  BY <1>1, LockFree
<1>3. \A s \in Runners : s # r => run'[s] = run[s]
  BY <1>1
<1>4. \A u \in Tasks : u # t => row'[u] = row[u]
  BY <1>1
<1>5. StoreSerial' /\ OwnedInStore' /\ VerdictStands'
  BY <1>1, <1>2, <1>3
     DEF StoreSerial, OwnedInStore, VerdictStands, Owns, Retries, InStore
<1>6. QueuedUntouched'
  BY <1>1, <1>3, <1>4 DEF QueuedUntouched
<1>7. ASSUME NEW s \in Runners, run[s].pc \in Live, run[s].task = t
      PROVE  run[s].attempt < row'[t].attempt
  <2>1. row[t].status # "queued"
    BY <1>7 DEF QueuedUntouched, Live
  <2>2. row'[t].attempt = row[t].attempt + 1
    BY <1>1, <2>1 DEF NextAttempt
  <2>3. run[s].attempt <= row[t].attempt
    BY <1>7 DEF AttemptsReached
  <2>4. run[s].attempt \in Nat /\ row[t].attempt \in Nat
    BY DEF Runs, Rows
  <2>5. QED
    BY <2>2, <2>3, <2>4
<1>8. ASSUME NEW s \in Runners, run'[s].pc \in Live
      PROVE  s # r /\ run'[s] = run[s]
  BY <1>1, <1>3, <1>8 DEF Live
<1>9. AttemptsReached'
  <2> SUFFICES ASSUME NEW x \in Runners, NEW y \in Runners,
                      run'[x].pc \in Live,
                      run'[y].pc \in Live \cup {"claimed"},
                      run'[x].task = run'[y].task
               PROVE  /\ run'[x].attempt <= row'[run'[x].task].attempt
                      /\ run'[y].pc = "claimed" =>
                           run'[x].attempt < row'[run'[x].task].attempt
    BY DEF AttemptsReached
  <2>1. x # r /\ run'[x] = run[x] /\ run[x].pc \in Live
    BY <1>8
  <2>2. run[x].task \in Tasks
    BY <2>1 DEF Live
  <2>3. CASE run[x].task = t
    <3>1. run[x].attempt \in Nat /\ NextAttempt(t) \in Nat
      BY DEF Runs, Rows, NextAttempt
    <3>2. QED
      BY <1>1, <1>7, <2>1, <2>3, <3>1
  <2>4. CASE run[x].task # t
    <3>1. y # r /\ run'[y] = run[y]
      BY <1>1, <1>3, <2>1, <2>4
    <3>2. QED
      BY <1>4, <2>1, <2>2, <2>4, <3>1 DEF AttemptsReached
  <2>5. QED
    BY <2>3, <2>4
<1>10. AttemptsUnique'
  BY <1>8 DEF AttemptsUnique, Live
<1>11. QED
  BY <1>5, <1>6, <1>9, <1>10

LEMMA StoreReadBack ==
  ASSUME OneStore, TypeOK, StoreInv, NEW r \in Runners, ReadBack(r)
  PROVE  StoreInv'
<1> USE DEF StoreInv, TypeOK
<1>1. /\ run[r].pc = "claimed" /\ row' = row
      /\ run' = [run EXCEPT ![r] = run'[r]]
      /\ \/ run'[r].pc = "idle"
         \/ /\ run'[r].pc = "executing"
            /\ run'[r].task = run[r].task
            /\ run'[r].attempt = row[run[r].task].attempt
  BY ReadBackEffect
<1>2. \A s \in Runners : s # r => run'[s] = run[s]
  BY <1>1
<1>3. \A s \in Runners : s # r => run[s].pc \notin InStore
  BY <1>1 DEF StoreSerial, InStore
<1>4. StoreSerial' /\ OwnedInStore' /\ VerdictStands'
  BY <1>1, <1>2, <1>3
     DEF StoreSerial, OwnedInStore, VerdictStands, Owns, Retries, InStore
<1>5. QueuedUntouched'
  BY <1>1, <1>2 DEF QueuedUntouched
<1>6. AttemptsReached'
  BY <1>1, <1>2, <1>3 DEF AttemptsReached, Live, InStore, Runs, Rows
<1>7. AttemptsUnique'
  BY <1>1, <1>2 DEF AttemptsUnique, AttemptsReached, Live, Runs, Rows
<1>8. QED
  BY <1>4, <1>5, <1>6, <1>7

LEMMA StoreCheck ==
  ASSUME OneStore, TypeOK, StoreInv, NEW r \in Runners, NEW kind \in Kinds,
         Check(r, kind)
  PROVE  StoreInv'
<1> USE DEF StoreInv, TypeOK
<1>1. /\ run[r].pc = "executing" /\ Free(Conn[r]) /\ Owns(r)
      /\ row' = row
      /\ run' = [run EXCEPT ![r] = run'[r]]
      /\ run'[r].pc \in {"retrying", "completing"}
      /\ run'[r].pc = "retrying" <=> Retries(r, kind)
      /\ run'[r].task = run[r].task /\ run'[r].attempt = run[r].attempt
      /\ run'[r].kind = kind
  BY CheckEffect
<1>2. \A s \in Runners : s # r => run'[s] = run[s]
  BY <1>1
<1>3. \A s \in Runners : run[s].pc \notin InStore
  BY <1>1, LockFree
<1>4. StoreSerial' /\ OwnedInStore'
  BY <1>1, <1>2, <1>3 DEF StoreSerial, OwnedInStore, Owns
<1>5. VerdictStands'
  BY <1>1, <1>2, <1>3 DEF VerdictStands, Retries, InStore
<1>6. QueuedUntouched'
  BY <1>1, <1>2 DEF QueuedUntouched
<1>7. \A s \in Runners : /\ run'[s].task = run[s].task
                         /\ run'[s].attempt = run[s].attempt
                         /\ run'[s].pc \in Live <=> run[s].pc \in Live
                         /\ run'[s].pc = "claimed" <=> run[s].pc = "claimed"
  BY <1>1, <1>2 DEF Live
<1>8. AttemptsReached'
  BY <1>1, <1>7 DEF AttemptsReached
<1>9. AttemptsUnique'
  BY <1>7 DEF AttemptsUnique, Live
<1>10. QED
  BY <1>4, <1>5, <1>6, <1>8, <1>9

(* A runner that leaves the store after its UPDATE. *)
LEMMA StoreWrite ==
  ASSUME TypeOK, StoreInv, NEW r \in Runners, run[r].pc \in InStore,
         run[r].task \in Tasks,
         row' = [row EXCEPT ![run[r].task] = row'[run[r].task]],
         row'[run[r].task].status \notin {"absent", "queued"},
         row'[run[r].task].attempt = row[run[r].task].attempt,
         run' = [run EXCEPT ![r] = Idle]
  PROVE  StoreInv'
<1> USE IdleRun DEF StoreInv, TypeOK
<1>1. run'[r] = Idle /\ \A s \in Runners : s # r => run'[s] = run[s]
  OBVIOUS
<1>2. \A s \in Runners : run'[s].pc \notin InStore
  BY <1>1 DEF StoreSerial, InStore
<1>3. StoreSerial' /\ OwnedInStore' /\ VerdictStands'
  BY <1>2 DEF StoreSerial, OwnedInStore, VerdictStands, InStore
<1>4. \A u \in Tasks : row'[u].attempt = row[u].attempt
  OBVIOUS
<1>5. QueuedUntouched'
  BY <1>1, <1>4 DEF QueuedUntouched
<1>6. AttemptsReached'
  BY <1>1, <1>4 DEF AttemptsReached, Live
<1>7. AttemptsUnique'
  BY <1>1 DEF AttemptsUnique
<1>8. QED
  BY <1>3, <1>5, <1>6, <1>7

LEMMA StoreEnqueue ==
  ASSUME TypeOK, StoreInv, NEW c \in Connections, NEW t \in Tasks,
         Enqueue(c, t)
  PROVE  StoreInv'
<1> USE DEF StoreInv, TypeOK
<1>1. /\ row[t].status = "absent" /\ run' = run
      /\ row' = [row EXCEPT ![t] = row'[t]]
      /\ row'[t].status = "queued" /\ row'[t].attempt = 1
  BY EnqueueEffect
<1>2. \A r \in Runners : run[r].pc # "idle" =>
        run[r].task # t /\ row'[run[r].task] = row[run[r].task]
  BY <1>1 DEF QueuedUntouched
<1>3. OwnedInStore'
  BY <1>1, <1>2 DEF OwnedInStore, Owns, InStore
<1>4. StoreSerial' /\ VerdictStands' /\ AttemptsUnique'
  BY <1>1 DEF StoreSerial, VerdictStands, Retries, AttemptsUnique
<1>5. QueuedUntouched'
  BY <1>1, <1>2 DEF QueuedUntouched
<1>6. AttemptsReached'
  BY <1>1, <1>2 DEF AttemptsReached, Live
<1>7. QED
  BY <1>3, <1>4, <1>5, <1>6

LEMMA StoreRenew ==
  ASSUME TypeOK, StoreInv, NEW r \in Runners, Renew(r)
  PROVE  StoreInv'
<1> USE DEF StoreInv, TypeOK
<1>1. /\ run' = run
      /\ \A u \in Tasks : /\ row'[u].status = row[u].status
                          /\ row'[u].owner = row[u].owner
                          /\ row'[u].attempt = row[u].attempt
  BY RenewEffect
<1>2. StoreSerial' /\ VerdictStands' /\ AttemptsUnique'
  BY <1>1 DEF StoreSerial, VerdictStands, Retries, AttemptsUnique
<1>3. OwnedInStore' /\ QueuedUntouched'
  BY <1>1 DEF OwnedInStore, Owns, QueuedUntouched, InStore
<1>4. AttemptsReached'
  BY <1>1 DEF AttemptsReached, Live
<1>5. QED
  BY <1>2, <1>3, <1>4

LEMMA StoreFault ==
  ASSUME TypeOK, StoreInv, row' = row,
         \A r \in Runners : run'[r] = run[r] \/ run'[r] = Idle
  PROVE  StoreInv'
<1> USE IdleRun DEF StoreInv, TypeOK
<1>1. StoreSerial' /\ OwnedInStore' /\ VerdictStands'
  BY DEF StoreSerial, OwnedInStore, VerdictStands, Retries, Owns, InStore
<1>2. QueuedUntouched'
  BY DEF QueuedUntouched
<1>3. AttemptsReached'
  BY DEF AttemptsReached, Live
<1>4. AttemptsUnique'
  BY DEF AttemptsUnique
<1>5. QED
  BY <1>1, <1>2, <1>3, <1>4

LEMMA StoreStep ==
  ASSUME OneStore PROVE TypeOK /\ StoreInv /\ [Next]_vars => StoreInv'
<1> SUFFICES ASSUME TypeOK, StoreInv, [Next]_vars PROVE StoreInv'
  OBVIOUS
<1>1. ASSUME NEW c \in Connections, NEW t \in Tasks, Enqueue(c, t)
      PROVE StoreInv'
  BY <1>1, StoreEnqueue
<1>2. ASSUME NEW r \in Runners, Claim(r) PROVE StoreInv'
  BY <1>2, StoreClaim
<1>3. ASSUME NEW r \in Runners, ReadBack(r) PROVE StoreInv'
  BY <1>3, StoreReadBack
<1>4. ASSUME NEW r \in Runners, NEW kind \in Kinds, Check(r, kind)
      PROVE StoreInv'
  BY <1>4, StoreCheck
<1>5. ASSUME NEW r \in Runners, NEW kind \in Kinds, Reject(r, kind)
      PROVE StoreInv'
  BY <1>5, FaultEffect, StoreFault
<1>6. ASSUME NEW r \in Runners, Complete(r) PROVE StoreInv'
  BY <1>6, CompleteEffect, StoreWrite DEF InStore, Terminal
<1>7. ASSUME NEW r \in Runners, Retry(r) PROVE StoreInv'
  BY <1>7, RetryEffect, StoreWrite DEF InStore
<1>8. ASSUME NEW r \in Runners, Renew(r) PROVE StoreInv'
  BY <1>8, StoreRenew
<1>9. ASSUME NEW c \in Connections, Crash(c) PROVE StoreInv'
  BY <1>9, FaultEffect, StoreFault
<1>10. ASSUME NEW r \in Runners, Cancel(r) PROVE StoreInv'
  BY <1>10, FaultEffect, StoreFault
<1>11. CASE Tick \/ UNCHANGED vars
  BY <1>11, StoreFault DEF Tick, vars
<1>12. QED
  BY <1>1, <1>2, <1>3, <1>4, <1>5, <1>6, <1>7, <1>8, <1>9, <1>10, <1>11
     DEF Next, RunOnce, Finish, Write, ClaimNothing

LEMMA StoreCorrect == ASSUME OneStore PROVE Spec => []StoreInv
  BY TypeCorrect, StoreInit, StoreStep, PTL DEF Spec

(* Over one store no two live executions of a task carry one attempt       *)
(* number, whichever worker ids they present.                              *)
THEOREM UniqueAttempts == ASSUME OneStore PROVE Spec => []AttemptsUnique
<1>1. StoreInv => AttemptsUnique
  BY DEF StoreInv
<1>2. QED
  BY <1>1, StoreCorrect, PTL

-----------------------------------------------------------------------------
(* Rows that are settled.                                                  *)

RowsFinal == \A t \in Tasks : row[t].status \in Terminal => row'[t] = row[t]

LEMMA FinalStep ==
  ASSUME OneStore PROVE TypeOK /\ StoreInv /\ [Next]_vars => RowsFinal
<1> SUFFICES ASSUME TypeOK, StoreInv, [Next]_vars PROVE RowsFinal
  OBVIOUS
<1> USE DEF RowsFinal, TypeOK, Terminal
<1>1. ASSUME NEW r \in Runners, run[r].pc \in InStore
      PROVE row[run[r].task].status = "running"
  BY <1>1 DEF StoreInv, OwnedInStore, Owns
<1>2. ASSUME NEW c \in Connections, NEW t \in Tasks, Enqueue(c, t)
      PROVE RowsFinal
  BY <1>2, EnqueueEffect
<1>3. ASSUME NEW r \in Runners, Claim(r) PROVE RowsFinal
  BY <1>3, ClaimEffect
<1>4. ASSUME NEW r \in Runners, Complete(r) PROVE RowsFinal
  BY <1>1, <1>4, CompleteEffect DEF InStore
<1>5. ASSUME NEW r \in Runners, Retry(r) PROVE RowsFinal
  BY <1>1, <1>5, RetryEffect DEF InStore
<1>6. ASSUME NEW r \in Runners, Renew(r) PROVE RowsFinal
  BY <1>6, RenewEffect DEF Owns
<1>7. CASE UNCHANGED row
  BY <1>7
<1>8. QED
  BY <1>2, <1>3, <1>4, <1>5, <1>6, <1>7
     DEF Next, RunOnce, Finish, Write, ReadBack, Check, Reject, Crash, Cancel,
         Tick, ClaimNothing, vars

(* Over one store a row that ended as completed or failed never changes:   *)
(* no late answer, retry or reclaim touches a committed result.            *)
THEOREM SettledRowsAreFinal == ASSUME OneStore PROVE Spec => TerminalIsFinal
<1>1. TypeOK /\ StoreInv /\ [Next]_vars => [RowsFinal]_vars
  BY FinalStep
<1>2. QED
  BY <1>1, TypeCorrect, StoreCorrect, PTL
     DEF Spec, TerminalIsFinal, RowsFinal
-----------------------------------------------------------------------------
(* OwnerInv: one store and a worker id of its own for every runner.        *)

LEMMA OwnerInit == Init => OwnerInv
  BY DEF Init, OwnerInv, OwnerIsLatest, OutcomeOfLastClaim, RetryWithinBudget,
         Idle, NoRow, Live, Terminal

(* The new owner's id is nobody else's, so earlier executions lose theirs. *)
LEMMA OwnerClaim ==
  ASSUME OwnIds, TypeOK, OwnerInv, NEW r \in Runners, Claim(r)
  PROVE  OwnerInv'
<1> USE DEF OwnerInv, TypeOK
<1>1. PICK t \in Tasks :
        /\ row' = [row EXCEPT ![t] = row'[t]]
        /\ row'[t].status = "running"
        /\ row'[t].owner = WorkerId[r]
        /\ run' = [run EXCEPT ![r] = run'[r]]
        /\ run'[r].pc = "claimed"
  BY ClaimEffect
<1>2. OwnerIsLatest'
  <2> SUFFICES ASSUME NEW s \in Runners, run'[s].pc \in Live, Owns(s)'
               PROVE  run'[s].attempt = row'[run'[s].task].attempt
    BY DEF OwnerIsLatest
  <2>1. s # r /\ run'[s] = run[s]
    BY <1>1 DEF Live
  <2>2. run[s].task # t
    BY <1>1, <2>1 DEF OwnIds, Owns
  <2>3. run[s].task \in Tasks /\ row'[run[s].task] = row[run[s].task]
    BY <1>1, <2>1, <2>2 DEF Live
  <2>4. QED
    BY <2>1, <2>3 DEF OwnerIsLatest, Owns
<1>3. OutcomeOfLastClaim' /\ RetryWithinBudget'
  BY <1>1 DEF OutcomeOfLastClaim, RetryWithinBudget, Terminal
<1>4. QED
  BY <1>2, <1>3

(* Steps that write no row and let an execution only keep its attempt,     *)
(* adopt the row's, or end. *)
LEMMA OwnerKeep ==
  ASSUME TypeOK, OwnerInv, row' = row,
         \A s \in Runners :
           run'[s].pc \in Live =>
             \/ /\ run[s].pc \in Live /\ run'[s].task = run[s].task
                /\ run'[s].attempt = run[s].attempt
             \/ run'[s].attempt = row[run'[s].task].attempt
  PROVE  OwnerInv'
  BY DEF OwnerInv, OwnerIsLatest, OutcomeOfLastClaim, RetryWithinBudget, Owns

(* The row an UPDATE in the store writes carries the writer's attempt. *)
LEMMA WriterIsLatest ==
  ASSUME StoreInv, OwnerInv, NEW r \in Runners,
         run[r].pc \in {"completing", "retrying"}
  PROVE  run[r].attempt = row[run[r].task].attempt
  BY DEF StoreInv, OwnedInStore, OwnerInv, OwnerIsLatest, InStore, Live

LEMMA OwnerComplete ==
  ASSUME TypeOK, StoreInv, OwnerInv, NEW r \in Runners, Complete(r)
  PROVE  OwnerInv'
<1> USE IdleRun DEF OwnerInv, TypeOK
<1> DEFINE t == run[r].task
<1>1. /\ run[r].pc = "completing" /\ t \in Tasks
      /\ row' = [row EXCEPT ![t] = row'[t]]
      /\ row'[t].status \in Terminal
      /\ row'[t].attempt = row[t].attempt
      /\ row'[t].outcome.attempt = run[r].attempt
      /\ run' = [run EXCEPT ![r] = Idle]
  BY CompleteEffect
<1>2. run[r].attempt = row[t].attempt
  BY <1>1, WriterIsLatest
<1> HIDE DEF t
<1>3. OwnerIsLatest'
  BY <1>1 DEF OwnerIsLatest, Owns, Live, Terminal
<1>4. OutcomeOfLastClaim' /\ RetryWithinBudget'
  BY <1>1, <1>2 DEF OutcomeOfLastClaim, RetryWithinBudget, Terminal
<1>5. QED
  BY <1>3, <1>4

LEMMA OwnerRetry ==
  ASSUME TypeOK, StoreInv, OwnerInv, NEW r \in Runners, Retry(r)
  PROVE  OwnerInv'
<1> USE IdleRun DEF OwnerInv, TypeOK
<1> DEFINE t == run[r].task
<1>1. /\ run[r].pc = "retrying" /\ t \in Tasks
      /\ row' = [row EXCEPT ![t] = row'[t]]
      /\ row'[t].status = "retry"
      /\ row'[t].attempt = row[t].attempt
      /\ run' = [run EXCEPT ![r] = Idle]
  BY RetryEffect
<1>2. run[r].attempt = row[t].attempt
  BY <1>1, WriterIsLatest
<1>3. run[r].attempt < MaxAttempts
  BY <1>1 DEF StoreInv, VerdictStands, Retries
<1> HIDE DEF t
<1>4. OwnerIsLatest'
  BY <1>1 DEF OwnerIsLatest, Owns, Live
<1>5. OutcomeOfLastClaim' /\ RetryWithinBudget'
  BY <1>1, <1>2, <1>3 DEF OutcomeOfLastClaim, RetryWithinBudget, Terminal
<1>6. QED
  BY <1>4, <1>5

LEMMA OwnerEnqueue ==
  ASSUME TypeOK, StoreInv, OwnerInv, NEW c \in Connections, NEW t \in Tasks,
         Enqueue(c, t)
  PROVE  OwnerInv'
<1> USE DEF OwnerInv, TypeOK
<1>1. /\ run' = run
      /\ row' = [row EXCEPT ![t] = row'[t]]
      /\ row'[t].status = "queued"
  BY EnqueueEffect
<1>2. OwnerIsLatest'
  BY <1>1 DEF OwnerIsLatest, Owns, Live
<1>3. OutcomeOfLastClaim' /\ RetryWithinBudget'
  BY <1>1 DEF OutcomeOfLastClaim, RetryWithinBudget, Terminal
<1>4. QED
  BY <1>2, <1>3

LEMMA OwnerRenew ==
  ASSUME TypeOK, OwnerInv, NEW r \in Runners, Renew(r)
  PROVE  OwnerInv'
<1> USE DEF OwnerInv, TypeOK
<1>1. /\ run[r].task \in Tasks /\ Owns(r) /\ run' = run
      /\ row' = [row EXCEPT ![run[r].task] = row'[run[r].task]]
      /\ row'[run[r].task].status = row[run[r].task].status
      /\ row'[run[r].task].owner = row[run[r].task].owner
      /\ row'[run[r].task].attempt = row[run[r].task].attempt
  BY RenewEffect
<1>2. OwnerIsLatest'
  BY <1>1 DEF OwnerIsLatest, Owns, Live
<1>3. OutcomeOfLastClaim' /\ RetryWithinBudget'
  BY <1>1 DEF OutcomeOfLastClaim, RetryWithinBudget, Terminal, Owns
<1>4. QED
  BY <1>2, <1>3

LEMMA OwnerStep ==
  ASSUME OwnIds
  PROVE  TypeOK /\ StoreInv /\ OwnerInv /\ [Next]_vars => OwnerInv'
<1> SUFFICES ASSUME TypeOK, StoreInv, OwnerInv, [Next]_vars PROVE OwnerInv'
  OBVIOUS
<1>1. ASSUME NEW c \in Connections, NEW t \in Tasks, Enqueue(c, t)
      PROVE OwnerInv'
  BY <1>1, OwnerEnqueue
<1>2. ASSUME NEW r \in Runners, Claim(r) PROVE OwnerInv'
  BY <1>2, OwnerClaim
<1>3. ASSUME NEW r \in Runners, ReadBack(r) PROVE OwnerInv'
  <2>1. /\ row' = row
        /\ run' = [run EXCEPT ![r] = run'[r]]
        /\ \/ run'[r].pc = "idle"
           \/ run'[r].task = run[r].task
              /\ run'[r].attempt = row[run[r].task].attempt
    BY <1>3, ReadBackEffect
  <2>2. QED
    BY <2>1, OwnerKeep DEF TypeOK, Live
<1>4. ASSUME NEW r \in Runners, NEW kind \in Kinds, Check(r, kind)
      PROVE OwnerInv'
  <2>1. /\ run[r].pc = "executing" /\ row' = row
        /\ run' = [run EXCEPT ![r] = run'[r]]
        /\ run'[r].task = run[r].task /\ run'[r].attempt = run[r].attempt
    BY <1>4, CheckEffect
  <2>2. QED
    BY <2>1, OwnerKeep DEF TypeOK, Live
<1>5. ASSUME row' = row,
             \A r \in Runners : run'[r] = run[r] \/ run'[r] = Idle
      PROVE OwnerInv'
  BY <1>5, IdleRun, OwnerKeep DEF Live
<1>6. ASSUME NEW r \in Runners, NEW kind \in Kinds, Reject(r, kind)
      PROVE OwnerInv'
  BY <1>5, <1>6, FaultEffect
<1>7. ASSUME NEW r \in Runners, Complete(r) PROVE OwnerInv'
  BY <1>7, OwnerComplete
<1>8. ASSUME NEW r \in Runners, Retry(r) PROVE OwnerInv'
  BY <1>8, OwnerRetry
<1>9. ASSUME NEW r \in Runners, Renew(r) PROVE OwnerInv'
  BY <1>9, OwnerRenew
<1>10. ASSUME NEW c \in Connections, Crash(c) PROVE OwnerInv'
  BY <1>5, <1>10, FaultEffect
<1>11. ASSUME NEW r \in Runners, Cancel(r) PROVE OwnerInv'
  BY <1>5, <1>11, FaultEffect
<1>12. CASE Tick \/ UNCHANGED vars
  BY <1>5, <1>12 DEF Tick, vars
<1>13. QED
  BY <1>1, <1>2, <1>3, <1>4, <1>6, <1>7, <1>8, <1>9, <1>10, <1>11, <1>12
     DEF Next, RunOnce, Finish, Write, ClaimNothing

LEMMA OwnerCorrect == ASSUME OneStore, OwnIds PROVE Spec => []OwnerInv
  BY TypeCorrect, StoreCorrect, OwnerInit, OwnerStep, PTL DEF Spec

(* Over one store with distinct worker ids, the outcome a settled row      *)
(* keeps is always that of the task's last claim. *)
THEOREM NoStaleOutcome ==
  ASSUME OneStore, OwnIds PROVE Spec => []OutcomeOfLastClaim
<1>1. OwnerInv => OutcomeOfLastClaim
  BY DEF OwnerInv
<1>2. QED
  BY <1>1, OwnerCorrect, PTL

(* Under the same assumptions only an attempt below the budget is ever     *)
(* handed back for a retry. *)
THEOREM RetriesAreBounded ==
  ASSUME OneStore, OwnIds PROVE Spec => []RetryWithinBudget
<1>1. OwnerInv => RetryWithinBudget
  BY DEF OwnerInv
<1>2. QED
  BY <1>1, OwnerCorrect, PTL
-----------------------------------------------------------------------------
(* The table implements the ledger.                                        *)

Phases == [t \in Tasks |-> PhaseOf(t)]
Latests == [t \in Tasks |-> LatestOf(t)]
Results == [t \in Tasks |-> ResultOf(t)]

(* A step that writes one row changes the ledger's view of that task only. *)
LEMMA ViewOfOneRow ==
  ASSUME NEW t \in Tasks, TypeOK, row' = [row EXCEPT ![t] = row'[t]]
  PROVE  /\ Phases[t] = PhaseOf(t)
         /\ Latests[t] = LatestOf(t)
         /\ Results[t] = ResultOf(t)
         /\ Phases' = [Phases EXCEPT ![t] = PhaseOf(t)']
         /\ Latests' = [Latests EXCEPT ![t] = LatestOf(t)']
         /\ Results' = [Results EXCEPT ![t] = ResultOf(t)']
         /\ LatestOf(t)' = LatestOf(t) => Latests' = Latests
         /\ ResultOf(t)' = ResultOf(t) => Results' = Results
         /\ PhaseOf(t)' = PhaseOf(t) => Phases' = Phases
<1>1. \A u \in Tasks : u # t => row'[u] = row[u]
  BY DEF TypeOK
<1>2. \A u \in Tasks : u # t => /\ PhaseOf(u)' = PhaseOf(u)
                                /\ LatestOf(u)' = LatestOf(u)
                                /\ ResultOf(u)' = ResultOf(u)
  BY <1>1 DEF PhaseOf, LatestOf, ResultOf
<1>3. QED
  BY <1>2 DEF Phases, Latests, Results

LEMMA LedgerInit == Init => Ledger!Init
  BY DEF Init, Ledger!Init, PhaseOf, LatestOf, ResultOf, NoRow, Terminal

LEMMA LedgerStep ==
  TypeOK /\ StoreInv /\ OwnerInv /\ [Next]_vars
    => [Ledger!Next]_(Ledger!ledgerVars)
<1> SUFFICES ASSUME TypeOK, StoreInv, OwnerInv, [Next]_vars
             PROVE  \/ Ledger!Next
                    \/ UNCHANGED <<Phases, Latests, Results>>
  BY DEF Ledger!ledgerVars, Phases, Latests, Results
<1> DEFINE Goal == \/ Ledger!Next
                   \/ UNCHANGED <<Phases, Latests, Results>>
<1>1. ASSUME NEW c \in Connections, NEW t \in Tasks, Enqueue(c, t)
      PROVE  Goal
  <2>1. /\ row[t].status = "absent"
        /\ row' = [row EXCEPT ![t] = row'[t]]
        /\ row'[t].status = "queued"
    BY <1>1, EnqueueEffect
  <2>2. /\ PhaseOf(t) = "absent" /\ PhaseOf(t)' = "waiting"
        /\ LatestOf(t)' = LatestOf(t) /\ ResultOf(t)' = ResultOf(t)
    BY <2>1 DEF PhaseOf, LatestOf, ResultOf, Terminal
  <2>3. /\ Phases[t] = "absent"
        /\ Phases' = [Phases EXCEPT ![t] = "waiting"]
        /\ Latests' = Latests /\ Results' = Results
    BY <2>1, <2>2, ViewOfOneRow
  <2>4. Ledger!Submit(t)
    BY <2>3 DEF Ledger!Submit, Phases, Latests, Results
  <2>5. QED
    BY <2>4 DEF Ledger!Next
<1>2. ASSUME NEW r \in Runners, Claim(r) PROVE Goal
  <2>1. PICK t \in Tasks :
          /\ row[t].status \in {"queued", "retry", "running"}
          /\ row' = [row EXCEPT ![t] = row'[t]]
          /\ row'[t].status = "running"
          /\ row'[t].attempt = NextAttempt(t)
    BY <1>2, ClaimEffect
  <2>2. /\ PhaseOf(t) \in {"waiting", "active"} /\ PhaseOf(t)' = "active"
        /\ ResultOf(t) = None /\ ResultOf(t)' = None
    BY <2>1 DEF PhaseOf, ResultOf, Terminal
  <2>3. LatestOf(t)' = LatestOf(t) + 1
    BY <2>1 DEF LatestOf, NextAttempt, StoreInv, QueuedUntouched
  <2>4. /\ Phases[t] \in {"waiting", "active"}
        /\ Phases' = [Phases EXCEPT ![t] = "active"]
        /\ Latests' = [Latests EXCEPT ![t] = Latests[t] + 1]
        /\ Results' = Results
    BY <2>1, <2>2, <2>3, ViewOfOneRow
  <2>5. Ledger!Begin(t)
    BY <2>4 DEF Ledger!Begin, Phases, Latests, Results
  <2>6. QED
    BY <2>5 DEF Ledger!Next
<1>3. ASSUME NEW r \in Runners, Retry(r) PROVE Goal
  <2>1. PICK t \in Tasks :
          /\ run[r].pc = "retrying" /\ t = run[r].task
          /\ row' = [row EXCEPT ![t] = row'[t]]
          /\ row'[t].status = "retry"
          /\ row'[t].attempt = row[t].attempt
    BY <1>3, RetryEffect
  <2>2. row[t].status = "running" /\ row[t].attempt < MaxAttempts
    BY <2>1, WriterIsLatest
       DEF StoreInv, OwnedInStore, VerdictStands, Owns, Retries, InStore
  <2>3. /\ PhaseOf(t) = "active" /\ PhaseOf(t)' = "waiting"
        /\ LatestOf(t) < MaxAttempts /\ LatestOf(t)' = LatestOf(t)
        /\ ResultOf(t) = None /\ ResultOf(t)' = None
    BY <2>1, <2>2 DEF PhaseOf, LatestOf, ResultOf, Terminal
  <2>4. /\ Phases[t] = "active" /\ Latests[t] < MaxAttempts
        /\ Phases' = [Phases EXCEPT ![t] = "waiting"]
        /\ Latests' = Latests /\ Results' = Results
    BY <2>1, <2>3, ViewOfOneRow
  <2>5. Ledger!HandBack(t)
    BY <2>4 DEF Ledger!HandBack, Phases, Latests, Results
  <2>6. QED
    BY <2>5 DEF Ledger!Next
<1>4. ASSUME NEW r \in Runners, Complete(r) PROVE Goal
  <2>1. PICK t \in Tasks, kind \in Kinds :
          /\ run[r].pc = "completing"
          /\ t = run[r].task /\ kind = run[r].kind
          /\ row' = [row EXCEPT ![t] = row'[t]]
          /\ row'[t].status \in Terminal
          /\ row'[t].attempt = row[t].attempt
          /\ row'[t].outcome.kind = kind
          /\ row'[t].outcome.attempt = run[r].attempt
    BY <1>4, CompleteEffect DEF TypeOK, Runs
  <2>2. row[t].status = "running" /\ run[r].attempt = row[t].attempt
    BY <2>1, WriterIsLatest DEF StoreInv, OwnedInStore, Owns, InStore
  <2>3. run[r].attempt \in Nat
    BY DEF TypeOK, Runs
  <2>4. kind = "retryable" => row[t].attempt >= MaxAttempts
    <3>1. ~ Retries(r, kind)
      BY <2>1 DEF StoreInv, VerdictStands
    <3>2. kind = "retryable" => run[r].attempt >= MaxAttempts
      BY <2>3, <3>1, LimitsAssumption DEF Retries
    <3>3. QED
      BY <2>1, <2>2, <3>2
  <2>5. /\ PhaseOf(t) = "active" /\ PhaseOf(t)' = "settled"
        /\ LatestOf(t) = row[t].attempt /\ LatestOf(t)' = LatestOf(t)
        /\ ResultOf(t)' = [kind |-> kind, attempt |-> row[t].attempt]
    BY <2>1, <2>2 DEF PhaseOf, LatestOf, ResultOf, Terminal
  <2>6. /\ Phases[t] = "active"
        /\ kind = "retryable" => Latests[t] >= MaxAttempts
        /\ Phases' = [Phases EXCEPT ![t] = "settled"]
        /\ Results' = [Results EXCEPT ![t] = [kind |-> kind,
                                             attempt |-> Latests[t]]]
        /\ Latests' = Latests
    BY <2>1, <2>4, <2>5, ViewOfOneRow
  <2>7. Ledger!Settle(t, kind)
    BY <2>6 DEF Ledger!Settle, Phases, Latests, Results
  <2>8. QED
    BY <2>7 DEF Ledger!Next, Kinds
<1>5. ASSUME NEW r \in Runners, Renew(r) PROVE Goal
  <2>1. PICK t \in Tasks :
          /\ row[t].status = "running"
          /\ row' = [row EXCEPT ![t] = row'[t]]
          /\ row'[t].status = "running"
          /\ row'[t].attempt = row[t].attempt
    BY <1>5, RenewEffect DEF Owns
  <2>2. /\ PhaseOf(t)' = PhaseOf(t) /\ LatestOf(t)' = LatestOf(t)
        /\ ResultOf(t)' = ResultOf(t)
    BY <2>1 DEF PhaseOf, LatestOf, ResultOf, Terminal
  <2>3. UNCHANGED <<Phases, Latests, Results>>
    BY <2>1, <2>2, ViewOfOneRow
  <2>4. QED
    BY <2>3
<1>6. CASE UNCHANGED row
  BY <1>6 DEF Phases, Latests, Results, PhaseOf, LatestOf, ResultOf
<1>7. QED
  BY <1>1, <1>2, <1>3, <1>4, <1>5, <1>6
     DEF Next, RunOnce, Finish, Write, ReadBack, Check, Reject, Crash, Cancel,
         Tick, ClaimNothing, vars

(* Over one store with distinct worker ids the queue implements the        *)
(* ledger: only the attempt that began last hands a task back or settles   *)
(* it, although the store compares worker ids and never attempts.          *)
THEOREM QueueImplementsLedger ==
  ASSUME OneStore, OwnIds PROVE Spec => ImplementsLedger
<1>1. QED
  BY LedgerInit, LedgerStep, TypeCorrect, StoreCorrect, OwnerCorrect, PTL
     DEF Spec, ImplementsLedger, Ledger!Spec

-----------------------------------------------------------------------------
(* The queue under a batch.                                                *)

LEMMA QueueStep == [BatchNext]_batchVars => [Next]_vars
<1> SUFFICES ASSUME [BatchNext]_batchVars PROVE [Next]_vars
  OBVIOUS
<1>1. ASSUME NEW r \in Runners, Start(r) \/ Seek(r) \/ Leave(r)
      PROVE [Next]_vars
  BY <1>1 DEF Start, Seek, Leave, vars
<1>2. ASSUME NEW r \in Runners, Put(r) PROVE [Next]_vars
  <2>1. Conn[r] \in Connections
    BY RunnersAssumption
  <2>2. QED
    BY <1>2, <2>1 DEF Put, Next, vars
<1>3. ASSUME NEW r \in Runners, RunOnce(r) \/ Renew(r) \/ Cancel(r)
      PROVE Next
  BY <1>3 DEF Next
<1>4. ASSUME NEW r \in Runners,
             Round(r) \/ Reread(r) \/ Report(r) \/ Return(r) \/ Alone(r)
      PROVE [Next]_vars
  BY <1>3, <1>4 DEF Round, Reread, Report, Return, Alone, RunOnce, Finish
<1>5. ASSUME NEW c \in Connections, Crash(c) PROVE Next
  BY <1>5 DEF Next
<1>6. CASE Tick
  BY <1>6 DEF Next
<1>7. CASE UNCHANGED batchVars
  BY <1>7 DEF batchVars, vars
<1>8. QED
  BY <1>1, <1>2, <1>3, <1>4, <1>5, <1>6, <1>7 DEF BatchNext, ExecuteMany

(* execute_many uses the queue only as run_once and enqueue_task do, so    *)
(* every property of the queue's specification holds under it. *)
THEOREM BatchesUseTheQueue == BatchSpec => Spec
  BY QueueStep, PTL DEF BatchSpec, BatchInit, Spec

-----------------------------------------------------------------------------
(* Types of batches.                                                       *)

LEMMA ReadyBatch ==
  /\ Ready \in BatchStates /\ Ready.pc = "ready" /\ Ready.pending = {}
  /\ Ready.got = [t \in Tasks |-> None]
  BY DEF Ready, BatchStates

(* A step that moves one batch. *)
LEMMA BatchMove ==
  ASSUME BatchTypeOK, NEW r \in Runners,
         edition' \in [Tasks -> Editions \cup {None}],
         batch' = [batch EXCEPT ![r] = batch'[r]],
         batch'[r] \in BatchStates,
         batch'[r].pending = {t \in Batch[r] : batch'[r].got[t] = None}
  PROVE  BatchTypeOK'
  BY DEF BatchTypeOK

LEMMA GoEffect ==
  ASSUME BatchTypeOK, NEW r \in Runners, NEW pc, Go(r, pc),
         batch[r].pc # "ready",
         pc \in {"running"} \cup Holding \cup Ended
  PROVE  /\ batch' = [batch EXCEPT ![r] = batch'[r]]
         /\ batch'[r] \in BatchStates
         /\ batch'[r].got = batch[r].got
         /\ batch'[r].pending = {t \in Batch[r] : batch'[r].got[t] = None}
<1> DEFINE went == [batch[r] EXCEPT !.pc = pc]
<1>1. /\ batch[r] \in BatchStates
      /\ batch[r].pending = {t \in Batch[r] : batch[r].got[t] = None}
  BY DEF BatchTypeOK
<1>2. went \in BatchStates /\ went.got = batch[r].got
      /\ went.pending = batch[r].pending
  BY <1>1 DEF BatchStates
<1>3. batch' = [batch EXCEPT ![r] = went]
  BY DEF Go
<1> HIDE DEF went
<1>4. batch'[r] = went
  BY <1>3 DEF BatchTypeOK
<1>5. QED
  BY <1>1, <1>2, <1>3, <1>4

LEMMA EnqueuedEffect ==
  ASSUME BatchTypeOK, NEW r \in Runners, NEW t \in Tasks, Enqueued(r, t),
         batch[r].pc # "ready"
  PROVE  /\ batch' = [batch EXCEPT ![r] = batch'[r]]
         /\ batch'[r] \in BatchStates
         /\ batch'[r].got = batch[r].got
         /\ batch'[r].pending = {u \in Batch[r] : batch'[r].got[u] = None}
<1> DEFINE rest == batch[r].todo \ {t}
           pc == IF rest = {} THEN "rounding" ELSE "enqueuing"
           went == [batch[r] EXCEPT !.todo = rest, !.pc = pc]
<1>1. /\ batch[r] \in BatchStates
      /\ batch[r].pending = {u \in Batch[r] : batch[r].got[u] = None}
  BY DEF BatchTypeOK
<1>2. rest \in SUBSET Tasks /\ pc \in Holding
  BY <1>1 DEF BatchStates, Holding
<1>3. batch' = [batch EXCEPT ![r] = went]
  BY DEF Enqueued, BatchTypeOK
<1> HIDE DEF rest, pc
<1>4. went \in BatchStates /\ went.got = batch[r].got
      /\ went.pending = batch[r].pending
  BY <1>1, <1>2 DEF BatchStates
<1> HIDE DEF went
<1>5. batch'[r] = went
  BY <1>3 DEF BatchTypeOK
<1>6. QED
  BY <1>1, <1>3, <1>4, <1>5

(* Claiming a task for the batch. *)
LEMMA RoundEffect ==
  ASSUME BatchTypeOK, NEW r \in Runners, Round(r)
  PROVE  /\ batch' = [batch EXCEPT ![r] = batch'[r]]
         /\ batch'[r] \in BatchStates
         /\ batch'[r].got = batch[r].got
         /\ batch'[r].pending = {t \in Batch[r] : batch'[r].got[t] = None}
         /\ edition' = edition
<1>1. CASE Drained(r)
  BY <1>1, GoEffect DEF Drained, Round, Ended
<1>2. CASE Claim(r) /\ batch' = [batch EXCEPT ![r].pc = "running",
                                             ![r].rounds = @ + 1]
  <2> DEFINE next == batch[r].rounds + 1
             went == [batch[r] EXCEPT !.pc = "running", !.rounds = next]
  <2>1. /\ batch[r] \in BatchStates
        /\ batch[r].pending = {t \in Batch[r] : batch[r].got[t] = None}
    BY DEF BatchTypeOK, Round
  <2>2. next \in Nat
    BY <2>1 DEF BatchStates
  <2> HIDE DEF next
  <2>3. went \in BatchStates /\ went.got = batch[r].got
        /\ went.pending = batch[r].pending
    BY <2>1, <2>2 DEF BatchStates
  <2>4. batch' = [batch EXCEPT ![r] = went]
    BY <1>2 DEF BatchTypeOK, next
  <2> HIDE DEF went
  <2>5. batch'[r] = went
    BY <2>4 DEF BatchTypeOK
  <2>6. QED
    BY <2>1, <2>3, <2>4, <2>5 DEF Round
<1>3. QED
  BY <1>1, <1>2 DEF Round

(* run_once returns: an outcome is kept with its task, or none is. *)
LEMMA ReturnEffect ==
  ASSUME TypeOK, BatchTypeOK, NEW r \in Runners, Return(r)
  PROVE  /\ batch' = [batch EXCEPT ![r] = batch'[r]]
         /\ batch'[r] \in BatchStates
         /\ batch'[r].got =
              IF Delivered(r, Outcome(r))
              THEN [batch[r].got EXCEPT ![run[r].task] = Outcome(r)]
              ELSE batch[r].got
         /\ batch'[r].pending = {t \in Batch[r] : batch'[r].got[t] = None}
         /\ edition' = edition
<1> DEFINE outcome == Outcome(r)
           task == run[r].task
<1>1. /\ batch[r] \in BatchStates /\ edition' = edition
      /\ batch[r].pending = {t \in Batch[r] : batch[r].got[t] = None}
  BY DEF BatchTypeOK, Return
<1>2. outcome \in Outcomes /\ task \in Nat
  BY OutcomeType DEF TypeOK, Runs
<1>3. outcome # None
  BY <1>2, BatchAssumption
<1>4. CASE Delivered(r, Outcome(r))
  <2> DEFINE went == Kept(batch[r], task, outcome)
  <2>1. task \in batch[r].pending /\ task \in Tasks
    BY <1>1, <1>4 DEF Delivered, BatchStates
  <2> HIDE DEF outcome, task
  <2>2. /\ went.got = [batch[r].got EXCEPT ![task] = outcome]
        /\ went.pending = batch[r].pending \ {task}
        /\ went \in BatchStates
    BY <1>1, <1>2, <2>1 DEF Kept, BatchStates, Holding
  <2>3. went.pending = {t \in Batch[r] : went.got[t] = None}
    BY <1>1, <1>3, <2>1, <2>2 DEF BatchStates
  <2>4. batch' = [batch EXCEPT ![r] = went]
    BY <1>4 DEF Return, outcome, task
  <2> HIDE DEF went
  <2>5. batch'[r] = went
    BY <2>4 DEF BatchTypeOK
  <2>6. batch'[r].got = [batch[r].got EXCEPT ![run[r].task] = Outcome(r)]
    BY <2>2, <2>5 DEF outcome, task
  <2>7. batch' = [batch EXCEPT ![r] = batch'[r]]
    BY <2>4, <2>5
  <2>8. QED
    BY <1>1, <1>4, <2>2, <2>3, <2>5, <2>6, <2>7
<1>5. CASE ~ Delivered(r, Outcome(r))
  <2>1. Go(r, "rounding")
    BY <1>5 DEF Return, Go, BatchTypeOK
  <2>2. QED
    BY <1>1, <1>5, <2>1, GoEffect DEF Return, Holding
<1>6. QED
  BY <1>4, <1>5

LEMMA StartEffect ==
  ASSUME BatchTypeOK, NEW r \in Runners, Start(r)
  PROVE  /\ batch' = [batch EXCEPT ![r] = batch'[r]]
         /\ batch'[r] \in BatchStates
         /\ batch'[r].got = [t \in Tasks |-> None]
         /\ batch'[r].pending = {t \in Batch[r] : batch'[r].got[t] = None}
         /\ edition' = edition
<1> DEFINE went == [Ready EXCEPT !.pc = "enqueuing", !.todo = Batch[r],
                                 !.pending = Batch[r]]
<1>1. Batch[r] \in SUBSET Tasks
  BY BatchAssumption
<1>2. /\ went \in BatchStates
      /\ went.got = [t \in Tasks |-> None] /\ went.pending = Batch[r]
  BY <1>1, ReadyBatch DEF BatchStates, Holding
<1>3. batch' = [batch EXCEPT ![r] = went] /\ edition' = edition
  BY DEF Start
<1> HIDE DEF went
<1>4. batch'[r] = went
  BY <1>3 DEF BatchTypeOK
<1>5. Batch[r] = {t \in Batch[r] : [u \in Tasks |-> None][t] = None}
  BY <1>1
<1>6. QED
  BY <1>2, <1>3, <1>4, <1>5

(* Crashes and cancellations only stop batches. *)
LEMMA LoseEffect ==
  ASSUME BatchTypeOK, NEW lost, Lose(lost)
  PROVE  BatchTypeOK' /\ \A r \in Runners : batch'[r].got = batch[r].got
<1> DEFINE stopped(r) == [batch[r] EXCEPT !.pc = "lost"]
<1>1. \A r \in Runners :
        /\ stopped(r) \in BatchStates
        /\ stopped(r).got = batch[r].got
        /\ stopped(r).pending = batch[r].pending
  BY DEF BatchTypeOK, BatchStates, Ended
<1>2. /\ batch' = [r \in Runners |->
                    IF r \in lost /\ batch[r].pc \notin Ended \cup {"ready"}
                    THEN stopped(r) ELSE batch[r]]
      /\ edition' = edition
  BY DEF Lose
<1> HIDE DEF stopped
<1>3. ASSUME NEW r \in Runners
      PROVE  /\ batch'[r] \in BatchStates
             /\ batch'[r].got = batch[r].got
             /\ batch'[r].pc # "ready" =>
                  batch'[r].pending = {t \in Batch[r] : batch'[r].got[t] = None}
  BY <1>1, <1>2 DEF BatchTypeOK
<1>4. batch' \in [Runners -> BatchStates]
  BY <1>2, <1>3
<1>5. QED
  BY <1>2, <1>3, <1>4 DEF BatchTypeOK

(* Who changes what a batch has got: only the return of its run_once. *)
Gains(r) ==
  /\ Return(r) /\ Delivered(r, Outcome(r))
  /\ batch'[r].got = [batch[r].got EXCEPT ![run[r].task] = Outcome(r)]

LEMMA BatchStep ==
  ASSUME TypeOK, BatchTypeOK, [BatchNext]_batchVars
  PROVE  /\ BatchTypeOK'
         /\ \A r \in Runners : \/ batch'[r].got = batch[r].got
                               \/ batch'[r].got = [t \in Tasks |-> None]
                               \/ Gains(r)
<1> DEFINE Goal == /\ BatchTypeOK'
                   /\ \A r \in Runners :
                        \/ batch'[r].got = batch[r].got
                        \/ batch'[r].got = [t \in Tasks |-> None]
                        \/ Gains(r)
<1>0. ASSUME NEW r \in Runners,
             edition' \in [Tasks -> Editions \cup {None}],
             batch' = [batch EXCEPT ![r] = batch'[r]],
             batch'[r] \in BatchStates,
             batch'[r].pending = {t \in Batch[r] : batch'[r].got[t] = None},
             \/ batch'[r].got = batch[r].got
             \/ batch'[r].got = [t \in Tasks |-> None]
             \/ Gains(r)
      PROVE Goal
  BY <1>0, BatchMove DEF BatchTypeOK
<1>1. edition \in [Tasks -> Editions \cup {None}]
  BY DEF BatchTypeOK
<1>2. ASSUME NEW r \in Runners, Start(r) PROVE Goal
  BY <1>0, <1>1, <1>2, StartEffect
<1>3. ASSUME NEW r \in Runners, Seek(r) PROVE Goal
  <2>1. batch[r].pc # "ready" /\ edition' = edition
    BY <1>3 DEF Seek
  <2>2. \/ Go(r, "inserting") \/ Go(r, "raised")
        \/ \E t \in Tasks : Enqueued(r, t)
    BY <1>3 DEF Seek
  <2>3. QED
    BY <1>0, <1>1, <2>1, <2>2, GoEffect, EnqueuedEffect DEF Holding, Ended
<1>4. ASSUME NEW r \in Runners, Put(r) PROVE Goal
  <2>1. batch[r].pc # "ready" /\ Edition[r] \in Editions
    BY <1>4, BatchAssumption DEF Put
  <2>2. edition' \in [Tasks -> Editions \cup {None}]
    BY <1>1, <1>4, <2>1 DEF Put
  <2>3. Go(r, "raised") \/ \E t \in Tasks : Enqueued(r, t)
    BY <1>4 DEF Put
  <2>4. QED
    BY <1>0, <2>1, <2>2, <2>3, GoEffect, EnqueuedEffect DEF Ended
<1>5. ASSUME NEW r \in Runners, Leave(r) PROVE Goal
  <2>1. /\ batch[r].pc # "ready" /\ edition' = edition
        /\ Go(r, "returned") \/ Go(r, "raised")
    BY <1>5 DEF Leave
  <2>2. QED
    BY <1>0, <1>1, <2>1, GoEffect DEF Ended
<1>6. ASSUME NEW r \in Runners, Round(r) PROVE Goal
  BY <1>0, <1>1, <1>6, RoundEffect
<1>7. ASSUME NEW r \in Runners, Reread(r) \/ Report(r) PROVE Goal
  <2>1. /\ batch[r].pc # "ready" /\ edition' = edition
        /\ Go(r, "raised") \/ UNCHANGED batch
    BY <1>7 DEF Reread, Report
  <2>2. CASE Go(r, "raised")
    BY <1>0, <1>1, <2>1, <2>2, GoEffect DEF Ended
  <2>3. CASE UNCHANGED batch
    BY <2>1, <2>3 DEF BatchTypeOK
  <2>4. QED
    BY <2>1, <2>2, <2>3
<1>8. ASSUME NEW r \in Runners, Return(r) PROVE Goal
  BY <1>0, <1>1, <1>8, ReturnEffect DEF Gains
<1>9. CASE UNCHANGED <<edition, batch>>
  BY <1>9 DEF BatchTypeOK
<1>10. ASSUME NEW lost, Lose(lost) PROVE Goal
  BY <1>10, LoseEffect
<1>11. QED
  BY <1>2, <1>3, <1>4, <1>5, <1>6, <1>7, <1>8, <1>9, <1>10
     DEF BatchNext, ExecuteMany, Alone, batchVars

LEMMA BatchTypeInit == BatchInit => BatchTypeOK
  BY ReadyBatch DEF BatchInit, BatchTypeOK

(* In every deployment batches keep their types and wait for exactly the   *)
(* tasks they have no outcome of. *)
THEOREM BatchTypeCorrect == BatchSpec => []BatchTypeOK
<1>1. TypeOK /\ BatchTypeOK /\ [BatchNext]_batchVars => BatchTypeOK'
  BY BatchStep
<1>2. QED
  BY <1>1, BatchTypeInit, BatchesUseTheQueue, TypeCorrect, PTL DEF BatchSpec

-----------------------------------------------------------------------------
(* Scored outcomes.                                                        *)

LEMMA GotInit == BatchInit => GotIsStored
  BY ReadyBatch DEF BatchInit, GotIsStored

(* The outcome a batch keeps was just written: a retry is not final. *)
LEMMA GainStored ==
  ASSUME TypeOK, StoreInv, NEW r \in Runners,
         Return(r), Delivered(r, Outcome(r))
  PROVE  /\ row'[run[r].task].status \in Terminal
         /\ row'[run[r].task].outcome = Outcome(r)
<1>1. /\ run[r] \in Runs /\ run[r].kind \in Kinds
      /\ Outcome(r) \in Outcomes
      /\ Outcome(r).kind = run[r].kind /\ Outcome(r).attempt = run[r].attempt
  BY OutcomeType DEF TypeOK, Runs
<1>2. ~ Retry(r)
  <2> SUFFICES ASSUME Retry(r) PROVE FALSE
    OBVIOUS
  <2>1. Retries(r, run[r].kind)
    BY RetryEffect DEF StoreInv, VerdictStands
  <2>2. QED
    BY <1>1, <2>1 DEF Retries, Delivered, Final
<1>3. Complete(r)
  BY <1>2 DEF Return, Write
<1>4. run[r].task \in Tasks
  BY <1>3, CompleteEffect
<1>5. row'[run[r].task] = Settled(row[run[r].task], Outcome(r))
  BY <1>3, <1>4 DEF Complete, TypeOK
<1>6. QED
  BY <1>1, <1>4, <1>5, SettledRow DEF TypeOK

LEMMA GotStep ==
  ASSUME OneStore
  PROVE  /\ TypeOK /\ StoreInv /\ BatchTypeOK /\ GotIsStored
         /\ [BatchNext]_batchVars
         => GotIsStored'
<1> SUFFICES ASSUME TypeOK, StoreInv, BatchTypeOK, GotIsStored,
                    [BatchNext]_batchVars,
                    NEW r \in Runners, NEW t \in Tasks,
                    batch'[r].got[t] # None
             PROVE  /\ row'[t].status \in Terminal
                    /\ row'[t].outcome = batch'[r].got[t]
  BY DEF GotIsStored
<1>1. RowsFinal
  BY QueueStep, FinalStep
<1>2. ASSUME batch'[r].got[t] = batch[r].got[t]
      PROVE  /\ row'[t].status \in Terminal
             /\ row'[t].outcome = batch'[r].got[t]
  BY <1>1, <1>2 DEF GotIsStored, RowsFinal
<1>3. CASE Gains(r) /\ t = run[r].task
  <2>1. batch'[r].got[t] = Outcome(r)
    BY <1>3 DEF Gains, BatchTypeOK, BatchStates
  <2>2. QED
    BY <1>3, <2>1, GainStored DEF Gains
<1>4. CASE Gains(r) /\ t # run[r].task
  <2>1. batch'[r].got[t] = batch[r].got[t]
    BY <1>4 DEF Gains, BatchTypeOK, BatchStates
  <2>2. QED
    BY <1>2, <2>1
<1>5. QED
  BY <1>2, <1>3, <1>4, BatchStep

(* In one process, whatever other calls and workers do to the queue, an    *)
(* outcome that execute_many kept is the terminal one of its row. *)
THEOREM ScoredIsStored == ASSUME OneStore PROVE BatchSpec => []GotIsStored
  BY GotInit, GotStep, BatchesUseTheQueue, TypeCorrect, StoreCorrect,
     BatchTypeCorrect, PTL
     DEF BatchSpec
-----------------------------------------------------------------------------
(* A call on its own.                                                      *)

(* What a step of a runner, of the clock or of a fault leaves true of the  *)
(* rows: a task is neither inserted nor forgotten, nothing goes back to    *)
(* queued, attempts grow and settled rows stay. *)
RowsGrow ==
  \A t \in Tasks :
    /\ row'[t].status = "absent" <=> row[t].status = "absent"
    /\ row'[t].status = "queued" => row'[t] = row[t]
    /\ row[t].attempt <= row'[t].attempt
    /\ LatestOf(t) <= LatestOf(t)'
    /\ row[t].status \in Terminal => row'[t] = row[t]

(* New outcomes are those of r. *)
SettledBy(r) ==
  \A t \in Tasks :
    row'[t].status \in Terminal =>
      \/ row'[t] = row[t]
      \/ /\ row'[t].outcome \in Outcomes /\ row'[t].outcome.by = r
         /\ Complete(r) /\ t = run[r].task

LEMMA SameRows ==
  ASSUME TypeOK, row' = row PROVE RowsGrow /\ \A r \in Runners : SettledBy(r)
<1>1. \A t \in Tasks : row[t].attempt \in Nat
  BY DEF TypeOK, Rows
<1>2. \A t \in Tasks : LatestOf(t) \in Nat /\ LatestOf(t)' = LatestOf(t)
  BY <1>1 DEF LatestOf
<1>3. QED
  BY <1>1, <1>2 DEF RowsGrow, SettledBy

(* One row moves on. *)
LEMMA OneRowGrows ==
  ASSUME TypeOK, NEW u \in Tasks, row' = [row EXCEPT ![u] = row'[u]],
         row'[u].attempt \in Nat, row[u].attempt <= row'[u].attempt,
         row[u].status \notin {"absent"} \cup Terminal,
         row'[u].status \notin {"absent", "queued"}
  PROVE  RowsGrow
<1> SUFFICES ASSUME NEW t \in Tasks
             PROVE  /\ row'[t].status = "absent" <=> row[t].status = "absent"
                    /\ row'[t].status = "queued" => row'[t] = row[t]
                    /\ row[t].attempt <= row'[t].attempt
                    /\ LatestOf(t) <= LatestOf(t)'
                    /\ row[t].status \in Terminal => row'[t] = row[t]
  BY DEF RowsGrow
<1>1. row[t].attempt \in Nat
  BY DEF TypeOK, Rows
<1>2. CASE t = u
  BY <1>1, <1>2 DEF LatestOf
<1>3. CASE t # u
  <2>1. row'[t] = row[t]
    BY <1>3 DEF TypeOK
  <2>2. QED
    BY <1>1, <2>1 DEF LatestOf
<1>4. QED
  BY <1>2, <1>3

LEMMA RunnerGrows ==
  ASSUME OneStore, TypeOK, StoreInv, NEW r \in Runners,
         RunOnce(r) \/ Renew(r)
  PROVE  RowsGrow /\ SettledBy(r)
<1>0. \A t \in Tasks : row[t] \in Rows /\ row[t].attempt \in Nat
  BY DEF TypeOK, Rows
<1>1. CASE Claim(r)
  <2>1. PICK t \in Tasks :
          /\ row[t].status \in {"queued", "retry", "running"}
          /\ row' = [row EXCEPT ![t] = row'[t]]
          /\ row'[t].status = "running"
          /\ row'[t].attempt = NextAttempt(t)
    BY <1>1, ClaimEffect
  <2>2. NextAttempt(t) \in Nat /\ row[t].attempt <= NextAttempt(t)
    BY <1>0 DEF NextAttempt
  <2>3. RowsGrow
    BY <2>1, <2>2, OneRowGrows DEF Terminal
  <2>4. ASSUME NEW u \in Tasks, row'[u].status \in Terminal
        PROVE  row'[u] = row[u]
    BY <2>1, <2>4 DEF TypeOK, Terminal
  <2>5. QED
    BY <2>3, <2>4 DEF SettledBy
<1>2. CASE row' = row
  BY <1>2, SameRows
<1>3. CASE Complete(r) \/ Retry(r)
  <2> DEFINE u == run[r].task
  <2>1. /\ u \in Tasks /\ row' = [row EXCEPT ![u] = row'[u]]
        /\ row'[u].attempt = row[u].attempt
        /\ row'[u].status \notin {"absent", "queued"}
        /\ run[r].pc \in InStore
        /\ Retry(r) => row'[u].status \notin Terminal
    BY <1>3, CompleteEffect, RetryEffect DEF Terminal, InStore
  <2>2. row[u].status = "running"
    BY <2>1 DEF StoreInv, OwnedInStore, Owns
  <2>3. Complete(r) =>
          row'[u].outcome \in Outcomes /\ row'[u].outcome.by = r
    <3>1. Outcome(r) \in Outcomes /\ Outcome(r).by = r
      BY OutcomeType DEF TypeOK, Outcome
    <3>2. Complete(r) => row'[u] = Settled(row[u], Outcome(r))
      BY <2>1 DEF Complete, TypeOK
    <3>3. QED
      BY <1>0, <2>1, <3>1, <3>2, SettledRow
  <2>4. RowsGrow
    BY <1>0, <2>1, <2>2, OneRowGrows DEF Terminal
  <2>5. ASSUME NEW t \in Tasks, t # u PROVE row'[t] = row[t]
    BY <2>1, <2>5 DEF TypeOK
  <2>6. QED
    BY <1>3, <2>1, <2>3, <2>4, <2>5 DEF SettledBy
<1>4. CASE Renew(r)
  <2> DEFINE u == run[r].task
  <2>1. /\ u \in Tasks /\ row' = [row EXCEPT ![u] = row'[u]]
        /\ row'[u].attempt = row[u].attempt
        /\ row[u].status = "running" /\ row'[u].status = "running"
    BY <1>4, RenewEffect DEF Owns
  <2>2. RowsGrow
    BY <1>0, <2>1, OneRowGrows DEF Terminal
  <2>3. ASSUME NEW t \in Tasks, row'[t].status \in Terminal
        PROVE  row'[t] = row[t]
    BY <2>1, <2>3 DEF TypeOK, Terminal
  <2>4. QED
    BY <2>2, <2>3 DEF SettledBy
<1>5. QED
  BY <1>1, <1>2, <1>3, <1>4
     DEF RunOnce, ReadBack, ClaimNothing, Finish, Check, Reject, Write, vars

(* The attempts of a batch are finitely many. *)
LEMMA AllAttempts ==
  ASSUME NEW r \in Runners
  PROVE  /\ IsFiniteSet(Batch[r] \X (1..MaxAttempts))
         /\ Cardinality(Batch[r] \X (1..MaxAttempts)) = Budget(r)
<1>1. IsFiniteSet(Batch[r]) /\ MaxAttempts \in Nat \ {0}
  BY BatchAssumption, LimitsAssumption
<1>2. /\ IsFiniteSet(1..MaxAttempts)
      /\ Cardinality(1..MaxAttempts) = MaxAttempts
  BY <1>1, FS_Interval
<1>3. QED
  BY <1>1, <1>2, FS_Product DEF Budget

LEMMA SpentBounds ==
  ASSUME NEW r \in Runners
  PROVE  /\ Spent(r) \subseteq Batch[r] \X (1..MaxAttempts)
         /\ IsFiniteSet(Spent(r)) /\ Cardinality(Spent(r)) \in Nat
<1>1. Spent(r) \in SUBSET (Batch[r] \X (1..MaxAttempts))
  BY DEF Spent
<1>2. QED
  BY <1>1, AllAttempts, FS_Subset, FS_CardinalityType

LEMMA SpentBoundsPrime ==
  ASSUME NEW r \in Runners
  PROVE  /\ Spent(r)' \subseteq Batch[r] \X (1..MaxAttempts)
         /\ IsFiniteSet(Spent(r)') /\ Cardinality(Spent(r)') \in Nat
<1>1. Spent(r)' \in SUBSET (Batch[r] \X (1..MaxAttempts))
  BY DEF Spent
<1>2. QED
  BY <1>1, AllAttempts, FS_Subset, FS_CardinalityType

LEMMA OneMore ==
  ASSUME NEW S, NEW T, IsFiniteSet(T), S \subseteq T, NEW x \in T, x \notin S
  PROVE  /\ IsFiniteSet(S) /\ Cardinality(S) \in Nat
         /\ Cardinality(T) \in Nat /\ Cardinality(S) + 1 <= Cardinality(T)
<1>1. T \ {x} \in SUBSET T /\ S \in SUBSET (T \ {x})
  OBVIOUS
<1>2. /\ IsFiniteSet(T \ {x})
      /\ Cardinality(T \ {x}) = Cardinality(T) - 1
  BY FS_RemoveElement
<1>3. IsFiniteSet(S) /\ Cardinality(S) <= Cardinality(T \ {x})
  BY <1>1, <1>2, FS_Subset
<1>4. Cardinality(S) \in Nat /\ Cardinality(T) \in Nat
  BY <1>3, FS_CardinalityType
<1>5. QED
  BY <1>2, <1>3, <1>4

(* Attempts only grow and the run is the same: what r has spent stays      *)
(* spent. *)
LEMMA SpentStays ==
  ASSUME TypeOK, TypeOK', NEW r \in Runners, Batch[r] \subseteq Tasks,
         batch'[r].pending \subseteq batch[r].pending, run'[r] = run[r],
         \A t \in Tasks : LatestOf(t) <= LatestOf(t)',
         \A t \in Tasks :
           AtWork(r) /\ run[r].task = t => row[t].attempt <= row'[t].attempt
  PROVE  Spent(r) \subseteq Spent(r)'
<1> SUFFICES ASSUME NEW t \in Batch[r], NEW n \in 1..MaxAttempts, Over(r, t, n)
             PROVE  Over(r, t, n)'
  BY DEF Spent
<1>1. /\ t \in Tasks
      /\ row[t].attempt \in Nat /\ row'[t].attempt \in Nat
      /\ LatestOf(t) \in Nat /\ LatestOf(t)' \in Nat
      /\ LatestOf(t) <= LatestOf(t)'
  BY DEF TypeOK, Rows, LatestOf
<1>2. n < MaxAttempts /\ n <= LatestOf(t)'
  BY <1>1 DEF Over
<1>3. AtWork(r)' /\ run'[r].task = t => n < OwnAttempt(r)'
  <2> SUFFICES ASSUME AtWork(r), run[r].task = t PROVE n < OwnAttempt(r)'
    BY DEF AtWork
  <2>1. n < OwnAttempt(r)
    BY DEF Over
  <2>2. CASE run[r].pc = "claimed"
    <3>1. /\ OwnAttempt(r) = row[t].attempt /\ OwnAttempt(r)' = row'[t].attempt
          /\ row[t].attempt <= row'[t].attempt
      BY <1>1, <2>2 DEF OwnAttempt
    <3>2. QED
      BY <1>1, <2>1, <3>1
  <2>3. CASE run[r].pc # "claimed"
    BY <2>1, <2>3 DEF OwnAttempt
  <2>4. QED
    BY <2>2, <2>3
<1>4. QED
  BY <1>2, <1>3 DEF Over

LEMMA CountedStays ==
  ASSUME BatchTypeOK, NEW r \in Runners, Counted(r),
         batch'[r].pc = batch[r].pc, batch'[r].rounds = batch[r].rounds,
         Spent(r) \subseteq Spent(r)'
  PROVE  Counted(r)'
<1>1. /\ Cardinality(Spent(r)) <= Cardinality(Spent(r)')
      /\ Cardinality(Spent(r)) \in Nat /\ Cardinality(Spent(r)') \in Nat
  BY SpentBounds, SpentBoundsPrime, FS_Subset
<1>2. batch[r].rounds \in Nat
  BY DEF BatchTypeOK, BatchStates
<1>3. QED
  BY <1>1, <1>2 DEF Counted

(* A batch in a state of its own: pending tasks are of the batch. *)
LEMMA PendingType ==
  ASSUME BatchTypeOK, NEW r \in Runners, batch[r].pc # "ready"
  PROVE  batch[r].pending \subseteq Batch[r] /\ Batch[r] \subseteq Tasks
  BY BatchAssumption DEF BatchTypeOK

(* A step of somebody else, of the clock, or a fault that ends the call. *)
Untouched(r) == run'[r] = run[r] /\ batch'[r] = batch[r]
Stopped(r) ==
  /\ run'[r].pc = "idle"
  /\ batch'[r].todo = batch[r].todo /\ batch'[r].pending = batch[r].pending
  /\ \/ batch'[r].pc = batch[r].pc /\ batch[r].pc \in Ended \cup {"ready"}
     \/ batch'[r].pc = "lost" /\ batch[r].pc # "ready"

LEMMA SoleKept ==
  ASSUME TypeOK, TypeOK', BatchTypeOK, RowsGrow, NEW r \in Runners,
         SoleState(r), Untouched(r) \/ Stopped(r),
         \A t \in Tasks :
           row'[t].status \in Terminal =>
             row'[t] = row[t] \/ row'[t].outcome.by # r
  PROVE  SoleState(r)'
<1> USE DEF SoleState
<1>0. /\ batch'[r].todo = batch[r].todo
      /\ batch'[r].pending = batch[r].pending
      /\ batch'[r].pc = "ready" <=> batch[r].pc = "ready"
      /\ batch'[r].pc \in {"rounding", "running"} => batch'[r].pc = batch[r].pc
      /\ batch'[r].pc = "raised" => batch[r].pc = "raised"
  BY DEF Untouched, Stopped, Ended
<1>1. Enlisted(r)'
  BY <1>0 DEF Enlisted, RowsGrow
<1>2. Working(r)'
  <2> SUFFICES ASSUME AtWork(r)'
               PROVE  /\ batch'[r].pc = "running"
                      /\ run'[r].task \in batch'[r].pending
                      /\ OwnAttempt(r)' >= 1
    BY DEF Working
  <2>1. Untouched(r) /\ AtWork(r)
    BY DEF AtWork, Untouched, Stopped
  <2>2. /\ batch[r].pc = "running" /\ run[r].task \in batch[r].pending
        /\ OwnAttempt(r) >= 1
    BY <2>1 DEF Working
  <2>3. run[r].task \in Tasks
    BY <2>1 DEF AtWork, TypeOK
  <2>4. OwnAttempt(r)' >= 1
    <3>1. CASE run[r].pc = "claimed"
      <4>1. /\ OwnAttempt(r) = row[run[r].task].attempt
            /\ OwnAttempt(r)' = row'[run[r].task].attempt
            /\ row[run[r].task].attempt \in Nat
            /\ row'[run[r].task].attempt \in Nat
            /\ row[run[r].task].attempt <= row'[run[r].task].attempt
        BY <2>1, <2>3, <3>1 DEF OwnAttempt, RowsGrow, TypeOK, Rows, Untouched
      <4>2. QED
        BY <2>2, <4>1
    <3>2. CASE run[r].pc # "claimed"
      BY <2>1, <2>2, <3>2 DEF OwnAttempt, Untouched
    <3>3. QED
      BY <3>1, <3>2
  <2>5. QED
    BY <2>1, <2>2, <2>4 DEF Untouched
<1>3. Answered(r)'
  <2> SUFFICES ASSUME NEW t \in batch[r].pending, row'[t].status \in Terminal
               PROVE  row'[t].outcome.by # r
    BY <1>0 DEF Answered
  <2>1. t \in Tasks
    BY DEF BatchTypeOK, BatchStates
  <2>2. QED
    BY <2>1 DEF Answered
<1>4. Counted(r)'
  <2>1. CASE Untouched(r) /\ batch[r].pc # "ready"
    BY <2>1, SpentStays, CountedStays, PendingType DEF Untouched, RowsGrow
  <2>2. CASE Stopped(r) \/ batch[r].pc = "ready"
    BY <1>0, <2>2 DEF Counted, Stopped, Ended, Holding, Untouched
  <2>3. QED
    BY <2>1, <2>2
<1>5. Taken(r)'
  <2> SUFFICES ASSUME batch'[r].pc = "raised"
               PROVE  \E t \in batch'[r].pending :
                        row'[t].status \in {"retry", "running"} \cup Terminal
    BY DEF Taken
  <2>1. PICK t \in batch[r].pending :
          row[t].status \in {"retry", "running"} \cup Terminal
    BY <1>0 DEF Taken
  <2>2. t \in Tasks
    BY DEF BatchTypeOK, BatchStates
  <2>3. row'[t].status \in {"retry", "running"} \cup Terminal
    <3>1. /\ row'[t].status # "absent" /\ row'[t].status # "queued"
      BY <2>1, <2>2 DEF RowsGrow, Terminal
    <3>2. row'[t].status \in Statuses
      BY <2>2 DEF TypeOK, Rows
    <3>3. QED
      BY <3>1, <3>2 DEF Statuses
  <2>4. QED
    BY <1>0, <2>3
<1>6. QED
  BY <1>1, <1>2, <1>3, <1>4, <1>5

-----------------------------------------------------------------------------
(* The call's own steps.                                                   *)

LEMMA GoFields ==
  ASSUME BatchTypeOK, NEW r \in Runners, NEW pc, Go(r, pc)
  PROVE  /\ batch'[r].pc = pc
         /\ batch'[r].todo = batch[r].todo
         /\ batch'[r].pending = batch[r].pending
         /\ batch'[r].rounds = batch[r].rounds
<1> DEFINE went == [batch[r] EXCEPT !.pc = pc]
<1>1. batch' = [batch EXCEPT ![r] = went]
  BY DEF Go
<1>2. /\ went.pc = pc /\ went.todo = batch[r].todo
      /\ went.pending = batch[r].pending /\ went.rounds = batch[r].rounds
  BY DEF BatchTypeOK, BatchStates
<1> HIDE DEF went
<1>3. QED
  BY <1>1, <1>2 DEF BatchTypeOK

(* The call ends. *)
LEMMA SoleEnds ==
  ASSUME BatchTypeOK, NEW r \in Runners, SoleState(r), batch[r].pc # "ready",
         NEW pc \in {"returned", "raised"}, Go(r, pc),
         row' = row, run'[r].pc = "idle",
         pc = "raised" =>
           \E t \in batch[r].pending :
             row[t].status \in {"retry", "running"} \cup Terminal
  PROVE  SoleState(r)'
<1>1. /\ batch'[r].pc = pc
      /\ batch'[r].todo = batch[r].todo
      /\ batch'[r].pending = batch[r].pending
  BY GoFields
<1>2. Enlisted(r)'
  BY <1>1 DEF SoleState, Enlisted
<1>3. Working(r)' /\ Counted(r)'
  BY <1>1 DEF Working, Counted, AtWork, Holding
<1>4. Answered(r)' /\ Taken(r)'
  BY <1>1 DEF SoleState, Answered, Taken
<1>5. QED
  BY <1>2, <1>3, <1>4 DEF SoleState

LEMMA SoleStart ==
  ASSUME BatchTypeOK, NEW r \in Runners, SoleState(r), Start(r)
  PROVE  SoleState(r)'
<1> DEFINE went == [Ready EXCEPT !.pc = "enqueuing", !.todo = Batch[r],
                                 !.pending = Batch[r]]
<1>1. /\ went.pc = "enqueuing" /\ went.todo = Batch[r]
      /\ went.pending = Batch[r] /\ went.rounds = 0
  BY DEF Ready
<1>2. batch' = [batch EXCEPT ![r] = went] /\ row' = row /\ run' = run
  BY DEF Start
<1> HIDE DEF went
<1>3. batch'[r] = went /\ batch[r].pc = "ready" /\ Batch[r] \subseteq Tasks
  BY <1>2, BatchAssumption DEF BatchTypeOK, Start
<1>4. \A t \in Tasks : row[t].status = "absent"
  BY <1>3 DEF SoleState, Enlisted
<1>5. Enlisted(r)'
  BY <1>1, <1>2, <1>3, <1>4 DEF Enlisted
<1>6. Working(r)' /\ Taken(r)'
  BY <1>1, <1>2, <1>3 DEF SoleState, Working, AtWork, Taken
<1>7. Answered(r)'
  BY <1>1, <1>2, <1>3, <1>4 DEF Answered, Terminal
<1>8. Counted(r)'
  BY <1>1, <1>3, SpentBoundsPrime DEF Counted
<1>9. QED
  BY <1>5, <1>6, <1>7, <1>8 DEF SoleState

(* Nobody else has inserted the next task. *)
LEMMA NextIsAbsent ==
  ASSUME NEW r \in Runners, Enlisted(r), NEW t \in Tasks, FirstTodo(r, t)
  PROVE  row[t].status = "absent"
  BY DEF Enlisted, FirstTodo

LEMMA SoleSeek ==
  ASSUME TypeOK, TypeOK', BatchTypeOK, NEW r \in Runners, SoleState(r), Seek(r)
  PROVE  SoleState(r)'
<1>1. /\ batch[r].pc = "enqueuing" /\ row' = row /\ run' = run
      /\ Go(r, "inserting")
  BY NextIsAbsent DEF Seek, SoleState
<1>2. /\ batch'[r].pc = "inserting" /\ batch'[r].todo = batch[r].todo
      /\ batch'[r].pending = batch[r].pending
      /\ batch'[r].rounds = batch[r].rounds
  BY <1>1, GoFields
<1>3. Enlisted(r)' /\ Working(r)' /\ Answered(r)' /\ Taken(r)'
  BY <1>1, <1>2
     DEF SoleState, Enlisted, Working, AtWork, Answered, Taken
<1>4. Counted(r)'
  <2>1. Spent(r) \subseteq Spent(r)'
    BY <1>1, <1>2, SpentStays, SameRows, PendingType DEF RowsGrow
  <2>2. /\ Cardinality(Spent(r)) <= Cardinality(Spent(r)')
        /\ Cardinality(Spent(r)) \in Nat /\ Cardinality(Spent(r)') \in Nat
        /\ batch[r].rounds \in Nat
    BY <2>1, SpentBounds, SpentBoundsPrime, FS_Subset
       DEF BatchTypeOK, BatchStates
  <2>3. batch[r].rounds <= Cardinality(Spent(r))
    BY <1>1 DEF SoleState, Counted, Holding
  <2>4. QED
    BY <1>2, <2>2, <2>3 DEF Counted
<1>5. QED
  BY <1>3, <1>4 DEF SoleState

LEMMA SolePut ==
  ASSUME TypeOK, TypeOK', BatchTypeOK, NEW r \in Runners, SoleState(r), Put(r)
  PROVE  SoleState(r)'
<1>1. PICK t \in Tasks : /\ FirstTodo(r, t) /\ Enqueue(Conn[r], t)
                         /\ Enqueued(r, t)
  BY NextIsAbsent DEF Put, SoleState
<1> DEFINE rest == batch[r].todo \ {t}
           went == [batch[r] EXCEPT
                      !.todo = rest,
                      !.pc = IF rest = {} THEN "rounding" ELSE "enqueuing"]
<1>2. /\ batch' = [batch EXCEPT ![r] = went]
      /\ went.pc = (IF rest = {} THEN "rounding" ELSE "enqueuing")
      /\ went.todo = rest /\ went.pending = batch[r].pending
      /\ went.rounds = batch[r].rounds
  BY <1>1 DEF Enqueued, BatchTypeOK, BatchStates
<1> HIDE DEF went
<1>3. batch'[r] = went /\ batch[r].pc = "inserting"
  BY <1>2 DEF BatchTypeOK, Put
<1>4. /\ row[t].status = "absent" /\ run' = run
      /\ row' = [row EXCEPT ![t] = row'[t]]
      /\ row'[t].status = "queued"
  BY <1>1, EnqueueEffect, RunnersAssumption
<1>5. \A u \in Tasks : u # t => row'[u] = row[u]
  BY <1>4 DEF TypeOK
<1>6. t \in batch[r].todo /\ ~ AtWork(r)
  BY <1>1, <1>3 DEF FirstTodo, SoleState, Working
<1>7. Enlisted(r)'
  BY <1>2, <1>3, <1>4, <1>5, <1>6 DEF SoleState, Enlisted
<1>8. Working(r)' /\ Taken(r)'
  BY <1>2, <1>3, <1>4, <1>6 DEF Working, AtWork, Taken
<1>9. Answered(r)'
  <2>1. batch[r].pending \subseteq Tasks
    BY DEF BatchTypeOK, BatchStates
  <2>2. QED
    BY <1>2, <1>3, <1>4, <1>5, <2>1 DEF SoleState, Answered, Terminal
<1>10. Counted(r)'
  <2>1. \A u \in Tasks : LatestOf(u) <= LatestOf(u)'
    <3> SUFFICES ASSUME NEW u \in Tasks PROVE LatestOf(u) <= LatestOf(u)'
      OBVIOUS
    <3>1. row[u].attempt \in Nat
      BY DEF TypeOK, Rows
    <3>2. QED
      BY <1>4, <1>5, <3>1 DEF LatestOf
  <2>2. Spent(r) \subseteq Spent(r)'
    BY <1>2, <1>3, <1>4, <1>6, <2>1, SpentStays, PendingType
  <2>3. /\ Cardinality(Spent(r)) <= Cardinality(Spent(r)')
        /\ Cardinality(Spent(r)) \in Nat /\ Cardinality(Spent(r)') \in Nat
        /\ batch[r].rounds \in Nat
    BY <2>2, SpentBounds, SpentBoundsPrime, FS_Subset
       DEF BatchTypeOK, BatchStates
  <2>4. batch[r].rounds <= Cardinality(Spent(r))
    BY <1>3 DEF SoleState, Counted, Holding
  <2>5. QED
    BY <1>2, <1>3, <2>3, <2>4 DEF Counted
<1>11. QED
  BY <1>7, <1>8, <1>9, <1>10 DEF SoleState

(* The rounds suffice: they are as many as attempts, and the last attempt  *)
(* of a pending task is never spent. *)
LEMMA SoleLeave ==
  ASSUME BatchTypeOK, NEW r \in Runners, SoleState(r), Leave(r)
  PROVE  SoleState(r)'
<1>1. /\ batch[r].pc = "rounding" /\ row' = row /\ run' = run
      /\ batch[r].pending = {} \/ batch[r].rounds = Budget(r)
      /\ Go(r, IF batch[r].pending = {} THEN "returned" ELSE "raised")
  BY DEF Leave
<1>2. ~ AtWork(r)
  BY <1>1 DEF SoleState, Working
<1>3. batch[r].pending = {}
  <2> SUFFICES ASSUME NEW t \in batch[r].pending, batch[r].rounds = Budget(r)
               PROVE  FALSE
    BY <1>1
  <2> DEFINE all == Batch[r] \X (1..MaxAttempts)
             last == <<t, MaxAttempts>>
  <2>1. MaxAttempts \in Nat \ {0} /\ t \in Batch[r]
    BY <1>1, LimitsAssumption, PendingType
  <2>2. last \in all /\ last \notin Spent(r)
    BY <2>1 DEF Spent, Over
  <2>3. /\ Cardinality(Spent(r)) \in Nat /\ Cardinality(all) \in Nat
        /\ Cardinality(Spent(r)) + 1 <= Cardinality(all)
    BY <2>2, AllAttempts, SpentBounds, OneMore
  <2>4. Budget(r) <= Cardinality(Spent(r))
    BY <1>1 DEF SoleState, Counted, Holding
  <2>5. QED
    BY <2>3, <2>4, AllAttempts
<1>4. QED
  BY <1>1, <1>2, <1>3, SoleEnds DEF AtWork

(* Only a task of the batch that is still pending can be claimed. *)
LEMMA ClaimIsPending ==
  ASSUME BatchTypeOK, GotIsStored, NEW r \in Runners, SoleState(r),
         batch[r].pc # "ready", NEW t \in Tasks,
         row[t].status \notin {"absent"} \cup Terminal
  PROVE  t \in batch[r].pending
<1>1. t \in Batch[r]
  BY DEF SoleState, Enlisted
<1>2. batch[r].got[t] = None
  BY DEF GotIsStored
<1>3. QED
  BY <1>1, <1>2 DEF BatchTypeOK

LEMMA SoleClaim ==
  ASSUME OneStore, TypeOK, TypeOK', StoreInv, BatchTypeOK, GotIsStored,
         NEW r \in Runners, SoleState(r), batch[r].pc = "rounding", Claim(r),
         batch' = [batch EXCEPT ![r].pc = "running", ![r].rounds = @ + 1]
  PROVE  SoleState(r)'
<1>1. PICK t \in Tasks :
        /\ run[r].pc = "idle"
        /\ row[t].status \in {"queued", "retry", "running"}
        /\ row' = [row EXCEPT ![t] = row'[t]]
        /\ row'[t].status = "running"
        /\ row'[t].attempt = NextAttempt(t)
        /\ run'[r].pc = "claimed" /\ run'[r].task = t
  BY ClaimEffect
<1>2. t \in batch[r].pending
  BY <1>1, ClaimIsPending DEF Terminal
<1> DEFINE went == [batch[r] EXCEPT !.pc = "running", !.rounds = @ + 1]
<1>3. /\ batch' = [batch EXCEPT ![r] = went]
      /\ went.pc = "running" /\ went.todo = batch[r].todo
      /\ went.pending = batch[r].pending
      /\ went.rounds = batch[r].rounds + 1
  BY DEF BatchTypeOK, BatchStates
<1> HIDE DEF went
<1>4. batch'[r] = went /\ batch[r].pending \subseteq Tasks
  BY <1>3 DEF BatchTypeOK, BatchStates
<1>5. RowsGrow /\ SettledBy(r) /\ ~ Complete(r)
  BY <1>1, RunnerGrows DEF RunOnce, Complete
<1>6. /\ row[t].attempt \in Nat /\ NextAttempt(t) \in Nat
      /\ NextAttempt(t) >= 1 /\ LatestOf(t) < NextAttempt(t)
      /\ LatestOf(t) \in Nat
  <2>1. row[t].attempt \in Nat /\ (row[t].status = "queued" => row[t].attempt = 1)
    BY DEF TypeOK, Rows, StoreInv, QueuedUntouched
  <2>2. QED
    BY <1>1, <2>1 DEF NextAttempt, LatestOf
<1>7. Enlisted(r)'
  BY <1>3, <1>4, <1>5 DEF SoleState, Enlisted, RowsGrow
<1>8. Working(r)' /\ Taken(r)'
  BY <1>1, <1>2, <1>3, <1>4, <1>6 DEF Working, OwnAttempt, Taken
<1>9. Answered(r)'
  <2>1. \A u \in Tasks : row'[u].status \in Terminal => row'[u] = row[u]
    BY <1>5 DEF SettledBy
  <2>2. QED
    BY <1>3, <1>4, <2>1 DEF SoleState, Answered
<1>10. Spent(r) \subseteq Spent(r)'
  <2> SUFFICES ASSUME NEW u \in Batch[r], NEW n \in 1..MaxAttempts,
                      Over(r, u, n)
               PROVE  Over(r, u, n)'
    BY <1>3, <1>4 DEF Spent
  <2>1. /\ LatestOf(u) \in Nat /\ LatestOf(u)' \in Nat
        /\ LatestOf(u) <= LatestOf(u)'
    BY <1>5, PendingType DEF RowsGrow, TypeOK, Rows, LatestOf
  <2>2. u = t => n < OwnAttempt(r)'
    <3>1. OwnAttempt(r)' = NextAttempt(t)
      BY <1>1 DEF OwnAttempt
    <3>2. QED
      BY <1>6, <3>1 DEF Over
  <2>3. QED
    BY <1>1, <2>1, <2>2 DEF Over
<1>11. Counted(r)'
  <2>1. /\ Cardinality(Spent(r)) <= Cardinality(Spent(r)')
        /\ Cardinality(Spent(r)) \in Nat /\ Cardinality(Spent(r)') \in Nat
        /\ batch[r].rounds \in Nat
    BY <1>10, SpentBounds, SpentBoundsPrime, FS_Subset
       DEF BatchTypeOK, BatchStates
  <2>2. batch[r].rounds <= Cardinality(Spent(r))
    BY DEF SoleState, Counted, Holding
  <2>3. QED
    BY <1>3, <1>4, <2>1, <2>2 DEF Counted, Holding
<1>12. QED
  BY <1>7, <1>8, <1>9, <1>11 DEF SoleState

(* Every set of numbers has a least one. *)
LEMMA LeastOf ==
  ASSUME NEW S \in SUBSET Nat, S # {}
  PROVE  \E m \in S : \A n \in S : m <= n
<1>1. PICK m \in S : \A n \in S : ~ (<<n, m>> \in OpToRel(<, Nat))
  BY NatLessThanWellFounded, WFMin
<1>2. ASSUME NEW n \in S PROVE m <= n
  <2>1. <<n, m>> \in Nat \X Nat /\ <<n, m>>[1] = n /\ <<n, m>>[2] = m
    OBVIOUS
  <2>2. ~ (n < m)
    BY <1>1, <2>1 DEF OpToRel
  <2>3. QED
    BY <2>2
<1>3. QED
  BY <1>2

(* ORDER BY finds a first row whenever one can be claimed. *)
LEMMA FirstExists ==
  ASSUME TypeOK, NEW t \in Claimable PROVE \E u \in Tasks : First(u)
<1> DEFINE due == {row[u].available : u \in Claimable}
<1>1. \A u \in Claimable : u \in Tasks /\ u \in Nat /\ row[u].available \in Nat
  BY TasksAssumption DEF Claimable, TypeOK, Rows
<1>2. PICK d \in due : \A e \in due : d <= e
  BY <1>1, LeastOf
<1> DEFINE soonest == {u \in Claimable : row[u].available = d}
<1>3. PICK u \in soonest : \A v \in soonest : u <= v
  <2>1. soonest \subseteq Nat /\ soonest # {}
    BY <1>1, <1>2
  <2>2. QED
    BY <2>1, LeastOf
<1>4. ASSUME NEW v \in Claimable \ {u}
      PROVE  \/ row[u].available < row[v].available
             \/ row[u].available = row[v].available /\ u < v
  <2>1. /\ v \in Claimable /\ u # v /\ u \in Nat /\ v \in Nat
        /\ row[u].available = d /\ d \in Nat /\ row[v].available \in Nat
    BY <1>1, <1>3, <1>4
  <2>2. row[v].available \in due
    BY <2>1
  <2>3. d <= row[v].available
    BY <1>2, <2>2
  <2>4. row[v].available = d => u <= v
    BY <1>3, <2>1
  <2>5. QED
    BY <2>1, <2>3, <2>4
<1>5. QED
  BY <1>1, <1>3, <1>4 DEF First

(* While a pending task is queued there is something to claim; so a call   *)
(* that finds nothing has a task that is taken. *)
LEMMA SoleDrained ==
  ASSUME TypeOK, StoreInv, BatchTypeOK, GotIsStored, RowsAreKept,
         NEW r \in Runners, SoleState(r), batch[r].pc = "rounding",
         batch[r].pending # {}, ClaimNothing(r), Drained(r)
  PROVE  SoleState(r)'
<1>1. run'[r].pc = "idle" /\ row' = row /\ Go(r, "raised")
  BY DEF ClaimNothing, Drained, vars
<1>2. \E t \in batch[r].pending :
        row[t].status \in {"retry", "running"} \cup Terminal
  <2> SUFFICES ASSUME \A t \in batch[r].pending :
                        row[t].status \notin {"retry", "running"} \cup Terminal
               PROVE  FALSE
    OBVIOUS
  <2>1. ASSUME NEW t \in batch[r].pending
        PROVE  /\ t \in Tasks /\ row[t].status = "queued"
               /\ row[t].attempt = 1 /\ row[t].available <= clock
    <3>1. t \in Batch[r] /\ t \in Tasks /\ batch[r].todo = {}
      BY PendingType DEF SoleState, Enlisted
    <3>2. row[t].status # "absent" /\ row[t].status \in Statuses
      BY <3>1 DEF SoleState, Enlisted, TypeOK, Rows
    <3>3. row[t].status = "queued"
      BY <3>2 DEF Statuses
    <3>4. QED
      BY <3>1, <3>3 DEF StoreInv, QueuedUntouched, RowsAreKept
  <2>2. PICK t \in Tasks : First(t)
    <3>1. PICK t \in batch[r].pending : TRUE
      OBVIOUS
    <3>2. t \in Claimable
      BY <2>1 DEF Claimable
    <3>3. QED
      BY <3>2, FirstExists
  <2>3. t \in batch[r].pending
    BY <2>2, ClaimIsPending DEF First, Claimable, Terminal
  <2>4. Decodable(t)
    BY <2>1, <2>3, LimitsAssumption DEF Decodable
  <2>5. QED
    BY <2>2, <2>4 DEF ClaimNothing
<1>3. QED
  BY <1>1, <1>2, SoleEnds

(* A claim that is executed holds a task that is no longer queued. *)
LEMMA TaskIsTaken ==
  ASSUME TypeOK, StoreInv, NEW r \in Runners, run[r].pc # "idle"
  PROVE  row[run[r].task].status \in {"retry", "running"} \cup Terminal
<1>1. run[r].task \in Tasks
  BY DEF TypeOK
<1>2. row[run[r].task].status \in Statuses
  BY <1>1 DEF TypeOK, Rows
<1>3. QED
  BY <1>1, <1>2 DEF StoreInv, QueuedUntouched, Statuses

(* Reading the claim back and checking its outcome: the row is not moved,  *)
(* and a call that fails here has a task that is taken. *)
LEMMA SoleRead ==
  ASSUME TypeOK, TypeOK', StoreInv, BatchTypeOK,
         NEW r \in Runners, SoleState(r), batch[r].pc = "running",
         AtWork(r), row' = row,
         \/ run'[r].pc = "idle" /\ Go(r, "raised")
         \/ /\ run'[r].pc # "idle" /\ run'[r].pc # "claimed"
            /\ run'[r].task = run[r].task
            /\ run'[r].attempt = OwnAttempt(r)
            /\ batch' = batch
  PROVE  SoleState(r)'
<1>1. CASE run'[r].pc = "idle" /\ Go(r, "raised")
  <2>1. run[r].task \in batch[r].pending
    BY DEF SoleState, Working
  <2>2. row[run[r].task].status \in {"retry", "running"} \cup Terminal
    BY TaskIsTaken DEF AtWork
  <2>3. QED
    BY <1>1, <2>1, <2>2, SoleEnds
<1>2. CASE /\ run'[r].pc # "idle" /\ run'[r].pc # "claimed"
           /\ run'[r].task = run[r].task
           /\ run'[r].attempt = OwnAttempt(r)
           /\ batch' = batch
  <2>1. OwnAttempt(r)' = OwnAttempt(r)
    BY <1>2 DEF OwnAttempt
  <2>2. Spent(r)' = Spent(r)
    BY <1>2, <2>1 DEF Spent, Over, AtWork, LatestOf
  <2>3. QED
    BY <1>2, <2>1, <2>2
       DEF SoleState, Enlisted, Working, AtWork, Answered, Counted, Taken
<1>3. QED
  BY <1>1, <1>2

LEMMA SoleReread ==
  ASSUME TypeOK, TypeOK', StoreInv, BatchTypeOK,
         NEW r \in Runners, SoleState(r), Reread(r)
  PROVE  SoleState(r)'
<1>1. /\ run[r].pc = "claimed" /\ row' = row
      /\ \/ run'[r].pc = "idle"
         \/ /\ run'[r].pc = "executing" /\ run'[r].task = run[r].task
            /\ run'[r].attempt = OwnAttempt(r)
  BY ReadBackEffect DEF Reread, OwnAttempt
<1>2. /\ batch[r].pc = "running"
      /\ run'[r].pc = "idle" => Go(r, "raised")
      /\ run'[r].pc # "idle" => batch' = batch
  BY DEF Reread
<1>3. QED
  BY <1>1, <1>2, SoleRead DEF AtWork

LEMMA SoleReport ==
  ASSUME TypeOK, TypeOK', StoreInv, BatchTypeOK,
         NEW r \in Runners, SoleState(r), Report(r)
  PROVE  SoleState(r)'
<1>1. PICK kind \in Kinds : \/ Check(r, kind) /\ UNCHANGED batch
                            \/ Reject(r, kind) /\ Go(r, "raised")
  BY DEF Report
<1>2. batch[r].pc = "running"
  BY DEF Report
<1>3. CASE Check(r, kind) /\ UNCHANGED batch
  <2>1. /\ run[r].pc = "executing" /\ row' = row
        /\ run'[r].pc \in {"retrying", "completing"}
        /\ run'[r].task = run[r].task
        /\ run'[r].attempt = OwnAttempt(r)
    BY <1>3, CheckEffect DEF OwnAttempt
  <2>2. QED
    BY <1>2, <1>3, <2>1, SoleRead DEF AtWork
<1>4. CASE Reject(r, kind) /\ Go(r, "raised")
  <2>1. run[r].pc = "executing" /\ row' = row /\ run'[r].pc = "idle"
    BY <1>4, IdleRun DEF Reject, TypeOK
  <2>2. QED
    BY <1>2, <1>4, <2>1, SoleRead DEF AtWork
<1>5. QED
  BY <1>1, <1>3, <1>4

(* What the return of run_once leaves in the call. *)
LEMMA ReturnPending ==
  ASSUME BatchTypeOK, NEW r \in Runners, Return(r)
  PROVE  /\ batch'[r].pc = "rounding" /\ batch'[r].todo = batch[r].todo
         /\ batch'[r].rounds = batch[r].rounds
         /\ batch'[r].pending =
              IF Delivered(r, Outcome(r))
              THEN batch[r].pending \ {run[r].task} ELSE batch[r].pending
<1> DEFINE kept == Kept(batch[r], run[r].task, Outcome(r))
           same == [batch[r] EXCEPT !.pc = "rounding"]
<1>1. /\ kept.pc = "rounding" /\ kept.todo = batch[r].todo
      /\ kept.rounds = batch[r].rounds
      /\ kept.pending = batch[r].pending \ {run[r].task}
      /\ same.pc = "rounding" /\ same.todo = batch[r].todo
      /\ same.rounds = batch[r].rounds
      /\ same.pending = batch[r].pending
  BY DEF Kept, BatchTypeOK, BatchStates
<1>2. batch' = [batch EXCEPT ![r] =
                  IF Delivered(r, Outcome(r)) THEN kept ELSE same]
  BY DEF Return
<1> HIDE DEF kept, same
<1>3. batch'[r] = IF Delivered(r, Outcome(r)) THEN kept ELSE same
  BY <1>2 DEF BatchTypeOK
<1>4. QED
  BY <1>1, <1>3

(* A round that ends spends an attempt: the one it ran, or all that were   *)
(* left of the task it answered. *)
LEMMA RoundIsSpent ==
  ASSUME OneStore, TypeOK, TypeOK', StoreInv, BatchTypeOK, BatchTypeOK',
         NEW r \in Runners, SoleState(r), Return(r)
  PROVE  /\ Spent(r) \subseteq Spent(r)'
         /\ \E p \in Spent(r)' : p \notin Spent(r)
<1>0. PICK u \in Tasks : u = run[r].task
  BY DEF TypeOK, Return, Write, Complete, Retry
<1>1. /\ run[r].pc \in {"completing", "retrying"} /\ u \in batch[r].pending
      /\ u \in Tasks /\ u \in Batch[r] /\ batch[r].pc = "running"
      /\ run'[r].pc = "idle" /\ run[r].attempt >= 1
      /\ run[r].attempt \in Nat /\ MaxAttempts \in Nat \ {0}
  <2>1. batch[r].pc = "running" /\ run[r].pc \in {"completing", "retrying"}
    BY DEF Return, Write, Complete, Retry
  <2>2. u \in batch[r].pending /\ run[r].attempt >= 1
    BY <1>0, <2>1 DEF SoleState, Working, AtWork, OwnAttempt
  <2>3. run'[r].pc = "idle"
    BY IdleRun DEF Return, Write, Complete, Retry, TypeOK
  <2>4. QED
    BY <1>0, <2>1, <2>2, <2>3, PendingType, LimitsAssumption DEF TypeOK, Runs
<1>2. batch'[r].pending \subseteq batch[r].pending
  BY ReturnPending
<1>3. \A t \in Tasks :
        LatestOf(t) \in Nat /\ LatestOf(t)' \in Nat /\ LatestOf(t) <= LatestOf(t)'
  BY RunnerGrows DEF Return, RunOnce, RowsGrow, TypeOK, Rows, LatestOf
<1>4. Spent(r) \subseteq Spent(r)'
  <2> SUFFICES ASSUME NEW t \in Batch[r], NEW n \in 1..MaxAttempts,
                      Over(r, t, n)
               PROVE  Over(r, t, n)'
    BY <1>2 DEF Spent
  <2>1. n <= LatestOf(t)'
    BY <1>1, <1>3, PendingType DEF Over
  <2>2. QED
    BY <1>1, <2>1 DEF Over, AtWork
<1>5. CASE Complete(r)
  <2> DEFINE last == <<u, MaxAttempts>>
  <2>1. Delivered(r, Outcome(r))
    <3>1. run[r] \in Runs
      BY DEF TypeOK
    <3>2. ~ Retries(r, run[r].kind)
      BY <1>5 DEF StoreInv, VerdictStands, Complete
    <3>3. QED
      BY <1>0, <1>1, <3>1, <3>2, OutcomeType DEF Delivered, Final, Retries
  <2>2. u \notin batch'[r].pending
    BY <1>0, <2>1, ReturnPending
  <2>3. last \in Spent(r)' /\ last \notin Spent(r)
    BY <1>1, <2>2 DEF Spent, Over
  <2>4. QED
    BY <1>4, <2>3
<1>6. CASE Retry(r)
  <2> DEFINE own == <<u, run[r].attempt>>
  <2>1. run[r].attempt < MaxAttempts
    BY <1>6 DEF StoreInv, VerdictStands, Retries, Retry
  <2>2. run[r].attempt <= row[u].attempt
    BY <1>0, <1>1 DEF StoreInv, AttemptsReached, Live
  <2>3. row'[u].status = "retry" /\ row'[u].attempt = row[u].attempt
    BY <1>0, <1>6, RetryEffect
  <2>4. LatestOf(u)' = row[u].attempt
    BY <2>3 DEF LatestOf
  <2>5. own \in Batch[r] \X (1..MaxAttempts)
    BY <1>1, <2>1
  <2>6. own \in Spent(r)'
    BY <1>1, <2>1, <2>2, <2>4, <2>5 DEF Spent, Over, AtWork
  <2>7. own \notin Spent(r)
    BY <1>0, <1>1 DEF Spent, Over, AtWork, OwnAttempt
  <2>8. QED
    BY <1>4, <2>6, <2>7
<1>7. QED
  BY <1>5, <1>6 DEF Return, Write

LEMMA SoleReturn ==
  ASSUME OneStore, TypeOK, TypeOK', StoreInv, BatchTypeOK, BatchTypeOK',
         NEW r \in Runners, SoleState(r), Return(r)
  PROVE  SoleState(r)'
<1>1. /\ batch[r].pc = "running" /\ batch'[r].pc = "rounding"
      /\ batch'[r].todo = batch[r].todo /\ batch'[r].rounds = batch[r].rounds
      /\ batch'[r].pending =
           IF Delivered(r, Outcome(r))
           THEN batch[r].pending \ {run[r].task} ELSE batch[r].pending
  BY ReturnPending DEF Return
<1>2. RowsGrow /\ SettledBy(r) /\ ~ AtWork(r)'
  BY RunnerGrows, IdleRun
     DEF Return, RunOnce, Write, Complete, Retry, AtWork, TypeOK
<1>3. Enlisted(r)'
  BY <1>1, <1>2 DEF SoleState, Enlisted, RowsGrow
<1>4. Working(r)' /\ Taken(r)'
  BY <1>1, <1>2 DEF Working, Taken
<1>5. Answered(r)'
  <2> SUFFICES ASSUME NEW t \in batch'[r].pending, row'[t].status \in Terminal
               PROVE  row'[t].outcome.by # r
    BY DEF Answered
  <2>1. t \in batch[r].pending /\ t \in Tasks
    BY <1>1 DEF BatchTypeOK, BatchStates
  <2>2. CASE row'[t] = row[t]
    BY <2>1, <2>2 DEF SoleState, Answered
  <2>3. CASE Complete(r) /\ t = run[r].task
    <3>1. run[r] \in Runs /\ ~ Retries(r, run[r].kind)
      BY <2>3 DEF TypeOK, StoreInv, VerdictStands, Complete
    <3>2. Delivered(r, Outcome(r))
      BY <2>1, <2>3, <3>1, OutcomeType, LimitsAssumption
         DEF Delivered, Final, Retries
    <3>3. QED
      BY <1>1, <2>3, <3>2
  <2>4. QED
    BY <1>2, <2>1, <2>2, <2>3 DEF SettledBy
<1>6. Counted(r)'
  <2>1. /\ Cardinality(Spent(r)) + 1 <= Cardinality(Spent(r)')
        /\ Cardinality(Spent(r)) \in Nat /\ Cardinality(Spent(r)') \in Nat
    BY RoundIsSpent, SpentBoundsPrime, OneMore
  <2>2. batch[r].rounds <= Cardinality(Spent(r)) + 1 /\ batch[r].rounds \in Nat
    BY <1>1 DEF SoleState, Counted, BatchTypeOK, BatchStates
  <2>3. QED
    BY <1>1, <2>1, <2>2 DEF Counted
<1>7. QED
  BY <1>3, <1>4, <1>5, <1>6 DEF SoleState

-----------------------------------------------------------------------------
(* All steps.                                                              *)

(* A worker without a batch, whose call has not begun, finds an empty      *)
(* queue. *)
LEMMA AloneIsIdle ==
  ASSUME TypeOK, BatchTypeOK, NEW r \in Runners, SoleState(r),
         Batch[r] = {}, RunOnce(r) \/ Renew(r)
  PROVE  UNCHANGED <<row, run>>
<1>1. ~ AtWork(r)
  <2>1. AtWork(r) => batch[r].pc = "running" /\ run[r].task \in batch[r].pending
    BY DEF SoleState, Working
  <2>2. QED
    BY <2>1, PendingType
<1>2. \A t \in Tasks : row[t].status = "absent"
  BY DEF SoleState, Enlisted
<1>3. ~ Claim(r)
  BY <1>2, ClaimEffect
<1>4. QED
  BY <1>1, <1>3
     DEF RunOnce, ReadBack, ClaimNothing, Finish, Check, Reject, Write,
         Complete, Retry, Renew, AtWork, vars

LEMMA SoleInit == BatchInit => SoleInv
<1> SUFFICES ASSUME BatchInit PROVE SoleInv
  OBVIOUS
<1>1. /\ \A t \in Tasks : row[t].status = "absent"
      /\ \A r \in Runners : batch[r] = Ready /\ run[r].pc = "idle"
  BY DEF BatchInit, Init, NoRow, Idle
<1>2. RowsAreKept
  BY <1>1 DEF RowsAreKept, Terminal
<1>3. ASSUME NEW r \in Runners PROVE SoleState(r)
  <2>1. Enlisted(r) /\ Working(r) /\ Answered(r) /\ Taken(r)
    BY <1>1, <1>3
       DEF Ready, Enlisted, Working, AtWork, Answered, Taken, Terminal
  <2>2. Counted(r)
    BY <1>1, <1>3 DEF Ready, Counted, Holding
  <2>3. QED
    BY <2>1, <2>2 DEF SoleState
<1>4. QED
  BY <1>2, <1>3 DEF SoleInv

(* Rows are due and have outcomes. *)
LEMMA RowsKept ==
  ASSUME OneStore, TypeOK, StoreInv, RowsAreKept, [BatchNext]_batchVars
  PROVE  RowsAreKept'
<1>0. \A t \in Tasks : row[t].available \in Nat /\ clock \in Nat
  BY DEF TypeOK, Rows
<1>1. ASSUME RowsGrow, clock' \in Nat, clock <= clock',
             \E r \in Runners : SettledBy(r)
      PROVE  RowsAreKept'
  <2> SUFFICES ASSUME NEW t \in Tasks
               PROVE  /\ row'[t].status = "queued" => row'[t].available <= clock'
                      /\ row'[t].status \in Terminal =>
                           row'[t].outcome \in Outcomes
    BY DEF RowsAreKept
  <2>1. row'[t].status = "queued" => row'[t].available <= clock'
    BY <1>0, <1>1 DEF RowsGrow, RowsAreKept
  <2>2. row'[t].status \in Terminal => row'[t].outcome \in Outcomes
    BY <1>1 DEF SettledBy, RowsAreKept
  <2>3. QED
    BY <2>1, <2>2
<1>2. ASSUME NEW r \in Runners, RunOnce(r) \/ Renew(r) PROVE RowsAreKept'
  <2>1. clock' = clock
    BY <1>2 DEF RunOnce, Claim, ReadBack, ClaimNothing, Finish, Check, Reject,
                Write, Complete, Retry, Renew, vars
  <2>2. QED
    BY <1>0, <1>1, <1>2, <2>1, RunnerGrows DEF TypeOK
<1>3. ASSUME NEW c \in Connections, NEW t \in Tasks, Enqueue(c, t)
      PROVE RowsAreKept'
  <2> DEFINE new == [NoRow EXCEPT !.status = "queued", !.attempt = 1,
                                  !.available = clock]
  <2>1. new.status = "queued" /\ new.available = clock
    BY DEF NoRow
  <2>2. row' = [row EXCEPT ![t] = new] /\ clock' = clock
    BY <1>3 DEF Enqueue
  <2> HIDE DEF new
  <2>3. QED
    BY <1>0, <2>1, <2>2 DEF RowsAreKept, TypeOK, Terminal
<1>4. CASE row' = row /\ (clock' = clock \/ clock' = clock + 1)
  BY <1>0, <1>4 DEF RowsAreKept
<1>5. ASSUME NEW r \in Runners, Put(r) PROVE RowsAreKept'
  BY <1>3, <1>4, <1>5, RunnersAssumption DEF Put
<1>6. ASSUME NEW r \in Runners, Round(r) \/ Reread(r) \/ Report(r) \/ Return(r)
      PROVE RowsAreKept'
  BY <1>2, <1>6 DEF Round, Reread, Report, Return, RunOnce, Finish
<1>7. QED
  BY <1>2, <1>4, <1>5, <1>6
     DEF BatchNext, ExecuteMany, Start, Seek, Leave, Alone, Cancel, Crash,
         Tick, batchVars
(* A step of a call moves no other call and leaves it begun. *)
LEMMA OneCallMoves ==
  ASSUME BatchTypeOK, NEW r \in Runners, Start(r) \/ ExecuteMany(r)
  PROVE  /\ batch'[r].pc # "ready"
         /\ \A s \in Runners \ {r} : batch'[s] = batch[s]
<1> DEFINE Goal == /\ batch'[r].pc # "ready"
                   /\ \A s \in Runners \ {r} : batch'[s] = batch[s]
<1>1. ASSUME NEW went, batch' = [batch EXCEPT ![r] = went], went.pc # "ready"
      PROVE  Goal
  BY <1>1 DEF BatchTypeOK
<1>2. ASSUME NEW pc, pc # "ready", Go(r, pc) PROVE Goal
  BY <1>2, GoFields DEF Go, BatchTypeOK
<1>3. CASE Start(r)
  <2> DEFINE went == [Ready EXCEPT !.pc = "enqueuing", !.todo = Batch[r],
                                   !.pending = Batch[r]]
  <2>1. batch' = [batch EXCEPT ![r] = went] /\ went.pc = "enqueuing"
    BY <1>3 DEF Start, Ready
  <2> HIDE DEF went
  <2>2. QED
    BY <1>1, <2>1
<1>4. ASSUME NEW t \in Tasks, Enqueued(r, t) PROVE Goal
  <2> DEFINE rest == batch[r].todo \ {t}
             pc == IF rest = {} THEN "rounding" ELSE "enqueuing"
             went == [batch[r] EXCEPT !.todo = rest, !.pc = pc]
  <2>1. batch' = [batch EXCEPT ![r] = went] /\ went.pc = pc
    BY <1>4 DEF Enqueued, BatchTypeOK, BatchStates
  <2> HIDE DEF went
  <2>2. QED
    BY <1>1, <2>1
<1>5. CASE Seek(r) \/ Put(r) \/ Leave(r)
  BY <1>2, <1>4, <1>5 DEF Seek, Put, Leave
<1>6. CASE Round(r)
  <2>1. CASE Drained(r)
    BY <1>2, <2>1 DEF Drained
  <2>2. CASE batch' = [batch EXCEPT ![r].pc = "running", ![r].rounds = @ + 1]
    <3> DEFINE went == [batch[r] EXCEPT !.pc = "running", !.rounds = @ + 1]
    <3>1. batch' = [batch EXCEPT ![r] = went] /\ went.pc = "running"
      BY <2>2 DEF BatchTypeOK, BatchStates
    <3> HIDE DEF went
    <3>2. QED
      BY <1>1, <3>1
  <2>3. QED
    BY <1>6, <2>1, <2>2 DEF Round
<1>7. CASE Reread(r) \/ Report(r)
  <2>1. batch[r].pc = "running" /\ (Go(r, "raised") \/ UNCHANGED batch)
    BY <1>7 DEF Reread, Report
  <2>2. QED
    BY <1>2, <2>1
<1>8. CASE Return(r)
  BY <1>8, ReturnPending DEF Return, BatchTypeOK
<1>9. QED
  BY <1>3, <1>5, <1>6, <1>7, <1>8 DEF ExecuteMany

(* Crashes and cancellations stop the call or leave it alone. *)
LEMMA LostOrSame ==
  ASSUME BatchTypeOK, NEW lost, Lose(lost), NEW r \in Runners
  PROVE  /\ batch'[r].todo = batch[r].todo
         /\ batch'[r].pending = batch[r].pending
         /\ IF r \in lost /\ batch[r].pc \notin Ended \cup {"ready"}
            THEN batch'[r].pc = "lost" ELSE batch'[r] = batch[r]
<1> DEFINE gone == [batch[r] EXCEPT !.pc = "lost"]
<1>1. /\ gone.pc = "lost" /\ gone.todo = batch[r].todo
      /\ gone.pending = batch[r].pending
  BY DEF BatchTypeOK, BatchStates
<1>2. batch'[r] = IF r \in lost /\ batch[r].pc \notin Ended \cup {"ready"}
                  THEN gone ELSE batch[r]
  BY DEF Lose
<1> HIDE DEF gone
<1>3. QED
  BY <1>1, <1>2

LEMMA SoleBefore ==
  ASSUME BatchTypeOK, [BatchNext]_batchVars, NEW r \in Runners, SoleCall(r)'
  PROVE  SoleCall(r)
<1> SUFFICES ASSUME NEW s \in Runners \ {r} PROVE batch[s].pc = "ready"
  BY DEF SoleCall
<1>1. batch'[s].pc = "ready"
  BY DEF SoleCall
<1>2. ASSUME NEW q \in Runners, Start(q) \/ ExecuteMany(q)
      PROVE  batch[s].pc = "ready"
  BY <1>1, <1>2, OneCallMoves
<1>3. ASSUME NEW lost, Lose(lost) PROVE batch[s].pc = "ready"
  BY <1>1, <1>3, LostOrSame
<1>4. CASE UNCHANGED batch
  BY <1>1, <1>4
<1>5. QED
  BY <1>2, <1>3, <1>4 DEF BatchNext, Alone, batchVars

LEMMA SoleStep ==
  ASSUME OneStore
  PROVE  /\ TypeOK /\ TypeOK' /\ StoreInv /\ BatchTypeOK /\ BatchTypeOK'
         /\ GotIsStored /\ SoleInv /\ [BatchNext]_batchVars
         => SoleInv'
<1> SUFFICES ASSUME TypeOK, TypeOK', StoreInv, BatchTypeOK, BatchTypeOK',
                    GotIsStored, SoleInv, [BatchNext]_batchVars,
                    NEW r \in Runners, SoleCall(r)'
             PROVE  SoleState(r)'
  BY RowsKept DEF SoleInv
<1>1. SoleState(r) /\ RowsAreKept
  BY SoleBefore DEF SoleInv
<1>2. ASSUME NEW s \in Runners, s # r PROVE ~ Start(s) /\ ~ ExecuteMany(s)
  BY <1>2, OneCallMoves DEF SoleCall
<1>3. CASE Start(r)
  BY <1>1, <1>3, SoleStart
<1>4. CASE ExecuteMany(r)
  <2>1. CASE Seek(r) \/ Put(r) \/ Leave(r)
    BY <1>1, <2>1, SoleSeek, SolePut, SoleLeave
  <2>2. CASE Round(r)
    BY <1>1, <2>2, SoleClaim, SoleDrained DEF Round
  <2>3. CASE Reread(r) \/ Report(r) \/ Return(r)
    BY <1>1, <2>3, SoleReread, SoleReport, SoleReturn
  <2>4. QED
    BY <1>4, <2>1, <2>2, <2>3 DEF ExecuteMany
<1>5. ASSUME row' = row, Untouched(r) \/ Stopped(r) PROVE SoleState(r)'
  BY <1>1, <1>5, SameRows, SoleKept
<1>6. ASSUME NEW s \in Runners, Alone(s) PROVE SoleState(r)'
  <2>1. batch' = batch /\ Batch[s] = {} /\ (RunOnce(s) \/ Renew(s))
    BY <1>6 DEF Alone
  <2>2. CASE s = r
    BY <1>1, <1>5, <2>1, <2>2, AloneIsIdle DEF Untouched
  <2>3. CASE s # r
    <3>1. run'[r] = run[r]
      BY <2>1, <2>3
         DEF RunOnce, Claim, ReadBack, ClaimNothing, Finish, Check, Reject,
             Write, Complete, Retry, Renew, vars, TypeOK
    <3>2. RowsGrow /\ SettledBy(s)
      BY <2>1, RunnerGrows
    <3>3. Untouched(r)
      BY <2>1, <3>1 DEF Untouched
    <3>4. \A t \in Tasks : row'[t].status \in Terminal =>
            row'[t] = row[t] \/ row'[t].outcome.by # r
      BY <2>3, <3>2 DEF SettledBy
    <3>5. QED
      BY <1>1, <3>2, <3>3, <3>4, SoleKept
  <2>4. QED
    BY <2>2, <2>3
<1>7. ASSUME NEW s \in Runners, Cancel(s), Lose({s}) PROVE SoleState(r)'
  <2>1. row' = row /\ run[s].pc = "executing" /\ run' = [run EXCEPT ![s] = Idle]
    BY <1>7 DEF Cancel
  <2>2. CASE s = r
    <3>1. run'[r].pc = "idle"
      BY <2>1, <2>2, IdleRun DEF TypeOK
    <3>2. Stopped(r)
      BY <1>7, <2>2, <3>1, LostOrSame DEF Stopped
    <3>3. QED
      BY <1>5, <2>1, <3>2
  <2>3. CASE s # r
    BY <1>5, <1>7, <2>1, <2>3, LostOrSame DEF Untouched, TypeOK
  <2>4. QED
    BY <2>2, <2>3
<1>8. ASSUME NEW c \in Connections, Crash(c),
             Lose({s \in Runners : Conn[s] = c})
      PROVE SoleState(r)'
  <2>1. row' = row /\ run'[r] = (IF Conn[r] = c THEN Idle ELSE run[r])
    BY <1>8 DEF Crash
  <2>2. CASE Conn[r] = c
    <3>1. Stopped(r)
      BY <1>8, <2>1, <2>2, LostOrSame, IdleRun DEF Stopped
    <3>2. QED
      BY <1>5, <2>1, <3>1
  <2>3. CASE Conn[r] # c
    BY <1>5, <1>8, <2>1, <2>3, LostOrSame DEF Untouched
  <2>4. QED
    BY <2>2, <2>3
<1>9. CASE row' = row /\ run' = run /\ batch' = batch
  BY <1>5, <1>9 DEF Untouched
<1>10. QED
  BY <1>2, <1>3, <1>4, <1>6, <1>7, <1>8, <1>9
     DEF BatchNext, Tick, batchVars

LEMMA SoleFails ==
  ASSUME BatchTypeOK, SoleInv PROVE OnlyRetriesFail
<1> SUFFICES ASSUME NEW r \in Runners, batch[r].pc = "raised", Undisturbed(r)
             PROVE  \E t \in batch[r].pending :
                      row[t].status \in {"retry", "running"}
  BY DEF OnlyRetriesFail
<1>1. SoleState(r) /\ RowsAreKept
  BY DEF SoleInv, SoleCall, Undisturbed
<1>2. PICK t \in batch[r].pending :
        row[t].status \in {"retry", "running"} \cup Terminal
  BY <1>1 DEF SoleState, Taken
<1>3. row[t].status \notin Terminal
  <2> SUFFICES ASSUME row[t].status \in Terminal PROVE FALSE
    OBVIOUS
  <2>1. t \in Tasks /\ row[t].outcome.by # r
    BY <1>1 DEF SoleState, Answered, BatchTypeOK, BatchStates
  <2>2. row[t].outcome # None
    BY <1>1, <2>1, BatchAssumption DEF RowsAreKept
  <2>3. QED
    BY <2>1, <2>2 DEF Undisturbed
<1>4. QED
  BY <1>2, <1>3

(* In one process, a call that has the queue to itself, and whose tasks    *)
(* only its own run_once answers, fails only when a task of it waits for a *)
(* retry or is left running: its rounds suffice, no outcome it reports is  *)
(* refused and no task it enqueues is a conflict, whatever faults happen.  *)
THEOREM FailuresAreRetries ==
  ASSUME OneStore PROVE BatchSpec => []OnlyRetriesFail
<1>1. BatchSpec => []SoleInv
  BY SoleInit, SoleStep, BatchesUseTheQueue, TypeCorrect, StoreCorrect,
     BatchTypeCorrect, ScoredIsStored, PTL
     DEF BatchSpec
<1>2. BatchTypeOK /\ SoleInv => OnlyRetriesFail
  BY SoleFails
<1>3. QED
  BY <1>1, <1>2, BatchTypeCorrect, PTL
=============================================================================
