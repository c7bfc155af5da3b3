---------------------- MODULE AnalysisLifecycleProofs ----------------------
(***************************************************************************)
(* Proofs about AnalysisLifecycle for any requests, jobs and results.      *)
(* Types hold in every deployment.  What a store call read stands when it  *)
(* writes only with OneProcess, the deployment docs/architecture.md        *)
(* describes: all jobs run on the event loop of one process.               *)
(***************************************************************************)
EXTENDS AnalysisLifecycle, TLAPS

OneProcess == \A i, j \in Jobs : Home[i] = Home[j]

-----------------------------------------------------------------------------
(* What each step does to its own job.                                     *)

LEMMA IdleJob == Idle \in JobStates /\ Idle.pc = "idle"
  BY DEF Idle, JobStates, InStore, Awaiting, Resting

(* Moving a job, or moving it with a result, keeps its other fields. *)
LEMMA GotoEffect ==
  ASSUME TypeOK, NEW j \in Jobs, NEW pc, Goto(j, pc),
         pc \in InStore \cup Awaiting \cup Resting
  PROVE  /\ job' = [job EXCEPT ![j] = job'[j]]
         /\ job'[j] \in JobStates
         /\ job'[j].pc = pc
         /\ job'[j].req = job[j].req
         /\ job'[j].call = job[j].call
         /\ job'[j].result = job[j].result
<1> DEFINE went == [job[j] EXCEPT !.pc = pc]
<1>1. job[j] \in JobStates
  BY DEF TypeOK
<1>2. /\ went \in JobStates /\ went.pc = pc /\ went.req = job[j].req
      /\ went.call = job[j].call /\ went.result = job[j].result
  BY <1>1 DEF JobStates
<1>3. job' = [job EXCEPT ![j] = went]
  BY DEF Goto
<1> HIDE DEF went
<1>4. job'[j] = went
  BY <1>3 DEF TypeOK
<1>5. QED
  BY <1>2, <1>3, <1>4

LEMMA ArriveEffect ==
  ASSUME TypeOK, NEW j \in Jobs, NEW q \in Requests,
         NEW call \in {"start", "analyze"}, Arrive(j, q, call)
  PROVE  /\ job[j].pc \in Resting
         /\ Quiet(Home[j])
         /\ job' = [job EXCEPT ![j] = job'[j]]
         /\ job'[j] \in JobStates
         /\ job'[j].req = q
         /\ job'[j].pc \in {"registering", "refused", "raised"}
         /\ job'[j].pc = "registering" <=> ~ RepositoryChanged(q)
         /\ UNCHANGED <<repository, analysis, faults>>
<1> DEFINE pc == IF ~ RepositoryChanged(q) THEN "registering"
                 ELSE IF call = "start" THEN "refused" ELSE "raised"
           went == [Idle EXCEPT !.req = q, !.call = call, !.pc = pc]
<1>1. /\ pc \in {"registering", "refused", "raised"}
      /\ pc = "registering" <=> ~ RepositoryChanged(q)
  OBVIOUS
<1>2. /\ job[j].pc \in Resting /\ Quiet(Home[j])
      /\ job' = [job EXCEPT ![j] = went]
      /\ UNCHANGED <<repository, analysis, faults>>
  BY DEF Arrive
<1> HIDE DEF pc
<1>3. went \in JobStates /\ went.req = q /\ went.pc = pc
  BY <1>1 DEF Idle, JobStates, InStore, Awaiting, Resting
<1> HIDE DEF went
<1>4. job'[j] = went
  BY <1>2 DEF TypeOK
<1>5. QED
  BY <1>1, <1>2, <1>3, <1>4

LEMMA AnalyzeEffect ==
  ASSUME TypeOK, NEW j \in Jobs, Analyze(j)
  PROVE  /\ job[j].pc = "posted"
         /\ Quiet(Home[j])
         /\ job' = [job EXCEPT ![j] = job'[j]]
         /\ job'[j] \in JobStates
         /\ job'[j].req = job[j].req
         /\ job'[j].pc = IF RepositoryChanged(job[j].req) THEN "raised"
                         ELSE "registering"
         /\ UNCHANGED <<repository, analysis, faults>>
<1> DEFINE pc == IF RepositoryChanged(job[j].req) THEN "raised"
                 ELSE "registering"
           went == [job[j] EXCEPT !.call = "analyze", !.pc = pc]
<1>1. pc \in {"raised", "registering"}
  OBVIOUS
<1>2. /\ job[j].pc = "posted" /\ Quiet(Home[j])
      /\ job' = [job EXCEPT ![j] = went]
      /\ UNCHANGED <<repository, analysis, faults>>
  BY DEF Analyze
<1> HIDE DEF pc
<1>3. job[j] \in JobStates
  BY DEF TypeOK
<1>4. went \in JobStates /\ went.req = job[j].req /\ went.pc = pc
  BY <1>1, <1>3 DEF JobStates, InStore, Resting
<1> HIDE DEF went
<1>5. job'[j] = went
  BY <1>2 DEF TypeOK
<1>6. QED
  BY <1>2, <1>4, <1>5 DEF pc

(* create_analysis has a record for request q. *)
LEMMA AdmitEffect ==
  ASSUME TypeOK, NEW j \in Jobs, job[j].req \in Requests, Admit(j)
  PROVE  /\ job' = [job EXCEPT ![j] = job'[j]]
         /\ job'[j] \in JobStates
         /\ job'[j].req = job[j].req
         /\ job'[j].pc \in {"posted", "collecting", "returned"}
         /\ job'[j].pc = "returned" =>
              /\ ~ Open(job[j].req)
              /\ job'[j].result = analysis[job[j].req].result
<1> DEFINE q == job[j].req
           went == [job[j] EXCEPT !.pc = "returned",
                                  !.result = analysis[q].result]
<1>1. /\ went \in JobStates /\ went.pc = "returned" /\ went.req = q
      /\ went.result = analysis[q].result
  BY DEF TypeOK, JobStates, Rows, Resting
<1>2. \/ Goto(j, "posted")
      \/ Goto(j, "collecting")
      \/ ~ Open(q) /\ job' = [job EXCEPT ![j] = went]
  BY DEF Admit
<1> HIDE DEF went
<1>3. CASE ~ Open(q) /\ job' = [job EXCEPT ![j] = went]
  BY <1>1, <1>3 DEF TypeOK
<1>4. CASE Goto(j, "posted") \/ Goto(j, "collecting")
  BY <1>4, GotoEffect DEF Awaiting
<1>5. QED
  BY <1>2, <1>3, <1>4

LEMMA SelectEffect ==
  ASSUME TypeOK, NEW j \in Jobs, Select(j)
  PROVE  /\ job[j].pc = "selecting"
         /\ job' = [job EXCEPT ![j] = job'[j]]
         /\ job'[j] \in JobStates
         /\ job'[j].req = job[j].req
         /\ \/ /\ KeyTaken(job[j].req)
               /\ job'[j].pc \in {"refused", "raised"}
            \/ /\ ~ KeyTaken(job[j].req) /\ ~ Present(job[j].req)
               /\ job'[j].pc = "inserting"
            \/ /\ ~ KeyTaken(job[j].req) /\ Present(job[j].req)
               /\ job'[j].pc \in {"posted", "collecting", "returned"}
               /\ job'[j].pc = "returned" =>
                    /\ ~ Open(job[j].req)
                    /\ job'[j].result = analysis[job[j].req].result
         /\ UNCHANGED <<repository, analysis, faults>>
<1>1. job[j].pc = "selecting" /\ UNCHANGED <<repository, analysis, faults>>
  BY DEF Select
<1>2. job[j].req \in Requests
  BY <1>1 DEF TypeOK
<1>3. CASE KeyTaken(job[j].req)
  <2>1. Goto(j, "refused") \/ Goto(j, "raised")
    BY <1>3 DEF Select, Conflict
  <2>2. QED
    BY <1>1, <1>3, <2>1, GotoEffect DEF Resting
<1>4. CASE ~ KeyTaken(job[j].req) /\ Present(job[j].req)
  BY <1>1, <1>2, <1>4, AdmitEffect DEF Select
<1>5. CASE ~ KeyTaken(job[j].req) /\ ~ Present(job[j].req)
  BY <1>1, <1>5, GotoEffect DEF Select, InStore
<1>6. QED
  BY <1>3, <1>4, <1>5

LEMMA InsertEffect ==
  ASSUME TypeOK, NEW j \in Jobs, Insert(j)
  PROVE  /\ job[j].pc = "inserting" /\ job[j].req \in Requests
         /\ job' = [job EXCEPT ![j] = job'[j]]
         /\ job'[j] \in JobStates
         /\ job'[j].req = job[j].req
         /\ \/ /\ RowTaken(job[j].req)
               /\ job'[j].pc = "raised" /\ analysis' = analysis
            \/ /\ ~ RowTaken(job[j].req)
               /\ job'[j].pc \in {"posted", "collecting"}
               /\ analysis' = [analysis EXCEPT ![job[j].req] =
                                 analysis'[job[j].req]]
               /\ analysis'[job[j].req] \in Rows
               /\ analysis'[job[j].req].state = "queued"
               /\ analysis'[job[j].req].result = None
         /\ UNCHANGED <<repository, faults>>
<1> DEFINE q == job[j].req
<1>1. job[j].pc = "inserting" /\ UNCHANGED <<repository, faults>>
  BY DEF Insert
<1>2. q \in Requests
  BY <1>1 DEF TypeOK
<1>3. CASE RowTaken(q)
  BY <1>1, <1>2, <1>3, GotoEffect DEF Insert, Resting
<1>4. CASE ~ RowTaken(q)
  <2> DEFINE new == [analysis[q] EXCEPT !.state = "queued"]
  <2>1. analysis[q].state = "absent" /\ Open(q)
    BY <1>2, <1>4 DEF RowTaken, Present, TypeOK
  <2>2. new \in Rows /\ new.state = "queued" /\ new.result = None
    BY <1>2, <2>1 DEF TypeOK, Rows, States, Open
  <2>3. Admit(j) /\ analysis' = [analysis EXCEPT ![q] = new]
    BY <1>4 DEF Insert
  <2> HIDE DEF new
  <2>4. analysis'[q] = new
    BY <1>2, <2>3 DEF TypeOK
  <2>5. QED
    BY <1>1, <1>2, <1>4, <2>1, <2>2, <2>3, <2>4, AdmitEffect
<1>5. QED
  BY <1>3, <1>4

LEMMA RegisterEffect ==
  ASSUME TypeOK, NEW j \in Jobs, Register(j)
  PROVE  /\ job[j].pc = "registering" /\ job[j].req \in Requests
         /\ job' = [job EXCEPT ![j] = job'[j]]
         /\ job'[j] \in JobStates
         /\ job'[j].req = job[j].req
         /\ job'[j].pc = "selecting"
         /\ repository' = [repository EXCEPT ![RepositoryOf[job[j].req]] =
                                               SnapshotOf[job[j].req]]
         /\ UNCHANGED <<analysis, faults>>
  BY GotoEffect DEF Register, TypeOK, InStore

LEMMA CommitEffect ==
  ASSUME TypeOK, NEW j \in Jobs, job[j].req \in Requests,
         NEW result \in Results, Commit(j, result)
  PROVE  /\ Quiet(Home[j])
         /\ job' = [job EXCEPT ![j] = job'[j]]
         /\ job'[j] \in JobStates
         /\ job'[j].req = job[j].req
         /\ job'[j].pc = CommitEnd(job[j].req, result)
         /\ job'[j].pc \in {"raised", "writing", "returned"}
         /\ job'[j].result = result
         /\ UNCHANGED <<repository, analysis, faults>>
<1> DEFINE pc == CommitEnd(job[j].req, result)
           went == [job[j] EXCEPT !.pc = pc, !.result = result]
<1>1. pc \in {"raised", "writing", "returned"}
  BY DEF CommitEnd
<1>2. /\ Quiet(Home[j])
      /\ job' = [job EXCEPT ![j] = went]
      /\ UNCHANGED <<repository, analysis, faults>>
  BY DEF Commit
<1> HIDE DEF pc
<1>3. job[j] \in JobStates
  BY DEF TypeOK
<1>4. /\ went \in JobStates /\ went.pc = pc /\ went.req = job[j].req
      /\ went.result = result
  BY <1>1, <1>3 DEF JobStates, InStore, Resting
<1> HIDE DEF went
<1>5. job'[j] = went
  BY <1>2 DEF TypeOK
<1>6. QED
  BY <1>1, <1>2, <1>4, <1>5 DEF pc
(* A collector or the executor returns or raises. *)
LEMMA AwaitEffect ==
  ASSUME TypeOK, NEW j \in Jobs, Collect(j) \/ Execute(j)
  PROVE  /\ job[j].pc \in {"collecting", "executing"}
         /\ job[j].req \in Requests
         /\ Quiet(Home[j])
         /\ job' = [job EXCEPT ![j] = job'[j]]
         /\ job'[j] \in JobStates
         /\ job'[j].req = job[j].req
         /\ \/ job'[j].pc = "executing"
            \/ /\ job'[j].pc = CommitEnd(job[j].req, job'[j].result)
               /\ job'[j].pc \in {"raised", "writing", "returned"}
               /\ job'[j].result \in Results
         /\ UNCHANGED <<repository, analysis, faults>>
<1>1. /\ job[j].pc \in {"collecting", "executing"}
      /\ job[j].req \in Requests /\ job[j].facts \in Digests \cup {None}
  BY DEF Collect, Execute, Collected, CollectionFails, Executed, TypeOK,
         JobStates
<1>2. ASSUME NEW digest \in Digests, Collected(j, digest)
      PROVE  /\ Quiet(Home[j])
             /\ job' = [job EXCEPT ![j] = job'[j]]
             /\ job'[j] \in JobStates
             /\ job'[j].req = job[j].req
             /\ job'[j].pc = "executing"
             /\ UNCHANGED <<repository, analysis, faults>>
  <2> DEFINE went == [job[j] EXCEPT !.pc = "executing", !.facts = digest]
  <2>1. /\ Quiet(Home[j])
        /\ job' = [job EXCEPT ![j] = went]
        /\ UNCHANGED <<repository, analysis, faults>>
    BY <1>2 DEF Collected
  <2>2. went \in JobStates /\ went.req = job[j].req /\ went.pc = "executing"
    BY DEF TypeOK, JobStates, Awaiting
  <2> HIDE DEF went
  <2>3. QED
    BY <2>1, <2>2 DEF TypeOK
<1>3. ASSUME CollectionFails(j) \/ Execute(j)
      PROVE  \E result \in Results : Commit(j, result)
  <2>1. \A categories \in Categories :
          /\ [facts |-> job[j].facts, categories |-> categories] \in Results
          /\ [facts |-> None, categories |-> categories] \in Results
    BY <1>1 DEF Results
  <2>2. QED
    BY <1>3, <2>1 DEF CollectionFails, Execute, Executed, Categories
<1>4. CASE \E digest \in Digests : Collected(j, digest)
  BY <1>1, <1>2, <1>4
<1>5. CASE CollectionFails(j) \/ Execute(j)
  BY <1>1, <1>3, <1>5, CommitEffect
<1>6. QED
  BY <1>4, <1>5 DEF Collect

LEMMA WriteEffect ==
  ASSUME TypeOK, NEW j \in Jobs, Write(j)
  PROVE  /\ job[j].pc = "writing" /\ job[j].req \in Requests
         /\ job' = [job EXCEPT ![j] = job'[j]]
         /\ job'[j] \in JobStates
         /\ job'[j].req = job[j].req
         /\ job'[j].pc = "returned"
         /\ job'[j].result = job[j].result
         /\ analysis' = [analysis EXCEPT ![job[j].req] =
                           analysis'[job[j].req]]
         /\ analysis'[job[j].req] \in Rows
         /\ analysis'[job[j].req].state \notin {"absent", "queued"}
         /\ analysis'[job[j].req].result = job[j].result
         /\ job[j].result # None
         /\ UNCHANGED <<repository, faults>>
<1> DEFINE q == job[j].req
           state == StateOf(q, job[j].result.categories)
           new == [state |-> state, result |-> job[j].result]
<1>1. job[j].pc = "writing" /\ q \in Requests /\ job[j].result \in Results
  BY DEF Write, TypeOK
<1>2. state \in States \ {"absent", "queued"}
  BY <1>1 DEF StateOf, States, Results, Categories
<1>3. /\ Goto(j, "returned") /\ UNCHANGED <<repository, faults>>
      /\ analysis' = [analysis EXCEPT ![q] = new]
  BY DEF Write
<1> HIDE DEF state
<1>4. new \in Rows /\ new.state = state /\ new.result = job[j].result
  BY <1>1, <1>2 DEF Rows
<1> HIDE DEF new
<1>5. analysis'[q] = new
  BY <1>1, <1>3 DEF TypeOK
<1>6. QED
  BY <1>1, <1>2, <1>3, <1>4, <1>5, GotoEffect, NoneAssumption DEF Resting

(* Crashes and cancellations empty jobs, and are counted where they hit. *)
LEMMA FaultEffect ==
  ASSUME TypeOK,
         (\E p \in Processes : Crash(p)) \/ (\E j \in Jobs : Cancel(j))
  PROVE  /\ UNCHANGED <<repository, analysis>>
         /\ job' \in [Jobs -> JobStates]
         /\ faults' \in [Requests -> Nat]
         /\ \A q \in Requests : faults'[q] >= faults[q]
         /\ \A j \in Jobs :
              \/ job'[j] = job[j]
              \/ /\ job'[j] = Idle
                 /\ job[j].req \in Requests => faults'[job[j].req] > 0
<1>1. ASSUME NEW p \in Processes, Crash(p) PROVE
         /\ UNCHANGED <<repository, analysis>>
         /\ job' \in [Jobs -> JobStates]
         /\ faults' \in [Requests -> Nat]
         /\ \A q \in Requests : faults'[q] >= faults[q]
         /\ \A j \in Jobs :
              \/ job'[j] = job[j]
              \/ /\ job'[j] = Idle
                 /\ job[j].req \in Requests => faults'[job[j].req] > 0
  <2> DEFINE hit == {j \in Jobs : Home[j] = p /\ job[j].pc \notin Resting}
             lost == {job[j].req : j \in hit}
             more(q) == IF q \in lost THEN 1 ELSE 0
  <2>1. /\ UNCHANGED <<repository, analysis>>
        /\ faults' = [q \in Requests |-> faults[q] + more(q)]
        /\ job' = [j \in Jobs |-> IF j \in hit THEN Idle ELSE job[j]]
    BY <1>1 DEF Crash
  <2>2. \A j \in hit : job[j].req \in lost
    OBVIOUS
  <2>3. \A q \in Requests : more(q) \in Nat /\ (q \in lost => more(q) = 1)
    OBVIOUS
  <2> HIDE DEF lost, hit, more
  <2>4. \A q \in Requests : faults[q] \in Nat
    BY DEF TypeOK
  <2>5. \A q \in Requests : /\ faults'[q] \in Nat /\ faults'[q] >= faults[q]
                            /\ q \in lost => faults'[q] > 0
    BY <2>1, <2>3, <2>4
  <2>6. job' \in [Jobs -> JobStates] /\ faults' \in [Requests -> Nat]
    BY <2>1, <2>3, <2>4, IdleJob DEF TypeOK
  <2>7. QED
    BY <2>1, <2>2, <2>5, <2>6
<1>2. ASSUME NEW i \in Jobs, Cancel(i) PROVE
         /\ UNCHANGED <<repository, analysis>>
         /\ job' \in [Jobs -> JobStates]
         /\ faults' \in [Requests -> Nat]
         /\ \A q \in Requests : faults'[q] >= faults[q]
         /\ \A j \in Jobs :
              \/ job'[j] = job[j]
              \/ /\ job'[j] = Idle
                 /\ job[j].req \in Requests => faults'[job[j].req] > 0
  <2>1. /\ job[i].pc \in Awaiting
        /\ UNCHANGED <<repository, analysis>>
        /\ faults' = [faults EXCEPT ![job[i].req] = @ + 1]
        /\ job' = [job EXCEPT ![i] = Idle]
    BY <1>2 DEF Cancel
  <2>2. job[i].req \in Requests /\ \A q \in Requests : faults[q] \in Nat
    BY <2>1 DEF TypeOK, Awaiting
  <2>3. \A q \in Requests : /\ faults'[q] \in Nat /\ faults'[q] >= faults[q]
                            /\ q = job[i].req => faults'[q] > 0
    BY <2>1, <2>2 DEF TypeOK
  <2>4. job' \in [Jobs -> JobStates] /\ faults' \in [Requests -> Nat]
    BY <2>1, <2>2, <2>3, IdleJob DEF TypeOK
  <2>5. \A j \in Jobs : job'[j] = IF j = i THEN Idle ELSE job[j]
    BY <2>1 DEF TypeOK
  <2>6. QED
    BY <2>1, <2>3, <2>4, <2>5
<1>3. QED
  BY <1>1, <1>2

-----------------------------------------------------------------------------
(* Type correctness.                                                       *)

LEMMA TypeInit == Init => TypeOK
  BY IdleJob DEF Init, TypeOK, NoRow, Rows, States, Open, Idle

(* A step that moves one job and keeps every row that has a result. *)
LEMMA TypeMove ==
  ASSUME TypeOK, NEW j \in Jobs,
         job' = [job EXCEPT ![j] = job'[j]],
         job'[j] \in JobStates,
         job'[j].pc # "idle" => job'[j].req \in Requests,
         job'[j].pc = "writing" => job'[j].result \in Results,
         repository' \in [Repositories -> Snapshots \cup {None}],
         analysis' \in [Requests -> Rows],
         faults' = faults,
         \A q \in Requests :
           analysis'[q].state \in {"absent", "queued"} <=> Open(q)'
  PROVE  TypeOK'
  BY DEF TypeOK

LEMMA TypeStep == TypeOK /\ [Next]_vars => TypeOK'
<1> SUFFICES ASSUME TypeOK, [Next]_vars PROVE TypeOK'
  OBVIOUS
<1>1. ASSUME NEW j \in Jobs, NEW q \in Requests,
             NEW call \in {"start", "analyze"}, Arrive(j, q, call)
      PROVE TypeOK'
  BY <1>1, ArriveEffect, TypeMove DEF TypeOK, Open
<1>2. ASSUME NEW j \in Jobs, Analyze(j) PROVE TypeOK'
  BY <1>2, AnalyzeEffect, TypeMove DEF TypeOK, Open
<1>3. ASSUME NEW j \in Jobs, Register(j) PROVE TypeOK'
  <2>1. job[j].req \in Requests
    BY <1>3, RegisterEffect
  <2>2. SnapshotOf[job[j].req] \in Snapshots
    BY <2>1, RequestsAssumption
  <2>3. repository' \in [Repositories -> Snapshots \cup {None}]
    BY <1>3, <2>2, RegisterEffect DEF TypeOK
  <2>4. QED
    BY <1>3, <2>1, <2>3, RegisterEffect, TypeMove DEF TypeOK, Open
<1>4. ASSUME NEW j \in Jobs, Select(j) PROVE TypeOK'
  BY <1>4, SelectEffect, TypeMove DEF TypeOK, Open
<1>5. ASSUME NEW j \in Jobs, Insert(j) PROVE TypeOK'
  BY <1>5, InsertEffect, TypeMove DEF TypeOK, Open
<1>6. ASSUME NEW j \in Jobs, Collect(j) \/ Execute(j) PROVE TypeOK'
  BY <1>6, AwaitEffect, TypeMove DEF TypeOK, Open
<1>7. ASSUME NEW j \in Jobs, Write(j) PROVE TypeOK'
  BY <1>7, WriteEffect, TypeMove DEF TypeOK, Open
<1>8. CASE (\E p \in Processes : Crash(p)) \/ (\E j \in Jobs : Cancel(j))
  BY <1>8, FaultEffect, IdleJob DEF TypeOK, Open
<1>9. CASE UNCHANGED vars
  BY <1>9 DEF vars, TypeOK, Open
<1>10. QED
  BY <1>1, <1>2, <1>3, <1>4, <1>5, <1>6, <1>7, <1>8, <1>9
     DEF Next, JobStep, StoreStep

(* In every deployment jobs and rows keep their types, and a row holds a   *)
(* result exactly when its state is final. *)
THEOREM TypeCorrect == Spec => []TypeOK
  BY TypeInit, TypeStep, PTL DEF Spec
-----------------------------------------------------------------------------
(* LifecycleInv: one process.                                              *)

LEMMA InvInit == Init => LifecycleInv
  BY DEF Init, LifecycleInv, Serial, ReadStands, RowsKept, ReturnedIsStored,
         Idle, NoRow, Present, InStore, Awaiting

(* A job that moves finds, or leaves, every other job outside the store. *)
LEMMA SerialMove ==
  ASSUME OneProcess, TypeOK, Serial, NEW j \in Jobs,
         job' = [job EXCEPT ![j] = job'[j]],
         Quiet(Home[j]) \/ job[j].pc \in InStore
  PROVE  /\ Serial'
         /\ \A i \in Jobs : i # j => /\ job'[i] = job[i]
                                     /\ job[i].pc \notin InStore
<1>1. \A i \in Jobs : i # j => job[i].pc \notin InStore
  BY DEF OneProcess, Quiet, Serial
<1>2. \A i \in Jobs : i # j => job'[i] = job[i]
  BY DEF TypeOK
<1>3. QED
  BY <1>1, <1>2 DEF Serial

(* A move that writes no table. *)
LEMMA InvMove ==
  ASSUME OneProcess, TypeOK, LifecycleInv, NEW j \in Jobs,
         job' = [job EXCEPT ![j] = job'[j]],
         Quiet(Home[j]) \/ job[j].pc \in InStore,
         UNCHANGED <<repository, analysis>>,
         job'[j].pc = "registering" => ~ RepositoryChanged(job'[j].req),
         job'[j].pc # "selecting",
         job'[j].pc = "inserting" =>
           /\ ~ RowTaken(job'[j].req)
           /\ repository[RepositoryOf[job'[j].req]] = SnapshotOf[job'[j].req],
         job'[j].pc \in Awaiting \cup {"writing"} => Present(job'[j].req),
         job'[j].pc = "writing" => Open(job'[j].req),
         job'[j].pc = "returned" =>
           /\ ~ Open(job'[j].req)
           /\ analysis[job'[j].req].result = job'[j].result
  PROVE  LifecycleInv'
<1> USE DEF LifecycleInv
<1>1. Serial' /\ \A i \in Jobs : i # j => /\ job'[i] = job[i]
                                          /\ job[i].pc \notin InStore
  BY SerialMove
<1>2. \A q : /\ Present(q)' <=> Present(q)
             /\ Open(q)' <=> Open(q)
             /\ KeyTaken(q)' <=> KeyTaken(q)
             /\ RowTaken(q)' <=> RowTaken(q)
             /\ RepositoryChanged(q)' <=> RepositoryChanged(q)
  BY DEF Present, Open, KeyTaken, RowTaken, RepositoryChanged
<1>3. ReadStands'
  <2> SUFFICES ASSUME NEW i \in Jobs
      PROVE  /\ job'[i].pc = "registering" => ~ RepositoryChanged(job'[i].req)
             /\ job'[i].pc = "inserting" => ~ RowTaken(job'[i].req)
             /\ job'[i].pc = "writing" =>
                  Open(job'[i].req) /\ Present(job'[i].req)
             /\ job'[i].pc = "returned" => ~ Open(job'[i].req)
    BY <1>2 DEF ReadStands, Present, Open, KeyTaken, RowTaken,
                RepositoryChanged
  <2>1. CASE i = j
    BY <2>1
  <2>2. CASE i # j
    BY <1>1, <2>2 DEF ReadStands, InStore
  <2>3. QED
    BY <2>1, <2>2
<1>4. RowsKept'
  BY <1>1 DEF RowsKept, Present, KeyTaken, InStore
<1>5. ReturnedIsStored'
  BY <1>1 DEF ReturnedIsStored
<1>6. QED
  BY <1>1, <1>3, <1>4, <1>5

LEMMA InvRegister ==
  ASSUME OneProcess, TypeOK, LifecycleInv, NEW j \in Jobs, Register(j)
  PROVE  LifecycleInv'
<1> USE DEF LifecycleInv
<1> DEFINE q == job[j].req
<1>1. /\ job[j].pc = "registering" /\ q \in Requests
      /\ job' = [job EXCEPT ![j] = job'[j]]
      /\ job'[j].pc = "selecting" /\ job'[j].req = q
      /\ repository' = [repository EXCEPT ![RepositoryOf[q]] = SnapshotOf[q]]
      /\ UNCHANGED <<analysis, faults>>
  BY RegisterEffect
<1>2. Serial' /\ \A i \in Jobs : i # j => /\ job'[i] = job[i]
                                          /\ job[i].pc \notin InStore
  BY <1>1, SerialMove DEF InStore
<1>3. repository[RepositoryOf[q]] \in {None, SnapshotOf[q]}
  BY <1>1 DEF ReadStands, RepositoryChanged
<1>4. RepositoryOf[q] \in Repositories /\ SnapshotOf[q] \in Snapshots
  BY <1>1, RequestsAssumption
<1>5. \A r \in Requests : SnapshotOf[r] # None
  BY RequestsAssumption, NoneAssumption
<1>6. \A r \in Requests :
        Present(r) => repository'[RepositoryOf[r]] = SnapshotOf[r]
  BY <1>1, <1>3, <1>4, <1>5, RequestsAssumption DEF RowsKept, TypeOK
<1>7. repository'[RepositoryOf[q]] = SnapshotOf[q]
  BY <1>1, <1>4 DEF TypeOK
<1> HIDE DEF q
<1>8. ReadStands'
  BY <1>1, <1>2 DEF ReadStands, Present, Open, InStore
<1>9. RowsKept'
  BY <1>1, <1>2, <1>6, <1>7 DEF RowsKept, Present, KeyTaken, InStore, Awaiting
<1>10. ReturnedIsStored'
  BY <1>1, <1>2 DEF ReturnedIsStored
<1>11. QED
  BY <1>2, <1>8, <1>9, <1>10

LEMMA InvSelect ==
  ASSUME OneProcess, TypeOK, LifecycleInv, NEW j \in Jobs, Select(j)
  PROVE  LifecycleInv'
<1>1. /\ job[j].pc = "selecting"
      /\ repository[RepositoryOf[job[j].req]] = SnapshotOf[job[j].req]
  BY SelectEffect DEF LifecycleInv, RowsKept
<1>2. QED
  BY <1>1, SelectEffect, InvMove DEF InStore, Awaiting, RowTaken

(* The new row has its repository registered and its key to itself. *)
LEMMA InvInsert ==
  ASSUME OneProcess, TypeOK, LifecycleInv, NEW j \in Jobs, Insert(j)
  PROVE  LifecycleInv'
<1> USE DEF LifecycleInv
<1>1. PICK q \in Requests :
        /\ q = job[j].req /\ job[j].pc = "inserting"
        /\ job' = [job EXCEPT ![j] = job'[j]]
        /\ job'[j].req = q
        /\ job'[j].pc \in {"posted", "collecting"}
        /\ ~ RowTaken(q)
        /\ analysis' = [analysis EXCEPT ![q] = analysis'[q]]
        /\ analysis'[q].state = "queued" /\ analysis'[q].result = None
        /\ repository' = repository
  <2>1. ~ RowTaken(job[j].req)
    BY InsertEffect DEF ReadStands
  <2>2. QED
    BY <2>1, InsertEffect
<1>2. Serial' /\ \A i \in Jobs : i # j => /\ job'[i] = job[i]
                                          /\ job[i].pc \notin InStore
  BY <1>1, SerialMove DEF InStore
<1>3. ~ Present(q) /\ Present(q)' /\ Open(q)'
  BY <1>1 DEF RowTaken, Present, Open
<1>4. \A r \in Requests : r # q => analysis'[r] = analysis[r]
  BY <1>1 DEF TypeOK
<1>5. Open(q)
  BY <1>3 DEF TypeOK, Present
<1>6. \A i \in Jobs : i # j /\ job[i].pc = "returned" =>
        job[i].req \in Requests \ {q}
  BY <1>5 DEF ReadStands, TypeOK
<1>7. ReadStands'
  BY <1>1, <1>2, <1>4, <1>6 DEF ReadStands, Open, InStore
<1>8. \A r \in Requests : Present(r)' => ~ KeyTaken(r)'
  BY <1>1, <1>3, <1>4 DEF RowsKept, KeyTaken, RowTaken, Present
<1>9. \A i \in Jobs : job'[i].pc \in Awaiting =>
                       analysis'[job'[i].req].state # "absent"
  <2> SUFFICES ASSUME NEW i \in Jobs, job'[i].pc \in Awaiting
      PROVE  analysis'[job'[i].req].state # "absent"
    OBVIOUS
  <2>1. CASE i = j
    BY <1>1, <2>1
  <2>2. CASE i # j
    <3>1. job'[i] = job[i] /\ job[i].pc \in Awaiting
      BY <1>2, <2>2
    <3>2. job[i].req \in Requests /\ Present(job[i].req)
      BY <3>1 DEF RowsKept, Awaiting, TypeOK
    <3>3. job[i].req # q
      BY <1>3, <3>2
    <3>4. QED
      BY <1>4, <3>1, <3>2, <3>3 DEF Present
  <2>3. QED
    BY <2>1, <2>2
<1>10. repository[RepositoryOf[q]] = SnapshotOf[q]
  BY <1>1 DEF RowsKept
<1>11. RowsKept'
  <2>1. \A i \in Jobs : job'[i].pc \notin {"selecting", "inserting"}
    BY <1>1, <1>2 DEF InStore
  <2>2. \A r \in Requests :
          Present(r)' => repository'[RepositoryOf[r]] = SnapshotOf[r]
    BY <1>1, <1>4, <1>10 DEF RowsKept, Present
  <2>3. QED
    BY <1>8, <1>9, <2>1, <2>2 DEF RowsKept, Present
<1>12. ReturnedIsStored'
  BY <1>1, <1>2, <1>4, <1>6 DEF ReturnedIsStored
<1>13. QED
  BY <1>2, <1>7, <1>11, <1>12

LEMMA InvWrite ==
  ASSUME OneProcess, TypeOK, LifecycleInv, NEW j \in Jobs, Write(j)
  PROVE  LifecycleInv'
<1> USE DEF LifecycleInv
<1>1. PICK q \in Requests :
        /\ q = job[j].req /\ job[j].pc = "writing"
        /\ job' = [job EXCEPT ![j] = job'[j]]
        /\ job'[j].req = q /\ job'[j].pc = "returned"
        /\ analysis' = [analysis EXCEPT ![q] = analysis'[q]]
        /\ analysis'[q].state # "absent"
        /\ analysis'[q].result = job'[j].result /\ job'[j].result # None
        /\ repository' = repository
  BY WriteEffect
<1>2. Serial' /\ \A i \in Jobs : i # j => /\ job'[i] = job[i]
                                          /\ job[i].pc \notin InStore
  BY <1>1, SerialMove DEF InStore
<1>3. Open(q) /\ Present(q) /\ ~ Open(q)' /\ Present(q)'
  BY <1>1 DEF ReadStands, Open, Present
<1>4. \A r \in Requests : r # q => analysis'[r] = analysis[r]
  BY <1>1 DEF TypeOK
<1>5. \A i \in Jobs : i # j /\ job[i].pc = "returned" =>
        job[i].req \in Requests \ {q}
  BY <1>3 DEF ReadStands, TypeOK
<1>6. ReadStands'
  BY <1>1, <1>2, <1>3, <1>4, <1>5 DEF ReadStands, Open, InStore
<1>7. \A r \in Requests : Present(r)' <=> Present(r)
  BY <1>3, <1>4 DEF Present
<1>8. \A r \in Requests : KeyTaken(r)' <=> KeyTaken(r)
  BY <1>7 DEF KeyTaken
<1>9. RowsKept'
  BY <1>1, <1>2, <1>7, <1>8 DEF RowsKept, Awaiting, InStore, TypeOK
<1>10. ReturnedIsStored'
  BY <1>1, <1>2, <1>4, <1>5 DEF ReturnedIsStored
<1>11. QED
  BY <1>2, <1>6, <1>9, <1>10

LEMMA InvAwait ==
  ASSUME OneProcess, TypeOK, LifecycleInv, NEW j \in Jobs,
         Collect(j) \/ Execute(j)
  PROVE  LifecycleInv'
<1>1. Present(job[j].req)
  BY AwaitEffect DEF LifecycleInv, RowsKept, Awaiting
<1>2. QED
  BY <1>1, AwaitEffect, InvMove
     DEF CommitEnd, SameResult, Awaiting

LEMMA InvFault ==
  ASSUME TypeOK, LifecycleInv,
         (\E p \in Processes : Crash(p)) \/ (\E j \in Jobs : Cancel(j))
  PROVE  LifecycleInv'
<1>1. /\ UNCHANGED <<repository, analysis>>
      /\ \A j \in Jobs : job'[j] = job[j] \/ job'[j].pc = "idle"
  BY FaultEffect, IdleJob
<1>2. QED
  BY <1>1
     DEF LifecycleInv, Serial, ReadStands, RowsKept, ReturnedIsStored, InStore,
         Awaiting, RepositoryChanged, RowTaken, KeyTaken, Present, Open

LEMMA InvStep ==
  ASSUME OneProcess
  PROVE  TypeOK /\ LifecycleInv /\ [Next]_vars => LifecycleInv'
<1> SUFFICES ASSUME TypeOK, LifecycleInv, [Next]_vars PROVE LifecycleInv'
  OBVIOUS
<1>1. ASSUME NEW j \in Jobs, NEW q \in Requests,
             NEW call \in {"start", "analyze"}, Arrive(j, q, call)
      PROVE LifecycleInv'
  BY <1>1, ArriveEffect, InvMove DEF Awaiting
<1>2. ASSUME NEW j \in Jobs, Analyze(j) PROVE LifecycleInv'
  BY <1>2, AnalyzeEffect, InvMove DEF Awaiting
<1>3. ASSUME NEW j \in Jobs, Register(j) PROVE LifecycleInv'
  BY <1>3, InvRegister
<1>4. ASSUME NEW j \in Jobs, Select(j) PROVE LifecycleInv'
  BY <1>4, InvSelect
<1>5. ASSUME NEW j \in Jobs, Insert(j) PROVE LifecycleInv'
  BY <1>5, InvInsert
<1>6. ASSUME NEW j \in Jobs, Collect(j) \/ Execute(j) PROVE LifecycleInv'
  BY <1>6, InvAwait
<1>7. ASSUME NEW j \in Jobs, Write(j) PROVE LifecycleInv'
  BY <1>7, InvWrite
<1>8. CASE (\E p \in Processes : Crash(p)) \/ (\E j \in Jobs : Cancel(j))
  BY <1>8, InvFault
<1>9. CASE UNCHANGED vars
  BY <1>9
     DEF vars, LifecycleInv, Serial, ReadStands, RowsKept, ReturnedIsStored,
         RepositoryChanged, RowTaken, KeyTaken, Present, Open
<1>10. QED
  BY <1>1, <1>2, <1>3, <1>4, <1>5, <1>6, <1>7, <1>8, <1>9
     DEF Next, JobStep, StoreStep

LEMMA InvCorrect == ASSUME OneProcess PROVE Spec => []LifecycleInv
  BY TypeCorrect, InvInit, InvStep, PTL DEF Spec

(* With one process the result analyze returned is the stored one, for     *)
(* every job and however many jobs served the request. *)
THEOREM AnswersAreStored == ASSUME OneProcess PROVE Spec => []ReturnedIsStored
<1>1. LifecycleInv => ReturnedIsStored
  BY DEF LifecycleInv
<1>2. QED
  BY <1>1, InvCorrect, PTL

-----------------------------------------------------------------------------
(* Stored results.                                                         *)

RowsFinal ==
  \A q \in Requests : analysis[q].result # None => analysis'[q] = analysis[q]

LEMMA FinalStep == TypeOK /\ LifecycleInv /\ [Next]_vars => RowsFinal
<1> SUFFICES ASSUME TypeOK, LifecycleInv, [Next]_vars PROVE RowsFinal
  OBVIOUS
<1> USE DEF RowsFinal, TypeOK, Open
<1>1. ASSUME NEW j \in Jobs, Insert(j) PROVE RowsFinal
  BY <1>1, InsertEffect DEF RowTaken, Present
<1>2. ASSUME NEW j \in Jobs, Write(j) PROVE RowsFinal
  BY <1>2, WriteEffect DEF LifecycleInv, ReadStands
<1>3. CASE UNCHANGED analysis
  BY <1>3
<1>4. QED
  BY <1>1, <1>2, <1>3
     DEF Next, JobStep, StoreStep, Arrive, Analyze, Register, Select, Collect,
         Execute, Collected, CollectionFails, Executed, Commit, Crash, Cancel,
         vars

(* With one process a committed result is never overwritten, whichever     *)
(* jobs still execute the same request. *)
THEOREM ResultsAreFinal == ASSUME OneProcess PROVE Spec => ResultIsFinal
<1>1. TypeOK /\ LifecycleInv /\ [Next]_vars => [RowsFinal]_vars
  BY FinalStep
<1>2. QED
  BY <1>1, TypeCorrect, InvCorrect, PTL DEF Spec, ResultIsFinal, RowsFinal

-----------------------------------------------------------------------------
(* Queued analyses.                                                        *)

LEMMA WorkInit == Init => QueuedHasJob
  BY DEF Init, NoRow, QueuedHasJob

(* A job that writes no result takes its request on, if it is queued, or   *)
(* rests after serving another one. *)
LEMMA WorkMove ==
  ASSUME TypeOK, QueuedHasJob, NEW j \in Jobs,
         job' = [job EXCEPT ![j] = job'[j]],
         UNCHANGED <<analysis, faults>>,
         \A q \in Requests \ Extended :
           /\ job[j].pc \notin Resting /\ job[j].req = q
           /\ analysis[q].state = "queued"
           => job'[j].req = q /\ job'[j].pc \notin Resting
  PROVE  QueuedHasJob'
<1> SUFFICES ASSUME NEW q \in Requests \ Extended,
                    analysis'[q].state = "queued", faults'[q] = 0
             PROVE  \E i \in Jobs : job'[i].req = q /\ job'[i].pc \notin Resting
  BY DEF QueuedHasJob, Served
<1>1. PICK i \in Jobs : job[i].req = q /\ job[i].pc \notin Resting
  BY DEF QueuedHasJob, Served
<1>2. CASE i = j
  BY <1>1, <1>2
<1>3. CASE i # j
  BY <1>1, <1>3 DEF TypeOK
<1>4. QED
  BY <1>2, <1>3

LEMMA WorkInsert ==
  ASSUME TypeOK, QueuedHasJob, NEW j \in Jobs, Insert(j), ~ RowTaken(job[j].req)
  PROVE  QueuedHasJob'
<1> SUFFICES ASSUME NEW q \in Requests \ Extended,
                    analysis'[q].state = "queued", faults'[q] = 0
             PROVE  \E i \in Jobs : job'[i].req = q /\ job'[i].pc \notin Resting
  BY DEF QueuedHasJob, Served
<1>1. CASE q = job[j].req
  BY <1>1, InsertEffect DEF Resting
<1>2. CASE q # job[j].req
  <2>1. analysis[q].state = "queued" /\ faults[q] = 0
    BY <1>2, InsertEffect DEF TypeOK
  <2>2. PICK i \in Jobs : job[i].req = q /\ job[i].pc \notin Resting
    BY <2>1 DEF QueuedHasJob, Served
  <2>3. job'[i] = job[i]
    BY <1>2, <2>2, InsertEffect DEF TypeOK
  <2>4. QED
    BY <2>2, <2>3
<1>3. QED
  BY <1>1, <1>2

LEMMA WorkWrite ==
  ASSUME TypeOK, QueuedHasJob, NEW j \in Jobs, Write(j)
  PROVE  QueuedHasJob'
<1> SUFFICES ASSUME NEW q \in Requests \ Extended,
                    analysis'[q].state = "queued", faults'[q] = 0
             PROVE  \E i \in Jobs : job'[i].req = q /\ job'[i].pc \notin Resting
  BY DEF QueuedHasJob, Served
<1>1. q # job[j].req
  BY WriteEffect
<1>2. analysis[q].state = "queued" /\ faults[q] = 0
  BY <1>1, WriteEffect DEF TypeOK
<1>3. PICK i \in Jobs : job[i].req = q /\ job[i].pc \notin Resting
  BY <1>2 DEF QueuedHasJob, Served
<1>4. job'[i] = job[i]
  BY <1>1, <1>3, WriteEffect DEF TypeOK
<1>5. QED
  BY <1>3, <1>4

LEMMA WorkFault ==
  ASSUME TypeOK, QueuedHasJob,
         (\E p \in Processes : Crash(p)) \/ (\E j \in Jobs : Cancel(j))
  PROVE  QueuedHasJob'
<1> SUFFICES ASSUME NEW q \in Requests \ Extended,
                    analysis'[q].state = "queued", faults'[q] = 0
             PROVE  \E i \in Jobs : job'[i].req = q /\ job'[i].pc \notin Resting
  BY DEF QueuedHasJob, Served
<1>1. analysis[q].state = "queued" /\ faults[q] = 0
  BY FaultEffect DEF TypeOK
<1>2. PICK i \in Jobs : job[i].req = q /\ job[i].pc \notin Resting
  BY <1>1 DEF QueuedHasJob, Served
<1>3. job'[i] = job[i]
  BY <1>2, FaultEffect
<1>4. QED
  BY <1>2, <1>3

LEMMA WorkStep ==
  TypeOK /\ LifecycleInv /\ QueuedHasJob /\ [Next]_vars => QueuedHasJob'
<1> SUFFICES ASSUME TypeOK, LifecycleInv, QueuedHasJob, [Next]_vars
             PROVE  QueuedHasJob'
  OBVIOUS
<1>0. \A q \in Requests : analysis[q].state = "queued" =>
        Open(q) /\ Present(q) /\ ~ RepositoryChanged(q) /\ ~ KeyTaken(q)
  BY DEF TypeOK, LifecycleInv, RowsKept, Present, RepositoryChanged
<1>1. ASSUME NEW j \in Jobs, NEW q \in Requests,
             NEW call \in {"start", "analyze"}, Arrive(j, q, call)
      PROVE QueuedHasJob'
  BY <1>1, ArriveEffect, WorkMove
<1>2. ASSUME NEW j \in Jobs, Analyze(j) PROVE QueuedHasJob'
  BY <1>0, <1>2, AnalyzeEffect, WorkMove DEF Resting
<1>3. ASSUME NEW j \in Jobs, Register(j) PROVE QueuedHasJob'
  BY <1>3, RegisterEffect, WorkMove DEF Resting
<1>4. ASSUME NEW j \in Jobs, Select(j) PROVE QueuedHasJob'
  BY <1>0, <1>4, SelectEffect, WorkMove DEF Resting
<1>5. ASSUME NEW j \in Jobs, Insert(j) PROVE QueuedHasJob'
  BY <1>5, InsertEffect, WorkInsert DEF LifecycleInv, ReadStands
<1>6. ASSUME NEW j \in Jobs, Collect(j) \/ Execute(j) PROVE QueuedHasJob'
  BY <1>0, <1>6, AwaitEffect, WorkMove DEF CommitEnd, Resting
<1>7. ASSUME NEW j \in Jobs, Write(j) PROVE QueuedHasJob'
  BY <1>7, WorkWrite
<1>8. CASE (\E p \in Processes : Crash(p)) \/ (\E j \in Jobs : Cancel(j))
  BY <1>8, WorkFault
<1>9. CASE UNCHANGED vars
  BY <1>9 DEF vars, QueuedHasJob, Served
<1>10. QED
  BY <1>1, <1>2, <1>3, <1>4, <1>5, <1>6, <1>7, <1>8, <1>9
     DEF Next, JobStep, StoreStep

(* With one process no PUBLIC analysis is left queued without a job,       *)
(* however many jobs answer it, in whatever order, and whatever conflicts  *)
(* with it, unless a crash or a cancellation hit it. *)
THEOREM QueuedIsWorkedOn == ASSUME OneProcess PROVE Spec => []QueuedHasJob
  BY TypeCorrect, InvCorrect, WorkInit, WorkStep, PTL DEF Spec

-----------------------------------------------------------------------------
(* Refusals.                                                               *)

(* Whoever was refused has met a conflict, and the store still shows it. *)
Refused == \A j \in Jobs : job[j].pc = "refused" => Conflicts(job[j].req)

LEMMA ConflictsAre ==
  ASSUME NEW q
  PROVE  Conflicts(q) <=> RepositoryChanged(q) \/ KeyTaken(q)
  BY DEF Conflicts, RepositoryChanged, KeyTaken, Present

LEMMA RefusedInit == Init => Refused
  BY DEF Init, Idle, Refused

(* Registrations and rows stay, so conflicts do. *)
LEMMA ConflictsStay ==
  ASSUME TypeOK, LifecycleInv, [Next]_vars
  PROVE  \A q \in Requests : Conflicts(q) => Conflicts(q)'
<1>1. \A x \in Repositories : repository[x] # None =>
        repository'[x] = repository[x]
  <2>1. ASSUME NEW j \in Jobs, Register(j)
        PROVE  \A x \in Repositories : repository[x] # None =>
                 repository'[x] = repository[x]
    <3>1. /\ job[j].pc = "registering" /\ job[j].req \in Requests
          /\ repository' = [repository EXCEPT ![RepositoryOf[job[j].req]] =
                                                SnapshotOf[job[j].req]]
      BY <2>1, RegisterEffect
    <3>2. repository[RepositoryOf[job[j].req]] \in {None, SnapshotOf[job[j].req]}
      BY <3>1 DEF LifecycleInv, ReadStands, RepositoryChanged
    <3>3. QED
      BY <3>1, <3>2 DEF TypeOK
  <2>2. CASE UNCHANGED repository
    BY <2>2
  <2>3. QED
    BY <2>1, <2>2
       DEF Next, JobStep, StoreStep, Arrive, Analyze, Select, Insert, Write,
           Collect, Execute, Collected, CollectionFails, Executed, Commit,
           Crash, Cancel, vars
<1>2. \A q \in Requests : Present(q) => analysis'[q].state # "absent"
  <2>1. ASSUME NEW j \in Jobs, Insert(j)
        PROVE  \A q \in Requests : Present(q) => analysis'[q].state # "absent"
    BY <2>1, InsertEffect DEF Present, TypeOK
  <2>2. ASSUME NEW j \in Jobs, Write(j)
        PROVE  \A q \in Requests : Present(q) => analysis'[q].state # "absent"
    BY <2>2, WriteEffect DEF Present, TypeOK
  <2>3. CASE UNCHANGED analysis
    BY <2>3 DEF Present
  <2>4. QED
    BY <2>1, <2>2, <2>3
       DEF Next, JobStep, StoreStep, Arrive, Analyze, Select, Register,
           Collect, Execute, Collected, CollectionFails, Executed, Commit,
           Crash, Cancel, vars
<1>3. QED
  BY <1>1, <1>2, RequestsAssumption DEF Conflicts, Present

(* The job that moves was refused for a conflict, or was not refused. *)
LEMMA RefusedMove ==
  ASSUME TypeOK, Refused, NEW j \in Jobs,
         job' = [job EXCEPT ![j] = job'[j]],
         \A q \in Requests : Conflicts(q) => Conflicts(q)',
         NEW q \in Requests, job'[j].req = q,
         job'[j].pc = "refused" => Conflicts(q)
  PROVE  Refused'
<1> SUFFICES ASSUME NEW i \in Jobs, job'[i].pc = "refused",
                    NEW r, r = job'[i].req
             PROVE  Conflicts(r)'
  BY DEF Refused, Conflicts
<1>1. CASE i = j
  BY <1>1
<1>2. CASE i # j
  <2>1. job'[i] = job[i]
    BY <1>2 DEF TypeOK
  <2>2. r \in Requests /\ Conflicts(r)
    BY <2>1 DEF Refused, TypeOK
  <2>3. QED
    BY <2>2
<1>3. QED
  BY <1>1, <1>2

LEMMA RefusedStep ==
  TypeOK /\ LifecycleInv /\ Refused /\ [Next]_vars => Refused'
<1> SUFFICES ASSUME TypeOK, LifecycleInv, Refused, [Next]_vars PROVE Refused'
  OBVIOUS
<1>0. \A q \in Requests : Conflicts(q) => Conflicts(q)'
  BY ConflictsStay
<1>1. ASSUME NEW j \in Jobs, NEW q \in Requests,
             NEW call \in {"start", "analyze"}, Arrive(j, q, call)
      PROVE Refused'
  BY <1>0, <1>1, ArriveEffect, RefusedMove, ConflictsAre
<1>2. ASSUME NEW j \in Jobs, Analyze(j) PROVE Refused'
  <2>1. job[j].req \in Requests /\ job'[j].pc # "refused"
    BY <1>2, AnalyzeEffect DEF TypeOK
  <2>2. QED
    BY <1>0, <1>2, <2>1, AnalyzeEffect, RefusedMove
<1>3. ASSUME NEW j \in Jobs, Register(j) PROVE Refused'
  BY <1>0, <1>3, RegisterEffect, RefusedMove
<1>4. ASSUME NEW j \in Jobs, Select(j) PROVE Refused'
  <2>1. job[j].req \in Requests
    BY <1>4, SelectEffect DEF TypeOK
  <2>2. job'[j].pc = "refused" => KeyTaken(job[j].req)
    BY <1>4, SelectEffect
  <2>3. QED
    BY <1>0, <1>4, <2>1, <2>2, SelectEffect, RefusedMove, ConflictsAre
<1>5. ASSUME NEW j \in Jobs, Insert(j) PROVE Refused'
  BY <1>0, <1>5, InsertEffect, RefusedMove
<1>6. ASSUME NEW j \in Jobs, Collect(j) \/ Execute(j) PROVE Refused'
  BY <1>0, <1>6, AwaitEffect, RefusedMove
<1>7. ASSUME NEW j \in Jobs, Write(j) PROVE Refused'
  BY <1>0, <1>7, WriteEffect, RefusedMove
<1>8. CASE (\E p \in Processes : Crash(p)) \/ (\E j \in Jobs : Cancel(j))
  <2>1. /\ UNCHANGED <<repository, analysis>>
        /\ \A j \in Jobs : job'[j] = job[j] \/ job'[j].pc = "idle"
    BY <1>8, FaultEffect, IdleJob
  <2>2. QED
    BY <2>1 DEF Refused, Conflicts
<1>9. CASE UNCHANGED vars
  BY <1>9 DEF vars, Refused, Conflicts
<1>10. QED
  BY <1>1, <1>2, <1>3, <1>4, <1>5, <1>6, <1>7, <1>8, <1>9
     DEF Next, JobStep, StoreStep

(* With one process a POST is refused only for a conflict that the store   *)
(* shows, and no two accepted analyses name different snapshots of one     *)
(* repository or one key, for any requests, duplicates, crashes and        *)
(* cancellations. *)
THEOREM RefusalsAreExact == ASSUME OneProcess PROVE Spec => []ConflictsAreRefused
<1>1. TypeOK /\ LifecycleInv /\ Refused => ConflictsAreRefused
  <2> SUFFICES ASSUME TypeOK, LifecycleInv, Refused PROVE ConflictsAreRefused
    OBVIOUS
  <2>1. ASSUME NEW j \in Jobs,
               job[j].pc \in Awaiting \cup {"writing", "returned"}
        PROVE  Present(job[j].req)
    <3>1. job[j].pc = "returned" => job[j].req \in Requests
      BY DEF TypeOK
    <3>2. QED
      BY <2>1, <3>1
         DEF LifecycleInv, ReadStands, RowsKept, TypeOK, Open, Present
  <2>2. ASSUME NEW q \in Requests, Present(q) PROVE ~ Conflicts(q)
    BY <2>2, ConflictsAre DEF LifecycleInv, RowsKept, RepositoryChanged
  <2>3. QED
    BY <2>1, <2>2 DEF ConflictsAreRefused, Refused
<1>2. QED
  BY <1>1, TypeCorrect, InvCorrect, RefusedInit, RefusedStep, PTL DEF Spec
=============================================================================
