------------------------ MODULE LocalExecutorProofs ------------------------
(***************************************************************************)
(* Proofs about LocalExecutor for any number of calls, slots and threads.  *)
(* The queue of the semaphore plays no part in them: a call takes a slot   *)
(* only out of "waiting" and gives it back only out of "working".          *)
(***************************************************************************)
EXTENDS LocalExecutor, FiniteSetTheorems, TLAPS

CallTypes ==
  /\ pc \in [Calls -> {"new", "waiting", "working", "ended"}]
  /\ answer \in [Calls -> Answers \cup {None}]
  /\ cache \in [Tasks -> Calls \cup {None}]
  /\ free \in Nat
  /\ batch \in [Batches -> {"ready", "gathering", "cancelled", "returned"}]

(* Who has answered has ended, and a batch that has not begun has neither. *)
AnswerInv ==
  /\ \A c \in Calls : answer[c] # None <=> pc[c] = "ended"
  /\ \A c \in Calls : batch[BatchOf[c]] = "ready" => pc[c] = "new"

IInv == CallTypes /\ AnswerInv /\ SlotsKept /\ CacheSound

LEMMA InitIInv == Init => IInv
<1> SUFFICES ASSUME Init PROVE IInv
  OBVIOUS
<1>1. Working = {} /\ Cardinality({}) = 0
  BY FS_EmptySet DEF Init, Working
<1>2. SlotsKept
  BY <1>1, ExecutorAssumption DEF Init, SlotsKept
<1>3. CallTypes /\ AnswerInv /\ CacheSound
  BY ExecutorAssumption DEF Init, CallTypes, AnswerInv, CacheSound, Answers
<1>4. QED
  BY <1>2, <1>3 DEF IInv

LEMMA FiniteWorking == IsFiniteSet(Working)
  BY ExecutorAssumption, FS_Subset DEF Working

LEMMA AnswerNames ==
  /\ \A v \in Produced : AnswerOf[v] \in Answers /\ AnswerOf[v] # None
  /\ \A v \in Produced : AnswerOf[v] = "completed" <=> Cacheable(v)
  /\ "timeout" \in Answers \ {None} /\ "cancelled" \in Answers \ {None}
  /\ "completed" \in Answers \ {None}
  /\ \A c \in Calls : Refusal(c) # "none" =>
       Refusal(c) \in Answers \ {None, "completed"}
  BY ExecutorAssumption DEF Produced, AnswerOf, Answers, Cacheable, Refusal

(* Whoever has not ended is not the one whose result is stored. *)
LEMMA StoredHasEnded ==
  ASSUME IInv, NEW t \in Tasks, cache[t] # None
  PROVE  /\ cache[t] \in Calls /\ TaskOf[cache[t]] = t
         /\ answer[cache[t]] = "completed" /\ pc[cache[t]] = "ended"
<1>1. /\ cache[t] \in Calls /\ TaskOf[cache[t]] = t
      /\ answer[cache[t]] = "completed"
  BY DEF IInv, CallTypes, CacheSound
<1>2. answer[cache[t]] # None
  BY <1>1, AnswerNames
<1>3. QED
  BY <1>1, <1>2 DEF IInv, AnswerInv

(* A call that ends without having worked keeps the semaphore. *)
LEMMA EndOutside ==
  ASSUME IInv, NEW c \in Calls, NEW kind \in Answers \ {None},
         pc[c] = "waiting", Ends(c, kind), UNCHANGED <<cache, free, batch>>,
         kind = "completed" => cache[TaskOf[c]] # None
  PROVE  IInv'
<1> USE DEF IInv, Ends
<1>1. Working' = Working
  BY DEF Working, CallTypes
<1>2. SlotsKept'
  BY <1>1 DEF SlotsKept
<1>3. CallTypes'
  BY DEF CallTypes
<1>4. batch[BatchOf[c]] # "ready"
  BY DEF AnswerInv
<1>5. AnswerInv'
  BY <1>4 DEF AnswerInv, CallTypes
<1>6. CacheSound'
  <2>1. ASSUME NEW t \in Tasks, cache'[t] # None
        PROVE TaskOf[cache'[t]] = t /\ answer'[cache'[t]] = "completed"
    <3>1. cache[t] # c
      BY <2>1, StoredHasEnded
    <3>2. QED
      BY <2>1, <3>1, StoredHasEnded DEF CallTypes
  <2>2. ASSUME NEW d \in Calls, answer'[d] = "completed"
        PROVE cache'[TaskOf[d]] # None
    BY <2>2 DEF CacheSound, CallTypes
  <2>3. QED
    BY <2>1, <2>2 DEF CacheSound
<1>7. QED
  BY <1>2, <1>3, <1>5, <1>6

(* A call that ends out of "working" gives its slot back. *)
LEMMA EndInside ==
  ASSUME IInv, NEW c \in Calls, NEW kind \in Answers \ {None},
         pc[c] = "working", Ends(c, kind), free' = Released,
         UNCHANGED batch,
         IF kind = "completed"
         THEN cache' = [cache EXCEPT ![TaskOf[c]] = c] ELSE cache' = cache
  PROVE  IInv'
<1> USE DEF IInv, Ends
<1>1. c \in Working /\ Working' = Working \ {c}
  BY DEF Working, CallTypes
<1>2. Cardinality(Working') = Cardinality(Working) - 1
      /\ Cardinality(Working) \in Nat
  BY <1>1, FiniteWorking, FS_RemoveElement, FS_CardinalityType
<1>3. SlotsKept'
  BY <1>2, ExecutorAssumption DEF SlotsKept, Released, CallTypes
<1>4. TaskOf[c] \in Tasks
  BY ExecutorAssumption
<1>5. CallTypes'
  BY <1>4 DEF CallTypes, Released
<1>6. AnswerInv'
  BY DEF AnswerInv, CallTypes
<1>7. CacheSound'
  <2>1. ASSUME NEW t \in Tasks, cache'[t] # None
        PROVE TaskOf[cache'[t]] = t /\ answer'[cache'[t]] = "completed"
    <3>1. CASE kind = "completed" /\ t = TaskOf[c]
      BY <1>4, <3>1 DEF CallTypes
    <3>2. CASE cache'[t] = cache[t]
      <4>1. cache[t] # c
        BY <2>1, <3>2, StoredHasEnded
      <4>2. QED
        BY <2>1, <3>2, <4>1, StoredHasEnded DEF CallTypes
    <3>3. QED
      BY <1>4, <3>1, <3>2 DEF CallTypes
  <2>2. ASSUME NEW d \in Calls, answer'[d] = "completed"
        PROVE cache'[TaskOf[d]] # None
    <3>1. CASE kind = "completed" /\ TaskOf[d] = TaskOf[c]
      BY <1>4, <3>1, ExecutorAssumption DEF CallTypes
    <3>2. CASE ~ (kind = "completed" /\ TaskOf[d] = TaskOf[c])
      <4>1. d # c
        BY <2>2, <3>2 DEF CallTypes
      <4>2. answer' = [answer EXCEPT ![c] = kind]
        OBVIOUS
      <4>3. answer[d] = "completed"
        BY <2>2, <4>1, <4>2 DEF CallTypes
      <4>4. cache'[TaskOf[d]] = cache[TaskOf[d]]
        BY <1>4, <3>2, ExecutorAssumption DEF CallTypes
      <4>5. QED
        BY <4>3, <4>4 DEF CacheSound
    <3>3. QED
      BY <3>1, <3>2
  <2>3. QED
    BY <2>1, <2>2 DEF CacheSound
<1>8. QED
  BY <1>3, <1>5, <1>6, <1>7

LEMMA ExecuteManyInv ==
  ASSUME IInv, NEW b \in Batches, ExecuteMany(b) PROVE IInv'
<1> USE DEF IInv, ExecuteMany
<1>1. \A c \in CallsOf(b) : pc[c] = "new" /\ c \in Calls
  BY DEF AnswerInv, CallsOf
<1>2. \A c \in Calls : /\ pc'[c] = "working" <=> pc[c] = "working"
                       /\ pc'[c] = "ended" <=> pc[c] = "ended"
                       /\ c \notin CallsOf(b) => pc'[c] = pc[c]
  BY <1>1
<1>3. Working' = Working
  BY <1>2 DEF Working
<1>4. SlotsKept' /\ CacheSound'
  BY <1>3 DEF SlotsKept, CacheSound
<1>5. CallTypes'
  BY DEF CallTypes
<1>6. \A c \in Calls : batch'[BatchOf[c]] = "ready" =>
        batch[BatchOf[c]] = "ready" /\ c \notin CallsOf(b)
  BY ExecutorAssumption DEF CallTypes, CallsOf
<1>7. AnswerInv'
  BY <1>2, <1>6 DEF AnswerInv
<1>8. QED
  BY <1>4, <1>5, <1>7

LEMMA AcquireInv ==
  ASSUME IInv, NEW c \in Calls, Acquire(c) PROVE IInv'
<1>1. pc[c] = "waiting" /\ free > 0 /\ UNCHANGED <<cache, batch>>
  BY DEF Acquire
<1>2. CASE cache[TaskOf[c]] # None
  BY <1>1, <1>2, AnswerNames, EndOutside DEF Acquire
<1>3. CASE cache[TaskOf[c]] = None /\ Refusal(c) # "none"
  BY <1>1, <1>3, AnswerNames, EndOutside DEF Acquire
<1>4. CASE cache[TaskOf[c]] = None /\ Refusal(c) = "none"
  <2> USE DEF IInv
  <2>1. /\ pc' = [pc EXCEPT ![c] = "working"]
        /\ free' = free - 1 /\ answer' = answer
    BY <1>4 DEF Acquire
  <2>2. c \notin Working /\ Working' = Working \cup {c}
    BY <1>1, <2>1 DEF Working, CallTypes
  <2>3. Cardinality(Working') = Cardinality(Working) + 1
        /\ Cardinality(Working) \in Nat
    BY <2>2, FiniteWorking, FS_AddElement, FS_CardinalityType
  <2>4. SlotsKept'
    BY <1>1, <2>1, <2>3, ExecutorAssumption DEF SlotsKept, CallTypes
  <2>5. CallTypes'
    BY <1>1, <2>1 DEF CallTypes
  <2>6. AnswerInv'
    BY <1>1, <2>1 DEF AnswerInv, CallTypes
  <2>7. CacheSound'
    BY <1>1, <2>1 DEF CacheSound
  <2>8. QED
    BY <2>4, <2>5, <2>6, <2>7
<1>5. QED
  BY <1>2, <1>3, <1>4

LEMMA SettleInv ==
  ASSUME IInv, NEW c \in Calls, NEW v \in Produced, Settle(c, v) PROVE IInv'
  BY AnswerNames, EndInside DEF Settle, Settles

LEMMA GiveUpInv ==
  ASSUME IInv, NEW c \in Calls, Timeout(c) \/ Cancel(c) PROVE IInv'
<1>1. CASE Timeout(c)
  BY <1>1, AnswerNames, EndInside DEF Timeout
<1>2. CASE Cancel(c) /\ pc[c] = "working"
  BY <1>2, AnswerNames, EndInside DEF Cancel, AfterCancel
<1>3. CASE Cancel(c) /\ pc[c] = "waiting"
  BY <1>3, AnswerNames, EndOutside DEF Cancel, AfterCancel
<1>4. QED
  BY <1>1, <1>2, <1>3 DEF Cancel

(* Steps of threads, and of a batch that ends. *)
LEMMA QuietInv ==
  ASSUME IInv, UNCHANGED <<pc, answer, cache, free>>,
         \/ UNCHANGED batch
         \/ \E b \in Batches : CancelMany(b) \/ Return(b)
  PROVE  IInv'
<1>1. Working' = Working
  BY DEF Working
<1>2. SlotsKept' /\ CacheSound'
  BY <1>1 DEF IInv, SlotsKept, CacheSound
<1>3. CallTypes'
  BY DEF IInv, CallTypes, CancelMany, Return
<1>4. \A c \in Calls :
        batch'[BatchOf[c]] = "ready" => batch[BatchOf[c]] = "ready"
  BY ExecutorAssumption DEF IInv, CallTypes, CancelMany, Return
<1>5. AnswerInv'
  BY <1>4 DEF IInv, AnswerInv
<1>6. QED
  BY <1>2, <1>3, <1>5 DEF IInv

LEMMA StepIInv == IInv /\ [Next]_vars => IInv'
<1> SUFFICES ASSUME IInv, [Next]_vars PROVE IInv'
  OBVIOUS
<1>1. ASSUME NEW b \in Batches, ExecuteMany(b) \/ CancelMany(b) \/ Return(b)
      PROVE IInv'
  <2>1. CASE ExecuteMany(b)
    BY <2>1, ExecuteManyInv
  <2>2. CASE CancelMany(b) \/ Return(b)
    <3>1. UNCHANGED <<pc, answer, cache, free>>
      BY <2>2 DEF CancelMany, Return
    <3>2. QED
      BY <2>2, <3>1, QuietInv
  <2>3. QED
    BY <1>1, <2>1, <2>2
<1>2. ASSUME NEW c \in Calls, CallStep(c) PROVE IInv'
  <2>1. CASE StartThread(c) \/ EndThread(c)
    BY <2>1, QuietInv DEF StartThread, EndThread
  <2>2. QED
    BY <1>2, <2>1, AcquireInv, SettleInv, GiveUpInv DEF CallStep
<1>3. CASE UNCHANGED vars
  BY <1>3, QuietInv DEF vars
<1>4. QED
  BY <1>1, <1>2, <1>3 DEF Next

LEMMA Invariance == Spec => []IInv
  BY InitIInv, StepIInv, PTL DEF Spec

-----------------------------------------------------------------------------
(* No timeout, cancellation, cache hit or refusal loses or doubles a slot. *)
THEOREM SlotsAreKept == Spec => []SlotsKept
  BY Invariance, PTL DEF IInv

(* The cache holds only results their own calls answered with. *)
THEOREM CacheIsSound == Spec => []CacheSound
  BY Invariance, PTL DEF IInv

(* No late thread and no late cancellation replaces an outcome. *)
THEOREM OutcomesAreFinal == Spec => AnswersAreFinal
<1>1. ASSUME IInv, [Next]_vars, NEW d \in Calls, answer[d] # None
      PROVE answer'[d] = answer[d]
  <2>1. pc[d] = "ended"
    BY <1>1 DEF IInv, AnswerInv
  <2>2. ASSUME NEW c \in Calls, CallStep(c) PROVE answer'[d] = answer[d]
    <3>1. c = d => UNCHANGED answer
      BY <2>1, <2>2 DEF CallStep, Acquire, StartThread, EndThread, Timeout,
                        Cancel, Settle, Settles
    <3>2. c # d => answer'[d] = answer[d]
      BY <1>1, <2>2 DEF CallStep, Acquire, StartThread, EndThread, Timeout,
                        Cancel, Settle, Ends, IInv, CallTypes
    <3>3. QED
      BY <3>1, <3>2
  <2>3. ASSUME NEW b \in Batches, ExecuteMany(b) \/ CancelMany(b) \/ Return(b)
        PROVE UNCHANGED answer
    BY <2>3 DEF ExecuteMany, CancelMany, Return
  <2>4. QED
    BY <1>1, <2>2, <2>3 DEF Next, vars
<1>2. IInv /\ [Next]_vars
        => [\A c \in Calls : answer[c] # None => answer'[c] = answer[c]]_vars
  BY <1>1
<1>3. QED
  BY Invariance, <1>2, PTL DEF Spec, AnswersAreFinal

-----------------------------------------------------------------------------
(* The cache knows exactly the tasks somebody has completed, and a free    *)
(* slot means that fewer calls work than there are slots. *)
LEMMA CacheKnowsTheSolved ==
  ASSUME IInv, NEW c \in Calls
  PROVE  cache[TaskOf[c]] # None <=> TaskOf[c] \in Contract!Solved
<1>1. TaskOf[c] \in Tasks
  BY ExecutorAssumption
<1>2. ASSUME cache[TaskOf[c]] # None PROVE TaskOf[c] \in Contract!Solved
  BY <1>1, <1>2, StoredHasEnded DEF Contract!Solved
<1>3. ASSUME TaskOf[c] \in Contract!Solved PROVE cache[TaskOf[c]] # None
  BY <1>3 DEF Contract!Solved, IInv, CacheSound
<1>4. QED
  BY <1>2, <1>3

LEMMA FreeMeansFewer ==
  ASSUME IInv, free > 0
  PROVE  Cardinality(Contract!Busy) < Slots
<1>1. Contract!Busy = Working
  BY DEF Contract!Busy, Working
<1>2. Cardinality(Working) \in Nat
  BY FiniteWorking, FS_CardinalityType
<1>3. QED
  BY <1>1, <1>2, ExecutorAssumption DEF IInv, CallTypes, SlotsKept

(* The two ways out of a call are the contract's answers. *)
LEMMA EndsAnswers ==
  ASSUME NEW c, NEW kind, Ends(c, kind) PROVE Contract!Answer(c, kind)
  BY DEF Ends, Contract!Answer

LEMMA AcquireIsAllowed ==
  ASSUME IInv, NEW c \in Calls, Acquire(c)
  PROVE  Contract!Begin(c) \/ Contract!Recall(c) \/ Contract!Refuse(c)
<1>1. pc[c] = "waiting" /\ free > 0
  BY DEF Acquire
<1>2. CASE cache[TaskOf[c]] # None
  <2>1. Ends(c, "completed")
    BY <1>2 DEF Acquire
  <2>2. Contract!Recall(c)
    BY <1>1, <1>2, <2>1, CacheKnowsTheSolved, EndsAnswers DEF Contract!Recall
  <2>3. QED
    BY <2>2
<1>3. CASE cache[TaskOf[c]] = None /\ Refusal(c) # "none"
  <2>1. Ends(c, Refusal(c))
    BY <1>3 DEF Acquire
  <2>2. Refusal(c) \in Contract!Refusals
    BY <1>3 DEF Refusal, Contract!Refusals
  <2>3. Contract!Answer(c, Refusal(c))
    BY <2>1, EndsAnswers
  <2>4. Contract!Refuse(c)
    BY <1>1, <2>2, <2>3 DEF Contract!Refuse
  <2>5. QED
    BY <2>4
<1>4. CASE cache[TaskOf[c]] = None /\ Refusal(c) = "none"
  <2>1. pc' = [pc EXCEPT ![c] = "working"] /\ UNCHANGED answer
    BY <1>4 DEF Acquire
  <2>2. TaskOf[c] \notin Contract!Solved
    BY <1>4, CacheKnowsTheSolved
  <2>3. Cardinality(Contract!Busy) < Slots
    BY <1>1, FreeMeansFewer
  <2>4. Contract!Begin(c)
    <3>1. Contract!Cardinality(Contract!Busy) = Cardinality(Contract!Busy)
      BY DEF Cardinality, Contract!Cardinality
    <3>2. QED
      BY <1>1, <2>1, <2>2, <2>3, <3>1 DEF Contract!Begin
  <2>5. QED
    BY <2>4
<1>5. QED
  BY <1>2, <1>3, <1>4

LEMMA LeavingIsAllowed ==
  ASSUME NEW c \in Calls,
         Timeout(c) \/ Cancel(c) \/ \E v \in Produced : Settle(c, v)
  PROVE  Contract!Refuse(c) \/ Contract!Finish(c)
<1>1. CASE Timeout(c)
  <2>1. pc[c] = "working" /\ Contract!Answer(c, "timeout")
    BY <1>1, EndsAnswers DEF Timeout
  <2>2. QED
    BY <2>1 DEF Contract!Finish, Contract!Results
<1>2. CASE Cancel(c)
  <2>1. pc[c] \in {"waiting", "working"} /\ Contract!Answer(c, "cancelled")
    BY <1>2, EndsAnswers DEF Cancel
  <2>2. QED
    BY <2>1 DEF Contract!Finish, Contract!Results, Contract!Refuse,
                Contract!Refusals
<1>3. ASSUME NEW v \in Produced, Settle(c, v) PROVE Contract!Finish(c)
  <2>1. AnswerOf[v] \in Contract!Results
    BY DEF Produced, AnswerOf, Contract!Results
  <2>2. pc[c] = "working" /\ Contract!Answer(c, AnswerOf[v])
    BY <1>3, EndsAnswers DEF Settle, Settles
  <2>3. QED
    BY <2>1, <2>2 DEF Contract!Finish
<1>4. QED
  BY <1>1, <1>2, <1>3

LEMMA ExecuteManyIsAllowed ==
  ASSUME IInv, NEW b \in Batches, ExecuteMany(b)
  PROVE  CallsOf(b) \in SUBSET Calls /\ Contract!Submit(CallsOf(b))
<1>1. \A c \in CallsOf(b) : c \in Calls /\ pc[c] = "new"
  BY DEF IInv, AnswerInv, CallsOf, ExecuteMany
<1>2. QED
  BY <1>1 DEF ExecuteMany, Contract!Submit

LEMMA StepIsAllowed ==
  IInv /\ [Next]_vars => [Contract!Next]_(Contract!contractVars)
<1> SUFFICES ASSUME IInv, [Next]_vars
             PROVE Contract!Next \/ UNCHANGED <<pc, answer>>
  BY DEF Contract!contractVars
<1>1. ASSUME NEW b \in Batches, ExecuteMany(b) PROVE Contract!Next
  BY <1>1, ExecuteManyIsAllowed DEF Contract!Next
<1>2. ASSUME NEW b \in Batches, CancelMany(b) \/ Return(b)
      PROVE UNCHANGED <<pc, answer>>
  BY <1>2 DEF CancelMany, Return
<1>3. ASSUME NEW c \in Calls, CallStep(c)
      PROVE Contract!Next \/ UNCHANGED <<pc, answer>>
  <2>1. CASE Acquire(c)
    BY <2>1, AcquireIsAllowed DEF Contract!Next
  <2>2. CASE StartThread(c) \/ EndThread(c)
    BY <2>2 DEF StartThread, EndThread
  <2>3. CASE Timeout(c) \/ Cancel(c) \/ \E v \in Produced : Settle(c, v)
    BY <2>3, LeavingIsAllowed DEF Contract!Next
  <2>4. QED
    BY <1>3, <2>1, <2>2, <2>3 DEF CallStep
<1>4. CASE UNCHANGED vars
  BY <1>4 DEF vars
<1>5. QED
  BY <1>1, <1>2, <1>3, <1>4 DEF Next

(* Every behaviour of the executor is one of the contract: whatever        *)
(* threads, timers and cancellations do, its callers see one outcome per   *)
(* call, never more factories than slots, and "completed" only with a good *)
(* result of the task (execute, _execute, execute_many). *)
THEOREM ExecutorImplementsContract == Spec => ImplementsContract
<1>1. Init => Contract!Init
  BY DEF Init, Contract!Init
<1>2. QED
  BY <1>1, Invariance, StepIsAllowed, PTL
     DEF Spec, ImplementsContract, Contract!Spec
=============================================================================
