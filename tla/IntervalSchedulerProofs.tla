---------------------- MODULE IntervalSchedulerProofs ----------------------
(***************************************************************************)
(* Proofs about IntervalScheduler for any jobs and outside callers.  The   *)
(* strengthening ties the callback a runner is in to the state of its      *)
(* task: a runner that is not alive is in no callback, which is what       *)
(* shutdown's gather turns into quiet.                                     *)
(***************************************************************************)
EXTENDS IntervalScheduler, TLAPS

LinkInv ==
  /\ stopping <=> phase # "serving"
  /\ ~ stopping => \A j \in Jobs \ callbacks : runner[j] = "none"
  /\ \A j \in Jobs :
       Runner \in running[j] => runner[j] \in {"calling", "cancelling"}

IInv == TypeOK /\ NoOverlap /\ LinkInv /\ QuietAfterShutdown

LEMMA InitIInv == Init => IInv
  BY DEF Init, IInv, TypeOK, NoOverlap, LinkInv, QuietAfterShutdown,
         RunnerStates, Alive, Phases

(* The steps that change who is inside of a callback. *)
LEMMA EntersKeeps ==
  ASSUME TypeOK, NoOverlap, NEW j \in Jobs, NEW who \in Callers \cup {Runner},
         ~ locked[j], Enters(j, who)
  PROVE  /\ NoOverlap'
         /\ locked' \in [Jobs -> BOOLEAN]
         /\ running' \in [Jobs -> SUBSET (Callers \cup {Runner})]
         /\ \A k \in Jobs \ {j} : running'[k] = running[k]
         /\ running'[j] = {who}
<1>1. running[j] = {}
  BY DEF NoOverlap
<1>2. locked' \in [Jobs -> BOOLEAN]
  BY DEF Enters, TypeOK
<1>3. running' \in [Jobs -> SUBSET (Callers \cup {Runner})]
  BY DEF Enters, TypeOK
<1>4. \A k \in Jobs \ {j} : running'[k] = running[k] /\ locked'[k] = locked[k]
  BY DEF Enters, TypeOK
<1>5. running'[j] = {who} /\ locked'[j]
  BY <1>1 DEF Enters, TypeOK
<1>6. NoOverlap'
  <2> SUFFICES ASSUME NEW k \in Jobs
               PROVE  /\ \A a, b \in running'[k] : a = b
                      /\ locked'[k] <=> running'[k] # {}
    BY DEF NoOverlap
  <2>1. CASE k = j
    BY <1>5, <2>1
  <2>2. CASE k # j
    BY <1>4, <2>2 DEF NoOverlap
  <2>3. QED
    BY <2>1, <2>2
<1>7. QED
  BY <1>2, <1>3, <1>4, <1>5, <1>6

LEMMA LeavesKeeps ==
  ASSUME TypeOK, NoOverlap, NEW j \in Jobs, NEW who \in running[j],
         Leaves(j, who)
  PROVE  /\ NoOverlap'
         /\ locked' \in [Jobs -> BOOLEAN]
         /\ running' \in [Jobs -> SUBSET (Callers \cup {Runner})]
         /\ \A k \in Jobs \ {j} : running'[k] = running[k]
         /\ running'[j] = {}
<1>1. running[j] = {who}
  BY DEF NoOverlap
<1>2. locked' \in [Jobs -> BOOLEAN]
  BY DEF Leaves, TypeOK
<1>3. running' \in [Jobs -> SUBSET (Callers \cup {Runner})]
  BY DEF Leaves, TypeOK
<1>4. \A k \in Jobs \ {j} : running'[k] = running[k] /\ locked'[k] = locked[k]
  BY DEF Leaves, TypeOK
<1>5. running'[j] = {} /\ ~ locked'[j]
  BY <1>1 DEF Leaves, TypeOK
<1>6. NoOverlap'
  <2> SUFFICES ASSUME NEW k \in Jobs
               PROVE  /\ \A a, b \in running'[k] : a = b
                      /\ locked'[k] <=> running'[k] # {}
    BY DEF NoOverlap
  <2>1. CASE k = j
    BY <1>5, <2>1
  <2>2. CASE k # j
    BY <1>4, <2>2 DEF NoOverlap
  <2>3. QED
    BY <2>1, <2>2
<1>7. QED
  BY <1>2, <1>3, <1>4, <1>5, <1>6

LEMMA AfterTriggerType ==
  ASSUME TypeOK, NEW j \in Jobs
  PROVE  /\ {AfterTrigger, AfterRaise(j)} \subseteq RunnerStates \ {"none"}
         /\ stopping => AfterTrigger \notin Alive /\ AfterRaise(j) \notin Alive
  BY DEF AfterTrigger, AfterRaise, RunnerStates, Alive, TypeOK

-----------------------------------------------------------------------------
(* Each step keeps the invariant.                                          *)

LEMMA AddIntervalInv ==
  ASSUME IInv, NEW j \in Jobs, AddInterval(j) PROVE IInv'
<1>1. Runner \notin running[j] /\ phase = "serving"
  BY DEF IInv, LinkInv, AddInterval
<1>2. TypeOK'
  BY DEF IInv, AddInterval, TypeOK, RunnerStates, Alive
<1>3. NoOverlap' /\ QuietAfterShutdown'
  BY <1>1 DEF IInv, AddInterval, NoOverlap, QuietAfterShutdown
<1>4. LinkInv'
  BY <1>1 DEF IInv, AddInterval, LinkInv, TypeOK
<1>5. QED
  BY <1>2, <1>3, <1>4 DEF IInv

LEMMA FireInv ==
  ASSUME IInv, NEW j \in Jobs, Fire(j) PROVE IInv'
<1> USE DEF IInv
<1>1. Runner \notin running[j] /\ phase \notin {"stopped", "closed"}
  BY DEF LinkInv, Fire, QuietAfterShutdown, Alive
<1>2. CASE MayRun(j)
  <2>1. /\ Enters(j, Runner) /\ ~ locked[j]
        /\ runner' = [runner EXCEPT ![j] = "calling"]
    BY <1>2 DEF Fire, MayRun
  <2>2. /\ NoOverlap' /\ locked' \in [Jobs -> BOOLEAN]
        /\ running' \in [Jobs -> SUBSET (Callers \cup {Runner})]
        /\ \A k \in Jobs \ {j} : running'[k] = running[k]
    BY <2>1, EntersKeeps
  <2>3. TypeOK'
    BY <2>1, <2>2 DEF Fire, TypeOK, RunnerStates, Alive
  <2>4. LinkInv'
    BY <1>2, <2>1, <2>2 DEF Fire, LinkInv, TypeOK, MayRun
  <2>5. QuietAfterShutdown'
    BY <1>1 DEF Fire, QuietAfterShutdown
  <2>6. QED
    BY <2>2, <2>3, <2>4, <2>5
<1>3. CASE ~ MayRun(j)
  <2>1. /\ runner' = [runner EXCEPT ![j] = AfterTrigger]
        /\ UNCHANGED <<callbacks, locked, running, stopping, phase>>
    BY <1>3 DEF Fire
  <2>2. TypeOK'
    <3>1. AfterTrigger \in RunnerStates \ {"none"}
      BY DEF AfterTrigger, RunnerStates, Alive
    <3>2. QED
      BY <2>1, <3>1 DEF TypeOK
  <2>3. NoOverlap' /\ QuietAfterShutdown'
    BY <1>1, <2>1 DEF NoOverlap, QuietAfterShutdown
  <2>4. LinkInv'
    BY <1>1, <2>1 DEF LinkInv, TypeOK, Fire
  <2>5. QED
    BY <2>2, <2>3, <2>4
<1>4. QED
  BY <1>2, <1>3

LEMMA TriggerInv ==
  ASSUME IInv, NEW j \in Jobs, NEW c \in Callers, Trigger(c, j) PROVE IInv'
<1> USE DEF IInv
<1>1. /\ NoOverlap' /\ locked' \in [Jobs -> BOOLEAN]
      /\ running' \in [Jobs -> SUBSET (Callers \cup {Runner})]
      /\ \A k \in Jobs \ {j} : running'[k] = running[k]
      /\ running'[j] = {c}
  BY EntersKeeps DEF Trigger, MayRun
<1>2. c # Runner /\ phase = "serving"
  BY SchedulerAssumption DEF Trigger, MayRun, LinkInv
<1>3. UNCHANGED <<callbacks, runner, stopping, phase>> /\ j \in callbacks
  BY DEF Trigger, MayRun
<1>4. TypeOK'
  BY <1>1, <1>3 DEF TypeOK
<1>5. LinkInv' /\ QuietAfterShutdown'
  BY <1>1, <1>2, <1>3 DEF LinkInv, QuietAfterShutdown
<1>6. QED
  BY <1>1, <1>4, <1>5

LEMMA LeaveInv ==
  ASSUME IInv, NEW j \in Jobs, NEW who \in running[j], Leaves(j, who),
         NEW next \in RunnerStates \ {"none"},
         who = Runner => runner[j] \in Alive,
         stopping => next \notin Alive,
         runner' = IF who = Runner
                   THEN [runner EXCEPT ![j] = next] ELSE runner,
         UNCHANGED <<callbacks, stopping, phase>>
  PROVE  IInv'
<1> USE DEF IInv
<1>1. /\ NoOverlap' /\ locked' \in [Jobs -> BOOLEAN]
      /\ running' \in [Jobs -> SUBSET (Callers \cup {Runner})]
      /\ \A k \in Jobs \ {j} : running'[k] = running[k]
      /\ running'[j] = {}
  BY LeavesKeeps
<1>2. TypeOK'
  BY <1>1 DEF TypeOK
<1>3. LinkInv'
  BY <1>1 DEF LinkInv, TypeOK, Alive
<1>4. QuietAfterShutdown'
  BY <1>1 DEF QuietAfterShutdown, TypeOK, LinkInv
<1>5. QED
  BY <1>1, <1>2, <1>3, <1>4

LEMMA ShutdownInv == ASSUME IInv, Shutdown PROVE IInv'
  BY DEF IInv, Shutdown, TypeOK, NoOverlap, LinkInv, QuietAfterShutdown,
         RunnerStates, Alive, Phases

LEMMA CancelledInv ==
  ASSUME IInv, NEW j \in Jobs, Cancelled(j) PROVE IInv'
<1> USE DEF IInv
<1>1. CASE Runner \in running[j]
  BY <1>1, LeaveInv DEF Cancelled, RunnerStates, Alive
<1>2. CASE Runner \notin running[j]
  BY <1>2 DEF Cancelled, TypeOK, NoOverlap, LinkInv, QuietAfterShutdown,
              RunnerStates, Alive
<1>3. QED
  BY <1>1, <1>2

LEMMA AbsorbInv ==
  ASSUME IInv, NEW j \in Jobs, Absorb(j) PROVE IInv'
  BY DEF IInv, Absorb, TypeOK, NoOverlap, LinkInv, QuietAfterShutdown,
         RunnerStates, Alive

LEMMA EndInv == ASSUME IInv, Stopped \/ Close PROVE IInv'
<1> USE DEF IInv
<1>1. CASE Stopped
  BY <1>1 DEF Stopped, Gathered, TypeOK, NoOverlap, LinkInv,
              QuietAfterShutdown, Alive, Phases
<1>2. CASE Close
  BY <1>2 DEF Close, TypeOK, NoOverlap, LinkInv, QuietAfterShutdown, Phases
<1>3. QED
  BY <1>1, <1>2

LEMMA StepIInv == IInv /\ [Next]_vars => IInv'
<1> SUFFICES ASSUME IInv, [Next]_vars PROVE IInv'
  OBVIOUS
<1>1. ASSUME NEW j \in Jobs, AddInterval(j) \/ Fire(j) \/ Cancelled(j)
                               \/ Absorb(j)
      PROVE IInv'
  BY <1>1, AddIntervalInv, FireInv, CancelledInv, AbsorbInv
<1>2. ASSUME NEW j \in Jobs, NEW c \in Callers, Trigger(c, j) PROVE IInv'
  BY <1>2, TriggerInv
<1>3. ASSUME NEW j \in Jobs, NEW who \in Callers \cup {Runner},
             Return(j, who) \/ Raise(j, who)
      PROVE IInv'
  <2>1. {AfterTrigger, AfterRaise(j)} \subseteq RunnerStates \ {"none"}
        /\ (stopping => AfterTrigger \notin Alive /\ AfterRaise(j) \notin Alive)
    BY AfterTriggerType DEF IInv
  <2>2. CASE Return(j, who)
    BY <2>1, <2>2, LeaveInv DEF Return, Alive
  <2>3. CASE Raise(j, who)
    BY <2>1, <2>3, LeaveInv DEF Raise, Alive
  <2>4. QED
    BY <1>3, <2>2, <2>3
<1>4. CASE Shutdown
  BY <1>4, ShutdownInv
<1>5. CASE Stopped \/ Close
  BY <1>5, EndInv
<1>6. CASE UNCHANGED vars
  BY <1>6 DEF vars, IInv, TypeOK, NoOverlap, LinkInv, QuietAfterShutdown
<1>7. QED
  BY <1>1, <1>2, <1>3, <1>4, <1>5, <1>6 DEF Next, Step

LEMMA Invariance == Spec => []IInv
  BY InitIInv, StepIInv, PTL DEF Spec

-----------------------------------------------------------------------------
(* A job never overlaps itself and never leaves its lock behind, for any   *)
(* callbacks, outside triggers and moment of the shutdown. *)
THEOREM JobsNeverOverlap == Spec => []NoOverlap
  BY Invariance, PTL DEF IInv

(* Nothing the lifespan closes after shutdown is used by a runner. *)
THEOREM ShutdownIsQuiet == Spec => []QuietAfterShutdown
  BY Invariance, PTL DEF IInv

(* A stopping scheduler starts no callback. *)
THEOREM NothingStartsWhileStopping == Spec => NoStartWhileStopping
<1>1. ASSUME IInv, [Next]_vars, NEW k \in Jobs, stopping
      PROVE running'[k] \subseteq running[k]
  <2>1. ASSUME NEW j \in Jobs, Fire(j) PROVE UNCHANGED running
    BY <1>1, <2>1 DEF Fire, MayRun
  <2>2. ASSUME NEW j \in Jobs, NEW c \in Callers PROVE ~ Trigger(c, j)
    BY <1>1 DEF Trigger, MayRun
  <2>3. ASSUME NEW j \in Jobs, NEW who, Leaves(j, who)
        PROVE running'[k] \subseteq running[k]
    BY <1>1, <2>3 DEF Leaves, IInv, TypeOK
  <2>4. ASSUME NEW j \in Jobs, Step(j)
        PROVE running'[k] \subseteq running[k]
    <3>1. Fire(j) \/ Absorb(j) => UNCHANGED running
      BY <2>1 DEF Absorb
    <3>2. Cancelled(j) => UNCHANGED running \/ Leaves(j, Runner)
      BY DEF Cancelled
    <3>3. ASSUME NEW who \in Callers \cup {Runner},
                 Return(j, who) \/ Raise(j, who)
          PROVE Leaves(j, who)
      BY <3>3 DEF Return, Raise
    <3>4. QED
      BY <2>3, <2>4, <3>1, <3>2, <3>3 DEF Step
  <2>5. (\E j \in Jobs : AddInterval(j)) \/ Shutdown \/ Stopped \/ Close
           \/ UNCHANGED vars => UNCHANGED running
    BY DEF AddInterval, Shutdown, Stopped, Close, vars
  <2>6. QED
    BY <1>1, <2>2, <2>4, <2>5 DEF Next
<1>2. IInv /\ [Next]_vars
        => [\A j \in Jobs : stopping => running'[j] \subseteq running[j]]_vars
  BY <1>1
<1>3. QED
  BY Invariance, <1>2, PTL DEF Spec, NoStartWhileStopping
=============================================================================
