------------------------- MODULE IntervalScheduler -------------------------
(***************************************************************************)
(* IntervalScheduler of infrastructure/scheduler.py, the callbacks that    *)
(* POST /scheduler/analyses registers and the lifespan of api/app.py that  *)
(* stops the scheduler and then closes the runtime.                        *)
(*                                                                         *)
(* One event loop runs everything: between two awaits nothing else moves,  *)
(* so trigger's look at the lock and its acquisition are one step.  The    *)
(* awaits are the sleep of a runner, the callback and shutdown's gather.   *)
(***************************************************************************)
EXTENDS Naturals

CONSTANTS
  Jobs,          \* the names of the jobs
  Callers,       \* calls of trigger from outside of the scheduler
  Swallows       \* the jobs whose callback lets no Exception out

Runner == "runner"

ASSUME SchedulerAssumption == Swallows \subseteq Jobs /\ Runner \notin Callers

VARIABLES
  callbacks,     \* the names in _callbacks and _locks
  runner,        \* the asyncio task of each job
  locked,        \* each job's lock
  running,       \* who is inside of each job's callback
  stopping,
  phase          \* where the lifespan of the application is

vars == <<callbacks, runner, locked, running, stopping, phase>>

(* "cancelling" has a CancelledError waiting at its await. *)
Alive == {"sleeping", "calling", "cancelling"}
RunnerStates == {"none", "cancelled", "failed", "done"} \cup Alive
Phases == {"serving", "gathering", "stopped", "closed"}

(***************************************************************************)
(* Mutated forms of the definitions below, one plausible slip each.        *)
(***************************************************************************)
MutantMayRun(j) == j \in callbacks /\ ~ locked[j]
MutantLeaves(j, who) ==
  running' = [running EXCEPT ![j] = @ \ {who}] /\ UNCHANGED locked
MutantEnters(j, who) ==
  running' = [running EXCEPT ![j] = @ \cup {who}] /\ UNCHANGED locked
MutantAnyName(j) == ~ stopping /\ ~ locked[j]
MutantGathered == TRUE
MutantAfterTrigger == "sleeping"
MutantAfterRaise(j) == "failed"

(***************************************************************************)
(* The decisions of trigger and of the runner's loop.                      *)
(***************************************************************************)
MayRun(j) == j \in callbacks /\ ~ stopping /\ ~ locked[j]
Enters(j, who) ==
  /\ locked' = [locked EXCEPT ![j] = TRUE]
  /\ running' = [running EXCEPT ![j] = @ \cup {who}]
Leaves(j, who) ==
  /\ locked' = [locked EXCEPT ![j] = FALSE]
  /\ running' = [running EXCEPT ![j] = @ \ {who}]
AfterTrigger == IF stopping THEN "done" ELSE "sleeping"
(* An Exception that scheduled_run logs does not reach the runner. *)
AfterRaise(j) == IF j \in Swallows THEN AfterTrigger ELSE "failed"
Gathered == \A j \in Jobs : runner[j] \notin Alive

Init ==
  /\ callbacks = {}
  /\ runner = [j \in Jobs |-> "none"]
  /\ locked = [j \in Jobs |-> FALSE]
  /\ running = [j \in Jobs |-> {}]
  /\ stopping = FALSE
  /\ phase = "serving"

(* add_interval: the runner starts with its sleep. *)
AddInterval(j) ==
  /\ ~ stopping /\ j \notin callbacks
  /\ callbacks' = callbacks \cup {j}
  /\ runner' = [runner EXCEPT ![j] = "sleeping"]
  /\ UNCHANGED <<locked, running, stopping, phase>>

(* The interval has passed: the runner triggers its job or skips a turn. *)
Fire(j) ==
  /\ runner[j] = "sleeping"
  /\ IF MayRun(j)
     THEN /\ Enters(j, Runner)
          /\ runner' = [runner EXCEPT ![j] = "calling"]
     ELSE /\ runner' = [runner EXCEPT ![j] = AfterTrigger]
          /\ UNCHANGED <<locked, running>>
  /\ UNCHANGED <<callbacks, stopping, phase>>

(* trigger from outside; a call that may not run returns False. *)
Trigger(c, j) ==
  /\ \A k \in Jobs : c \notin running[k]
  /\ MayRun(j)
  /\ Enters(j, c)
  /\ UNCHANGED <<callbacks, runner, stopping, phase>>

(* The callback returns. *)
Return(j, who) ==
  /\ who \in running[j]
  /\ who = Runner => runner[j] = "calling"
  /\ Leaves(j, who)
  /\ runner' = IF who = Runner
               THEN [runner EXCEPT ![j] = AfterTrigger] ELSE runner
  /\ UNCHANGED <<callbacks, stopping, phase>>

(* The callback raises an Exception. *)
Raise(j, who) ==
  /\ who \in running[j]
  /\ who = Runner => runner[j] = "calling"
  /\ Leaves(j, who)
  /\ runner' = IF who = Runner
               THEN [runner EXCEPT ![j] = AfterRaise(j)] ELSE runner
  /\ UNCHANGED <<callbacks, stopping, phase>>

(* shutdown up to the gather: every task that is not done gets a           *)
(* CancelledError.                                                         *)
Shutdown ==
  /\ phase = "serving"
  /\ phase' = "gathering"
  /\ stopping' = TRUE
  /\ runner' = [j \in Jobs |->
                  IF runner[j] \in Alive THEN "cancelling" ELSE runner[j]]
  /\ UNCHANGED <<callbacks, locked, running>>

(* The CancelledError leaves the sleep, or the callback and its lock. *)
Cancelled(j) ==
  /\ runner[j] = "cancelling"
  /\ runner' = [runner EXCEPT ![j] = "cancelled"]
  /\ IF Runner \in running[j]
     THEN Leaves(j, Runner) ELSE UNCHANGED <<locked, running>>
  /\ UNCHANGED <<callbacks, stopping, phase>>

(* An await inside of the callback absorbs the CancelledError, as          *)
(* asyncio.wait_for of Python 3.11 does when its future is already done.   *)
Absorb(j) ==
  /\ runner[j] = "cancelling" /\ Runner \in running[j]
  /\ runner' = [runner EXCEPT ![j] = "calling"]
  /\ UNCHANGED <<callbacks, locked, running, stopping, phase>>

(* shutdown after the gather. *)
Stopped ==
  /\ phase = "gathering" /\ Gathered
  /\ phase' = "stopped"
  /\ callbacks' = {}
  /\ UNCHANGED <<runner, locked, running, stopping>>

(* runtime.close, after shutdown has returned. *)
Close ==
  /\ phase = "stopped"
  /\ phase' = "closed"
  /\ UNCHANGED <<callbacks, runner, locked, running, stopping>>

Step(j) ==
  Fire(j) \/ Cancelled(j) \/ Absorb(j)
    \/ \E who \in Callers \cup {Runner} : Return(j, who) \/ Raise(j, who)

Next ==
  \/ \E j \in Jobs : AddInterval(j) \/ Step(j)
                       \/ \E c \in Callers : Trigger(c, j)
  \/ Shutdown \/ Stopped \/ Close

Spec == Init /\ [][Next]_vars

(* Timers fire, callbacks end, CancelledErrors are delivered and the       *)
(* lifespan goes on; nobody has to add a job, trigger or stop.             *)
Fairness ==
  /\ \A j \in Jobs :
       /\ WF_vars(Fire(j)) /\ WF_vars(Cancelled(j) \/ Absorb(j))
       /\ \A who \in Callers \cup {Runner} :
            WF_vars(Return(j, who) \/ Raise(j, who))
  /\ WF_vars(Stopped) /\ WF_vars(Close)
FairSpec == Spec /\ Fairness

(***************************************************************************)
(* Properties.                                                             *)
(***************************************************************************)
TypeOK ==
  /\ callbacks \subseteq Jobs
  /\ runner \in [Jobs -> RunnerStates]
  /\ locked \in [Jobs -> BOOLEAN]
  /\ running \in [Jobs -> SUBSET (Callers \cup {Runner})]
  /\ stopping \in BOOLEAN /\ phase \in Phases
  /\ \A j \in Jobs :
       j \in callbacks \/ running[j] # {} => runner[j] # "none"

(* A job never overlaps itself, and its lock is held exactly while its     *)
(* callback runs: an exception or a cancellation leaves no lock behind     *)
(* that would make every later trigger skip (trigger).                     *)
NoOverlap ==
  \A j \in Jobs : /\ \A a, b \in running[j] : a = b
                  /\ locked[j] <=> running[j] # {}

(* Once shutdown has returned no runner is inside of a callback or can     *)
(* enter one, so what the lifespan closes next is used by nothing but a    *)
(* trigger from outside (shutdown, lifespan).                              *)
QuietAfterShutdown ==
  phase \in {"stopped", "closed"} =>
    /\ callbacks = {}
    /\ \A j \in Jobs : runner[j] \notin Alive /\ Runner \notin running[j]

(* No callback starts once the scheduler is stopping, wherever its runner, *)
(* its caller or the cancellations are (trigger).                          *)
NoStartWhileStopping ==
  [][\A j \in Jobs : stopping => running'[j] \subseteq running[j]]_vars

(* While the scheduler serves, a job whose callback lets no Exception out  *)
(* runs again and again, whatever happened to its earlier runs (runner).   *)
KeepsFiring ==
  \A j \in Swallows : j \in callbacks ~> (stopping \/ running[j] # {})

(* shutdown returns, and the runtime gets closed, even when a callback     *)
(* absorbs its CancelledError (shutdown, runner).                          *)
ShutdownReturns == stopping ~> phase = "closed"
=============================================================================
