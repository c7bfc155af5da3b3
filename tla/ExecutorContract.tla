-------------------------- MODULE ExecutorContract --------------------------
(***************************************************************************)
(* What the local executor promises its callers, whatever threads, timers  *)
(* and cancellations do: a call has one outcome and keeps it, at most      *)
(* Slots factories are waited for, a factory is not asked for a task that  *)
(* has a good result, and "completed" is the answer of the call's own      *)
(* factory or the recollection of an earlier good one of the same task.    *)
(***************************************************************************)
EXTENDS Naturals, FiniteSets

CONSTANTS Calls, TaskOf, Slots, None

VARIABLES
  stage,    \* "new", "waiting", "working" or "ended", of each call
  outcome

contractVars == <<stage, outcome>>

Refusals == {"unsupported", "resource_limit", "cancelled"}
Results == {"completed", "analyzer_error", "error", "transient", "timeout",
            "cancelled"}

Busy == {c \in Calls : stage[c] = "working"}
(* The tasks that somebody has completed. *)
Solved == {TaskOf[c] : c \in {d \in Calls : outcome[d] = "completed"}}

Answer(c, kind) == /\ stage' = [stage EXCEPT ![c] = "ended"]
                   /\ outcome' = [outcome EXCEPT ![c] = kind]

Init == /\ stage = [c \in Calls |-> "new"]
        /\ outcome = [c \in Calls |-> None]

(* The calls of a batch are made together. *)
Submit(calls) ==
  /\ \A c \in calls : stage[c] = "new"
  /\ stage' = [c \in Calls |-> IF c \in calls THEN "waiting" ELSE stage[c]]
  /\ UNCHANGED outcome

Begin(c) == /\ stage[c] = "waiting"
            /\ TaskOf[c] \notin Solved
            /\ Cardinality(Busy) < Slots
            /\ stage' = [stage EXCEPT ![c] = "working"]
            /\ UNCHANGED outcome

Recall(c) == /\ stage[c] = "waiting"
             /\ TaskOf[c] \in Solved
             /\ Answer(c, "completed")

Refuse(c) == /\ stage[c] = "waiting"
             /\ \E kind \in Refusals : Answer(c, kind)

Finish(c) == /\ stage[c] = "working"
             /\ \E kind \in Results : Answer(c, kind)

Next == \/ \E calls \in SUBSET Calls : Submit(calls)
        \/ \E c \in Calls : Begin(c) \/ Recall(c) \/ Refuse(c) \/ Finish(c)

Spec == Init /\ [][Next]_contractVars
=============================================================================
