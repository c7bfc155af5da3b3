----------------------------- MODULE TaskLedger -----------------------------
(***************************************************************************)
(* What the durable queue promises its callers about one task, whatever    *)
(* happens to workers and leases: attempts are numbered in the order they  *)
(* begin, only the latest of them can hand the task back or settle it, it  *)
(* is handed back only while attempts are left, a retryable outcome        *)
(* settles it only when none are, and what is settled stays settled.       *)
(***************************************************************************)
EXTENDS Integers

CONSTANTS Tasks, MaxAttempts, None

VARIABLES
  phase,   \* "absent", "waiting", "active" or "settled"
  latest,  \* the number of the attempt that began last, 0 before the first
  result   \* the settled outcome and the attempt it belongs to

ledgerVars == <<phase, latest, result>>

Init == /\ phase = [t \in Tasks |-> "absent"]
        /\ latest = [t \in Tasks |-> 0]
        /\ result = [t \in Tasks |-> None]

Submit(t) == /\ phase[t] = "absent"
             /\ phase' = [phase EXCEPT ![t] = "waiting"]
             /\ UNCHANGED <<latest, result>>

Begin(t) == /\ phase[t] \in {"waiting", "active"}
            /\ phase' = [phase EXCEPT ![t] = "active"]
            /\ latest' = [latest EXCEPT ![t] = @ + 1]
            /\ UNCHANGED result

HandBack(t) == /\ phase[t] = "active"
               /\ latest[t] < MaxAttempts
               /\ phase' = [phase EXCEPT ![t] = "waiting"]
               /\ UNCHANGED <<latest, result>>

Settle(t, kind) ==
  /\ phase[t] = "active"
  /\ kind = "retryable" => latest[t] >= MaxAttempts
  /\ phase' = [phase EXCEPT ![t] = "settled"]
  /\ result' = [result EXCEPT ![t] = [kind |-> kind, attempt |-> latest[t]]]
  /\ UNCHANGED latest

Next == \E t \in Tasks :
          \/ Submit(t) \/ Begin(t) \/ HandBack(t)
          \/ \E kind \in {"completed", "failed", "retryable"} : Settle(t, kind)

Spec == Init /\ [][Next]_ledgerVars
=============================================================================
