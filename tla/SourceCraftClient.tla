-------------------------- MODULE SourceCraftClient --------------------------
(***************************************************************************)
(* SourceCraftClient of collection/sourcecraft.py: get_json, which asks    *)
(* once and retries transient failures, and get_json_pages, which follows  *)
(* page tokens until there is none, a limit is reached or a reply is not   *)
(* what it should be.                                                      *)
(*                                                                         *)
(* The server is free: every request may get any reply and any token, the  *)
(* same one for ever included.  Rows are counted, not represented.         *)
(***************************************************************************)
EXTENDS Integers, Sequences, FiniteSets

CONSTANTS
  RetryAttempts, \* requests for one page, 1 to 5
  MaxPages, MaxRows,
  PageRows,      \* bound: rows of one page of the server
  Tokens,        \* page tokens, neither blank nor of another type
  NoToken,       \* next_page_token is null, "" or blanks
  OddToken       \* next_page_token is not a string

ASSUME ClientAssumption ==
  /\ RetryAttempts \in 1..5 /\ PageRows \in Nat
  /\ MaxPages \in Nat \ {0} /\ MaxRows \in Nat \ {0}
  /\ NoToken # OddToken /\ {NoToken, OddToken} \cap Tokens = {}

VARIABLES
  attempt,       \* of the page asked for now
  token,         \* page_token
  seen,          \* seen_tokens
  pages,         \* pages read so far
  kept,          \* len(rows)
  result,        \* how get_json_pages has ended, or "none"
  sent,          \* ghost: rows of the pages read so far, kept or not
  left,          \* ghost: next_page_token of the last page read
  requests,      \* ghost: GETs so far
  waited         \* ghost: delays so far, in units of retry_backoff_seconds

vars == <<attempt, token, seen, pages, kept, result, sent, left, requests, waited>>

(* "capped" and "not_found" are incomplete page sets with a limitation, the *)
(* last three are exceptions, which leave the caller no rows at all. *)
Results == {"none", "complete", "capped", "not_found",
            "auth", "unavailable", "payload"}

(* A request breaks in transport or has a body that is not JSON, whatever  *)
(* its status; else the status decides, and for 2xx the body. *)
Transient == {"broken", "busy"}
Replies == Transient \cup {"denied", "missing", "odd_status", "not_object"}
EndOf ==
  [r \in Replies |->
     CASE r = "denied" -> "auth"
       [] r = "missing" -> "not_found"
       [] r = "not_object" -> "payload"
       [] OTHER -> "unavailable"]

(* The object of a reply: the well-formed rows before the first malformed  *)
(* one, and whether there is one or no array at all. *)
Objects == [good : 0..PageRows, rows : {"array", "bad_row", "missing"},
            next : Tokens \cup {NoToken, OddToken}]

(***************************************************************************)
(* Mutated forms of the definitions below, one plausible slip each.        *)
(***************************************************************************)
MutantPageEnd(o) ==
  IF o.rows = "missing" THEN "payload"
  ELSE IF kept + o.good >= MaxRows THEN "capped"
  ELSE IF o.rows = "bad_row" THEN "payload"
  ELSE IF o.next = NoToken \/ pages + 1 = MaxPages THEN "complete"
  ELSE IF o.next \in seen \cup {OddToken} THEN "payload"
  ELSE "none"
MutantGivesUp == attempt > RetryAttempts
MutantKept(o) == kept + o.good
MutantRemembered(o) == seen

(***************************************************************************)
(* The decisions of the client.                                            *)
(***************************************************************************)
GivesUp == attempt >= RetryAttempts
(* The delays before attempts 1 to 5: 2 ** (attempt - 1) after each. *)
WaitedBefore == <<0, 1, 3, 7, 15>>
Remembered(o) == seen \cup {o.next}
(* How a page ends the call: the cap on rows is looked at row by row,      *)
(* before a malformed row behind it, and the cap on pages last. *)
PageEnd(o) ==
  IF o.rows = "missing" THEN "payload"
  ELSE IF kept + o.good >= MaxRows THEN "capped"
  ELSE IF o.rows = "bad_row" THEN "payload"
  ELSE IF o.next = NoToken THEN "complete"
  ELSE IF o.next \in seen \cup {OddToken} THEN "payload"
  ELSE IF pages + 1 = MaxPages THEN "capped" ELSE "none"
Kept(o) == IF kept + o.good > MaxRows THEN MaxRows ELSE kept + o.good

Init ==
  /\ attempt = 1 /\ token = NoToken /\ seen = {} /\ result = "none"
  /\ left = NoToken /\ pages = 0 /\ kept = 0 /\ sent = 0 /\ requests = 0 /\ waited = 0

Asking == result = "none" /\ requests' = requests + 1

(* get_json sleeps and asks again. *)
Retry ==
  /\ Asking /\ ~GivesUp
  /\ attempt' = attempt + 1
  /\ waited' =
       waited + (WaitedBefore[attempt + 1] - WaitedBefore[attempt])
  /\ UNCHANGED <<token, seen, pages, kept, result, sent, left>>

(* A reply without an object ends the call, a transient one once the       *)
(* attempts are used up. *)
Refuse(r) ==
  /\ Asking /\ (r \in Transient => GivesUp)
  /\ result' = EndOf[r]
  /\ UNCHANGED <<attempt, token, seen, pages, kept, sent, left, waited>>

(* A page is read.  Unless it ends the call the next one is asked for,     *)
(* with a fresh budget of attempts. *)
Page(o) ==
  /\ Asking
  /\ result' = PageEnd(o)
  /\ pages' = pages + 1
  /\ sent' = sent + o.good /\ kept' = Kept(o) /\ left' = o.next
  /\ IF PageEnd(o) = "none"
     THEN token' = o.next /\ seen' = Remembered(o) /\ attempt' = 1
     ELSE UNCHANGED <<token, seen, attempt>>
  /\ UNCHANGED waited

Next == Retry \/ (\E r \in Replies : Refuse(r)) \/ (\E o \in Objects : Page(o))

Spec == Init /\ [][Next]_vars

(***************************************************************************)
(* Properties.                                                             *)
(***************************************************************************)
TypeOK ==
  /\ attempt \in 1..RetryAttempts
  /\ token \in Tokens \cup {NoToken} /\ seen \subseteq Tokens
  /\ result \in Results /\ left \in Tokens \cup {NoToken, OddToken}
  /\ {pages, kept, sent, requests, waited} \subseteq Nat

(* A page set that says it is complete has every row of every page, and    *)
(* there is no further page; SourceCraftIssuesCollector counts comments    *)
(* on its word (get_json_pages). *)
CompleteIsEverything == result = "complete" => kept = sent /\ left = NoToken

(* Against any server, one that never stops answering with pages or with   *)
(* errors included, a call keeps at most max_rows rows and makes at most   *)
(* max_pages times retry_attempts requests, each of which counts: it ends, *)
(* and sleeps no longer than its backoff allows (get_json_pages, _retry). *)
Bounded ==
  /\ kept <= MaxRows
  /\ requests <= MaxPages * RetryAttempts
  /\ waited <= MaxPages * WaitedBefore[RetryAttempts]

(* No page token is followed twice: as many different tokens were accepted *)
(* as pages were read, so that a server whose tokens name pages has none   *)
(* of its rows counted twice (seen_tokens in get_json_pages). *)
FollowsFreshTokens == result = "none" => Cardinality(seen) = pages
=============================================================================
