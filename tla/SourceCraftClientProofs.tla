----------------------- MODULE SourceCraftClientProofs -----------------------
(***************************************************************************)
(* Proofs about SourceCraftClient, for every number of attempts from 1 to  *)
(* 5, every cap on pages and rows and every set of tokens.                 *)
(*                                                                         *)
(* What makes the bounds inductive is the account of the pages: while a    *)
(* call goes on, RetryAttempts requests have been spent at most on every   *)
(* page read, and attempt - 1 on the one asked for now.                    *)
(***************************************************************************)
EXTENDS SourceCraftClient, FiniteSetTheorems, TLAPS

Account ==
  /\ requests <= pages * RetryAttempts + (attempt - 1)
  /\ waited <= pages * WaitedBefore[RetryAttempts] + WaitedBefore[attempt]

Going ==
  /\ pages < MaxPages /\ kept < MaxRows /\ kept = sent
  /\ IsFiniteSet(seen) /\ Cardinality(seen) = pages
  /\ Account

IInv ==
  /\ TypeOK
  /\ result = "none" => Going
  /\ CompleteIsEverything
  /\ Bounded

(* The backoff grows with the attempt. *)
LEMMA WaitedGrows ==
  ASSUME NEW i \in 1..RetryAttempts
  PROVE  /\ WaitedBefore[i] \in Nat /\ WaitedBefore[RetryAttempts] \in Nat
         /\ WaitedBefore[i] <= WaitedBefore[RetryAttempts]
  <1>1. /\ WaitedBefore[1] = 0 /\ WaitedBefore[2] = 1 /\ WaitedBefore[3] = 3
        /\ WaitedBefore[4] = 7 /\ WaitedBefore[5] = 15
    BY DEF WaitedBefore
  <1>2. RetryAttempts \in 1..5
    BY ClientAssumption DEF ClientAssumption
  <1> QED BY <1>1, <1>2

(* One more page, or another attempt at it, stays within the budget. *)
LEMMA Budget ==
  ASSUME NEW n \in Nat, NEW m \in Nat, NEW k \in Nat, n < m
  PROVE  /\ n * k \in Nat /\ m * k \in Nat
         /\ (n + 1) * k = n * k + k
         /\ n * k + k <= m * k
  <1>1. PICK d \in Nat : m = n + 1 + d
    <2>1. m - n - 1 \in Nat /\ m = n + 1 + (m - n - 1)
      OBVIOUS
    <2> QED BY <2>1
  <1>2. d * k \in Nat /\ n * k \in Nat
    OBVIOUS
  <1>3. m * k = n * k + k + d * k
    BY <1>1
  <1> QED BY <1>2, <1>3

LEMMA InitInv == Init => IInv
  <1> SUFFICES ASSUME Init PROVE IInv
    OBVIOUS
  <1>1. RetryAttempts \in 1..5 /\ MaxPages \in Nat \ {0} /\ MaxRows \in Nat \ {0}
    BY ClientAssumption DEF ClientAssumption
  <1>2. WaitedBefore[1] = 0 /\ WaitedBefore[RetryAttempts] \in Nat
    BY <1>1, WaitedGrows DEF WaitedBefore
  <1>3. TypeOK
    BY <1>1 DEF Init, TypeOK, Results
  <1>4. result = "none" => Going
    BY <1>1, <1>2, FS_EmptySet DEF Init, Going, Account
  <1>5. Bounded
    <2>1. 0 * RetryAttempts = 0 /\ MaxPages * RetryAttempts \in Nat
          /\ MaxPages * WaitedBefore[RetryAttempts] \in Nat
      BY <1>1, <1>2
    <2> QED BY <1>1, <2>1 DEF Init, Bounded
  <1> QED BY <1>3, <1>4, <1>5 DEF IInv, CompleteIsEverything, Init

(* Every request of a call that goes on is within the budget, that of the  *)
(* page asked for included. *)
LEMMA WithinBudget ==
  ASSUME TypeOK, Going
  PROVE  /\ requests + 1 <= pages * RetryAttempts + attempt
         /\ pages * RetryAttempts + attempt <= MaxPages * RetryAttempts
         /\ pages * RetryAttempts + attempt <= (pages + 1) * RetryAttempts
         /\ waited <= (pages + 1) * WaitedBefore[RetryAttempts]
         /\ (pages + 1) * WaitedBefore[RetryAttempts]
              <= MaxPages * WaitedBefore[RetryAttempts]
         /\ (pages + 1) * WaitedBefore[RetryAttempts] \in Nat
         /\ pages * WaitedBefore[RetryAttempts] + WaitedBefore[RetryAttempts]
              = (pages + 1) * WaitedBefore[RetryAttempts]
         /\ pages * WaitedBefore[RetryAttempts] \in Nat
         /\ {pages * RetryAttempts, MaxPages * RetryAttempts,
             (pages + 1) * RetryAttempts,
             MaxPages * WaitedBefore[RetryAttempts]} \subseteq Nat
  <1> DEFINE w == WaitedBefore[RetryAttempts]
  <1>1. RetryAttempts \in Nat /\ MaxPages \in Nat /\ attempt \in 1..RetryAttempts
    BY ClientAssumption DEF ClientAssumption, TypeOK
  <1>2. pages \in Nat /\ pages < MaxPages /\ requests \in Nat /\ waited \in Nat
    BY DEF TypeOK, Going
  <1>3. /\ w \in Nat /\ WaitedBefore[attempt] \in Nat
        /\ WaitedBefore[attempt] <= w
    BY <1>1, WaitedGrows
  <1> HIDE DEF w
  <1>4. /\ pages * RetryAttempts \in Nat /\ MaxPages * RetryAttempts \in Nat
        /\ (pages + 1) * RetryAttempts = pages * RetryAttempts + RetryAttempts
        /\ pages * RetryAttempts + RetryAttempts <= MaxPages * RetryAttempts
    BY <1>1, <1>2, Budget
  <1>5. /\ pages * w \in Nat /\ MaxPages * w \in Nat
        /\ (pages + 1) * w = pages * w + w
        /\ pages * w + w <= MaxPages * w
    BY <1>1, <1>2, <1>3, Budget
  <1>6. /\ requests <= pages * RetryAttempts + (attempt - 1)
        /\ waited <= pages * w + WaitedBefore[attempt]
    BY DEF Going, Account, w
  <1>7. /\ requests + 1 <= pages * RetryAttempts + attempt
        /\ pages * RetryAttempts + attempt <= MaxPages * RetryAttempts
        /\ pages * RetryAttempts + attempt <= (pages + 1) * RetryAttempts
        /\ {pages * RetryAttempts, MaxPages * RetryAttempts,
            (pages + 1) * RetryAttempts} \subseteq Nat
    BY <1>1, <1>2, <1>4, <1>6
  <1>8. /\ waited <= (pages + 1) * w
        /\ (pages + 1) * w <= MaxPages * w
        /\ (pages + 1) * w \in Nat /\ MaxPages * w \in Nat /\ pages * w \in Nat
        /\ pages * w + w = (pages + 1) * w
    BY <1>2, <1>3, <1>5, <1>6
  <1> QED BY <1>7, <1>8 DEF w

LEMMA RetryInv ==
  ASSUME IInv, Retry
  PROVE  IInv'
  <1>1. TypeOK /\ Going /\ Bounded /\ result = "none"
    BY DEF IInv, Retry, Asking
  <1>2. RetryAttempts \in 1..5 /\ attempt \in 1..RetryAttempts
        /\ attempt + 1 \in 1..RetryAttempts
    BY <1>1, ClientAssumption DEF ClientAssumption, TypeOK, Retry, GivesUp
  <1>3. /\ WaitedBefore[attempt] \in Nat /\ WaitedBefore[attempt + 1] \in Nat
        /\ WaitedBefore[attempt] <= WaitedBefore[attempt + 1]
        /\ WaitedBefore[attempt + 1] <= WaitedBefore[RetryAttempts]
        /\ WaitedBefore[RetryAttempts] \in Nat
    <2>1. /\ WaitedBefore[1] = 0 /\ WaitedBefore[2] = 1 /\ WaitedBefore[3] = 3
          /\ WaitedBefore[4] = 7 /\ WaitedBefore[5] = 15
      BY DEF WaitedBefore
    <2> QED BY <1>2, <2>1
  <1>4. /\ requests \in Nat /\ waited \in Nat /\ pages \in Nat /\ kept \in Nat
        /\ sent \in Nat /\ MaxPages \in Nat
    BY <1>1, ClientAssumption DEF ClientAssumption, TypeOK
  <1>5. requests' = requests + 1 /\ attempt' = attempt + 1
        /\ waited' = waited + (WaitedBefore[attempt + 1] - WaitedBefore[attempt])
        /\ UNCHANGED <<token, seen, pages, kept, result, sent, left>>
    BY DEF Retry, Asking
  <1>6. TypeOK'
    BY <1>1, <1>2, <1>3, <1>4, <1>5 DEF TypeOK
  <1>7. Going'
    <2>1. Account'
      <3>1. requests' <= pages * RetryAttempts + attempt
        BY <1>1, <1>5, WithinBudget
      <3>2. pages * WaitedBefore[RetryAttempts] \in Nat
        BY <1>1, WithinBudget
      <3>3. waited' <= pages * WaitedBefore[RetryAttempts]
                         + WaitedBefore[attempt + 1]
        BY <1>1, <1>3, <1>4, <1>5, <3>2 DEF Going, Account
      <3>4. requests' <= pages' * RetryAttempts + (attempt' - 1)
        <4>1. attempt' - 1 = attempt /\ pages' = pages
          BY <1>2, <1>5
        <4> QED BY ONLY <3>1, <4>1, Zenon
      <3>5. waited' <= pages' * WaitedBefore[RetryAttempts]
                         + WaitedBefore[attempt']
        <4>1. attempt' = attempt + 1 /\ pages' = pages
          BY <1>5
        <4> QED BY ONLY <3>3, <4>1, Zenon
      <3> QED BY <3>4, <3>5, Zenon DEF Account
    <2> QED BY <1>1, <1>5, <2>1 DEF Going
  <1>8. Bounded'
    <2>1. requests' <= MaxPages * RetryAttempts
      BY <1>1, <1>2, <1>4, <1>5, WithinBudget
    <2>2. waited' <= MaxPages * WaitedBefore[RetryAttempts]
      <3> DEFINE w == WaitedBefore[RetryAttempts]
      <3>1. waited' <= pages * w + WaitedBefore[attempt + 1]
        BY <1>5, <1>7 DEF Going, Account
      <3>2. /\ pages * w \in Nat /\ pages * w + w = (pages + 1) * w
            /\ (pages + 1) * w <= MaxPages * w
            /\ (pages + 1) * w \in Nat /\ MaxPages * w \in Nat
        BY <1>1, WithinBudget
      <3>3. waited' \in Nat
        BY <1>6 DEF TypeOK
      <3>4. w \in Nat /\ WaitedBefore[attempt + 1] \in Nat
            /\ WaitedBefore[attempt + 1] <= w
        BY <1>3
      <3> HIDE DEF w
      <3>5. waited' <= MaxPages * w
        BY <3>1, <3>2, <3>3, <3>4
      <3> QED BY <3>5 DEF w
    <2> QED BY <1>1, <1>5, <2>1, <2>2 DEF Bounded
  <1> QED BY <1>1, <1>5, <1>6, <1>7, <1>8 DEF IInv, CompleteIsEverything

LEMMA RefuseInv ==
  ASSUME IInv, NEW r \in Replies, Refuse(r)
  PROVE  IInv'
  <1>1. TypeOK /\ Going /\ Bounded /\ result = "none"
    BY DEF IInv, Refuse, Asking
  <1>2. result' \in {"auth", "not_found", "payload", "unavailable"}
    BY DEF Refuse, EndOf
  <1>3. requests' = requests + 1
        /\ UNCHANGED <<attempt, token, seen, pages, kept, sent, left, waited>>
    BY DEF Refuse, Asking
  <1>4. TypeOK'
    BY <1>1, <1>2, <1>3 DEF TypeOK, Results
  <1>5. requests' <= MaxPages * RetryAttempts
    <2>1. requests \in Nat /\ attempt \in Nat
      BY <1>1, ClientAssumption DEF ClientAssumption, TypeOK
    <2> QED BY <1>1, <1>3, <2>1, WithinBudget
  <1> QED BY <1>1, <1>2, <1>3, <1>4, <1>5
          DEF IInv, Bounded, CompleteIsEverything

LEMMA PageInv ==
  ASSUME IInv, NEW o \in Objects, Page(o)
  PROVE  IInv'
  <1>1. TypeOK /\ Going /\ Bounded /\ result = "none"
    BY DEF IInv, Page, Asking
  <1>2. /\ RetryAttempts \in 1..5 /\ MaxPages \in Nat /\ MaxRows \in Nat \ {0}
        /\ PageRows \in Nat /\ NoToken # OddToken
        /\ NoToken \notin Tokens /\ OddToken \notin Tokens
    BY ClientAssumption DEF ClientAssumption
  <1>3. o.good \in Nat /\ o.next \in Tokens \cup {NoToken, OddToken}
    BY <1>2 DEF Objects
  <1>4. /\ requests' = requests + 1 /\ pages' = pages + 1
        /\ result' = PageEnd(o) /\ sent' = sent + o.good /\ kept' = Kept(o)
        /\ left' = o.next /\ waited' = waited
    BY DEF Page, Asking
  <1>5. /\ requests \in Nat /\ waited \in Nat /\ pages \in Nat /\ kept \in Nat
        /\ sent \in Nat /\ kept < MaxRows /\ kept = sent
    BY <1>1 DEF TypeOK, Going
  <1>6. PageEnd(o) \in {"none", "payload", "capped", "complete"}
    BY DEF PageEnd
  <1>7. PageEnd(o) \in {"none", "complete"} => kept + o.good < MaxRows
    BY <1>2, <1>3, <1>5 DEF PageEnd
  <1>8. PageEnd(o) = "complete" => o.next = NoToken
    BY DEF PageEnd
  <1>9. PageEnd(o) = "none" =>
          o.next \in Tokens \ seen /\ pages + 1 # MaxPages
    BY <1>3 DEF PageEnd
  <1>10. kept' \in Nat /\ kept' <= MaxRows
    BY <1>2, <1>3, <1>4, <1>5 DEF Kept
  <1>11. PageEnd(o) \in {"none", "complete"} => kept' = sent'
    BY <1>2, <1>3, <1>4, <1>5, <1>7 DEF Kept
  <1>12. CASE PageEnd(o) = "none"
    <2>1. token' = o.next /\ seen' = seen \cup {o.next} /\ attempt' = 1
      BY <1>12 DEF Page, Remembered
    <2>2. TypeOK'
      BY <1>1, <1>2, <1>3, <1>4, <1>5, <1>9, <1>10, <1>12, <2>1
         DEF TypeOK, Results
    <2>3. IsFiniteSet(seen') /\ Cardinality(seen') = pages'
      BY <1>1, <1>4, <1>9, <1>12, <2>1, FS_AddElement DEF Going
    <2>4. Account'
      <3>1. requests' <= (pages + 1) * RetryAttempts
        <4>1. attempt \in Nat
          BY <1>1, <1>2 DEF TypeOK
        <4> QED BY <1>1, <1>2, <1>4, <1>5, <4>1, WithinBudget
      <3>2. waited' <= (pages + 1) * WaitedBefore[RetryAttempts]
        BY <1>1, <1>4, WithinBudget
      <3>3. WaitedBefore[1] = 0
        BY DEF WaitedBefore
      <3>4. (pages + 1) * RetryAttempts \in Nat
            /\ (pages + 1) * WaitedBefore[RetryAttempts] \in Nat
        BY <1>1, WithinBudget
      <3> DEFINE a == (pages + 1) * RetryAttempts
                 b == (pages + 1) * WaitedBefore[RetryAttempts]
      <3> HIDE DEF a, b
      <3>5. a + (1 - 1) = a /\ b + 0 = b
        BY <3>4 DEF a, b
      <3>6. a = pages' * RetryAttempts /\ b = pages' * WaitedBefore[RetryAttempts]
        BY <1>4 DEF a, b
      <3>7. requests' <= a /\ waited' <= b
        BY <3>1, <3>2 DEF a, b
      <3> QED BY <2>1, <3>3, <3>5, <3>6, <3>7 DEF Account
    <2>5. pages' < MaxPages /\ kept' < MaxRows
      BY <1>1, <1>2, <1>3, <1>4, <1>5, <1>7, <1>9, <1>12 DEF Going, Kept
    <2>6. Going'
      BY <1>11, <1>12, <2>3, <2>4, <2>5 DEF Going
    <2>7. Bounded'
      <3>1. requests' <= MaxPages * RetryAttempts
        <4>1. attempt \in Nat
          BY <1>1, <1>2 DEF TypeOK
        <4> QED BY <1>1, <1>2, <1>4, <1>5, <4>1, WithinBudget
      <3> QED BY <1>1, <1>4, <1>10, <3>1 DEF Bounded
    <2> QED BY <1>4, <1>12, <2>2, <2>6, <2>7 DEF IInv, CompleteIsEverything
  <1>13. CASE PageEnd(o) # "none"
    <2>1. UNCHANGED <<token, seen, attempt>>
      BY <1>13 DEF Page
    <2>2. TypeOK'
      BY <1>1, <1>3, <1>4, <1>5, <1>6, <1>10, <2>1 DEF TypeOK, Results
    <2>3. Bounded'
      <3>1. requests' <= MaxPages * RetryAttempts
        <4>1. attempt \in Nat
          BY <1>1, <1>2 DEF TypeOK
        <4> QED BY <1>1, <1>2, <1>4, <1>5, <4>1, WithinBudget
      <3> QED BY <1>1, <1>4, <1>10, <3>1 DEF Bounded
    <2>4. CompleteIsEverything'
      BY <1>4, <1>8, <1>11 DEF CompleteIsEverything
    <2> QED BY <1>4, <1>13, <2>2, <2>3, <2>4 DEF IInv
  <1> QED BY <1>12, <1>13

LEMMA Inductive == Spec => []IInv
  <1>1. IInv /\ [Next]_vars => IInv'
    <2> SUFFICES ASSUME IInv, [Next]_vars PROVE IInv'
      OBVIOUS
    <2>1. CASE Next
      BY <2>1, RetryInv, RefuseInv, PageInv DEF Next
    <2>2. CASE UNCHANGED vars
      BY <2>2 DEF vars, IInv, TypeOK, Going, Account, CompleteIsEverything,
                  Bounded
    <2> QED BY <2>1, <2>2
  <1> QED BY InitInv, <1>1, PTL DEF Spec

(* Whatever the server answers, get_json_pages calls a page set complete   *)
(* only if it holds every row of every page. *)
THEOREM CompletePagesHaveEverything == Spec => []CompleteIsEverything
  <1>1. IInv => CompleteIsEverything
    BY DEF IInv
  <1> QED BY Inductive, <1>1, PTL

(* Whatever the server answers, a call stays within its caps on rows,      *)
(* requests and sleep, and so it ends. *)
THEOREM CallsAreBounded == Spec => []Bounded
  <1>1. IInv => Bounded
    BY DEF IInv
  <1> QED BY Inductive, <1>1, PTL

(* Whatever tokens the server hands out, none is followed twice. *)
THEOREM TokensAreFresh == Spec => []FollowsFreshTokens
  <1>1. IInv => FollowsFreshTokens
    BY DEF IInv, Going, FollowsFreshTokens
  <1> QED BY Inductive, <1>1, PTL
=============================================================================
