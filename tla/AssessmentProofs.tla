-------------------------- MODULE AssessmentProofs --------------------------
(***************************************************************************)
(* Proofs about Collection and Assessment for any wiring, limits, page     *)
(* sets, groups of findings and scores.                                    *)
(*                                                                         *)
(* merge_repository_facts lets the right side own keys that both have.     *)
(* That nothing gets lost rests on whose keys they are: every source has   *)
(* its turn once, its status entries carry its own name, and within one    *)
(* block of facts no two sources write one key (KeysDisjoint).  The        *)
(* invariant says of every key that is there whose turn it came from.      *)
(*                                                                         *)
(* Three more invariants stand on it: what the sources owe to the list of  *)
(* limitations (AccountInv), what is known of an AppSec scan (ScanInv),    *)
(* and the types and ranges of what analyzers and engine read (RInv).      *)
(***************************************************************************)
EXTENDS Assessment, FiniteSetTheorems, SequenceTheorems, WellFoundedInduction, TLAPS

(* The keys a source may write in its block of facts. *)
KeysOf ==
  [s \in Sources |->
     CASE s = "git" -> {"head"}
       [] s = "pydriller" -> {"commits", "complete", "confidence"}
       [] s = "vale" -> {"files", "discovered"}
       [] s = "git-sizer" -> {"sizes"}
       [] s = "git.todo-history" -> {"markers"}
       [] s = "sonarqube" -> {"quality", "ncloc"}
       [] s = "sourcecraft.issues" -> {"sample", "coverage", "comments", "shown"}
       [] s = "sourcecraft.cicd" -> {"decisive", "coverage"}
       [] s = "sourcecraft.appsec" ->
            {"coverage", "partial", "critical", "high", "medium", "low"}]

(***************************************************************************)
(* The sources, their order and their keys.                                *)
(***************************************************************************)
LEMMA OrderIs ==
  /\ DOMAIN Order = 1..9 /\ Len(Order) = 9
  /\ Order[1] = "git" /\ Order[2] = "git-sizer" /\ Order[3] = "git.todo-history"
  /\ Order[4] = "pydriller" /\ Order[5] = "sonarqube"
  /\ Order[6] = "sourcecraft.appsec" /\ Order[7] = "sourcecraft.cicd"
  /\ Order[8] = "sourcecraft.issues" /\ Order[9] = "vale"
BY DEF Order

LEMMA OrderInjective == \A i, j \in 1..9 : Order[i] = Order[j] => i = j
<1> TAKE i, j \in 1..9
<1>1. i \in {1,2,3,4,5,6,7,8,9} /\ j \in {1,2,3,4,5,6,7,8,9}
  OBVIOUS
<1> QED BY <1>1, OrderIs

LEMMA SourcesAre ==
  Sources = {"git", "git-sizer", "git.todo-history", "pydriller", "sonarqube",
           "sourcecraft.appsec", "sourcecraft.cicd", "sourcecraft.issues", "vale"}
<1>1. 1..9 = {1,2,3,4,5,6,7,8,9}
  OBVIOUS
<1> QED BY <1>1, OrderIs DEF Sources

LEMMA KeysDisjoint ==
  \A s, u \in Sources :
    s # u /\ GroupOf[s] = GroupOf[u] => KeysOf[s] \cap KeysOf[u] = {}
BY SourcesAre DEF GroupOf, KeysOf

(* Facts r that touch nothing but what is s's own. *)
Own(s, r) ==
  /\ \A k \in DOMAIN r.status : k[1] = s
  /\ \A g \in Groups :
       DOMAIN r.obs[g] \subseteq IF g = GroupOf[s] THEN KeysOf[s] ELSE {}
  /\ r.avail \subseteq {GroupOf[s]}

LEMMA FactsOwn ==
  ASSUME NEW s \in Sources, NEW state, NEW avail \in BOOLEAN, NEW keys, NEW lim,
         DOMAIN keys \subseteq KeysOf[s]
  PROVE  Own(s, Facts(s, state, GroupOf[s], avail, keys, lim))
<1> DEFINE r == Facts(s, state, GroupOf[s], avail, keys, lim)
<1>1. r.status = Status(s, state)
  BY DEF Facts
<1>2. \A k \in DOMAIN r.status : k[1] = s
  <2>1. DOMAIN Status(s, state) = {<<s, "">>}
    BY DEF Status
  <2>2. <<s, "">>[1] = s
    OBVIOUS
  <2>3. QED
    BY <1>1, <2>1, <2>2
<1>3. \A g \in Groups : r.obs[g] = IF g = GroupOf[s] THEN keys ELSE NoKeys
  BY DEF Facts
<1>4. DOMAIN NoKeys = {}
  BY DEF NoKeys
<1>5. r.avail \subseteq {GroupOf[s]}
  BY DEF Facts
<1> QED BY <1>2, <1>3, <1>4, <1>5 DEF Own

(***************************************************************************)
(* What the sources deliver, and what they return instead.                 *)
(***************************************************************************)
LEMMA GroupIs ==
  ASSUME NEW s \in Sources PROVE GroupOf[s] \in Groups
BY DEF Groups

(* What a source of the checkout delivers is its own, ... *)
LEMMA LocalOwn ==
  ASSUME NEW s \in {"git", "pydriller", "vale", "git-sizer", "git.todo-history",
                    "sonarqube"},
         NEW r \in Deliveries(s)
  PROVE  Own(s, r)
<1>0. s \in Sources
  BY SourcesAre
<1>1. CASE s = "git"
  <2>1. GroupOf[s] = "git" /\ KeysOf[s] = {"head"}
    BY <1>0, <1>1 DEF GroupOf, KeysOf
  <2>2. r = Facts(s, "available", GroupOf[s], TRUE, [head |-> TRUE], FALSE)
    BY <1>1, <2>1 DEF Deliveries, GitFacts
  <2>3. QED
    BY <1>0, <2>1, <2>2, FactsOwn
<1>2. CASE s = "pydriller"
  <2>1. GroupOf[s] = "git" /\ KeysOf[s] = {"commits", "complete", "confidence"}
    BY <1>0, <1>2 DEF GroupOf, KeysOf
  <2>2. ASSUME NEW state, NEW avail \in BOOLEAN, NEW n, NEW complete,
               NEW confidence, NEW lim
        PROVE  Own(s, Facts(s, state, GroupOf[s], avail,
                            [commits |-> n, complete |-> complete,
                             confidence |-> confidence], lim))
    BY <1>0, <2>1, FactsOwn
  <2>3. r \in HistoryFacts
    BY <1>2 DEF Deliveries
  <2>4. CASE r = NoHistory
    <3>1. Own(s, Facts(s, "available", GroupOf[s], FALSE,
                       [commits |-> 0, complete |-> TRUE, confidence |-> 0], FALSE))
      BY <2>2
    <3>2. QED
      BY <1>2, <2>1, <2>4, <3>1 DEF NoHistory
  <2>5. CASE r \in {HistoryOf(n, who) : n \in 1..MaxCommits, who \in DOMAIN Confidence}
    <3>1. PICK n \in 1..MaxCommits, who \in DOMAIN Confidence : r = HistoryOf(n, who)
      BY <2>5
    <3>2. (n > 0) \in BOOLEAN
      OBVIOUS
    <3>3. QED
      BY <1>2, <2>1, <2>2, <3>1, <3>2 DEF HistoryOf
  <2>6. QED
    BY <2>3, <2>4, <2>5 DEF HistoryFacts
<1>3. CASE s = "vale"
  <2>1. GroupOf[s] = "documentation" /\ KeysOf[s] = {"files", "discovered"}
    BY <1>0, <1>3 DEF GroupOf, KeysOf
  <2>2. ASSUME NEW state, NEW files, NEW discovered, NEW lim
        PROVE  Own(s, Facts(s, state, GroupOf[s], TRUE,
                            [files |-> files, discovered |-> discovered], lim))
    BY <1>0, <2>1, FactsOwn
  <2>3. r \in ValeFacts
    BY <1>3 DEF Deliveries
  <2>4. PICK found \in 0..MaxFiles + 1, named \in 0..1 : r = DocumentsOf(found, named)
    BY <2>3 DEF ValeFacts
  <2>5. QED
    BY <1>3, <2>1, <2>2, <2>4 DEF DocumentsOf
<1>4. CASE s = "git-sizer"
  <2>1. GroupOf[s] = "code_health" /\ KeysOf[s] = {"sizes"}
    BY <1>0, <1>4 DEF GroupOf, KeysOf
  <2>2. r = Facts(s, "available", GroupOf[s], TRUE, [sizes |-> TRUE], FALSE)
    BY <1>4, <2>1 DEF Deliveries, SizerFacts
  <2>3. QED
    BY <1>0, <2>1, <2>2, FactsOwn
<1>5. CASE s = "git.todo-history"
  <2>1. GroupOf[s] = "code_health" /\ KeysOf[s] = {"markers"}
    BY <1>0, <1>5 DEF GroupOf, KeysOf
  <2>2. ASSUME NEW state, NEW some \in BOOLEAN
        PROVE  Own(s, Facts(s, state, GroupOf[s], some, [markers |-> some], FALSE))
    BY <1>0, <2>1, FactsOwn
  <2>3. r \in TodoFacts
    BY <1>5 DEF Deliveries
  <2>4. QED
    BY <1>5, <2>1, <2>2, <2>3 DEF TodoFacts
<1>6. CASE s = "sonarqube"
  <2>1. GroupOf[s] = "code_health" /\ KeysOf[s] = {"quality", "ncloc"}
    BY <1>0, <1>6 DEF GroupOf, KeysOf
  <2>2. PICK keys \in {[quality |-> TRUE], [ncloc |-> TRUE]} :
          r = Facts(s, "available", GroupOf[s], TRUE, keys, FALSE)
    BY <1>6, <2>1 DEF Deliveries, SonarFacts
  <2>3. DOMAIN keys \subseteq KeysOf[s]
    BY <2>1
  <2>4. QED
    BY <1>0, <2>2, <2>3, FactsOwn
<1>7. QED
  BY <1>1, <1>2, <1>3, <1>4, <1>5, <1>6

(* ... what SourceCraft delivers in page sets, ... *)
LEMMA PagesOwn ==
  ASSUME NEW s \in {"sourcecraft.issues", "sourcecraft.cicd"},
         NEW r \in Deliveries(s)
  PROVE  Own(s, r)
<1>0. s \in Sources
  BY SourcesAre
<1>1. CASE s = "sourcecraft.issues"
  <2>1. KeysOf[s] = {"sample", "coverage", "comments", "shown"}
    BY <1>0, <1>1 DEF KeysOf
  <2>2. r \in IssueFacts
    BY <1>1 DEF Deliveries
  <2>3. PICK p \in PageSets, all \in BOOLEAN, h \in Histories : r = IssuesOf(p, all, h)
    BY <2>2 DEF IssueFacts
  <2>4. DOMAIN (IF p.rows = 0 THEN NoKeys
                ELSE [sample |-> p.rows, coverage |-> Coverage(p), comments |-> all,
                      shown |-> IF p.rows < 5 THEN {} ELSE h]) \subseteq KeysOf[s]
    BY <2>1 DEF NoKeys
  <2>5. QED
    BY <1>0, <1>1, <2>3, <2>4, FactsOwn DEF IssuesOf, PageFacts
<1>2. CASE s = "sourcecraft.cicd"
  <2>1. KeysOf[s] = {"decisive", "coverage"}
    BY <1>0, <1>2 DEF KeysOf
  <2>2. r \in RunFacts
    BY <1>2 DEF Deliveries
  <2>3. PICK p \in PageSets, some \in BOOLEAN : r = RunsOf(p, some)
    BY <2>2 DEF RunFacts
  <2>4. DOMAIN [decisive |-> some /\ p.rows > 0, coverage |-> Coverage(p)]
          \subseteq KeysOf[s]
    BY <2>1
  <2>5. QED
    BY <1>0, <1>2, <2>3, <2>4, FactsOwn DEF RunsOf, PageFacts
<1>3. QED
  BY <1>1, <1>2

LEMMA OverDomain ==
  ASSUME NEW f, NEW h PROVE DOMAIN Over(f, h) = DOMAIN f \cup DOMAIN h
BY DEF Over

(* ... and the facts of a scan, with counts or without. *)
LEMMA AppSecOwn ==
  ASSUME NEW states, NEW scan, NEW keys, NEW lim,
         DOMAIN keys \subseteq {"partial", "critical", "high", "medium", "low"}
  PROVE  /\ Own("sourcecraft.appsec", AppSecFacts(states, scan, keys, lim))
         /\ AppSecFacts(states, scan, keys, lim).avail \subseteq {"security"}
         /\ DOMAIN AppSecFacts(states, scan, keys, lim).obs["security"]
              = DOMAIN keys \cup {"coverage"}
<1> DEFINE r == AppSecFacts(states, scan, keys, lim)
           s == "sourcecraft.appsec"
           whole == [coverage |-> CASE scan \in {"finished_zero", "finished_with"} -> 100
                                    [] scan = "partial" -> 50
                                    [] OTHER -> 0]
<1>0. s \in Sources /\ GroupOf[s] = "security" /\ "security" \in Groups
  BY SourcesAre, GroupIs DEF GroupOf
<1>1. KeysOf[s] = {"coverage", "partial", "critical", "high", "medium", "low"}
  BY <1>0 DEF KeysOf
<1>2. \A k \in DOMAIN r.status : k[1] = s
  <2>1. r.status = [k \in {s} \X DOMAIN states |-> states[k[2]]]
    BY DEF AppSecFacts, Empty, Facts
  <2>2. DOMAIN r.status = {s} \X DOMAIN states
    BY <2>1
  <2>3. QED
    BY <2>2
<1>3. Empty.obs = [h \in Groups |-> NoKeys]
  BY DEF Empty, Facts
<1>4. r.obs = [Empty.obs EXCEPT !["security"] = Over(whole, keys)]
  BY DEF AppSecFacts, Empty, Facts
<1>5. \A g \in Groups : r.obs[g] = IF g = "security" THEN Over(whole, keys) ELSE NoKeys
  BY <1>0, <1>3, <1>4
<1>6. DOMAIN whole = {"coverage"}
  OBVIOUS
<1>7. DOMAIN Over(whole, keys) = DOMAIN keys \cup {"coverage"}
  BY <1>6, OverDomain
<1>8. r.avail \subseteq {"security"}
  BY DEF AppSecFacts, Empty, Facts
<1>9. DOMAIN NoKeys = {}
  BY DEF NoKeys
<1>10. Own(s, r)
  <2>1. \A g \in Groups :
          DOMAIN r.obs[g] \subseteq IF g = GroupOf[s] THEN KeysOf[s] ELSE {}
    BY <1>0, <1>1, <1>5, <1>7, <1>9
  <2>2. QED
    BY <1>0, <1>2, <1>8, <2>1 DEF Own
<1>11. DOMAIN r.obs["security"] = DOMAIN keys \cup {"coverage"}
  BY <1>0, <1>5, <1>7
<1>12. QED
  BY <1>8, <1>10, <1>11

LEMMA ScanOwn ==
  ASSUME NEW r \in Deliveries("sourcecraft.appsec")
  PROVE  Own("sourcecraft.appsec", r)
<1>1. r \in ScanFacts
  BY DEF Deliveries
<1>2. PICK groups, truth : r = FindingFacts(groups, truth)
  BY <1>1 DEF ScanFacts, ScansOf
<1>3. PICK states, scan, keys, lim :
        /\ r = [AppSecFacts(states, scan, keys, lim) EXCEPT !.truth = truth]
        /\ DOMAIN keys \subseteq {"partial", "critical", "high", "medium", "low"}
  <2> DEFINE partial == Unread(groups) # {} \/ Len(groups) > MaxGroups
             count == [v \in {"critical", "high", "medium", "low"} |->
                         Cardinality(Read(groups, v))]
             keys == Over([partial |-> partial], count)
  <2>1. DOMAIN keys \subseteq {"partial", "critical", "high", "medium", "low"}
    <3>1. DOMAIN keys = DOMAIN [partial |-> partial] \cup DOMAIN count
      BY OverDomain
    <3>2. DOMAIN count = {"critical", "high", "medium", "low"}
      OBVIOUS
    <3>3. DOMAIN [partial |-> partial] = {"partial"}
      OBVIOUS
    <3>4. QED
      BY <3>1, <3>2, <3>3
  <2>2. \E scan : r = [AppSecFacts([scans |-> "available", groups |-> "available"],
                                   scan, keys, partial) EXCEPT !.truth = truth]
    BY <1>2 DEF FindingFacts
  <2> HIDE DEF keys, partial
  <2>3. QED
    BY <2>1, <2>2
<1> DEFINE a == AppSecFacts(states, scan, keys, lim)
<1>4. Own("sourcecraft.appsec", a)
  BY <1>3, AppSecOwn
<1>5. r.status = a.status /\ r.obs = a.obs /\ r.avail = a.avail
  BY <1>3 DEF AppSecFacts, Empty, Facts
<1>6. QED
  BY <1>4, <1>5 DEF Own

LEMMA DeliveriesOwn ==
  ASSUME NEW s \in Sources, NEW r \in Deliveries(s) PROVE Own(s, r)
BY SourcesAre, LocalOwn, PagesOwn, ScanOwn

(* Whether facts hold what makes category c have a number. *)
Heard(f, c) ==
  CASE c = "activity" -> "commits" \in DOMAIN f.obs["git"]
    [] c = "security" -> "critical" \in DOMAIN f.obs["security"]
    [] c = "code_health" -> "quality" \in DOMAIN f.obs["code_health"]
    [] OTHER -> c \in f.avail

(* Facts that hold no observation and make no block available. *)
Blank(r) == r.avail = {} /\ \A g \in Groups : r.obs[g] = NoKeys

LEMMA GroupsAre ==
  Groups = {"git", "documentation", "issues", "cicd", "security", "code_health"}
BY SourcesAre DEF Groups, GroupOf

LEMMA HeardIsOwn ==
  ASSUME NEW s \in Sources, NEW r, Own(s, r), NEW c \in Categories, Heard(r, c)
  PROVE  CoreOf[c] = s
<1>1. CASE c = "activity"
  BY <1>1, SourcesAre, GroupsAre DEF Own, Heard, CoreOf, GroupOf, KeysOf
<1>2. CASE c = "security"
  BY <1>2, SourcesAre, GroupsAre DEF Own, Heard, CoreOf, GroupOf, KeysOf
<1>3. CASE c = "code_health"
  BY <1>3, SourcesAre, GroupsAre DEF Own, Heard, CoreOf, GroupOf, KeysOf
<1>4. CASE c \in {"documentation", "issues", "cicd"}
  BY <1>4, SourcesAre DEF Own, Heard, CoreOf, GroupOf, Categories
<1>5. QED
  BY <1>1, <1>2, <1>3, <1>4 DEF Categories

LEMMA BlankIsMute ==
  ASSUME NEW r, Blank(r), NEW c \in Categories PROVE ~Heard(r, c)
BY GroupsAre DEF Blank, Heard, NoKeys, Categories

LEMMA RefusedIsBlank ==
  ASSUME NEW s \in Sources, NEW state
  PROVE  Own(s, Refused(s, GroupOf[s], state)) /\ Blank(Refused(s, GroupOf[s], state))
<1>1. Own(s, Refused(s, GroupOf[s], state))
  <2>1. DOMAIN NoKeys \subseteq KeysOf[s]
    BY DEF NoKeys
  <2>2. QED
    BY <2>1, FactsOwn DEF Refused
<1>2. Blank(Refused(s, GroupOf[s], state))
  BY DEF Blank, Refused, Facts
<1>3. QED
  BY <1>1, <1>2

(* A source that refuses gives no category a number. *)
LEMMA RefusalsAreMute ==
  ASSUME NEW s \in Sources, NEW r \in Refusals(s)
  PROVE  Own(s, r) /\ \A c \in Categories : ~Heard(r, c)
<1>1. ASSUME NEW state, r = Refused(s, GroupOf[s], state)
      PROVE  Own(s, r) /\ \A c \in Categories : ~Heard(r, c)
  BY <1>1, RefusedIsBlank, BlankIsMute
<1>2. ASSUME NEW state, s \in {"git", "pydriller"}, r = NoBlock(s, state)
      PROVE  Own(s, r) /\ \A c \in Categories : ~Heard(r, c)
  <2> DEFINE a == Refused(s, "git", state)
  <2>1. GroupOf[s] = "git"
    BY <1>2 DEF GroupOf
  <2>2. Own(s, a) /\ Blank(a)
    BY <2>1, RefusedIsBlank
  <2>3. r.status = a.status /\ r.obs = a.obs /\ r.avail = a.avail
    BY <1>2 DEF NoBlock, Refused, Facts
  <2>4. Own(s, r) /\ Blank(r)
    BY <2>2, <2>3 DEF Own, Blank
  <2>5. QED
    BY <2>4, BlankIsMute
<1>3. CASE s \in {"git", "pydriller"}
  <2>1. \E state : r = NoBlock(s, state)
    BY <1>3 DEF Refusals
  <2>2. QED
    BY <1>2, <1>3, <2>1
<1>4. CASE s \in {"vale", "git-sizer", "git.todo-history", "sonarqube"}
  <2>1. \E state : r = Refused(s, GroupOf[s], state)
    BY <1>4 DEF Refusals, GroupOf
  <2>2. QED
    BY <1>1, <2>1
<1>5. CASE s = "sourcecraft.appsec"
  <2>1. r \in AppSecRefusals
    BY <1>5 DEF Refusals
  <2>2. \E states, scan, keys, lim :
          /\ r = AppSecFacts(states, scan, keys, lim)
          /\ keys \in {NoKeys, [partial |-> TRUE]}
    BY <2>1 DEF AppSecRefusals
  <2>3. PICK states, scan, keys, lim :
          /\ r = AppSecFacts(states, scan, keys, lim)
          /\ keys \in {NoKeys, [partial |-> TRUE]}
    BY <2>2
  <2>4. DOMAIN keys \subseteq {"partial"}
    BY <2>3 DEF NoKeys
  <2>5. /\ Own(s, r) /\ r.avail \subseteq {"security"}
        /\ "critical" \notin DOMAIN r.obs["security"]
    BY <1>5, <2>3, <2>4, AppSecOwn
  <2>6. ASSUME NEW c \in Categories, Heard(r, c) PROVE FALSE
    <3>1. c = "security"
      BY <1>5, <2>5, <2>6, HeardIsOwn DEF CoreOf, Categories
    <3>2. QED
      BY <2>5, <2>6, <3>1 DEF Heard
  <2>7. QED
    BY <2>5, <2>6
<1>6. CASE s \in {"sourcecraft.issues", "sourcecraft.cicd"}
  BY <1>6 DEF Refusals
<1>7. QED
  BY <1>3, <1>4, <1>5, <1>6, SourcesAre

(***************************************************************************)
(* The invariant.                                                          *)
(***************************************************************************)
Earlier == {Order[i] : i \in 1..turn - 1}

FactsShape ==
  /\ facts = [status |-> facts.status, avail |-> facts.avail, obs |-> facts.obs,
              scan |-> facts.scan, lims |-> facts.lims, glims |-> facts.glims,
              truth |-> facts.truth]
  /\ facts.obs = [g \in Groups |-> facts.obs[g]]

(* What is there was put there by a source whose turn is over. *)
FactsOrigin ==
  /\ \A k \in DOMAIN facts.status : k[1] \in Earlier
  /\ \A g \in Groups : \A k \in DOMAIN facts.obs[g] :
       \E s \in Earlier : GroupOf[s] = g /\ k \in KeysOf[s]

(* A source that is silent makes no category have a number. *)
SilentUnheard == \A c \in Categories : Heard(facts, c) => CoreOf[c] \notin silent

(* Of the owner's sources nothing is in the facts of a PUBLIC assessment. *)
OwnedUnused ==
  profile = "public" =>
    \A g \in {"issues", "cicd", "security"} :
      g \notin facts.avail /\ facts.obs[g] = NoKeys

CInv ==
  /\ turn \in 1..10
  /\ FactsShape /\ FactsOrigin /\ SilentUnheard /\ OwnedUnused

LEMMA InitCInv == Init => CInv
<1> SUFFICES ASSUME Init PROVE CInv
  OBVIOUS
<1>1. /\ facts.status = NoKeys /\ facts.avail = {}
      /\ facts.obs = [h \in Groups |-> NoKeys]
  BY DEF Init, Empty, Facts
<1>2. FactsShape
  <2>1. facts = [status |-> facts.status, avail |-> facts.avail, obs |-> facts.obs,
              scan |-> facts.scan, lims |-> facts.lims, glims |-> facts.glims,
              truth |-> facts.truth]
    BY DEF Init, Empty, Facts
  <2>2. QED
    BY <1>1, <2>1 DEF FactsShape
<1>3. DOMAIN NoKeys = {}
  BY DEF NoKeys
<1>4. FactsOrigin
  BY <1>1, <1>3 DEF FactsOrigin
<1>5. Blank(facts)
  BY <1>1 DEF Blank
<1>6. SilentUnheard
  BY <1>5, BlankIsMute DEF SilentUnheard
<1>7. OwnedUnused
  BY <1>1, GroupsAre DEF OwnedUnused
<1>8. QED
  BY <1>2, <1>4, <1>6, <1>7 DEF CInv, Init

(* One source's facts join those of the earlier ones. *)
EvidenceStep ==
  /\ facts.avail \subseteq facts'.avail /\ facts.lims \subseteq facts'.lims
  /\ \A k \in DOMAIN facts.status :
       k \in DOMAIN facts'.status /\ facts'.status[k] = facts.status[k]
  /\ \A g \in Groups : \A k \in DOMAIN facts.obs[g] :
       k \in DOMAIN facts'.obs[g] /\ facts'.obs[g][k] = facts.obs[g][k]

LEMMA OverKeeps ==
  ASSUME NEW f, NEW h, NEW k \in DOMAIN f, k \notin DOMAIN h
  PROVE  k \in DOMAIN Over(f, h) /\ Over(f, h)[k] = f[k]
BY DEF Over

LEMMA NotEarlier ==
  ASSUME turn \in 1..9 PROVE Order[turn] \notin Earlier /\ Order[turn] \in Sources
<1>1. ASSUME NEW i \in 1..turn - 1 PROVE Order[i] # Order[turn]
  <2>1. i \in 1..9 /\ i # turn
    OBVIOUS
  <2>2. QED
    BY <2>1, OrderInjective
<1>2. QED
  BY <1>1, OrderIs DEF Earlier, Sources

LEMMA EarlierAreSources ==
  ASSUME turn \in 1..10 PROVE Earlier \subseteq Sources
BY OrderIs DEF Earlier, Sources

LEMMA MergeKeeps ==
  ASSUME CInv, turn \in 1..9, NEW r, Own(Order[turn], r),
         facts' = Merged(facts, r)
  PROVE  EvidenceStep
<1> DEFINE s == Order[turn]
<1>1. s \notin Earlier /\ s \in Sources
  BY NotEarlier
<1>2. /\ facts'.status = Over(facts.status, r.status)
      /\ facts'.avail = facts.avail \cup r.avail
      /\ facts'.lims = facts.lims \cup r.lims
      /\ \A g \in Groups : facts'.obs[g] = Over(facts.obs[g], r.obs[g])
  BY DEF Merged
<1>3. ASSUME NEW k \in DOMAIN facts.status
      PROVE  k \in DOMAIN facts'.status /\ facts'.status[k] = facts.status[k]
  <2>1. k \notin DOMAIN r.status
    BY <1>1, <1>3 DEF CInv, FactsOrigin, Own
  <2>2. QED
    BY <1>2, <1>3, <2>1, OverKeeps
<1>4. ASSUME NEW g \in Groups, NEW k \in DOMAIN facts.obs[g]
      PROVE  k \in DOMAIN facts'.obs[g] /\ facts'.obs[g][k] = facts.obs[g][k]
  <2>1. PICK u \in Earlier : GroupOf[u] = g /\ k \in KeysOf[u]
    BY <1>4 DEF CInv, FactsOrigin
  <2>2. u \in Sources /\ u # s
    BY <1>1, <2>1, EarlierAreSources DEF CInv
  <2>3. k \notin DOMAIN r.obs[g]
    BY <1>1, <2>1, <2>2, KeysDisjoint DEF Own
  <2>4. QED
    BY <1>2, <1>4, <2>3, OverKeeps
<1>5. QED
  BY <1>2, <1>3, <1>4 DEF EvidenceStep

LEMMA TurnEarlier ==
  ASSUME turn \in 1..9, turn' = turn + 1
  PROVE  Earlier' = Earlier \cup {Order[turn]}
<1>1. 1..(turn + 1) - 1 = (1..turn - 1) \cup {turn}
  OBVIOUS
<1>2. QED
  BY <1>1 DEF Earlier

LEMMA MergeInv ==
  ASSUME CInv, turn \in 1..9, turn' = turn + 1, NEW r, Own(Order[turn], r),
         facts' = Merged(facts, r), profile' = profile,
         \/ silent' = silent \ {Order[turn]}
         \/ silent' = silent /\ \A c \in Categories : ~Heard(r, c),
         profile = "public" /\ Order[turn] \in Owned => Blank(r)
  PROVE  CInv'
<1> DEFINE s == Order[turn]
<1>1. s \in Sources
  BY NotEarlier
<1>2. /\ facts'.status = Over(facts.status, r.status)
      /\ facts'.avail = facts.avail \cup r.avail
      /\ facts'.obs = [g \in Groups |-> Over(facts.obs[g], r.obs[g])]
  BY DEF Merged
<1>3. FactsShape'
  BY DEF FactsShape, Merged
<1>4. Earlier' = Earlier \cup {s}
  BY TurnEarlier
<1>5. FactsOrigin'
  <2>1. ASSUME NEW k \in DOMAIN facts'.status PROVE k[1] \in Earlier'
    <3>1. DOMAIN facts'.status = DOMAIN facts.status \cup DOMAIN r.status
      BY <1>2, OverDomain
    <3>2. k \in DOMAIN facts.status => k[1] \in Earlier
      BY DEF CInv, FactsOrigin
    <3>3. k \in DOMAIN r.status => k[1] = s
      BY DEF Own
    <3>4. QED
      BY <1>4, <2>1, <3>1, <3>2, <3>3
  <2>2. ASSUME NEW g \in Groups, NEW k \in DOMAIN facts'.obs[g]
        PROVE  \E u \in Earlier' : GroupOf[u] = g /\ k \in KeysOf[u]
    <3>1. k \in DOMAIN facts.obs[g] \/ k \in DOMAIN r.obs[g]
      <4>1. facts'.obs[g] = Over(facts.obs[g], r.obs[g])
        BY <1>2
      <4>2. DOMAIN facts'.obs[g] = DOMAIN facts.obs[g] \cup DOMAIN r.obs[g]
        BY <4>1, OverDomain
      <4>3. QED
        BY <2>2, <4>2
    <3>2. CASE k \in DOMAIN facts.obs[g]
      BY <1>4, <3>2 DEF CInv, FactsOrigin
    <3>3. CASE k \in DOMAIN r.obs[g]
      BY <1>4, <3>3 DEF Own
    <3>4. QED
      BY <3>1, <3>2, <3>3
  <2>3. QED
    BY <2>1, <2>2 DEF FactsOrigin
<1>6. ASSUME NEW c \in Categories, Heard(facts', c)
      PROVE  Heard(facts, c) \/ Heard(r, c)
  <2>1. \A g \in Groups :
          DOMAIN facts'.obs[g] = DOMAIN facts.obs[g] \cup DOMAIN r.obs[g]
    BY <1>2, OverDomain
  <2>2. QED
    BY <1>2, <1>6, <2>1, GroupsAre DEF Heard
<1>7. SilentUnheard'
  <2>1. ASSUME NEW c \in Categories, Heard(facts', c) PROVE CoreOf[c] \notin silent'
    <3>1. CASE Heard(facts, c)
      BY <3>1 DEF CInv, SilentUnheard
    <3>2. CASE Heard(r, c)
      BY <1>1, <3>2, HeardIsOwn
    <3>3. QED
      BY <1>6, <2>1, <3>1, <3>2
  <2>2. QED
    BY <2>1 DEF SilentUnheard, Heard
<1>8. OwnedUnused'
  <2>1. ASSUME profile = "public", NEW g \in {"issues", "cicd", "security"}
        PROVE  g \notin facts'.avail /\ facts'.obs[g] = NoKeys
    <3>1. g \in Groups
      BY GroupsAre
    <3>2. g \notin facts.avail /\ facts.obs[g] = NoKeys
      BY <2>1 DEF CInv, OwnedUnused
    <3>3. g \notin r.avail /\ DOMAIN r.obs[g] = {}
      <4>1. CASE s \in Owned
        BY <2>1, <3>1, <4>1 DEF Blank, NoKeys
      <4>2. CASE s \notin Owned
        <5>1. GroupOf[s] # g
          BY <1>1, <4>2, SourcesAre DEF Owned, GroupOf
        <5>2. QED
          BY <3>1, <5>1 DEF Own
      <4>3. QED
        BY <4>1, <4>2
    <3>4. Over(NoKeys, r.obs[g]) = NoKeys
      BY <3>3 DEF Over, NoKeys
    <3>5. QED
      BY <1>2, <3>1, <3>2, <3>3, <3>4
  <2>2. QED
    BY <2>1 DEF OwnedUnused
<1>9. QED
  BY <1>3, <1>5, <1>7, <1>8 DEF CInv

(* The except clause touches the status of the source that raised only. *)
LEMMA FailedKeeps ==
  ASSUME CInv, turn \in 1..9, turn' = turn + 1, facts' = Failed(Order[turn]),
         profile' = profile, silent' = silent
  PROVE  CInv' /\ EvidenceStep
<1> DEFINE s == Order[turn]
<1>0. <<s, "">>[1] = s
  OBVIOUS
<1>1. s \notin Earlier /\ s \in Sources
  BY NotEarlier
<1>2. /\ facts'.status = Over(facts.status, Status(s, "error"))
      /\ facts'.avail = facts.avail /\ facts'.obs = facts.obs
      /\ facts'.lims = facts.lims \cup {s}
      /\ FactsShape'
  <2>1. FactsShape
    BY DEF CInv
  <2>2. QED
    BY <2>1 DEF FactsShape, Failed
<1>3. DOMAIN Status(s, "error") = {<<s, "">>}
  BY DEF Status
<1>4. Earlier' = Earlier \cup {s}
  BY TurnEarlier
<1>5. ASSUME NEW k \in DOMAIN facts.status
      PROVE  k \in DOMAIN facts'.status /\ facts'.status[k] = facts.status[k]
  <2>1. k[1] \in Earlier
    BY <1>5 DEF CInv, FactsOrigin
  <2>2. k \notin DOMAIN Status(s, "error")
    BY <1>1, <1>3, <2>1, <1>0
  <2>3. /\ k \in DOMAIN Over(facts.status, Status(s, "error"))
        /\ Over(facts.status, Status(s, "error"))[k] = facts.status[k]
    BY <1>5, <2>2, OverKeeps
  <2>4. QED
    BY <1>2, <2>3
<1>6. EvidenceStep
  BY <1>2, <1>5 DEF EvidenceStep
<1>7. FactsOrigin'
  <2>1. DOMAIN facts'.status = DOMAIN facts.status \cup {<<s, "">>}
    <3>1. DOMAIN Over(facts.status, Status(s, "error"))
            = DOMAIN facts.status \cup DOMAIN Status(s, "error")
      BY OverDomain
    <3>2. QED
      BY <1>2, <1>3, <3>1
  <2>2. ASSUME NEW k \in DOMAIN facts'.status PROVE k[1] \in Earlier'
    <3>1. CASE k = <<s, "">>
      BY <1>0, <1>4, <3>1
    <3>2. CASE k \in DOMAIN facts.status
      BY <1>4, <3>2 DEF CInv, FactsOrigin
    <3>3. QED
      BY <2>1, <2>2, <3>1, <3>2
  <2>3. QED
    BY <1>2, <1>4, <2>2 DEF CInv, FactsOrigin
<1>8. SilentUnheard'
  BY <1>2 DEF CInv, SilentUnheard, Heard
<1>9. OwnedUnused'
  BY <1>2 DEF CInv, OwnedUnused
<1>10. QED
  BY <1>2, <1>6, <1>7, <1>8, <1>9 DEF CInv

LEMMA CollectKeeps ==
  ASSUME CInv, Collect PROVE CInv' /\ EvidenceStep
<1>1. turn \in 1..9
  BY OrderIs DEF CInv, Collect, Collecting
<1> DEFINE s == Order[turn]
<1>2. s \in Sources
  BY <1>1, NotEarlier
<1>3. Deliver(s) \/ Refuse(s) \/ Raise(s) \/ Leave(s)
  BY DEF Collect
<1>4. turn' = turn + 1 /\ profile' = profile
  BY <1>3 DEF Deliver, Refuse, Raise, Leave, Turn
<1>5. CASE Deliver(s)
  <2>1. PICK r \in Deliveries(s) : facts' = Merged(facts, r)
    BY <1>5 DEF Deliver
  <2>2. ~IsExcluded(s) /\ silent' = silent \ {s}
    BY <1>5 DEF Deliver
  <2>3. Own(s, r)
    BY <1>2, DeliveriesOwn
  <2>4. QED
    BY <1>1, <1>4, <2>1, <2>2, <2>3, MergeKeeps, MergeInv DEF IsExcluded
<1>6. CASE Refuse(s)
  <2>1. PICK r \in Refusals(s) : facts' = Merged(facts, r)
    BY <1>6 DEF Refuse
  <2>2. ~IsExcluded(s) /\ silent' = silent
    BY <1>6 DEF Refuse
  <2>3. Own(s, r) /\ \A c \in Categories : ~Heard(r, c)
    BY <1>2, RefusalsAreMute
  <2>4. QED
    BY <1>1, <1>4, <2>1, <2>2, <2>3, MergeKeeps, MergeInv DEF IsExcluded
<1>7. CASE Raise(s)
  BY <1>1, <1>4, <1>7, FailedKeeps DEF Raise
<1>8. CASE Leave(s)
  <2> DEFINE r == Refused(s, GroupOf[s], "unavailable")
  <2>1. facts' = Merged(facts, r) /\ silent' = silent
    BY <1>8 DEF Leave
  <2>2. Own(s, r) /\ Blank(r)
    BY <1>2, RefusedIsBlank
  <2>3. \A c \in Categories : ~Heard(r, c)
    BY <2>2, BlankIsMute
  <2> HIDE DEF r
  <2>4. QED
    BY <1>1, <1>4, <2>1, <2>2, <2>3, MergeKeeps, MergeInv
<1>9. QED
  BY <1>3, <1>5, <1>6, <1>7, <1>8

(***************************************************************************)
(* From the facts to the results.                                          *)
(***************************************************************************)
(* A result with a number had its evidence in the facts. *)
LEMMA AnalyzedIsHeard ==
  ASSUME NEW c \in Categories, NEW v, Analyzed(c, v).status = "judged",
         Analyzed(c, v).value # NoScore
  PROVE  Heard(facts, c) /\ FactGroupOf[c] \in facts.avail
<1> DEFINE o == facts.obs[FactGroupOf[c]]
<1>1. FactGroupOf[c] \in facts.avail
  BY DEF Analyzed, Missing, Result
<1>2. Analyzed(c, v) = Evaluation(c, o, v)
  BY <1>1 DEF Analyzed
<1>3. CASE c \in {"documentation", "issues", "cicd"}
  BY <1>1, <1>3 DEF Heard, FactGroupOf
<1>4. CASE c = "activity"
  <2>1. Analyzed(c, v) = Activity(facts.obs["git"], v)
    BY <1>2, <1>4 DEF Evaluation, FactGroupOf
  <2>2. "commits" \in DOMAIN facts.obs["git"]
    BY <2>1 DEF Activity, Judged, Result
  <2>3. QED
    BY <1>1, <1>4, <2>2 DEF Heard
<1>5. CASE c = "security"
  <2>1. Analyzed(c, v) = Security(facts.obs["security"], v)
    BY <1>2, <1>5 DEF Evaluation, FactGroupOf
  <2>2. "critical" \in DOMAIN facts.obs["security"]
    BY <2>1 DEF Security, Missing, Result
  <2>3. QED
    BY <1>1, <1>5, <2>2 DEF Heard
<1>6. CASE c = "code_health"
  <2>1. Analyzed(c, v) = CodeHealth(facts.obs["code_health"], v)
    BY <1>2, <1>6 DEF Evaluation, FactGroupOf
  <2>2. "quality" \in DOMAIN facts.obs["code_health"]
    BY <2>1 DEF CodeHealth, SonarUsable, Result
  <2>3. QED
    BY <1>1, <1>6, <2>2 DEF Heard
<1>7. QED
  BY <1>3, <1>4, <1>5, <1>6 DEF Categories

(* The part of PublicUsesNothingOwned that holds before the score, too. *)
OwnedHasNoNumber ==
  profile = "public" => Numeric(results) \cap {"issues", "cicd", "security"} = {}

AInv == CInv /\ NumericMeansEvidence /\ OwnedHasNoNumber

LEMMA InitAInv == AInit => AInv
<1> SUFFICES ASSUME AInit PROVE AInv
  OBVIOUS
<1>1. Numeric(results) = {}
  BY DEF AInit, Numeric, Missing, Result
<1>2. QED
  BY <1>1, InitCInv DEF AInit, AInv, NumericMeansEvidence, OwnedHasNoNumber

LEMMA CollectOneKeeps == ASSUME AInv, CollectOne PROVE AInv' /\ EvidenceStep
<1>1. CInv' /\ EvidenceStep
  BY CollectKeeps DEF AInv, CollectOne
<1>2. results' = results /\ profile' = profile /\ silent' \subseteq silent
  BY DEF CollectOne, Collect, Deliver, Refuse, Raise, Leave, Turn
<1>3. Numeric(results)' = Numeric(results)
  BY <1>2 DEF Numeric
<1>4. NumericMeansEvidence' /\ OwnedHasNoNumber'
  BY <1>2, <1>3 DEF AInv, NumericMeansEvidence, OwnedHasNoNumber
<1>5. QED
  BY <1>1, <1>4 DEF AInv

LEMMA ExecuteManyKeeps == ASSUME AInv, ExecuteMany PROVE AInv'
<1>1. UNCHANGED vars
  BY DEF ExecuteMany
<1>2. CInv'
  BY <1>1 DEF AInv, CInv, FactsShape, FactsOrigin, Earlier, SilentUnheard,
              OwnedUnused, Heard, vars
<1>3. PICK lost \in SUBSET Categories, status \in {"error", "absent"}, v \in Scores :
        results' = [c \in Categories |->
                      IF c \in lost THEN Missing(status) ELSE Analyzed(c, v[c])]
  BY DEF ExecuteMany
<1>4. ASSUME NEW c \in Numeric(results')
      PROVE  Heard(facts, c) /\ FactGroupOf[c] \in facts.avail
  <2>1. c \in Categories /\ results'[c].status = "judged" /\ results'[c].value # NoScore
    BY DEF Numeric
  <2>2. c \notin lost
    BY <1>3, <2>1 DEF Missing, Result
  <2>3. results'[c] = Analyzed(c, v[c])
    BY <1>3, <2>1, <2>2
  <2>4. QED
    BY <2>1, <2>3, AnalyzedIsHeard
<1>5. NumericMeansEvidence'
  <2>1. ASSUME NEW c \in Numeric(results') PROVE CoreOf[c] \notin silent'
    BY <1>1, <1>4 DEF AInv, CInv, SilentUnheard, vars, Numeric
  <2>2. QED
    BY <2>1 DEF NumericMeansEvidence
<1>6. OwnedHasNoNumber'
  <2>1. ASSUME profile = "public", NEW c \in Numeric(results'),
               c \in {"issues", "cicd", "security"}
        PROVE  FALSE
    <3>1. FactGroupOf[c] = c
      BY <2>1 DEF FactGroupOf, Categories
    <3>2. QED
      BY <1>4, <2>1, <3>1 DEF AInv, CInv, OwnedUnused
  <2>2. QED
    BY <1>1, <2>1 DEF OwnedHasNoNumber, vars
<1>7. QED
  BY <1>2, <1>5, <1>6 DEF AInv

LEMMA QuietKeeps ==
  ASSUME AInv, UNCHANGED <<vars, results>> PROVE AInv'
<1>1. CInv'
  BY DEF AInv, CInv, FactsShape, FactsOrigin, Earlier, SilentUnheard,
         OwnedUnused, Heard, vars
<1>2. QED
  BY <1>1 DEF AInv, NumericMeansEvidence, OwnedHasNoNumber, Numeric, vars

LEMMA NextAInv == AInv /\ [ANext]_allVars => AInv' /\ (EvidenceStep \/ UNCHANGED vars)
<1> SUFFICES ASSUME AInv, [ANext]_allVars
             PROVE  AInv' /\ (EvidenceStep \/ UNCHANGED vars)
  OBVIOUS
<1>1. CASE CollectOne
  BY <1>1, CollectOneKeeps
<1>2. CASE ExecuteMany
  BY <1>2, ExecuteManyKeeps DEF ExecuteMany
<1>3. CASE CommitResult
  BY <1>3, QuietKeeps DEF CommitResult
<1>4. CASE UNCHANGED allVars
  BY <1>4, QuietKeeps DEF allVars
<1>5. QED
  BY <1>1, <1>2, <1>3, <1>4 DEF ANext

(* The invariant of the collection holds throughout, and numbers have      *)
(* their evidence (collect, Analyzer.analyze).                             *)
THEOREM Invariant == ASpec => []AInv
<1>1. AInv /\ [ANext]_allVars => AInv'
  BY NextAInv
<1>2. QED
  BY InitAInv, <1>1, PTL DEF ASpec

(* Nothing a source has delivered is dropped or overwritten by another one *)
(* that delivers, refuses or raises, for any wiring and any limits         *)
(* (collect, merge_repository_facts).                                      *)
THEOREM EvidenceIsKept == ASpec => EvidenceKept
<1>1. AInv /\ [ANext]_allVars => [EvidenceStep]_vars
  BY NextAInv
<1>2. [EvidenceStep]_vars =>
        [/\ facts.avail \subseteq facts'.avail /\ facts.lims \subseteq facts'.lims
         /\ \A k \in DOMAIN facts.status :
              k \in DOMAIN facts'.status /\ facts'.status[k] = facts.status[k]
         /\ \A g \in Groups : \A k \in DOMAIN facts.obs[g] :
              k \in DOMAIN facts'.obs[g] /\ facts'.obs[g][k] = facts.obs[g][k]]_vars
  BY DEF EvidenceStep
<1>3. QED
  BY Invariant, <1>1, <1>2, PTL DEF ASpec, EvidenceKept

(* A category has a number only if the source it is about has measured     *)
(* something, for any replies of any sources (the evaluate methods).       *)
THEOREM NumbersHaveEvidence == ASpec => []NumericMeansEvidence
<1>1. AInv => NumericMeansEvidence
  BY DEF AInv
<1>2. QED
  BY Invariant, <1>1, PTL

(* A PUBLIC assessment uses no fact, no source and no number of the        *)
(* owner's, for any wiring and any replies (collect, _profile_excluded).   *)
THEOREM PublicStaysPublic == ASpec => []PublicUsesNothingOwned
<1>1. ASSUME AInv PROVE PublicUsesNothingOwned
  <2> SUFFICES ASSUME profile = "public"
               PROVE  /\ \A s \in Owned : facts.obs[GroupOf[s]] = NoKeys
                      /\ "sourcecraft" \in wired => UsedSources \cap Owned = {}
                      /\ Numeric(results) \cap {"issues", "cicd", "security"} = {}
    BY DEF PublicUsesNothingOwned
  <2>1. \A s \in Owned : s \in Sources /\ GroupOf[s] \in {"issues", "cicd", "security"}
    BY SourcesAre DEF Owned, GroupOf
  <2>2. \A s \in Owned : facts.obs[GroupOf[s]] = NoKeys
    BY <1>1, <2>1 DEF AInv, CInv, OwnedUnused
  <2>3. ASSUME "sourcecraft" \in wired PROVE UsedSources \cap Owned = {}
    <3>1. \A s \in Owned : IsWired(s) /\ IsExcluded(s)
      BY <2>1, <2>3 DEF IsWired, IsExcluded, ProviderOf
    <3>2. QED
      BY <2>1, <3>1 DEF UsedSources
  <2>4. QED
    BY <1>1, <2>2, <2>3 DEF AInv, OwnedHasNoNumber
<1>2. QED
  BY Invariant, <1>1, PTL

(***************************************************************************)
(* Every source is accounted for.                                          *)
(***************************************************************************)
(* The entries of f's status that are not "available" have a limitation.   *)
Excused(f) ==
  \A k \in DOMAIN f.status :
    f.status[k] # "available" =>
      \/ k[1] \in f.lims
      \/ k[1] = "git.todo-history" /\ f.status[k] = "partial"

(* Facts r that say how source s has fared. *)
Accounts(s, r) == Excused(r) /\ \E k \in DOMAIN r.status : k[1] = s

LEMMA FactsAccount ==
  ASSUME NEW s, NEW state, NEW g, NEW avail, NEW keys, NEW lim \in BOOLEAN,
         \/ state = "available" \/ lim = TRUE
         \/ s = "git.todo-history" /\ state = "partial"
  PROVE  Accounts(s, Facts(s, state, g, avail, keys, lim))
<1> DEFINE r == Facts(s, state, g, avail, keys, lim)
<1>1. r.status = [k \in {<<s, "">>} |-> state] /\ r.lims = IF lim THEN {s} ELSE {}
  BY DEF Facts, Status
<1>2. <<s, "">>[1] = s
  OBVIOUS
<1>3. QED
  BY <1>1, <1>2 DEF Accounts, Excused

LEMMA RefusedAccounts ==
  ASSUME NEW s, NEW g, NEW state PROVE Accounts(s, Refused(s, g, state))
BY FactsAccount DEF Refused

LEMMA AppSecAccounts ==
  ASSUME NEW states, NEW scan, NEW keys, NEW lim \in BOOLEAN, DOMAIN states # {},
         lim = TRUE \/ \A k \in DOMAIN states : states[k] = "available"
  PROVE  Accounts("sourcecraft.appsec", AppSecFacts(states, scan, keys, lim))
<1> DEFINE s == "sourcecraft.appsec"
           r == AppSecFacts(states, scan, keys, lim)
<1>1. /\ r.status = [k \in {s} \X DOMAIN states |-> states[k[2]]]
      /\ r.lims = IF lim THEN {s} ELSE {}
  BY DEF AppSecFacts, Empty, Facts
<1>2. \A k \in {s} \X DOMAIN states : k[1] = s /\ k[2] \in DOMAIN states
  OBVIOUS
<1>3. Excused(r)
  BY <1>1, <1>2 DEF Excused
<1>4. PICK x \in DOMAIN states : TRUE
  OBVIOUS
<1>5. <<s, x>> \in DOMAIN r.status /\ <<s, x>>[1] = s
  BY <1>1
<1>6. QED
  BY <1>3, <1>5 DEF Accounts

LEMMA DeliveriesAccount ==
  ASSUME NEW s \in Sources, NEW r \in Deliveries(s) PROVE Accounts(s, r)
<1>1. CASE s = "git"
  BY <1>1, FactsAccount DEF Deliveries, GitFacts
<1>2. CASE s = "pydriller"
  <2>1. CASE r = NoHistory
    BY <1>2, <2>1, FactsAccount DEF NoHistory
  <2>2. CASE r \in {HistoryOf(n, who) : n \in 1..MaxCommits, who \in DOMAIN Confidence}
    <3>1. PICK n \in 1..MaxCommits, who \in DOMAIN Confidence : r = HistoryOf(n, who)
      BY <2>2
    <3> DEFINE limited == n >= MaxCommits \/ who \in {"no_email", "ambiguous"}
               keys == [commits |-> n, complete |-> n < MaxCommits,
                        confidence |-> Confidence[who]]
    <3>2. r = Facts(s, State(limited), "git", n > 0, keys, limited)
      BY <1>2, <3>1 DEF HistoryOf
    <3>3. limited \in BOOLEAN /\ (State(limited) = "available" \/ limited = TRUE)
      BY DEF State
    <3> HIDE DEF limited, keys
    <3>4. QED
      BY <3>2, <3>3, FactsAccount
  <2>3. QED
    BY <1>2, <2>1, <2>2 DEF Deliveries, HistoryFacts
<1>3. CASE s = "vale"
  <2>1. PICK found \in 0..MaxFiles + 1, named \in 0..1 : r = DocumentsOf(found, named)
    BY <1>3 DEF Deliveries, ValeFacts
  <2> DEFINE limited == found > MaxFiles
  <2>2. \E keys : r = Facts(s, State(limited), "documentation", TRUE, keys, limited)
    BY <1>3, <2>1 DEF DocumentsOf
  <2>3. limited \in BOOLEAN /\ (State(limited) = "available" \/ limited = TRUE)
    BY DEF State
  <2> HIDE DEF limited
  <2>4. QED
    BY <2>2, <2>3, FactsAccount
<1>4. CASE s = "git-sizer"
  BY <1>4, FactsAccount DEF Deliveries, SizerFacts
<1>5. CASE s = "git.todo-history"
  <2>1. PICK some \in BOOLEAN :
          r = Facts(s, IF some THEN "available" ELSE "partial", "code_health", some,
                    [markers |-> some], FALSE)
    BY <1>5 DEF Deliveries, TodoFacts
  <2>2. QED
    BY <1>5, <2>1, FactsAccount
<1>6. CASE s = "sonarqube"
  <2>1. PICK keys \in {[quality |-> TRUE], [ncloc |-> TRUE]} :
          r = Facts(s, "available", "code_health", TRUE, keys, FALSE)
    BY <1>6 DEF Deliveries, SonarFacts
  <2>2. QED
    BY <2>1, FactsAccount
<1>7. ASSUME NEW p, NEW keys, NEW lim, r = PageFacts(s, p, keys, lim)
      PROVE  Accounts(s, r)
  <2> DEFINE gone == p.end \in {"first_gone", "later_gone"}
             capped == lim \/ p.end # "complete"
  <2>1. r = Facts(s, IF gone THEN "unavailable" ELSE "available", GroupOf[s],
                  p.end # "first_gone", keys, capped)
    BY <1>7 DEF PageFacts
  <2>2. capped \in BOOLEAN /\ (gone => capped = TRUE)
    OBVIOUS
  <2> HIDE DEF gone, capped
  <2>3. QED
    BY <2>1, <2>2, FactsAccount
<1>8. CASE s \in {"sourcecraft.issues", "sourcecraft.cicd"}
  <2>1. \E p, keys, lim : r = PageFacts(s, p, keys, lim)
    <3>1. CASE s = "sourcecraft.issues"
      <4>1. PICK p, all, h : r = IssuesOf(p, all, h)
        BY <3>1 DEF Deliveries, IssueFacts
      <4>2. QED
        BY <3>1, <4>1 DEF IssuesOf
    <3>2. CASE s = "sourcecraft.cicd"
      <4>1. PICK p, some : r = RunsOf(p, some)
        BY <3>2 DEF Deliveries, RunFacts
      <4>2. QED
        BY <3>2, <4>1 DEF RunsOf
    <3>3. QED
      BY <1>8, <3>1, <3>2
  <2>2. QED
    BY <1>7, <2>1
<1>9. CASE s = "sourcecraft.appsec"
  <2> DEFINE states == [scans |-> "available", groups |-> "available"]
  <2>1. \E groups, truth : r = FindingFacts(groups, truth)
    BY <1>9 DEF Deliveries, ScanFacts, ScansOf
  <2>2. PICK groups, truth : r = FindingFacts(groups, truth)
    BY <2>1
  <2> DEFINE partial == Unread(groups) # {} \/ Len(groups) > MaxGroups
  <2>3. \E scan, keys :
          r = [AppSecFacts(states, scan, keys, partial) EXCEPT !.truth = truth]
    BY <2>2 DEF FindingFacts
  <2>4. PICK scan, keys :
          r = [AppSecFacts(states, scan, keys, partial) EXCEPT !.truth = truth]
    BY <2>3
  <2>5. partial \in BOOLEAN /\ DOMAIN states # {}
        /\ \A k \in DOMAIN states : states[k] = "available"
    OBVIOUS
  <2> DEFINE a == AppSecFacts(states, scan, keys, partial)
  <2>6. r.status = a.status /\ r.lims = a.lims
    BY <2>4 DEF AppSecFacts, Empty, Facts
  <2> HIDE DEF partial, states
  <2>7. Accounts(s, a)
    BY <1>9, <2>5, AppSecAccounts
  <2>8. QED
    BY <2>6, <2>7 DEF Accounts, Excused
<1>10. QED
  BY <1>1, <1>2, <1>3, <1>4, <1>5, <1>6, <1>8, <1>9, SourcesAre

LEMMA RefusalsAccount ==
  ASSUME NEW s \in Sources, NEW r \in Refusals(s) PROVE Accounts(s, r)
<1>1. CASE s \in {"git", "pydriller"}
  <2>1. PICK state : r = NoBlock(s, state)
    BY <1>1 DEF Refusals
  <2>2. r.status = Refused(s, "git", state).status /\ r.lims = Refused(s, "git", state).lims
    BY <2>1 DEF NoBlock, Refused, Facts
  <2>3. QED
    BY <2>2, RefusedAccounts DEF Accounts, Excused
<1>2. CASE s \in {"vale", "git-sizer", "git.todo-history", "sonarqube"}
  <2>1. \E g, state : r = Refused(s, g, state)
    BY <1>2 DEF Refusals
  <2>2. QED
    BY <2>1, RefusedAccounts
<1>3. CASE s = "sourcecraft.appsec"
  <2>1. r \in AppSecRefusals
    BY <1>3 DEF Refusals
  <2>2. ASSUME NEW state, NEW scan, NEW lim \in BOOLEAN, lim = TRUE \/ state = "available",
               r = AppSecFacts([scans |-> state], scan, NoKeys, lim)
        PROVE  Accounts(s, r)
    <3> DEFINE states == [scans |-> state]
    <3>1. DOMAIN states # {} /\ \A k \in DOMAIN states : states[k] = state
      OBVIOUS
    <3>2. r = AppSecFacts(states, scan, NoKeys, lim)
      BY <2>2
    <3> HIDE DEF states
    <3>3. QED
      BY <1>3, <2>2, <3>1, <3>2, AppSecAccounts
  <2>3. ASSUME NEW state,
               r = AppSecFacts([scans |-> "available", groups |-> state], "partial",
                               [partial |-> TRUE], TRUE)
        PROVE  Accounts(s, r)
    BY <1>3, <2>3, AppSecAccounts
  <2>4. QED
    BY <2>1, <2>2, <2>3 DEF AppSecRefusals
<1>4. CASE s \in {"sourcecraft.issues", "sourcecraft.cicd"}
  BY <1>4 DEF Refusals
<1>5. QED
  BY <1>1, <1>2, <1>3, <1>4, SourcesAre

(* The sources whose turn is over have left a status each.                 *)
AccountInv ==
  Earlier \subseteq {k[1] : k \in DOMAIN facts.status} /\ Excused(facts)

LEMMA MergeAccounts ==
  ASSUME CInv, AccountInv, turn \in 1..9, turn' = turn + 1, NEW status, NEW lims,
         facts'.status = Over(facts.status, status), facts'.lims = facts.lims \cup lims,
         \E k \in DOMAIN status : k[1] = Order[turn],
         \A k \in DOMAIN status :
           status[k] # "available" =>
             k[1] \in lims \/ (k[1] = "git.todo-history" /\ status[k] = "partial")
  PROVE  AccountInv'
<1>1. DOMAIN facts'.status = DOMAIN facts.status \cup DOMAIN status
  <2>1. DOMAIN Over(facts.status, status) = DOMAIN facts.status \cup DOMAIN status
    BY OverDomain
  <2>2. QED
    BY <2>1
<1>2. Earlier' = Earlier \cup {Order[turn]}
  BY TurnEarlier
<1>3. Earlier' \subseteq {k[1] : k \in DOMAIN facts'.status}
  BY <1>1, <1>2 DEF AccountInv
<1>4. ASSUME NEW k \in DOMAIN facts'.status
      PROVE  IF k \in DOMAIN status THEN facts'.status[k] = status[k]
             ELSE k \in DOMAIN facts.status /\ facts'.status[k] = facts.status[k]
  BY <1>1, <1>4 DEF Over
<1>5. Excused(facts)'
  BY <1>4 DEF AccountInv, Excused
<1>6. QED
  BY <1>3, <1>5 DEF AccountInv

LEMMA CollectAccounts ==
  ASSUME CInv, AccountInv, Collect PROVE AccountInv'
<1>1. turn \in 1..9
  BY OrderIs DEF CInv, Collect, Collecting
<1> DEFINE s == Order[turn]
<1>2. s \in Sources
  BY <1>1, NotEarlier
<1>3. Deliver(s) \/ Refuse(s) \/ Raise(s) \/ Leave(s)
  BY DEF Collect
<1>4. turn' = turn + 1
  BY <1>3 DEF Deliver, Refuse, Raise, Leave, Turn
<1>5. ASSUME NEW r, facts' = Merged(facts, r), Accounts(s, r) PROVE AccountInv'
  <2>1. /\ facts'.status = Over(facts.status, r.status)
        /\ facts'.lims = facts.lims \cup r.lims
    BY <1>5 DEF Merged
  <2>2. /\ \E k \in DOMAIN r.status : k[1] = s
        /\ \A k \in DOMAIN r.status :
             r.status[k] # "available" =>
               k[1] \in r.lims \/ (k[1] = "git.todo-history" /\ r.status[k] = "partial")
    BY <1>5 DEF Accounts, Excused
  <2> DEFINE status == r.status
             lims == r.lims
  <2> HIDE DEF status, lims
  <2>3. /\ facts'.status = Over(facts.status, status)
        /\ facts'.lims = facts.lims \cup lims
        /\ \E k \in DOMAIN status : k[1] = s
        /\ \A k \in DOMAIN status :
             status[k] # "available" =>
               k[1] \in lims \/ (k[1] = "git.todo-history" /\ status[k] = "partial")
    BY <2>1, <2>2 DEF status, lims
  <2>4. QED
    BY <1>1, <1>4, <2>3, MergeAccounts
<1>6. CASE Deliver(s)
  BY <1>2, <1>5, <1>6, DeliveriesAccount DEF Deliver
<1>7. CASE Refuse(s)
  BY <1>2, <1>5, <1>7, RefusalsAccount DEF Refuse
<1>8. CASE Raise(s)
  <2>1. /\ facts'.status = Over(facts.status, Status(s, "error"))
        /\ facts'.lims = facts.lims \cup {s}
    BY <1>8 DEF Raise, Failed, CInv, FactsShape
  <2>2. DOMAIN Status(s, "error") = {<<s, "">>} /\ <<s, "">>[1] = s
    BY DEF Status
  <2> DEFINE status == Status(s, "error")
             lims == {s}
  <2> HIDE DEF status, lims
  <2>3. /\ facts'.status = Over(facts.status, status)
        /\ facts'.lims = facts.lims \cup lims
        /\ \E k \in DOMAIN status : k[1] = s
        /\ \A k \in DOMAIN status : k[1] \in lims
    BY <2>1, <2>2 DEF status, lims
  <2>4. QED
    BY <1>1, <1>4, <2>3, MergeAccounts
<1>9. CASE Leave(s)
  BY <1>5, <1>9, RefusedAccounts DEF Leave
<1>10. QED
  BY <1>3, <1>6, <1>7, <1>8, <1>9

(* After the collection every source has a status, and one that is not     *)
(* "available" has left a limitation, for any wiring and any replies       *)
(* (collect, the failure results of the collectors).                       *)
THEOREM SourcesAreAccounted == ASpec => []EverySourceAccounted
<1>1. AInit => AccountInv
  <2> SUFFICES ASSUME AInit PROVE AccountInv
    OBVIOUS
  <2>1. facts.status = NoKeys /\ turn = 1
    BY DEF AInit, Init, Empty, Facts
  <2>2. Earlier = {} /\ DOMAIN NoKeys = {}
    BY <2>1 DEF Earlier, NoKeys
  <2>3. QED
    BY <2>1, <2>2 DEF AccountInv, Excused
<1>2. AInv /\ AccountInv /\ [ANext]_allVars => AccountInv'
  <2> SUFFICES ASSUME AInv, AccountInv, [ANext]_allVars PROVE AccountInv'
    OBVIOUS
  <2>1. CASE CollectOne
    BY <2>1, CollectAccounts DEF CollectOne, AInv
  <2>2. CASE UNCHANGED vars
    BY <2>2 DEF AccountInv, Earlier, Excused, vars
  <2>3. QED
    BY <2>1, <2>2 DEF ANext, ExecuteMany, CommitResult, allVars
<1>3. AInv /\ AccountInv => EverySourceAccounted
  <2> SUFFICES ASSUME AInv, AccountInv, ~Collecting PROVE EverySourceAccounted
    BY DEF EverySourceAccounted
  <2>1. turn = 10
    BY OrderIs DEF AInv, CInv, Collecting
  <2>2. Earlier = Sources
    BY <2>1, OrderIs DEF Earlier, Sources
  <2>3. {k[1] : k \in DOMAIN facts.status} \subseteq Sources
    BY <2>2 DEF AInv, CInv, FactsOrigin
  <2>4. QED
    BY <2>2, <2>3 DEF AccountInv, Excused, EverySourceAccounted
<1>4. QED
  BY Invariant, <1>1, <1>2, <1>3, PTL DEF ASpec

(***************************************************************************)
(* What a finished scan of AppSec says.                                    *)
(***************************************************************************)
(* Facts that say nothing of a scan.                                       *)
Unscanned(r) == r.scan = "none" /\ r.truth = {}

LEMMA OthersAreUnscanned ==
  ASSUME NEW s \in Sources, s # "sourcecraft.appsec",
         NEW r \in Deliveries(s) \cup Refusals(s)
  PROVE  Unscanned(r)
<1>1. ASSUME NEW state, NEW g, NEW avail, NEW keys, NEW lim,
             r = Facts(s, state, g, avail, keys, lim)
      PROVE  Unscanned(r)
  BY <1>1 DEF Facts, Unscanned
<1>2. CASE r \in Deliveries(s)
  <2>1. CASE s = "git"
    BY <1>1, <1>2, <2>1 DEF Deliveries, GitFacts
  <2>2. CASE s = "pydriller"
    <3>1. r = NoHistory \/ \E n, who : r = HistoryOf(n, who)
      BY <1>2, <2>2 DEF Deliveries, HistoryFacts
    <3>2. \E state, avail, keys, lim : r = Facts(s, state, "git", avail, keys, lim)
      BY <2>2, <3>1 DEF NoHistory, HistoryOf
    <3>3. QED
      BY <1>1, <3>2
  <2>3. CASE s = "vale"
    <3>1. PICK found, named : r = DocumentsOf(found, named)
      BY <1>2, <2>3 DEF Deliveries, ValeFacts
    <3>2. \E state, keys, lim :
            r = Facts(s, state, "documentation", TRUE, keys, lim)
      BY <2>3, <3>1 DEF DocumentsOf
    <3>3. QED
      BY <1>1, <3>2
  <2>4. CASE s \in {"git-sizer", "git.todo-history", "sonarqube"}
    <3>1. \E state, avail, keys :
            r = Facts(s, state, "code_health", avail, keys, FALSE)
      BY <1>2, <2>4 DEF Deliveries, SizerFacts, TodoFacts, SonarFacts
    <3>2. QED
      BY <1>1, <3>1
  <2>5. ASSUME NEW p, NEW keys, NEW lim, r = PageFacts(s, p, keys, lim)
        PROVE  Unscanned(r)
    BY <1>1, <2>5 DEF PageFacts
  <2>6. CASE s = "sourcecraft.issues"
    <3>1. PICK p, all, h : r = IssuesOf(p, all, h)
      BY <1>2, <2>6 DEF Deliveries, IssueFacts
    <3>2. QED
      BY <2>5, <2>6, <3>1 DEF IssuesOf
  <2>7. CASE s = "sourcecraft.cicd"
    <3>1. PICK p, some : r = RunsOf(p, some)
      BY <1>2, <2>7 DEF Deliveries, RunFacts
    <3>2. QED
      BY <2>5, <2>7, <3>1 DEF RunsOf
  <2>8. QED
    BY <2>1, <2>2, <2>3, <2>4, <2>6, <2>7, SourcesAre
<1>3. CASE r \in Refusals(s)
  <2>1. CASE s \in {"git", "pydriller"}
    <3>1. PICK state : r = NoBlock(s, state)
      BY <1>3, <2>1 DEF Refusals
    <3>2. QED
      BY <3>1 DEF NoBlock, Refused, Facts, Unscanned
  <2>2. CASE s \in {"vale", "git-sizer", "git.todo-history", "sonarqube"}
    <3>1. \E g, state : r = Refused(s, g, state)
      BY <1>3, <2>2 DEF Refusals
    <3>2. QED
      BY <1>1, <3>1 DEF Refused
  <2>3. CASE s \in {"sourcecraft.issues", "sourcecraft.cicd"}
    BY <1>3, <2>3 DEF Refusals
  <2>4. QED
    BY <2>1, <2>2, <2>3, SourcesAre
<1>4. QED
  BY <1>2, <1>3

LEMMA RefusedScans ==
  ASSUME NEW r \in Refusals("sourcecraft.appsec")
  PROVE  /\ r.scan \notin {"none", "finished_zero", "finished_with"}
         /\ r.truth = {}
<1>1. ASSUME NEW states, NEW scan, NEW keys, NEW lim,
             r = AppSecFacts(states, scan, keys, lim)
      PROVE  r.scan = scan /\ r.truth = {}
  BY <1>1 DEF AppSecFacts, Empty, Facts
<1>2. \E states, keys, lim :
        \E scan \in {"failed", "unavailable", "no_scan", "partial"} :
          r = AppSecFacts(states, scan, keys, lim)
  <2>1. r \in AppSecRefusals
    BY DEF Refusals
  <2>2. QED
    BY <2>1 DEF AppSecRefusals
<1>3. QED
  BY <1>1, <1>2

(* What FinishedIsWhatWasShown says of one source's facts.                 *)
Honest(r) ==
  r.scan \in {"finished_zero", "finished_with"} =>
    /\ "unread" \notin r.truth
    /\ r.scan = "finished_zero" <=> "read" \notin r.truth

(* The page of the groups is a part of them. *)
LEMMA Pages ==
  ASSUME NEW groups \in GroupLists, NEW shape \in Shapes,
         NEW shown \in Shown(shape, Len(groups))
  PROVE  LET page == SubSeq(groups, 1, shown)
         IN /\ Len(groups) \in Nat /\ DOMAIN groups = 1..Len(groups)
            /\ shown \in 0..Len(groups)
            /\ DOMAIN page = 1..shown /\ Len(page) = shown
            /\ \A i \in 1..shown : page[i] = groups[i]
            /\ \A i \in DOMAIN groups : groups[i] \in DefectGroups
<1>1. MaxGroups + 1 \in Nat
  BY CollectionAssumption DEF CollectionAssumption
<1>2. PICK n \in 0..MaxGroups + 1 : groups \in [1..n -> DefectGroups]
  BY DEF GroupLists
<1>3. n \in Nat
  BY <1>1, <1>2
<1>4. groups \in Seq(DefectGroups) /\ Len(groups) = n
  BY <1>2, <1>3, SeqDef, LenProperties
<1>5. shape \in {"whole", "odd", "paged"}
  BY CollectionAssumption DEF CollectionAssumption
<1>6. shown \in 0..n
  BY <1>3, <1>4, <1>5 DEF Shown
<1>7. /\ SubSeq(groups, 1, shown) \in Seq(DefectGroups)
      /\ DOMAIN SubSeq(groups, 1, shown) = 1..shown
      /\ Len(SubSeq(groups, 1, shown)) = shown
      /\ \A i \in 1..shown : SubSeq(groups, 1, shown)[i] = groups[i]
  BY <1>3, <1>4, <1>6, SubSeqProperties
<1>8. QED
  BY <1>2, <1>3, <1>4, <1>6, <1>7

LEMMA FinishedScans ==
  ASSUME NEW r \in Deliveries("sourcecraft.appsec")
  PROVE  r.scan # "none" /\ Honest(r)
<1>1. r \in ScanFacts
  BY DEF Deliveries
<1>2. PICK groups \in GroupLists, shape \in Shapes : r \in ScansOf(groups, shape)
  BY <1>1 DEF ScanFacts
<1>3. PICK shown \in Shown(shape, Len(groups)) :
        r = FindingFacts(SubSeq(groups, 1, shown), TruthOf(groups, shown))
  BY <1>2 DEF ScansOf
<1> DEFINE page == SubSeq(groups, 1, shown)
           truth == TruthOf(groups, shown)
           partial == Unread(page) # {} \/ Len(page) > MaxGroups
           scan == IF partial THEN "partial"
                   ELSE IF Found(page) # {} THEN "finished_with"
                   ELSE "finished_zero"
<1>4. r.scan = scan /\ r.truth = truth
  <2>1. \E states, keys :
          r = [AppSecFacts(states, scan, keys, partial) EXCEPT !.truth = truth]
    BY <1>3 DEF FindingFacts
  <2> HIDE DEF scan, partial, truth
  <2>2. QED
    BY <2>1 DEF AppSecFacts, Empty, Facts
<1>5. /\ Len(groups) \in Nat /\ DOMAIN groups = 1..Len(groups)
      /\ shown \in 0..Len(groups)
      /\ DOMAIN page = 1..shown /\ Len(page) = shown
      /\ \A i \in 1..shown : page[i] = groups[i]
      /\ \A i \in DOMAIN groups : groups[i] \in DefectGroups
  BY <1>3, Pages
<1> HIDE DEF page
<1>6. MaxGroups \in Nat
  BY CollectionAssumption DEF CollectionAssumption
<1>7. ASSUME ~partial
      PROVE  /\ "unread" \notin truth
             /\ Found(page) # {} <=> "read" \in truth
  <2>1. shown <= MaxGroups /\ Unread(page) = {}
    BY <1>5, <1>6, <1>7
  <2>2. ASSUME NEW i \in DOMAIN groups PROVE Place(i, groups[i], shown) # "unread"
    <3>1. CASE i > shown
      BY <3>1 DEF Place
    <3>2. CASE i <= shown
      <4>1. i \in 1..shown /\ i <= MaxGroups
        BY <1>5, <1>6, <2>1, <3>2
      <4>2. groups[i].reply \in {"whole", "odd", "paged"}
        BY <1>5, <2>1, <2>2, <4>1, CollectionAssumption
        DEF CollectionAssumption, DefectGroups, Unread
      <4>3. QED
        BY <4>1, <4>2, <3>2 DEF Place
    <3>3. QED
      BY <1>5, <3>1, <3>2
  <2>3. ASSUME NEW i \in DOMAIN groups
        PROVE  Place(i, groups[i], shown) = "read"
                 <=> i <= shown /\ i <= MaxGroups /\ groups[i].reply = "whole"
    <3>1. i \in 1..Len(groups)
      BY <1>5, <2>3
    <3>2. i > shown => ~(i <= shown)
      BY <1>5, <3>1
    <3>3. QED
      BY <3>2 DEF Place
  <2>4. Found(page) =
          {i \in DOMAIN groups : /\ Place(i, groups[i], shown) = "read"
                                 /\ groups[i].finding # "none"}
    <3>1. ASSUME NEW i PROVE i \in 1..shown <=> i \in DOMAIN groups /\ i <= shown
      BY <1>5
    <3>2. QED
      BY <1>5, <2>3, <3>1 DEF Found
  <2>5. QED
    BY <2>2, <2>4 DEF TruthOf
<1>8. partial => scan = "partial"
  OBVIOUS
<1>9. ~partial => /\ scan \in {"finished_zero", "finished_with"}
                  /\ scan = "finished_with" <=> Found(page) # {}
  OBVIOUS
<1> HIDE DEF partial, scan, truth
<1>10. QED
  BY <1>4, <1>7, <1>8, <1>9 DEF Honest

(* Only the turn of AppSec decides what is known of a scan.                *)
ScanInv ==
  /\ "sourcecraft.appsec" \notin Earlier => Unscanned(facts)
  /\ FinishedIsWhatWasShown

LEMMA CollectScans ==
  ASSUME CInv, ScanInv, Collect PROVE ScanInv'
<1>1. turn \in 1..9
  BY OrderIs DEF CInv, Collect, Collecting
<1> DEFINE s == Order[turn]
<1>2. s \in Sources /\ s \notin Earlier
  BY <1>1, NotEarlier
<1>3. Deliver(s) \/ Refuse(s) \/ Raise(s) \/ Leave(s)
  BY DEF Collect
<1>4. Earlier' = Earlier \cup {s}
  <2>1. turn' = turn + 1
    BY <1>3 DEF Deliver, Refuse, Raise, Leave, Turn
  <2>2. QED
    BY <1>1, <2>1, TurnEarlier
<1>5. ASSUME NEW r, facts' = Merged(facts, r), Unscanned(r) PROVE ScanInv'
  <2>1. facts'.scan = facts.scan /\ facts'.truth = facts.truth
    BY <1>5 DEF Merged, Unscanned
  <2>2. QED
    BY <1>4, <2>1 DEF ScanInv, Unscanned, FinishedIsWhatWasShown
<1>6. ASSUME NEW r, facts' = Merged(facts, r), s = "sourcecraft.appsec",
             r.scan # "none", Honest(r)
      PROVE  ScanInv'
  <2>1. facts'.scan = r.scan /\ facts'.truth = facts.truth \cup r.truth
    BY <1>6 DEF Merged
  <2>2. facts.truth = {}
    BY <1>2, <1>6 DEF ScanInv, Unscanned
  <2>3. QED
    BY <1>4, <1>6, <2>1, <2>2 DEF ScanInv, FinishedIsWhatWasShown, Honest
<1>7. CASE Deliver(s)
  <2>1. PICK r \in Deliveries(s) : facts' = Merged(facts, r)
    BY <1>7 DEF Deliver
  <2>2. CASE s = "sourcecraft.appsec"
    BY <1>6, <2>1, <2>2, FinishedScans
  <2>3. CASE s # "sourcecraft.appsec"
    BY <1>2, <1>5, <2>1, <2>3, OthersAreUnscanned
  <2>4. QED
    BY <2>2, <2>3
<1>8. CASE Refuse(s)
  <2>1. PICK r \in Refusals(s) : facts' = Merged(facts, r)
    BY <1>8 DEF Refuse
  <2>2. CASE s = "sourcecraft.appsec"
    BY <1>6, <2>1, <2>2, RefusedScans DEF Honest
  <2>3. CASE s # "sourcecraft.appsec"
    BY <1>2, <1>5, <2>1, <2>3, OthersAreUnscanned
  <2>4. QED
    BY <2>2, <2>3
<1>9. CASE Raise(s)
  <2>1. facts'.scan = facts.scan /\ facts'.truth = facts.truth
    BY <1>9 DEF Raise, Failed, CInv, FactsShape
  <2>2. QED
    BY <1>4, <2>1 DEF ScanInv, Unscanned, FinishedIsWhatWasShown
<1>10. CASE Leave(s)
  BY <1>5, <1>10 DEF Leave, Refused, Facts, Unscanned
<1>11. QED
  BY <1>3, <1>7, <1>8, <1>9, <1>10

(* A finished scan has read every finding of the groups that were shown,   *)
(* and has zero findings only if there was none to read, for any number of *)
(* groups, any cap, any refusals and bodies of any shape                   *)
(* (SourceCraftAppSecCollector.collect).                                   *)
THEOREM FinishedIsHonest == ASpec => []FinishedIsWhatWasShown
<1>1. AInit => ScanInv
  BY DEF AInit, Init, Empty, Facts, ScanInv, Unscanned, FinishedIsWhatWasShown
<1>2. AInv /\ ScanInv /\ [ANext]_allVars => ScanInv'
  <2> SUFFICES ASSUME AInv, ScanInv, [ANext]_allVars PROVE ScanInv'
    OBVIOUS
  <2>1. CASE CollectOne
    BY <2>1, CollectScans DEF CollectOne, AInv
  <2>2. CASE UNCHANGED vars
    BY <2>2 DEF ScanInv, Earlier, Unscanned, FinishedIsWhatWasShown, vars
  <2>3. QED
    BY <2>1, <2>2 DEF ANext, ExecuteMany, CommitResult, allVars
<1>3. ScanInv => FinishedIsWhatWasShown
  BY DEF ScanInv
<1>4. QED
  BY Invariant, <1>1, <1>2, <1>3, PTL DEF ASpec

(***************************************************************************)
(* The score engine, for any results.                                      *)
(***************************************************************************)
(* What an analyzer or the orchestrator may have put into a result.        *)
Rated(r) ==
  /\ r.coverage \in Nat /\ r.confidence \in Nat /\ r.critical \in Nat /\ r.high \in Nat
  /\ r.status = "judged" /\ r.value # NoScore => r.value \in 0..100
AllRated(R) == DOMAIN R = Categories /\ \A c \in Categories : Rated(R[c])

LEMMA SumMonotone ==
  ASSUME NEW f, NEW g, \A c \in Categories : f[c] \in Int /\ g[c] \in Int /\ f[c] <= g[c]
  PROVE  SumOf(f) \in Int /\ SumOf(g) \in Int /\ SumOf(f) <= SumOf(g)
BY DEF SumOf, Categories

LEMMA SumScaled ==
  ASSUME NEW f, NEW x \in Int, \A c \in Categories : f[c] \in Int
  PROVE  SumOf([c \in Categories |-> x * f[c]]) = x * SumOf(f)
<1> DEFINE a == f["documentation"]
           b == f["activity"]
           d == f["issues"]
           e == f["cicd"]
           g == f["security"]
           h == f["code_health"]
<1>1. {a, b, d, e, g, h} \subseteq Int
  BY DEF Categories
<1>2. SumOf([c \in Categories |-> x * f[c]])
        = x * a + x * b + x * d + x * e + x * g + x * h
  BY DEF SumOf, Categories
<1>3. SumOf(f) = a + b + d + e + g + h
  BY DEF SumOf
<1> HIDE DEF a, b, d, e, g, h
<1>4. x * a + x * b + x * d + x * e + x * g + x * h = x * (a + b + d + e + g + h)
  BY <1>1
<1>5. QED
  BY <1>2, <1>3, <1>4

LEMMA NumericFinite ==
  ASSUME NEW R PROVE IsFiniteSet(Numeric(R)) /\ Cardinality(Numeric(R)) \in Nat
<1>1. IsFiniteSet(Categories)
  <2> DEFINE A == {"documentation"} \cup {"activity"}
             B == A \cup {"issues"}
             C == B \cup {"cicd"}
             D == C \cup {"security"}
  <2>1. IsFiniteSet(A)
    BY FS_Singleton, FS_AddElement
  <2>2. IsFiniteSet(B)
    BY <2>1, FS_AddElement
  <2>3. IsFiniteSet(C)
    BY <2>2, FS_AddElement
  <2>4. IsFiniteSet(D)
    BY <2>3, FS_AddElement
  <2>5. Categories = D \cup {"code_health"}
    BY DEF Categories
  <2>6. IsFiniteSet(D \cup {"code_health"})
    BY <2>4, FS_AddElement
  <2>7. QED
    BY <2>5, <2>6
<1>2. IsFiniteSet(Numeric(R))
  BY <1>1, FS_Subset DEF Numeric
<1>3. QED
  BY <1>2, FS_CardinalityType

(* Weights of the categories in C, and what they weigh.                    *)
Weights(C) == [c \in Categories |-> IF c \in C THEN Weight[c] ELSE 0]

LEMMA WeightsAre ==
  ASSUME NEW C, NEW c \in Categories
  PROVE  /\ Weights(C)[c] \in {0, 15, 20} /\ Weight[c] \in {15, 20}
         /\ c \notin C => Weights(C)[c] = 0
         /\ c \in C => Weights(C)[c] = Weight[c]
BY DEF Weights, Weight

LEMMA TotalWeightIs ==
  ASSUME NEW C PROVE TotalWeight(C) = SumOf(Weights(C)) /\ TotalWeight(C) \in Nat
<1>1. TotalWeight(C) = SumOf(Weights(C))
  BY DEF TotalWeight, Weights
<1>2. \A c \in Categories : Weights(C)[c] \in Nat
  BY WeightsAre
<1>3. SumOf(Weights(C)) \in Nat
  BY <1>2 DEF SumOf, Categories
<1>4. QED
  BY <1>1, <1>3

(* Where no category is below x, the points are not below x per weight,    *)
(* and the same for not above.                                             *)
LEMMA PointsAreBounded ==
  ASSUME NEW R, AllRated(R), NEW x \in Int
  PROVE  /\ (\A c \in Numeric(R) : x <= R[c].value)
              => Points(R) >= x * TotalWeight(Numeric(R))
         /\ (\A c \in Numeric(R) : R[c].value <= x)
              => Points(R) <= x * TotalWeight(Numeric(R))
         /\ Points(R) \in Int
<1> DEFINE C == Numeric(R)
           p == [c \in Categories |-> IF c \in C THEN Weight[c] * R[c].value ELSE 0]
           q == [c \in Categories |-> x * Weights(C)[c]]
<1>1. Points(R) = SumOf(p)
  BY DEF Points
<1>2. SumOf(q) = x * TotalWeight(C)
  <2>1. \A c \in Categories : Weights(C)[c] \in Int
    BY WeightsAre
  <2>2. SumOf(q) = x * SumOf(Weights(C))
    BY <2>1, SumScaled
  <2>3. QED
    BY <2>2, TotalWeightIs
<1>3. \A c \in C : c \in Categories /\ R[c].value \in Int
  BY DEF Numeric, AllRated, Rated
<1>4. ASSUME NEW c \in Categories
      PROVE  /\ p[c] \in Int /\ q[c] \in Int
             /\ (c \in C => x <= R[c].value) => q[c] <= p[c]
             /\ (c \in C => R[c].value <= x) => p[c] <= q[c]
  <2>1. CASE c \in C
    <3>1. p[c] = Weight[c] * R[c].value /\ q[c] = x * Weight[c] /\ R[c].value \in Int
      BY <1>3, <2>1, WeightsAre
    <3>2. ASSUME NEW k \in {15, 20}, NEW y \in Int, NEW z \in Int
          PROVE  k * y \in Int /\ y * k = k * y /\ (y <= z => k * y <= k * z)
      OBVIOUS
    <3> DEFINE k == Weight[c]
               v == R[c].value
    <3>3. k \in {15, 20} /\ v \in Int /\ p[c] = k * v /\ q[c] = x * k
      BY <3>1, WeightsAre
    <3> HIDE DEF k, v, p, q
    <3>4. p[c] \in Int /\ q[c] \in Int /\ q[c] = k * x
      BY <3>2, <3>3
    <3>5. (x <= v => q[c] <= p[c]) /\ (v <= x => p[c] <= q[c])
      BY <3>2, <3>3, <3>4
    <3>6. QED
      BY <2>1, <3>4, <3>5 DEF v
  <2>2. CASE c \notin C
    <3>1. p[c] = 0 /\ q[c] = x * 0
      BY <2>2, WeightsAre
    <3>2. QED
      BY <3>1
  <2>3. QED
    BY <2>1, <2>2
<1> HIDE DEF C, p, q
<1>5. ASSUME \A c \in C : x <= R[c].value PROVE SumOf(q) <= SumOf(p)
  BY <1>4, <1>5, SumMonotone
<1>6. ASSUME \A c \in C : R[c].value <= x PROVE SumOf(p) <= SumOf(q)
  BY <1>4, <1>6, SumMonotone
<1>7. SumOf(p) \in Int
  BY <1>4 DEF SumOf, Categories
<1>8. QED
  BY <1>1, <1>2, <1>5, <1>6, <1>7 DEF C

LEMMA LeastOf ==
  ASSUME NEW S \in SUBSET Nat, S # {}
  PROVE  \E m \in S : \A n \in S : m <= n
<1>1. PICK m \in S : \A n \in S : ~ (<<n, m>> \in OpToRel(<, Nat))
  BY NatLessThanWellFounded, WFMin
<1>2. ASSUME NEW n \in S PROVE m <= n
  <2>1. <<n, m>> \in Nat \X Nat /\ <<n, m>>[1] = n /\ <<n, m>>[2] = m
    OBVIOUS
  <2>2. ~ (n < m)
    BY <1>1, <2>1 DEF OpToRel
  <2>3. QED
    BY <2>2
<1>3. QED
  BY <1>2

(* Some category is the lowest, and some the highest.                      *)
LEMMA Extremes ==
  ASSUME NEW R, AllRated(R), Numeric(R) # {}
  PROVE  /\ \E c \in Numeric(R) : \A d \in Numeric(R) : R[c].value <= R[d].value
         /\ \E c \in Numeric(R) : \A d \in Numeric(R) : R[d].value <= R[c].value
<1> DEFINE C == Numeric(R)
           low == {R[c].value : c \in C}
           high == {100 - R[c].value : c \in C}
<1>1. \A c \in C : R[c].value \in 0..100
  BY DEF Numeric, AllRated, Rated
<1>2. low \subseteq Nat /\ high \subseteq Nat /\ low # {} /\ high # {}
  BY <1>1
<1> HIDE DEF low, high, C
<1>3. PICK m \in low : \A n \in low : m <= n
  BY <1>2, LeastOf
<1>4. PICK m2 \in high : \A n \in high : m2 <= n
  BY <1>2, LeastOf
<1>5. PICK c \in C : m = R[c].value
  BY DEF low
<1>6. PICK c2 \in C : m2 = 100 - R[c2].value
  BY DEF high
<1>7. ASSUME NEW d \in C PROVE R[c].value <= R[d].value
  BY <1>3, <1>5 DEF low
<1>8. ASSUME NEW d \in C PROVE R[d].value <= R[c2].value
  <2>1. 100 - R[c2].value <= 100 - R[d].value
    BY <1>4, <1>6 DEF high
  <2> DEFINE a == R[c2].value
             b == R[d].value
  <2>2. a \in Int /\ b \in Int
    BY <1>1
  <2> HIDE DEF a, b
  <2>3. b <= a
    BY <2>1, <2>2 DEF a, b
  <2>4. QED
    BY <2>3 DEF a, b
<1>9. QED
  BY <1>7, <1>8 DEF C

LEMMA PresentationIs ==
  ASSUME NEW R, Presentation(R) # "INSUFFICIENT_DATA" PROVE Numeric(R) # {}
BY NumericFinite, FS_EmptySet DEF Presentation

LEMMA CapIs ==
  ASSUME NEW R, AllRated(R)
  PROVE  /\ Cap(R) \in {40, 60, 100}
         /\ Cap(R) # 100 => R["security"].critical + R["security"].high > 0
         /\ R["security"].critical > 0 => Cap(R) = 40
         /\ R["security"].high > 0 => Cap(R) <= 60
BY DEF Cap, AllRated, Rated, Categories

(* The score of any results that are presented lies between their lowest   *)
(* and their highest category, or a finding has capped it.                 *)
LEMMA ScoreIsBetween ==
  ASSUME NEW R, AllRated(R), Presentation(R) # "INSUFFICIENT_DATA"
  PROVE  LET s == ScoreOf(R)
         IN /\ \E c \in Numeric(R) : s.raw >= R[c].value * s.weight
            /\ \E c \in Numeric(R) : s.raw <= R[c].value * s.weight
            /\ s.points # s.raw => R["security"].critical + R["security"].high > 0
<1> DEFINE s == ScoreOf(R)
           w == TotalWeight(Numeric(R))
<1>1. s.raw = Points(R) /\ s.weight = w
      /\ s.points = IF Points(R) > Cap(R) * w THEN Cap(R) * w ELSE Points(R)
  BY DEF ScoreOf
<1>2. \A c \in Numeric(R) : R[c].value \in 0..100
  BY DEF Numeric, AllRated, Rated
<1>3. Numeric(R) # {}
  BY PresentationIs
<1> HIDE DEF s, w
<1>4. \E c \in Numeric(R) : s.raw >= R[c].value * s.weight
  <2>1. PICK c \in Numeric(R) : \A d \in Numeric(R) : R[c].value <= R[d].value
    BY <1>3, Extremes
  <2>2. R[c].value \in Int
    BY <1>2
  <2>3. Points(R) >= R[c].value * w
    BY <2>1, <2>2, PointsAreBounded DEF w
  <2>4. QED
    BY <1>1, <2>3
<1>5. \E c \in Numeric(R) : s.raw <= R[c].value * s.weight
  <2>1. PICK c \in Numeric(R) : \A d \in Numeric(R) : R[d].value <= R[c].value
    BY <1>3, Extremes
  <2>2. R[c].value \in Int
    BY <1>2
  <2>3. Points(R) <= R[c].value * w
    BY <2>1, <2>2, PointsAreBounded DEF w
  <2>4. QED
    BY <1>1, <2>3
<1>6. Points(R) <= 100 * w
  BY <1>2, PointsAreBounded DEF w
<1>7. w \in Nat /\ Points(R) \in Int
  BY TotalWeightIs, PointsAreBounded DEF w
<1>8. s.points # s.raw => Cap(R) # 100
  BY <1>1, <1>6, <1>7
<1>9. QED
  BY <1>4, <1>5, <1>8, CapIs DEF s

(* Without one of its categories a score is presented no better.           *)
LEMMA LossDemotes ==
  ASSUME NEW R, AllRated(R), NEW c \in Numeric(R)
  PROVE  Rank[Presentation([R EXCEPT ![c] = Missing("error")])]
           <= Rank[Presentation(R)]
<1> DEFINE S == [R EXCEPT ![c] = Missing("error")]
           C == Numeric(R)
           f == [d \in Categories |->
                   IF d \in C THEN Weight[d] * R[d].coverage * R[d].confidence ELSE 0]
           g == [d \in Categories |->
                   IF d \in Numeric(S)
                   THEN Weight[d] * S[d].coverage * S[d].confidence ELSE 0]
<1>1. c \in Categories
  BY DEF Numeric
<1>2. /\ S[c] = Missing("error")
      /\ \A d \in Categories : d # c => S[d] = R[d]
  BY <1>1 DEF AllRated
<1>3. Numeric(S) = C \ {c}
  BY <1>1, <1>2 DEF Numeric, Missing, Result
<1>4. /\ Cardinality(Numeric(S)) = Cardinality(C) - 1
      /\ Cardinality(C) \in Nat
  BY <1>3, NumericFinite, FS_RemoveElement
<1>5. ASSUME NEW d \in Categories PROVE f[d] \in Int /\ g[d] \in Int /\ g[d] <= f[d]
  <2> DEFINE a == R[d].coverage
             b == R[d].confidence
             k == Weight[d]
  <2>1. a \in Nat /\ b \in Nat /\ k \in Nat
    BY WeightsAre DEF AllRated, Rated
  <2>2. /\ f[d] = IF d \in C THEN k * a * b ELSE 0
        /\ g[d] = IF d \in C \ {c} THEN k * a * b ELSE 0
    <3> DEFINE N == Numeric(S)
    <3>1. g[d] = IF d \in N THEN Weight[d] * S[d].coverage * S[d].confidence ELSE 0
      OBVIOUS
    <3>2. N = C \ {c} /\ (d # c => S[d] = R[d])
      BY <1>2, <1>3
    <3>3. f[d] = IF d \in C THEN k * a * b ELSE 0
      OBVIOUS
    <3> HIDE DEF N, S, f, g, C
    <3>4. QED
      BY <3>1, <3>2, <3>3
  <2> HIDE DEF a, b, k, f, g
  <2>3. k * a * b \in Nat
    BY <2>1
  <2>4. QED
    BY <2>2, <2>3
<1>6. Quality(R) = SumOf(f) /\ Quality(S) = SumOf(g)
  BY DEF Quality
<1> HIDE DEF f, g, S, C
<1>7. Quality(R) \in Int /\ Quality(S) \in Int /\ Quality(S) <= Quality(R)
  BY <1>5, <1>6, SumMonotone
<1>8. QED
  BY <1>4, <1>7 DEF Presentation, Rank, S, C

(***************************************************************************)
(* What the analyzers make of the facts.                                   *)
(***************************************************************************)
(* The observations that hold numbers.                                     *)
Numbers ==
  {"files", "discovered", "confidence", "coverage", "critical", "high", "medium", "low"}

(* The documents of a block can be divided by.                             *)
Counted(o) ==
  {"files", "discovered"} \subseteq DOMAIN o /\ (o.files # 0 => o.discovered # 0)

(* Every observation o that an analyzer reads of group g is there and has  *)
(* its type.                                                               *)
TypedBlock(g, avail, o) ==
  /\ \A k \in DOMAIN o \cap Numbers : o[k] \in Nat
  /\ {"files", "discovered"} \cap DOMAIN o # {} => Counted(o)
  /\ g = "documentation" /\ avail => "files" \in DOMAIN o
  /\ "commits" \in DOMAIN o => "confidence" \in DOMAIN o
  /\ g = "issues" => o = NoKeys \/ "coverage" \in DOMAIN o
  /\ g = "cicd" /\ avail => "coverage" \in DOMAIN o
  /\ "critical" \in DOMAIN o =>
       {"coverage", "high", "medium", "low"} \subseteq DOMAIN o
Typed(r) == \A g \in Groups : TypedBlock(g, g \in r.avail, r.obs[g])

LEMMA AnalyzedIsRated ==
  ASSUME Typed(facts), NEW c \in Categories, NEW v \in 0..100
  PROVE  Rated(Analyzed(c, v))
<1> DEFINE o == facts.obs[FactGroupOf[c]]
<1>0. ASSUME NEW status PROVE Rated(Missing(status))
  BY DEF Rated, Missing, Result, NoScore
<1>1. ASSUME NEW value, NEW coverage \in Nat, NEW confidence \in Nat,
             value = NoScore \/ value \in 0..100
      PROVE  Rated(Judged(value, coverage, confidence))
  BY <1>1 DEF Rated, Judged, Result
<1>2. CASE FactGroupOf[c] \notin facts.avail
  BY <1>0, <1>2 DEF Analyzed
<1>3. CASE FactGroupOf[c] \in facts.avail
  <2>0. Analyzed(c, v) = Evaluation(c, o, v)
    BY <1>3 DEF Analyzed
  <2>1. \A g \in Groups : \A k \in DOMAIN facts.obs[g] \cap Numbers :
          facts.obs[g][k] \in Nat
    BY DEF Typed, TypedBlock
  <2>2. CASE c = "documentation"
    <3>1. Analyzed(c, v) = Documentation(o, v) /\ o = facts.obs["documentation"]
      BY <2>0, <2>2 DEF Evaluation, FactGroupOf
    <3>2. Counted(o) /\ o.files \in Nat /\ o.discovered \in Nat
      BY <1>3, <2>1, <2>2, <3>1, GroupsAre DEF Typed, TypedBlock, Counted, Numbers, FactGroupOf
    <3> HIDE DEF o
    <3>3. CASE o.files = 0
      BY <1>1, <3>1, <3>3 DEF Documentation, Whole
    <3>4. CASE o.files # 0
      <4> DEFINE m == o.files
                 n == o.discovered
      <4>1. m \in Nat /\ n \in Nat /\ n > 0
        BY <3>2, <3>4 DEF Counted
      <4> HIDE DEF m, n
      <4>2. (100 * m) \div n \in Nat
        BY <4>1
      <4>3. Rated(Judged(v, Whole, (100 * m) \div n))
        BY <1>1, <4>2 DEF Whole
      <4>4. QED
        BY <3>1, <3>4, <4>3 DEF Documentation, m, n
    <3>5. QED
      BY <3>3, <3>4
  <2>3. CASE c = "activity"
    <3>1. Analyzed(c, v) = Activity(o, v) /\ o = facts.obs["git"]
      BY <2>0, <2>3 DEF Evaluation, FactGroupOf
    <3>2. "commits" \in DOMAIN o => o.confidence \in Nat
      BY <2>1, <3>1, GroupsAre DEF Typed, TypedBlock, Numbers
    <3> HIDE DEF o
    <3>3. CASE "commits" \notin DOMAIN o
      BY <1>1, <3>1, <3>3 DEF Activity, Whole
    <3>4. CASE "commits" \in DOMAIN o
      BY <1>1, <3>1, <3>2, <3>4 DEF Activity, Whole
    <3>5. QED
      BY <3>3, <3>4
  <2>4. CASE c = "issues"
    <3>1. Analyzed(c, v) = Issues(o, v) /\ o = facts.obs["issues"]
      BY <2>0, <2>4 DEF Evaluation, FactGroupOf
    <3>2. o = NoKeys \/ o.coverage \in Nat
      BY <2>1, <3>1, GroupsAre DEF Typed, TypedBlock, Numbers
    <3> HIDE DEF o
    <3>3. CASE o = NoKeys
      BY <1>0, <3>1, <3>3 DEF Issues
    <3>4. CASE o # NoKeys
      BY <1>1, <3>1, <3>2, <3>4 DEF Issues, Whole
    <3>5. QED
      BY <3>3, <3>4
  <2>5. CASE c = "cicd"
    <3>1. Analyzed(c, v) = Cicd(o, v) /\ o = facts.obs["cicd"]
      BY <2>0, <2>5 DEF Evaluation, FactGroupOf
    <3>2. o.coverage \in Nat
      BY <1>3, <2>1, <2>5, <3>1, GroupsAre DEF Typed, TypedBlock, Numbers, FactGroupOf
    <3> HIDE DEF o
    <3>3. CASE ~o.decisive
      BY <1>0, <3>1, <3>3 DEF Cicd
    <3>4. CASE o.decisive
      BY <1>1, <3>1, <3>2, <3>4 DEF Cicd, Whole
    <3>5. QED
      BY <3>3, <3>4
  <2>6. CASE c = "security"
    <3>1. Analyzed(c, v) = Security(o, v) /\ o = facts.obs["security"]
      BY <2>0, <2>6 DEF Evaluation, FactGroupOf
    <3>2. "critical" \in DOMAIN o =>
            {o.coverage, o.critical, o.high, o.medium, o.low} \subseteq Nat
      BY <2>1, <3>1, GroupsAre DEF Typed, TypedBlock, Numbers
    <3> HIDE DEF o
    <3>3. CASE facts.scan \in {"no_scan", "failed"} \/ "critical" \notin DOMAIN o
      BY <1>0, <3>1, <3>3 DEF Security
    <3>4. CASE ~(facts.scan \in {"no_scan", "failed"} \/ "critical" \notin DOMAIN o)
      <4> DEFINE j == Judged(Larger(0, 100 - Penalty(o)), Whole, o.coverage)
      <4>1. Analyzed(c, v) = [j EXCEPT !.critical = o.critical, !.high = o.high]
        BY <3>1, <3>4 DEF Security
      <4>2. Penalty(o) \in Nat
        BY <3>2, <3>4 DEF Penalty
      <4>3. Larger(0, 100 - Penalty(o)) \in 0..100
        BY <4>2 DEF Larger
      <4>4. Rated(j)
        BY <1>1, <3>2, <3>4, <4>3 DEF Whole
      <4>5. QED
        BY <3>2, <3>4, <4>1, <4>4 DEF Rated, Judged, Result
    <3>5. QED
      BY <3>3, <3>4
  <2>7. CASE c = "code_health"
    <3>1. Analyzed(c, v) = CodeHealth(o, v)
      BY <2>0, <2>7 DEF Evaluation
    <3> DEFINE S == {s \in Engines : IsAvailable(s)}
               covered == Cardinality(S)
    <3>2. covered \in Nat
      <4>1. Engines = ({"sonarqube"} \cup {"git-sizer"}) \cup {"git.todo-history"}
        BY DEF Engines
      <4>2. IsFiniteSet(Engines)
        BY <4>1, FS_Singleton, FS_AddElement
      <4>3. S \in SUBSET Engines
        OBVIOUS
      <4> HIDE DEF S
      <4>4. IsFiniteSet(S)
        BY <4>2, <4>3, FS_Subset
      <4>5. QED
        BY <4>4, FS_CardinalityType
    <3>3. \/ \E confidence \in {65, 100} : Analyzed(c, v) = Judged(v, covered, confidence)
          \/ Analyzed(c, v) = Result("inconclusive", NoScore, covered, 20)
      BY <3>1 DEF CodeHealth
    <3> HIDE DEF covered
    <3>4. Rated(Result("inconclusive", NoScore, covered, 20))
      BY <3>2 DEF Rated, Result
    <3>5. QED
      BY <1>1, <3>2, <3>3, <3>4
  <2>8. QED
    BY <2>2, <2>3, <2>4, <2>5, <2>6, <2>7 DEF Categories
<1>4. QED
  BY <1>2, <1>3


LEMMA NoKeysTyped ==
  ASSUME NEW g PROVE TypedBlock(g, FALSE, NoKeys)
BY DEF TypedBlock, NoKeys

LEMMA FactsTyped ==
  ASSUME NEW s \in Sources, NEW state, NEW avail \in BOOLEAN, NEW keys, NEW lim,
         TypedBlock(GroupOf[s], avail, keys)
  PROVE  Typed(Facts(s, state, GroupOf[s], avail, keys, lim))
<1> DEFINE r == Facts(s, state, GroupOf[s], avail, keys, lim)
<1>1. /\ r.avail = IF avail THEN {GroupOf[s]} ELSE {}
      /\ \A g \in Groups : r.obs[g] = IF g = GroupOf[s] THEN keys ELSE NoKeys
  BY DEF Facts
<1> HIDE DEF r
<1>2. ASSUME NEW g \in Groups PROVE TypedBlock(g, g \in r.avail, r.obs[g])
  <2>1. CASE g = GroupOf[s]
    <3>1. r.obs[g] = keys /\ (g \in r.avail <=> avail)
      BY <1>1, <2>1
    <3>2. QED
      BY <2>1, <3>1 DEF TypedBlock
  <2>2. CASE g # GroupOf[s]
    <3>1. r.obs[g] = NoKeys /\ g \notin r.avail
      BY <1>1, <2>2
    <3>2. QED
      BY <3>1, NoKeysTyped DEF TypedBlock
  <2>3. QED
    BY <2>1, <2>2
<1>3. QED
  BY <1>2 DEF Typed, r

LEMMA RefusedTyped ==
  ASSUME NEW s \in Sources, NEW state PROVE Typed(Refused(s, GroupOf[s], state))
BY NoKeysTyped, FactsTyped DEF Refused

LEMMA OverTyped ==
  ASSUME NEW g, NEW A \in BOOLEAN, NEW B \in BOOLEAN, NEW f, NEW h,
         TypedBlock(g, A, f), TypedBlock(g, B, h)
  PROVE  TypedBlock(g, A \/ B, Over(f, h))
<1> DEFINE o == Over(f, h)
<1>1. DOMAIN o = DOMAIN f \cup DOMAIN h
  BY OverDomain
<1>2. \A k \in DOMAIN o : o[k] = IF k \in DOMAIN h THEN h[k] ELSE f[k]
  BY DEF Over
<1>3. f = NoKeys /\ h = NoKeys => o = NoKeys
  BY DEF Over, NoKeys
<1> HIDE DEF o
<1>4. \A k \in DOMAIN o \cap Numbers : o[k] \in Nat
  BY <1>1, <1>2 DEF TypedBlock
<1>5. {"files", "discovered"} \cap DOMAIN o # {} => Counted(o)
  BY <1>1, <1>2 DEF TypedBlock, Counted
<1>6. g = "documentation" /\ (A \/ B) => "files" \in DOMAIN o
  BY <1>1 DEF TypedBlock
<1>7. "commits" \in DOMAIN o => "confidence" \in DOMAIN o
  BY <1>1 DEF TypedBlock
<1>8. g = "issues" => o = NoKeys \/ "coverage" \in DOMAIN o
  BY <1>1, <1>3 DEF TypedBlock
<1>9. g = "cicd" /\ (A \/ B) => "coverage" \in DOMAIN o
  BY <1>1 DEF TypedBlock
<1>10. "critical" \in DOMAIN o =>
         {"coverage", "high", "medium", "low"} \subseteq DOMAIN o
  BY <1>1 DEF TypedBlock
<1>11. QED
  BY <1>4, <1>5, <1>6, <1>7, <1>8, <1>9, <1>10 DEF TypedBlock, o

LEMMA AppSecTyped ==
  ASSUME NEW states, NEW scan, NEW keys, NEW lim,
         \/ keys = NoKeys \/ DOMAIN keys = {"partial"}
         \/ /\ DOMAIN keys = {"partial", "critical", "high", "medium", "low"}
            /\ \A k \in {"critical", "high", "medium", "low"} : keys[k] \in Nat
  PROVE  Typed(AppSecFacts(states, scan, keys, lim))
<1> DEFINE r == AppSecFacts(states, scan, keys, lim)
           n == CASE scan \in {"finished_zero", "finished_with"} -> 100
                  [] scan = "partial" -> 50
                  [] OTHER -> 0
           whole == [coverage |-> n]
<1>1. "security" \in Groups
  BY GroupsAre
<1>2. Empty.obs = [h \in Groups |-> NoKeys]
  BY DEF Empty, Facts
<1>3. r.obs = [Empty.obs EXCEPT !["security"] = Over(whole, keys)]
  BY DEF AppSecFacts, Empty, Facts
<1>4. r.avail \subseteq {"security"}
  BY DEF AppSecFacts, Empty, Facts
<1>5. n \in Nat
  OBVIOUS
<1> HIDE DEF n
<1>6. DOMAIN whole = {"coverage"} /\ whole["coverage"] = n
  OBVIOUS
<1> HIDE DEF whole, r
<1>7. DOMAIN Over(whole, keys) = {"coverage"} \cup DOMAIN keys
  BY <1>6, OverDomain
<1>8. ASSUME NEW k \in DOMAIN Over(whole, keys) \cap Numbers
      PROVE  Over(whole, keys)[k] \in Nat
  <2>1. Over(whole, keys)[k] = IF k \in DOMAIN keys THEN keys[k] ELSE whole[k]
    BY <1>8 DEF Over
  <2>2. CASE k \in DOMAIN keys
    BY <1>8, <2>1, <2>2 DEF Numbers, NoKeys
  <2>3. CASE k \notin DOMAIN keys
    BY <1>5, <1>6, <1>7, <1>8, <2>1, <2>3
  <2>4. QED
    BY <2>2, <2>3
<1>9. TypedBlock("security", "security" \in r.avail, Over(whole, keys))
  BY <1>7, <1>8 DEF TypedBlock, NoKeys
<1>10. ASSUME NEW g \in Groups PROVE TypedBlock(g, g \in r.avail, r.obs[g])
  <2>1. CASE g = "security"
    BY <1>1, <1>2, <1>3, <1>9, <2>1
  <2>2. CASE g # "security"
    <3>1. g \notin r.avail /\ r.obs[g] = NoKeys
      BY <1>2, <1>3, <1>4, <2>2
    <3>2. QED
      BY <3>1, NoKeysTyped DEF TypedBlock
  <2>3. QED
    BY <2>1, <2>2
<1>11. QED
  BY <1>10 DEF Typed, r

LEMMA DeliveriesTyped ==
  ASSUME NEW s \in Sources, NEW r \in Deliveries(s) PROVE Typed(r)
<1>1. CASE s = "git"
  <2>1. GroupOf[s] = "git" /\ TypedBlock("git", TRUE, [head |-> TRUE])
    BY <1>1 DEF GroupOf, TypedBlock, Numbers
  <2>2. r = Facts(s, "available", GroupOf[s], TRUE, [head |-> TRUE], FALSE)
    BY <1>1, <2>1 DEF Deliveries, GitFacts
  <2>3. QED
    BY <2>1, <2>2, FactsTyped
<1>2. CASE s = "pydriller"
  <2>1. GroupOf[s] = "git"
    BY <1>2 DEF GroupOf
  <2>2. ASSUME NEW state, NEW avail \in BOOLEAN, NEW n, NEW complete,
               NEW confidence \in Nat, NEW lim,
               r = Facts(s, state, "git", avail,
                         [commits |-> n, complete |-> complete,
                          confidence |-> confidence], lim)
        PROVE  Typed(r)
    <3> DEFINE keys == [commits |-> n, complete |-> complete, confidence |-> confidence]
    <3>1. TypedBlock("git", avail, keys)
      BY DEF TypedBlock, Numbers
    <3> HIDE DEF keys
    <3>2. QED
      BY <2>1, <2>2, <3>1, FactsTyped DEF keys
  <2>3. CASE r = NoHistory
    BY <1>2, <2>2, <2>3 DEF NoHistory
  <2>4. CASE r \in {HistoryOf(n, who) : n \in 1..MaxCommits, who \in DOMAIN Confidence}
    <3>1. PICK n \in 1..MaxCommits, who \in DOMAIN Confidence : r = HistoryOf(n, who)
      BY <2>4
    <3>2. Confidence[who] \in Nat /\ (n > 0) \in BOOLEAN
      BY DEF Confidence
    <3>3. QED
      BY <1>2, <2>2, <3>1, <3>2 DEF HistoryOf
  <2>5. QED
    BY <1>2, <2>3, <2>4 DEF Deliveries, HistoryFacts
<1>3. CASE s = "vale"
  <2>1. GroupOf[s] = "documentation"
    BY <1>3, SourcesAre DEF GroupOf
  <2>2. PICK found \in 0..MaxFiles + 1, named \in 0..1 : r = DocumentsOf(found, named)
    BY <1>3 DEF Deliveries, ValeFacts
  <2> DEFINE files == IF found > 0 THEN Smaller(found, MaxFiles) ELSE named
             discovered == Larger(files, found)
             keys == [files |-> files, discovered |-> discovered]
  <2>3. files \in Nat /\ discovered \in Nat /\ discovered >= files
    <3>1. found \in Nat /\ named \in Nat /\ MaxFiles \in Nat
      BY CollectionAssumption DEF CollectionAssumption
    <3>2. Smaller(found, MaxFiles) \in Nat
      BY <3>1 DEF Smaller
    <3>3. files \in Nat
      BY <3>1, <3>2
    <3> HIDE DEF files
    <3>4. QED
      BY <3>1, <3>3 DEF Larger
  <2>4. \E state, lim : r = Facts(s, state, "documentation", TRUE, keys, lim)
    BY <1>3, <2>2 DEF DocumentsOf
  <2> HIDE DEF files, discovered
  <2>5. TypedBlock("documentation", TRUE, keys)
    BY <2>3 DEF TypedBlock, Counted, Numbers
  <2> HIDE DEF keys
  <2>6. QED
    BY <2>1, <2>4, <2>5, FactsTyped
<1>4. ASSUME NEW state, NEW avail \in BOOLEAN, NEW keys, GroupOf[s] = "code_health",
             DOMAIN keys \subseteq {"sizes", "markers", "quality", "ncloc"},
             r = Facts(s, state, "code_health", avail, keys, FALSE)
      PROVE  Typed(r)
  <2>1. TypedBlock("code_health", avail, keys)
    BY <1>4 DEF TypedBlock, Numbers
  <2>2. QED
    BY <1>4, <2>1, FactsTyped
<1>5. CASE s \in {"git-sizer", "git.todo-history", "sonarqube"}
  <2>1. PICK state, keys : \E avail \in BOOLEAN :
          /\ keys \in {[sizes |-> TRUE], [quality |-> TRUE], [ncloc |-> TRUE],
                       [markers |-> TRUE], [markers |-> FALSE]}
          /\ r = Facts(s, state, "code_health", avail, keys, FALSE)
    BY <1>5 DEF Deliveries, SizerFacts, TodoFacts, SonarFacts
  <2>2. DOMAIN keys \subseteq {"sizes", "markers", "quality", "ncloc"}
    BY <2>1
  <2>3. GroupOf[s] = "code_health"
    BY <1>5, SourcesAre DEF GroupOf
  <2>4. QED
    BY <1>4, <2>1, <2>2, <2>3
<1>6. ASSUME NEW p, NEW keys, NEW lim, r = PageFacts(s, p, keys, lim),
             \A avail \in BOOLEAN : TypedBlock(GroupOf[s], avail, keys)
      PROVE  Typed(r)
  <2>1. (p.end # "first_gone") \in BOOLEAN
    OBVIOUS
  <2>2. QED
    BY <1>6, <2>1, FactsTyped DEF PageFacts
<1>7. \A p : Coverage(p) \in Nat
  BY DEF Coverage
<1>8. CASE s = "sourcecraft.issues"
  <2>1. PICK p, all, h : r = IssuesOf(p, all, h)
    BY <1>8 DEF Deliveries, IssueFacts
  <2> DEFINE block == [sample |-> p.rows, coverage |-> Coverage(p), comments |-> all,
                       shown |-> IF p.rows < 5 THEN {} ELSE h]
             keys == IF p.rows = 0 THEN NoKeys ELSE block
  <2>2. \A k \in DOMAIN block \cap Numbers : block[k] \in Nat
    BY <1>7 DEF Numbers
  <2>3. DOMAIN block = {"sample", "coverage", "comments", "shown"}
    OBVIOUS
  <2>4. \E lim : r = PageFacts(s, p, keys, lim)
    BY <1>8, <2>1 DEF IssuesOf
  <2>5. GroupOf[s] = "issues"
    BY <1>8, SourcesAre DEF GroupOf
  <2> HIDE DEF block
  <2>6. \A avail \in BOOLEAN : TypedBlock("issues", avail, keys)
    BY <2>2, <2>3 DEF TypedBlock, NoKeys
  <2> HIDE DEF keys
  <2>7. QED
    BY <1>6, <2>4, <2>5, <2>6
<1>9. CASE s = "sourcecraft.cicd"
  <2>1. PICK p, some : r = RunsOf(p, some)
    BY <1>9 DEF Deliveries, RunFacts
  <2> DEFINE keys == [decisive |-> some /\ p.rows > 0, coverage |-> Coverage(p)]
  <2>2. \A k \in DOMAIN keys \cap Numbers : keys[k] \in Nat
    BY <1>7 DEF Numbers
  <2>3. DOMAIN keys = {"decisive", "coverage"}
    OBVIOUS
  <2>4. r = PageFacts(s, p, keys, FALSE)
    BY <1>9, <2>1 DEF RunsOf
  <2>5. GroupOf[s] = "cicd"
    BY <1>9, SourcesAre DEF GroupOf
  <2> HIDE DEF keys
  <2>6. \A avail \in BOOLEAN : TypedBlock("cicd", avail, keys)
    BY <2>2, <2>3 DEF TypedBlock
  <2>7. QED
    BY <1>6, <2>4, <2>5, <2>6
<1>10. CASE s = "sourcecraft.appsec"
  <2>1. PICK groups, truth :
          r = FindingFacts(groups, truth) /\ IsFiniteSet(DOMAIN groups)
    <3>1. PICK groups \in GroupLists, shape \in Shapes : r \in ScansOf(groups, shape)
      BY <1>10 DEF Deliveries, ScanFacts
    <3>2. PICK shown \in Shown(shape, Len(groups)) :
            r = FindingFacts(SubSeq(groups, 1, shown), TruthOf(groups, shown))
      BY <3>1 DEF ScansOf
    <3>3. DOMAIN SubSeq(groups, 1, shown) = 1..shown /\ shown \in Int
      BY <3>2, Pages
    <3>4. IsFiniteSet(1..shown)
      BY <3>3, FS_Interval
    <3>5. QED
      BY <3>2, <3>3, <3>4
  <2> DEFINE partial == Unread(groups) # {} \/ Len(groups) > MaxGroups
             count == [v \in {"critical", "high", "medium", "low"} |->
                         Cardinality(Read(groups, v))]
             mark == [partial |-> partial]
             keys == Over(mark, count)
  <2>2. \E states, scan : r = [AppSecFacts(states, scan, keys, partial)
                              EXCEPT !.truth = truth]
    BY <2>1 DEF FindingFacts
  <2>3. PICK states, scan : r = [AppSecFacts(states, scan, keys, partial)
                               EXCEPT !.truth = truth]
    BY <2>2
  <2>4. \A v \in {"critical", "high", "medium", "low"} : count[v] \in Nat
    <3>1. ASSUME NEW v \in {"critical", "high", "medium", "low"}
          PROVE  Cardinality(Read(groups, v)) \in Nat
      BY <2>1, FS_Subset, FS_CardinalityType DEF Read, Found
    <3>2. QED
      BY <3>1
  <2>5. /\ DOMAIN mark = {"partial"}
        /\ DOMAIN count = {"critical", "high", "medium", "low"}
    OBVIOUS
  <2> DEFINE a == AppSecFacts(states, scan, keys, partial)
  <2>6. r.obs = a.obs /\ r.avail = a.avail
    BY <2>3 DEF AppSecFacts, Empty, Facts
  <2> HIDE DEF count, mark, partial
  <2>7. DOMAIN keys = {"partial", "critical", "high", "medium", "low"}
    <3>1. DOMAIN keys = DOMAIN mark \cup DOMAIN count
      BY OverDomain
    <3>2. QED
      BY <2>5, <3>1
  <2>8. \A k \in {"critical", "high", "medium", "low"} : keys[k] \in Nat
    BY <2>4, <2>5 DEF Over
  <2> HIDE DEF keys
  <2>9. Typed(a)
    BY <2>7, <2>8, AppSecTyped
  <2>10. QED
    BY <2>6, <2>9 DEF Typed
<1>11. QED
  BY <1>1, <1>2, <1>3, <1>5, <1>8, <1>9, <1>10, SourcesAre

LEMMA RefusalsTyped ==
  ASSUME NEW s \in Sources, NEW r \in Refusals(s) PROVE Typed(r)
<1>1. CASE s \in {"git", "pydriller"}
  <2>1. PICK state : r = NoBlock(s, state)
    BY <1>1 DEF Refusals
  <2> DEFINE a == Refused(s, GroupOf[s], state)
  <2>2. r.obs = a.obs /\ r.avail = a.avail
    BY <1>1, <2>1 DEF NoBlock, Refused, Facts, GroupOf
  <2>3. Typed(a)
    BY RefusedTyped
  <2>4. QED
    BY <2>2, <2>3 DEF Typed
<1>2. CASE s \in {"vale", "git-sizer", "git.todo-history", "sonarqube"}
  <2>1. \E state : r = Refused(s, GroupOf[s], state)
    BY <1>2 DEF Refusals, GroupOf
  <2>2. QED
    BY <2>1, RefusedTyped
<1>3. CASE s = "sourcecraft.appsec"
  <2>1. r \in AppSecRefusals
    BY <1>3 DEF Refusals
  <2>2. \E states, scan, keys, lim :
          /\ r = AppSecFacts(states, scan, keys, lim)
          /\ keys \in {NoKeys, [partial |-> TRUE]}
    BY <2>1 DEF AppSecRefusals
  <2>3. DOMAIN [partial |-> TRUE] = {"partial"}
    OBVIOUS
  <2>4. QED
    BY <2>2, <2>3, AppSecTyped
<1>4. CASE s \in {"sourcecraft.issues", "sourcecraft.cicd"}
  BY <1>4 DEF Refusals
<1>5. QED
  BY <1>1, <1>2, <1>3, <1>4, SourcesAre

LEMMA CollectTyped ==
  ASSUME CInv, Typed(facts), Collect PROVE Typed(facts)'
<1>1. turn \in 1..9
  BY OrderIs DEF CInv, Collect, Collecting
<1> DEFINE s == Order[turn]
<1>2. s \in Sources
  BY <1>1, NotEarlier
<1>3. Deliver(s) \/ Refuse(s) \/ Raise(s) \/ Leave(s)
  BY DEF Collect
<1>4. ASSUME NEW r, facts' = Merged(facts, r), Typed(r) PROVE Typed(facts)'
  <2>1. /\ facts'.avail = facts.avail \cup r.avail
        /\ \A g \in Groups : facts'.obs[g] = Over(facts.obs[g], r.obs[g])
    BY <1>4 DEF Merged
  <2>2. ASSUME NEW g \in Groups
        PROVE  TypedBlock(g, g \in facts'.avail, facts'.obs[g])
    <3> DEFINE A == g \in facts.avail
               B == g \in r.avail
    <3>1. TypedBlock(g, A, facts.obs[g]) /\ TypedBlock(g, B, r.obs[g])
      BY <1>4 DEF Typed
    <3>2. A \in BOOLEAN /\ B \in BOOLEAN /\ (g \in facts'.avail <=> A \/ B)
      BY <2>1
    <3> HIDE DEF A, B
    <3>3. TypedBlock(g, A \/ B, Over(facts.obs[g], r.obs[g]))
      BY <3>1, <3>2, OverTyped
    <3>4. QED
      BY <2>1, <3>2, <3>3 DEF TypedBlock
  <2>3. QED
    BY <2>2 DEF Typed
<1>5. CASE Deliver(s)
  BY <1>2, <1>4, <1>5, DeliveriesTyped DEF Deliver
<1>6. CASE Refuse(s)
  BY <1>2, <1>4, <1>6, RefusalsTyped DEF Refuse
<1>7. CASE Raise(s)
  <2>1. facts'.obs = facts.obs /\ facts'.avail = facts.avail
    BY <1>7 DEF Raise, Failed, CInv, FactsShape
  <2>2. QED
    BY <2>1 DEF Typed
<1>8. CASE Leave(s)
  BY <1>2, <1>4, <1>8, RefusedTyped DEF Leave
<1>9. QED
  BY <1>3, <1>5, <1>6, <1>7, <1>8


(***************************************************************************)
(* Results and score.                                                      *)
(***************************************************************************)
(* A judged Security result holds the counts of the facts.                 *)
CountsAreRead ==
  results["security"].status = "judged" =>
    /\ ~Collecting
    /\ results["security"].critical = facts.obs["security"].critical
    /\ results["security"].high = facts.obs["security"].high

RInv ==
  /\ Typed(facts) /\ AllRated(results)
  /\ CountsAreRead
  /\ Scored => score = ScoreOf(results)

LEMMA InitRInv == AInit => RInv
<1> SUFFICES ASSUME AInit PROVE RInv
  OBVIOUS
<1>1. facts.avail = {} /\ facts.obs = [h \in Groups |-> NoKeys]
  BY DEF AInit, Init, Empty, Facts
<1>2. Typed(facts)
  <2>1. ASSUME NEW g \in Groups PROVE TypedBlock(g, g \in facts.avail, facts.obs[g])
    <3>1. facts.obs[g] = NoKeys /\ g \notin facts.avail
      BY <1>1
    <3>2. QED
      BY <3>1, NoKeysTyped DEF TypedBlock
  <2>2. QED
    BY <2>1 DEF Typed
<1>3. DOMAIN results = Categories /\ \A c \in Categories : results[c] = Missing("absent")
  BY DEF AInit
<1>4. AllRated(results)
  BY <1>3 DEF AllRated, Rated, Missing, Result, NoScore
<1>5. CountsAreRead
  BY <1>3 DEF CountsAreRead, Missing, Result, Categories
<1>6. stage = "collecting"
  BY DEF AInit
<1>7. QED
  BY <1>2, <1>4, <1>5, <1>6 DEF RInv, Scored

LEMMA NextRInv == ASSUME CInv, RInv, [ANext]_allVars PROVE RInv'
<1>1. CASE CollectOne
  <2>1. Collecting /\ UNCHANGED <<stage, results, score>>
    BY <1>1 DEF CollectOne, Collect
  <2>2. Typed(facts)'
    BY <1>1, CollectTyped DEF CollectOne, RInv
  <2>3. AllRated(results)'
    BY <2>1 DEF RInv, AllRated
  <2>4. CountsAreRead'
    BY <2>1 DEF RInv, CountsAreRead
  <2>5. Scored' => score' = ScoreOf(results)'
    <3>1. Scored' <=> Scored
      BY <2>1 DEF Scored
    <3>2. ScoreOf(results') = ScoreOf(results)
      BY <2>1
    <3>3. QED
      BY <2>1, <3>1, <3>2 DEF RInv
  <2>6. QED
    BY <2>2, <2>3, <2>4, <2>5 DEF RInv
<1>2. CASE ExecuteMany
  <2>1. PICK lost \in SUBSET Categories, status \in {"error", "absent"}, v \in Scores :
          results' = [c \in Categories |->
                        IF c \in lost THEN Missing(status) ELSE Analyzed(c, v[c])]
    BY <1>2 DEF ExecuteMany
  <2>2. UNCHANGED vars /\ ~Collecting /\ stage' = "executed"
    BY <1>2 DEF ExecuteMany
  <2>3. facts' = facts /\ turn' = turn
    BY <2>2 DEF vars
  <2>4. Typed(facts)'
    BY <2>3 DEF RInv, Typed
  <2>5. ASSUME NEW c \in Categories PROVE Rated(results'[c])
    <3>1. CASE c \in lost
      <4>1. results'[c] = Missing(status)
        BY <2>1, <3>1
      <4>2. QED
        BY <4>1 DEF Rated, Missing, Result, NoScore
    <3>2. CASE c \notin lost
      <4>1. results'[c] = Analyzed(c, v[c])
        BY <2>1, <3>2
      <4>2. v[c] \in 0..100
        BY AssessmentAssumption DEF AssessmentAssumption
      <4>3. QED
        BY <4>1, <4>2, AnalyzedIsRated DEF RInv
    <3>3. QED
      BY <3>1, <3>2
  <2>6. AllRated(results)'
    BY <2>1, <2>5 DEF AllRated
  <2>7. ASSUME results'["security"].status = "judged"
        PROVE  /\ results'["security"].critical = facts.obs["security"].critical
               /\ results'["security"].high = facts.obs["security"].high
    <3> DEFINE c == "security"
               o == facts.obs["security"]
    <3>1. c \in Categories /\ FactGroupOf[c] = c
      BY DEF Categories, FactGroupOf
    <3>2. c \notin lost
      BY <2>1, <2>7, <3>1 DEF Missing, Result
    <3>3. results'[c] = Analyzed(c, v[c])
      BY <2>1, <3>1, <3>2
    <3>4. results'[c] = Security(o, v[c])
      BY <2>7, <3>1, <3>3 DEF Analyzed, Evaluation, Missing, Result
    <3> DEFINE j == Judged(Larger(0, 100 - Penalty(o)), Whole, o.coverage)
    <3>5. results'[c] = [j EXCEPT !.critical = o.critical, !.high = o.high]
      BY <2>7, <3>4 DEF Security, Missing, Result
    <3>6. QED
      BY <3>5 DEF Judged, Result
  <2>8. CountsAreRead'
    BY <2>2, <2>3, <2>7 DEF CountsAreRead, Collecting
  <2>9. ~Scored'
    BY <2>2 DEF Scored
  <2>10. QED
    BY <2>4, <2>6, <2>8, <2>9 DEF RInv
<1>3. ASSUME UNCHANGED <<vars, results>>, Scored' => score' = ScoreOf(results)'
      PROVE  RInv'
  <2>1. facts' = facts /\ turn' = turn /\ results' = results
    BY <1>3 DEF vars
  <2>2. Typed(facts)' /\ AllRated(results)' /\ CountsAreRead'
    BY <2>1 DEF RInv, Typed, AllRated, CountsAreRead, Collecting
  <2>3. QED
    BY <1>3, <2>2 DEF RInv
<1>4. CASE CommitResult
  <2>1. UNCHANGED <<vars, results>> /\ score' = ScoreOf(results)
    BY <1>4 DEF CommitResult
  <2>2. score' = ScoreOf(results')
    BY <2>1
  <2>3. QED
    BY <1>3, <2>1, <2>2
<1>5. CASE UNCHANGED allVars
  <2>1. UNCHANGED <<vars, results, stage, score>>
    BY <1>5 DEF allVars
  <2>2. (Scored' <=> Scored) /\ ScoreOf(results') = ScoreOf(results)
    BY <2>1 DEF Scored
  <2>3. QED
    BY <1>3, <2>1, <2>2 DEF RInv
<1>6. QED
  BY <1>1, <1>2, <1>4, <1>5 DEF ANext

(* Results are in range, a judged Security result holds the counts of the  *)
(* facts, and what is published is the score of the results.               *)
THEOREM ResultsAreRated == ASpec => []RInv
<1>1. AInv /\ RInv /\ [ANext]_allVars => RInv'
  BY NextRInv DEF AInv
<1>2. QED
  BY Invariant, InitRInv, <1>1, PTL DEF ASpec

(* A missing category is not a zero: the score lies between the lowest and *)
(* the highest category that has one, or under a cap that a finding        *)
(* justifies, for any replies and any formulas (ScoreEngineV1.score).      *)
THEOREM MissingIsNoZero == ASpec => []MissingIsNotZero
<1>1. ASSUME RInv PROVE MissingIsNotZero
  <2> SUFFICES ASSUME Scored, HasScore PROVE MissingIsNotZero
    BY DEF MissingIsNotZero
  <2>1. score = ScoreOf(results) /\ AllRated(results)
    BY <1>1 DEF RInv
  <2>2. Presentation(results) # "INSUFFICIENT_DATA"
    BY <2>1 DEF HasScore, ScoreOf
  <2>3. QED
    BY <2>1, <2>2, ScoreIsBetween DEF MissingIsNotZero
<1>2. QED
  BY ResultsAreRated, <1>1, PTL

(* Losing a category never promotes the presentation of the score, for any *)
(* replies and any formulas (coverage K of ScoreEngineV1.score).           *)
THEOREM LossIsNoPromotion == ASpec => []LossNeverPromotes
<1>1. ASSUME RInv, NEW c \in Numeric(results)
      PROVE  Rank[Presentation([results EXCEPT ![c] = Missing("error")])]
               <= Rank[Presentation(results)]
  BY <1>1, LossDemotes DEF RInv
<1>2. RInv => LossNeverPromotes
  BY <1>1 DEF LossNeverPromotes
<1>3. QED
  BY ResultsAreRated, <1>2, PTL

(* A critical finding caps the score at 40 and fails it, a high one caps   *)
(* it at 60, for any numbers of findings (_security_cap).                  *)
THEOREM FindingsAreCapped == ASpec => []FindingsCap
<1>1. ASSUME RInv PROVE FindingsCap
  <2> SUFFICES ASSUME Scored, HasScore, results["security"].status = "judged"
               PROVE  FindingsCap
    BY DEF FindingsCap
  <2>1. score = ScoreOf(results) /\ AllRated(results) /\ CountsAreRead
    BY <1>1 DEF RInv
  <2>2. /\ facts.obs["security"].critical = results["security"].critical
        /\ facts.obs["security"].high = results["security"].high
    BY <2>1 DEF CountsAreRead
  <2> DEFINE w == TotalWeight(Numeric(results))
             k == Cap(results)
             p == Points(results)
  <2>3. /\ score.points = (IF p > k * w THEN k * w ELSE p)
        /\ score.weight = w
    BY <2>1 DEF ScoreOf
  <2>4. Presentation(results) # "INSUFFICIENT_DATA"
    BY <2>1 DEF HasScore, ScoreOf
  <2>5. k = 40 => score.verdict = "fail"
    BY <2>1, <2>4 DEF ScoreOf
  <2>6. w \in Nat /\ p \in Int
    BY <2>1, TotalWeightIs, PointsAreBounded
  <2>7. /\ k \in {40, 60, 100}
        /\ results["security"].critical > 0 => k = 40
        /\ results["security"].high > 0 => k <= 60
    BY <2>1, CapIs
  <2> HIDE DEF w, k, p
  <2>8. (k = 40 => score.points <= 40 * w) /\ (k <= 60 => score.points <= 60 * w)
    BY <2>3, <2>6, <2>7
  <2>9. QED
    BY <2>2, <2>3, <2>5, <2>7, <2>8 DEF FindingsCap
<1>2. QED
  BY ResultsAreRated, <1>1, PTL
=============================================================================
