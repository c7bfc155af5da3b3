----------------------- MODULE ValidationMatrixProofs -----------------------
(* The gate of the validation lab, for every corpus, every set of readings  *)
(* and any number of runs.  The argument is short: a row that was analysed  *)
(* was cloned by the run that is going on, since MayClone refuses whatever  *)
(* an earlier run left; and a summary that carries the number of the last   *)
(* run was computed from the rows of that run.                              *)
EXTENDS ValidationMatrix, WellFoundedInduction, TLAPS

\* A row is honest about its checkout.
Honest(x) ==
  /\ x.outcome \in {"clone_failed", "cloned", "analysed", "analysis_failed"}
  /\ x.outcome = "cloned" => x.checkout = runs
  /\ x.outcome = "analysed" => x.checkout = runs /\ x.analysis # None

RowsHonest == \A r \in Repos \cap DOMAIN rows : Honest(rows[r])

RowsFinished == \A r \in Repos \cap DOMAIN rows : rows[r].outcome # "cloned"

CurrentHonest ==
  pc \in {"analyse", "repeat", "write"} =>
    /\ Honest(current)
    /\ pc = "analyse" <=> current.outcome = "cloned"

\* What is still to do has no row yet, and a run that is at a repository has
\* one to do.
TodoOpen ==
  /\ todo \subseteq Repos /\ todo \cap DOMAIN rows = {}
  /\ pc \in {"analyse", "repeat", "write"} => todo # {}

\* Whose two readings differed has a row that says so, or gets one next; only
\* a run that died forgets it, and that one is not judged.
DriftRecorded ==
  \A r \in drifted :
    \/ r \in DOMAIN rows /\ rows[r].determinism = "FAIL"
    \/ pc = "write" /\ r = Current /\ current.determinism = "FAIL"
    \/ pc = "idle" /\ ~ Judged

\* A run that goes on has no summary; one that ended judged its own rows.
SummaryIsOwn ==
  summary # None =>
    /\ summary.run \in Nat /\ summary.run <= runs
    /\ pc # "idle" => summary.run < runs
    /\ pc = "idle" /\ summary.run = runs =>
         summary.safe = Safe(rows) /\ summary.status = Verdict(rows)

Inv ==
  /\ runs \in Nat
  /\ pc \in {"idle", "clone", "analyse", "repeat", "write"}
  /\ made \in [Repos -> Nat]
  /\ RowsHonest /\ RowsFinished /\ CurrentHonest /\ SummaryIsOwn
  /\ TodoOpen /\ DriftRecorded

LEMMA NoRows == DOMAIN (<< >>) = {}
OBVIOUS

\* The repository at hand is one of those to do.
LEMMA CurrentTodo ==
  ASSUME todo \subseteq Repos, todo # {}
  PROVE  Current \in todo
<1> DEFINE I == {i \in DOMAIN Manifest : Manifest[i] \in todo}
<1>1. DOMAIN Manifest \subseteq Nat
  BY ManifestAssumption
<1>2. I \subseteq Nat /\ I # {}
  BY <1>1 DEF Repos, ToSet
<1>3. PICK i \in I : \A j \in I : ~ (<<j, i>> \in OpToRel(<, Nat))
  <2> HIDE DEF I
  <2> QED
    BY <1>2, NatLessThanWellFounded, WFMin
<1>4. ASSUME NEW j \in I PROVE i <= j
  <2>1. i \in Nat /\ j \in Nat
    BY <1>2
  <2>2. <<j, i>> \in Nat \X Nat /\ <<j, i>>[1] = j /\ <<j, i>>[2] = i
    BY <2>1
  <2>3. ~ (j < i)
    BY <1>3, <2>2 DEF OpToRel
  <2> QED
    BY <2>1, <2>3
<1>5. Min(I) \in I
  BY <1>3, <1>4 DEF Min
<1> QED
  BY <1>5 DEF Current

\* Readings that differ for a reader differ for the comparison.
LEMMA DriftFails ==
  ASSUME NEW a, NEW b, Drift(a, b)
  PROVE  Determinism(a, b) = "FAIL"
<1>1. Projection(a) # Projection(b)
  <2>1. PICK c \in Categories : a[c].score # b[c].score \/ a[c].status # b[c].status
    BY DEF Drift
  <2>2. Projection(a)[c] # Projection(b)[c]
    BY <2>1 DEF Projection
  <2> QED
    BY <2>2
<1> QED
  BY <1>1 DEF Drift, Determinism

\* A step that leaves the run's rows, its drift and what is to do alone.
LEMMA SameDrift ==
  ASSUME TodoOpen, DriftRecorded,
         UNCHANGED <<runs, todo, rows, drifted, summary>>,
         pc # "write", pc # "idle", pc' # "idle",
         pc' \in {"analyse", "repeat", "write"} => todo # {}
  PROVE  TodoOpen' /\ DriftRecorded'
BY DEF TodoOpen, DriftRecorded

LEMMA InitInv == Init => Inv
<1> SUFFICES ASSUME Init PROVE Inv
    OBVIOUS
<1>1. RowsHonest /\ RowsFinished
  BY NoRows DEF Init, RowsHonest, RowsFinished
<1>2. CurrentHonest /\ SummaryIsOwn /\ TodoOpen /\ DriftRecorded
  BY DEF Init, CurrentHonest, SummaryIsOwn, TodoOpen, DriftRecorded
<1> QED
  BY <1>1, <1>2 DEF Init, Inv

LEMMA StepInv == Inv /\ [Next]_vars => Inv'
<1> SUFFICES ASSUME Inv, [Next]_vars PROVE Inv'
    OBVIOUS
<1> USE DEF Inv
<1>1. ASSUME NEW sel \in Selections, NEW again \in BOOLEAN, Start(sel, again)
      PROVE Inv'
  <2>1. runs' \in Nat /\ pc' = "clone" /\ made' \in [Repos -> Nat]
    BY <1>1 DEF Start
  <2>2. RowsHonest' /\ RowsFinished'
    BY <1>1, NoRows DEF Start, RowsHonest, RowsFinished
  <2>3. CurrentHonest'
    BY <2>1 DEF CurrentHonest
  <2>4. SummaryIsOwn'
    BY <1>1, <2>1 DEF Start, SummaryIsOwn
  <2>5. TodoOpen' /\ DriftRecorded'
    BY <1>1, <2>1, NoRows, ManifestAssumption DEF Start, TodoOpen, DriftRecorded
  <2> QED
    BY <2>1, <2>2, <2>3, <2>4, <2>5
<1>2. CASE CloneRefused
  <2>1. RowsHonest' /\ RowsFinished'
    BY <1>2 DEF CloneRefused, RowsHonest, RowsFinished, Honest
  <2>2. CurrentHonest'
    BY <1>2 DEF CloneRefused, CurrentHonest, Honest, Row
  <2>3. SummaryIsOwn'
    BY <1>2 DEF CloneRefused, SummaryIsOwn
  <2>4. TodoOpen' /\ DriftRecorded'
    BY <1>2, SameDrift DEF CloneRefused
  <2> QED
    BY <1>2, <2>1, <2>2, <2>3, <2>4 DEF CloneRefused
<1>3. ASSUME NEW left \in BOOLEAN, CloneFails(left) PROVE Inv'
  <2>1. RowsHonest' /\ RowsFinished'
    BY <1>3 DEF CloneFails, RowsHonest, RowsFinished, Honest
  <2>2. CurrentHonest'
    BY <1>3 DEF CloneFails, CurrentHonest, Honest, Row
  <2>3. SummaryIsOwn'
    BY <1>3 DEF CloneFails, SummaryIsOwn
  <2>4. made' \in [Repos -> Nat]
    BY <1>3 DEF CloneFails
  <2>5. TodoOpen' /\ DriftRecorded'
    BY <1>3, SameDrift DEF CloneFails
  <2> QED
    BY <1>3, <2>1, <2>2, <2>3, <2>4, <2>5 DEF CloneFails
<1>4. CASE CloneWorks
  <2>1. RowsHonest' /\ RowsFinished'
    BY <1>4 DEF CloneWorks, RowsHonest, RowsFinished, Honest
  <2>2. CurrentHonest'
    <3>1. Current \in Repos
      BY <1>4, CurrentTodo DEF CloneWorks, TodoOpen
    <3>2. made'[Current] = runs
      BY <1>4, <3>1 DEF CloneWorks, MayClone
    <3> QED
      BY <1>4, <3>2 DEF CloneWorks, CurrentHonest, Honest, Row
  <2>3. SummaryIsOwn'
    BY <1>4 DEF CloneWorks, SummaryIsOwn
  <2>4. made' \in [Repos -> Nat]
    BY <1>4 DEF CloneWorks
  <2>5. TodoOpen' /\ DriftRecorded'
    BY <1>4, SameDrift DEF CloneWorks
  <2> QED
    BY <1>4, <2>1, <2>2, <2>3, <2>4, <2>5 DEF CloneWorks
<1>5. ASSUME NEW a, Analyse(a) PROVE Inv'
  <2>1. RowsHonest' /\ RowsFinished'
    BY <1>5 DEF Analyse, RowsHonest, RowsFinished, Honest
  <2>2. CurrentHonest'
    BY <1>5 DEF Analyse, CurrentHonest, Honest, Row
  <2>3. SummaryIsOwn'
    BY <1>5 DEF Analyse, SummaryIsOwn
  <2>4. TodoOpen' /\ DriftRecorded'
    BY <1>5, SameDrift DEF Analyse, TodoOpen
  <2> QED
    BY <1>5, <2>1, <2>2, <2>3, <2>4 DEF Analyse
<1>6. ASSUME NEW a, Repeat(a) PROVE Inv'
  <2>1. RowsHonest' /\ RowsFinished'
    BY <1>6 DEF Repeat, RowsHonest, RowsFinished, Honest
  <2>2. CurrentHonest'
    BY <1>6 DEF Repeat, CurrentHonest, Honest, Row
  <2>3. SummaryIsOwn'
    BY <1>6 DEF Repeat, SummaryIsOwn
  <2>4. TodoOpen'
    BY <1>6 DEF Repeat, TodoOpen
  <2>5. DriftRecorded'
    <3>1. Current' = Current
      BY <1>6 DEF Repeat, Current
    <3>2. Drift(current.analysis, a) => current'.determinism = "FAIL"
      BY <1>6, DriftFails DEF Repeat, Row
    <3>3. ASSUME NEW r \in drifted'
          PROVE  r \in drifted \/ (r = Current /\ Drift(current.analysis, a))
      BY <1>6, <3>3 DEF Repeat
    <3> QED
      BY <1>6, <3>1, <3>2, <3>3 DEF Repeat, DriftRecorded
  <2> QED
    BY <1>6, <2>1, <2>2, <2>3, <2>4, <2>5 DEF Repeat
<1>7. CASE WriteResult
  <2>1. RowsHonest' /\ RowsFinished'
    BY <1>7 DEF WriteResult, RowsHonest, RowsFinished, Honest, CurrentHonest
  <2>2. CurrentHonest' /\ SummaryIsOwn'
    BY <1>7 DEF WriteResult, CurrentHonest, SummaryIsOwn
  <2>3. Current \in todo
    BY <1>7, CurrentTodo DEF WriteResult, TodoOpen
  <2>4. TodoOpen'
    BY <1>7, <2>3 DEF WriteResult, TodoOpen
  <2>5. DriftRecorded'
    BY <1>7, <2>3 DEF WriteResult, TodoOpen, DriftRecorded
  <2> QED
    BY <1>7, <2>1, <2>2, <2>4, <2>5 DEF WriteResult
<1>8. CASE BuildSummary
  <2>1. RowsHonest' /\ RowsFinished'
    BY <1>8 DEF BuildSummary, RowsHonest, RowsFinished, Honest
  <2>2. CurrentHonest'
    BY <1>8 DEF BuildSummary, CurrentHonest
  <2>3. SummaryIsOwn'
    <3>1. /\ summary'.run = runs /\ summary'.safe = Safe(rows)
          /\ summary'.status = Verdict(rows)
      BY <1>8 DEF BuildSummary
    <3>2. Safe(rows)' = Safe(rows) /\ Verdict(rows)' = Verdict(rows)
      BY <1>8 DEF BuildSummary
    <3> QED
      BY <1>8, <3>1, <3>2 DEF BuildSummary, SummaryIsOwn
  <2>4. TodoOpen' /\ DriftRecorded'
    BY <1>8 DEF BuildSummary, TodoOpen, DriftRecorded
  <2> QED
    BY <1>8, <2>1, <2>2, <2>3, <2>4 DEF BuildSummary
<1>9. CASE Dies
  <2>1. RowsHonest' /\ RowsFinished'
    BY <1>9 DEF Dies, RowsHonest, RowsFinished, Honest
  <2>2. CurrentHonest' /\ SummaryIsOwn'
    BY <1>9 DEF Dies, CurrentHonest, SummaryIsOwn
  <2>3. ~ Judged'
    BY <1>9 DEF Dies, Judged, SummaryIsOwn
  <2>4. TodoOpen' /\ DriftRecorded'
    BY <1>9, <2>3 DEF Dies, TodoOpen, DriftRecorded
  <2> QED
    BY <1>9, <2>1, <2>2, <2>4 DEF Dies
<1>10. CASE UNCHANGED vars
  <2>1. Current' = Current /\ Judged' = Judged
    BY <1>10 DEF vars, Current, Judged
  <2> QED
    BY <1>10, <2>1 DEF vars, RowsHonest, RowsFinished, CurrentHonest, SummaryIsOwn,
                      Honest, TodoOpen, DriftRecorded
<1> QED
  BY <1>1, <1>2, <1>3, <1>4, <1>5, <1>6, <1>7, <1>8, <1>9, <1>10 DEF Next

THEOREM Invariant == Spec => []Inv
BY InitInv, StepInv, PTL DEF Spec

(* The gate opens only for a corpus that this run cloned and read whole     *)
(* (run_matrix, clone_repository, build_summary).                           *)
THEOREM GateIsEarned == Spec => []SafeIsEarned
<1>1. Inv => SafeIsEarned
  <2> SUFFICES ASSUME Inv, Judged, summary.safe, NEW r \in Repos
               PROVE /\ r \in DOMAIN rows /\ rows[r].checkout = runs
                     /\ rows[r].analysis # None
      BY DEF SafeIsEarned
  <2>1. Safe(rows)
    BY DEF Inv, SummaryIsOwn, Judged
  <2>2. r \in DOMAIN rows /\ Honest(rows[r]) /\ rows[r].outcome # "cloned"
    BY <2>1 DEF Safe, Inv, RowsHonest, RowsFinished
  <2>3. rows[r].outcome # "clone_failed"
    BY <2>1, <2>2 DEF Safe, NotCloned
  <2>4. rows[r].outcome # "analysis_failed"
    BY <2>1, <2>2 DEF Safe, Broken
  <2> QED
    BY <2>2, <2>3, <2>4 DEF Honest
<1> QED
  BY <1>1, Invariant, PTL

(* A number of a category nobody could look at makes the run a bug          *)
(* (detect_outliers, build_summary).                                        *)
THEOREM InventionsAreBugs == Spec => []NoInventedNumbers
<1>1. Inv => NoInventedNumbers
  <2> SUFFICES ASSUME Inv, Judged, NEW r \in Analysed(rows), NEW c \in Categories,
                      rows[r].analysis[c].score # None,
                      \/ rows[r].analysis[c].coverage = "unavailable"
                      \/ c \in SourceCraft /\ ~rows[r].analysis[c].live
               PROVE summary.status = "FAIL - BUG"
      BY DEF NoInventedNumbers
  <2>1. summary.status = Verdict(rows)
    BY DEF Inv, SummaryIsOwn, Judged
  <2>2. Buggy(c, rows[r].analysis[c])
    BY DEF Buggy
  <2>3. Broken(rows)
    BY <2>2 DEF Broken
  <2> QED
    BY <2>1, <2>3 DEF Verdict
<1> QED
  BY <1>1, Invariant, PTL


(* Readings of one checkout that differ fail the run as a bug and close the *)
(* gate, whatever the other rows say (compare_repeat_analysis,              *)
(* build_summary).                                                          *)
THEOREM DriftIsABug == Spec => []DriftClosesGate
<1>1. Inv => DriftClosesGate
  <2> SUFFICES ASSUME Inv, Judged, NEW r \in drifted
               PROVE  summary.status = "FAIL - BUG" /\ ~summary.safe
      BY DEF DriftClosesGate
  <2>1. r \in DOMAIN rows /\ rows[r].determinism = "FAIL"
    BY DEF Inv, DriftRecorded, Judged
  <2>2. Broken(rows)
    BY <2>1 DEF Broken
  <2>3. summary.status = Verdict(rows) /\ summary.safe = Safe(rows)
    BY DEF Inv, SummaryIsOwn, Judged
  <2> QED
    BY <2>2, <2>3 DEF Verdict, Safe
<1> QED
  BY <1>1, Invariant, PTL
=============================================================================
