-------------------------- MODULE ValidationMatrix --------------------------
(* The validation lab: scripts/validation clones every repository of a     *)
(* manifest, runs the production pipeline on each checkout twice, judges    *)
(* the rows by outliers and by hypotheses about the corpus, and opens or    *)
(* closes a gate ("safe to proceed") in summary.json.  One run after        *)
(* another may use one checkout directory; a run may die at any point.      *)
(*                                                                          *)
(* A reading is what one pipeline run says of a repository: per category a  *)
(* score or None, a status, coverage, confidence, the number of pieces of   *)
(* evidence, whether the category's adapters were live.  The lab exists to  *)
(* catch a wrong engine, so Readings also holds what a correct one never    *)
(* says.  Reports, timings and the baseline comparison, that no decision    *)
(* reads, are left out.                                                     *)
EXTENDS Naturals, Sequences, FiniteSets, SequencesExt, TLC

CONSTANTS
  Manifest,     \* REPOSITORY_MANIFEST: the repositories, in order
  Mvp, Todo, Light,         \* the slugs of H1, H2, H3
  Mature, Large, Small,     \* the groups of H1 and H4
  Readings,     \* Readings[r]: what the pipeline may say of r
  SourceFiles,  \* SourceFiles[r]: source_file_count of its inventory
  Selections,   \* the --repo selections that are tried
  EnoughScores, \* the scores H9 wants: 6
  MaxRuns,      \* bound: the runs of the script
  None

VARIABLES
  runs,     \* the number of the run; 0 before the first
  pc,       \* where the run stands
  todo,     \* those still to do
  made,     \* made[r]: the run that made the checkout on disk, 0: none
  current,  \* the ValidationRunResult under construction, or None
  rows,     \* results: one row per repository done
  drifted,  \* whose two readings in this run scored differently (history)
  summary   \* summary.json: None or the verdict of a run

vars == <<runs, pc, todo, made, current, rows, drifted, summary>>

Repos == ToSet(Manifest)

\* validate_manifest: no repository is listed twice; a selection is a part of
\* the manifest.
ASSUME ManifestAssumption ==
  /\ Manifest \in Seq(Repos) /\ IsInjective(Manifest)
  /\ Selections \subseteq SUBSET Repos

\* The loop of run_matrix: the selected repositories in the manifest's order.
Current == Manifest[Min({i \in DOMAIN Manifest : Manifest[i] \in todo})]
SourceCraft == {"issues", "cicd", "security"}
Categories == {"documentation", "activity", "code_health"} \cup SourceCraft
Core == {"maintainability_debt", "complexity", "duplication", "hotspots_churn"}

------------------------------------------------------------------------------
(* Comparing the two readings of one checkout.                              *)

\* A bug: scores are not compared.
MutantProjection(a) == [c \in Categories |-> a[c].coverage]

\* What the comparison looks at.
Projection(a) ==
  [c \in Categories |-> [score |-> a[c].score, status |-> a[c].status,
                         coverage |-> a[c].coverage,
                         confidence |-> a[c].confidence,
                         components |-> a[c].components,
                         commits |-> a[c].commits]]

Determinism(first, second) ==
  CASE first = None \/ second = None -> "NOT_TESTABLE"
    [] Projection(first) = Projection(second) -> "PASS"
    [] OTHER -> "FAIL"

\* Whether a reader of the two readings sees two different assessments.
Drift(first, second) ==
  /\ first # None /\ second # None
  /\ \E c \in Categories : \/ first[c].score # second[c].score
                            \/ first[c].status # second[c].status

------------------------------------------------------------------------------
(* Judging rows.  ro is the function of rows, over the repositories done.   *)

Analysed(ro) == {r \in DOMAIN ro : ro[r].analysis # None}
Known(ro, r, c) == r \in Analysed(ro) /\ ro[r].analysis[c].score # None
ScoreOf(ro, r, c) == ro[r].analysis[c].score
Scores(ro, group, c) ==
  LET known == SelectSeq(Manifest, LAMBDA r : r \in group /\ Known(ro, r, c))
  IN [i \in DOMAIN known |-> ScoreOf(ro, known[i], c)]

\* A bug: a number of a category nobody could read passes.
MutantBuggy(c, x) == x.score # None /\ x.status = "inconclusive"

\* An outlier of class BUG.
Buggy(c, x) ==
  \/ x.score # None /\ (x.coverage = "unavailable" \/ x.status = "inconclusive")
  \/ /\ c = "code_health" /\ x.sonarMissing
     /\ x.coverage = "complete" \/ x.confidence = "high"
  \/ /\ c \in SourceCraft /\ ~x.live
     /\ x.score # None \/ x.status \notin {"skipped", "inconclusive", "error"}

\* An outlier of class CALIBRATION QUESTION.
Questionable(r, c, x) ==
  /\ x.score # None /\ x.score >= 90
  /\ \/ x.evidence = 0
     \/ c = "activity" /\ x.commits # None /\ x.commits <= 2
     \/ c = "code_health" /\ SourceFiles[r] <= 2

H1(ro) ==
  LET tested == {c \in {"documentation", "activity", "code_health"} :
                   Known(ro, Mvp, c) /\ Scores(ro, Mature, c) # <<>>}
      above == {c \in tested : \A r \in Mature :
                  Known(ro, r, c) => ScoreOf(ro, Mvp, c) > ScoreOf(ro, r, c)}
  IN CASE tested = {} -> "NOT_TESTABLE"
       [] Cardinality(above) >= 2 -> "ANOMALY"
       [] OTHER -> "PASS"

H2(ro) ==
  IF \A c \in {"documentation", "activity"} : Known(ro, Todo, c)
  THEN IF ScoreOf(ro, Todo, "documentation") >= ScoreOf(ro, Todo, "activity") + 10
       THEN "PASS" ELSE "ANOMALY"
  ELSE "NOT_TESTABLE"

H3(ro) ==
  IF Known(ro, Light, "documentation")
  THEN LET commits == ro[Light].analysis["activity"].commits
       IN IF /\ ScoreOf(ro, Light, "documentation") >= 70
             /\ SourceFiles[Light] <= 5
             /\ commits = None \/ commits <= 10
          THEN "PASS" ELSE "ANOMALY"
  ELSE "NOT_TESTABLE"

\* Twice the median of a sequence of numbers.
TwiceMedian(s) ==
  LET t == SortSeq(s, <)
      n == Len(s)
  IN t[(n + 1) \div 2] + t[n \div 2 + 1]

H4(ro) ==
  LET large == Scores(ro, Large, "code_health")
      small == Scores(ro, Small, "code_health")
  IN IF Len(large) < 2 \/ small = <<>>
     THEN IF \A r \in Large \cup Small :
               /\ r \in Analysed(ro)
               /\ ro[r].analysis["code_health"].score = None
               /\ ro[r].analysis["code_health"].coverage
                    \in {"partial", "unavailable"}
          THEN "PASS" ELSE "NOT_TESTABLE"
     ELSE IF 4 * TwiceMedian(large) >= 3 * TwiceMedian(small)
          THEN "PASS" ELSE "ANOMALY"

\* Row r has an inventory when it has a checkout; without one it counts 0.
H5(ro) ==
  LET tiny == {r \in DOMAIN ro : ro[r].outcome = "clone_failed"
                                   \/ SourceFiles[r] <= 2}
  IN CASE \E r \in tiny :
            /\ Known(ro, r, "code_health")
            /\ ro[r].analysis["code_health"].components \cap Core = {}
              -> "ANOMALY"
       [] tiny # {} -> "PASS"
       [] OTHER -> "NOT_TESTABLE"

\* H6, H7, H8: every category of SourceCraft says that nobody looked.
Entries(ro, cs) == {ro[r].analysis[c] : r \in Analysed(ro), c \in cs}
Confirmed(ok) == IF ok THEN "PASS" ELSE "ANOMALY"

H6(ro) ==
  Confirmed(/\ Analysed(ro) # {}
            /\ \A x \in Entries(ro, SourceCraft) :
                 x.score = None /\ x.coverage \in {"unavailable", "partial"})
H7(ro) ==
  Confirmed(/\ Analysed(ro) # {}
            /\ \A x \in Entries(ro, SourceCraft) :
                 /\ x.coverage \in {"unavailable", "partial"}
                 /\ x.confidence \in {"unknown", "low"})
H8(ro) ==
  Confirmed(/\ Analysed(ro) # {}
            /\ \A x \in Entries(ro, {"issues", "cicd"}) :
                 x.score = None /\ x.status \in {"skipped", "inconclusive"})

H9(ro) ==
  LET s == Scores(ro, Repos, "documentation")
      most == {v \in ToSet(s) :
                 10 * Cardinality({i \in DOMAIN s : s[i] = v}) >= 8 * Len(s)}
  IN CASE Len(s) < EnoughScores -> "NOT_TESTABLE"
       [] most # {} -> "ANOMALY"
       [] OTHER -> "PASS"

Anomalies(ro) ==
  "ANOMALY" \in {H1(ro), H2(ro), H3(ro), H4(ro), H5(ro),
                 H6(ro), H7(ro), H8(ro), H9(ro)}

\* actual_bugs or analysis failures.
Broken(ro) ==
  \/ \E r \in Analysed(ro), c \in Categories : Buggy(c, ro[r].analysis[c])
  \/ \E r \in DOMAIN ro : \/ ro[r].determinism = "FAIL"
                          \/ ro[r].outcome = "analysis_failed"

\* calibration_questions.
Questions(ro) ==
  \/ \E r \in Analysed(ro), c \in Categories :
       Questionable(r, c, ro[r].analysis[c])
  \/ Anomalies(ro)

NotCloned(ro) == {r \in DOMAIN ro : ro[r].outcome = "clone_failed"}

\* No adapter of SourceCraft is configured in the lab, which is one of the
\* limitations; so a run is never a plain PASS.
Verdict(ro) ==
  IF Broken(ro) THEN "FAIL - BUG"
  ELSE IF Questions(ro) THEN "FAIL - CALIBRATION"
  ELSE "PASS WITH EXTERNAL COVERAGE LIMITATIONS"

Safe(ro) ==
  /\ DOMAIN ro = Repos
  /\ ~Broken(ro) /\ ~Questions(ro) /\ NotCloned(ro) = {}

------------------------------------------------------------------------------
Init ==
  /\ runs = 0 /\ pc = "idle" /\ todo = {}
  /\ made = [r \in Repos |-> 0]
  /\ current = None /\ rows = <<>> /\ drifted = {} /\ summary = None

\* run_matrix begins, in a new checkout directory (the default) or in the
\* one of the last run (--checkout-root).
Start(sel, again) ==
  /\ pc = "idle" /\ runs < MaxRuns
  /\ runs' = runs + 1 /\ pc' = "clone"
  /\ todo' = sel
  /\ made' = IF again THEN made ELSE [r \in Repos |-> 0]
  /\ rows' = <<>> /\ drifted' = {}
  /\ UNCHANGED <<current, summary>>

\* A ValidationRunResult; checkout is the run that made its checkout.
Row(outcome, checkout, analysis, determinism) ==
  [outcome |-> outcome, checkout |-> checkout, analysis |-> analysis,
   determinism |-> determinism]

\* A bug: whatever lies at the destination is taken for the clone.
MutantMayClone(r) == TRUE

\* The destination must not exist.  (A directory keeps the run that made it.)
MayClone(r) == made[r] = 0

\* clone_repository: the destination exists.
CloneRefused ==
  /\ pc = "clone" /\ todo # {} /\ ~MayClone(Current)
  /\ current' = Row("clone_failed", 0, None, None)
  /\ pc' = "write"
  /\ UNCHANGED <<runs, todo, made, rows, drifted, summary>>

\* The clone fails or cannot name its HEAD; git that was killed, and git
\* that succeeded before, leave the directory behind.
CloneFails(left) ==
  /\ pc = "clone" /\ todo # {} /\ MayClone(Current)
  /\ made' = [made EXCEPT ![Current] = IF left /\ @ = 0 THEN runs ELSE @]
  /\ current' = Row("clone_failed", 0, None, None)
  /\ pc' = "write"
  /\ UNCHANGED <<runs, todo, rows, drifted, summary>>

CloneWorks ==
  /\ pc = "clone" /\ todo # {} /\ MayClone(Current)
  /\ made' = [made EXCEPT ![Current] = IF @ = 0 THEN runs ELSE @]
  /\ current' = Row("cloned", made'[Current], None, None)
  /\ pc' = "analyse"
  /\ UNCHANGED <<runs, todo, rows, drifted, summary>>

\* validate_checkout, the first time: a reading, or a timeout or an error.
Analyse(a) ==
  /\ pc = "analyse"
  /\ current' = Row(IF a = None THEN "analysis_failed" ELSE "analysed",
                    current.checkout, a, None)
  /\ pc' = "repeat"
  /\ UNCHANGED <<runs, todo, made, rows, drifted, summary>>

\* The second time: only the comparison is kept.
Repeat(a) ==
  /\ pc = "repeat"
  /\ current' = Row(current.outcome, current.checkout, current.analysis,
                    Determinism(current.analysis, a))
  /\ drifted' = drifted \cup
       {r \in {Current} : Drift(current.analysis, a)}
  /\ pc' = "write"
  /\ UNCHANGED <<runs, todo, made, rows, summary>>

\* write_result and results.append.
WriteResult ==
  /\ pc = "write"
  /\ rows' = [r \in DOMAIN rows \cup {Current} |->
                IF r = Current THEN current ELSE rows[r]]
  /\ todo' = todo \ {Current}
  /\ current' = None
  /\ pc' = "clone"
  /\ UNCHANGED <<runs, made, drifted, summary>>

BuildSummary ==
  /\ pc = "clone" /\ todo = {}
  /\ summary' = [run |-> runs, status |-> Verdict(rows), safe |-> Safe(rows)]
  /\ pc' = "idle"
  /\ UNCHANGED <<runs, todo, made, current, rows, drifted>>

\* The process dies, or main ends with status 2 on an error of the disk.
Dies ==
  /\ pc # "idle"
  /\ pc' = "idle" /\ current' = None
  /\ UNCHANGED <<runs, todo, made, rows, drifted, summary>>

Next ==
  \/ \E sel \in Selections, again \in BOOLEAN : Start(sel, again)
  \/ CloneRefused \/ CloneWorks
  \/ \E left \in BOOLEAN : CloneFails(left)
  \/ /\ todo # {}
     /\ \E a \in Readings[Current] \cup {None} : Analyse(a) \/ Repeat(a)
  \/ WriteResult \/ BuildSummary \/ Dies

Spec == Init /\ [][Next]_vars

------------------------------------------------------------------------------
\* The last run ended, and summary.json is its own.
Judged == pc = "idle" /\ summary # None /\ summary.run = runs

(* The gate opens only for a whole corpus: every repository of the manifest *)
(* was cloned by this very run, never found on disk from one that died, and *)
(* a reading of it was taken.                                               *)
SafeIsEarned ==
  Judged /\ summary.safe =>
    \A r \in Repos : /\ r \in DOMAIN rows
                     /\ rows[r].checkout = runs
                     /\ rows[r].analysis # None

(* Two analyses of one checkout at one moment that score differently are a  *)
(* bug of the engine: whatever the other rows say, the run fails and the    *)
(* gate stays closed.                                                       *)
DriftClosesGate ==
  Judged /\ drifted # {} => summary.status = "FAIL - BUG" /\ ~summary.safe

(* A category nobody could look at never has a number that goes unnoticed:  *)
(* one of SourceCraft, which the lab does not reach, or one that says itself *)
(* that nothing covers it, makes the run fail as a bug.                     *)
NoInventedNumbers ==
  Judged => \A r \in Analysed(rows), c \in Categories :
    LET x == rows[r].analysis[c]
    IN /\ x.score # None
       /\ x.coverage = "unavailable" \/ (c \in SourceCraft /\ ~x.live)
       => summary.status = "FAIL - BUG"

(* The readiness report says that "Validation now checks deterministic      *)
(* repeat projections"; the gate also opens when the second analysis of a   *)
(* repository failed and nothing was compared.                              *)
SafeMeansRepeated ==
  Judged /\ summary.safe => \A r \in Repos : rows[r].determinism = "PASS"
=============================================================================
