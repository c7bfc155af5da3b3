----------------------------- MODULE Assessment -----------------------------
(***************************************************************************)
(* What becomes of the facts: the six analyzers, the executor's answers,   *)
(* the score engine, and what the orchestrator publishes.                  *)
(*                                                                         *)
(* A category's score is an integer from 0 to 100, taken from a member of  *)
(* Scores where its formula is left out.  Its coverage is counted in       *)
(* thirds and its confidence in percent, so that weight * coverage *       *)
(* confidence is an integer of which 30000 is the whole.                   *)
(***************************************************************************)
EXTENDS Collection

Categories ==
  {"documentation", "activity", "issues", "cicd", "security", "code_health"}
FactGroupOf == [c \in Categories |-> IF c = "activity" THEN "git" ELSE c]
(* Weights of DEFAULT_REPO_HEALTH_WEIGHTS in percent; their sum is 100. *)
Weight ==
  [c \in Categories |-> IF c \in {"security", "code_health"} THEN 20 ELSE 15]

CONSTANT Scores  \* bound: what the formulas of the categories may yield

ASSUME AssessmentAssumption == Scores \subseteq [Categories -> 0..100]

VARIABLES
  stage,    \* "collecting", "executed", "published", or "raised" if nothing is
  results,  \* the CategoryResult of each category
  score     \* what ScoreEngineV1.score has computed

allVars == <<vars, stage, results, score>>

NoScore == -1
Whole == 3
Result(status, value, coverage, confidence) ==
  [status |-> status, value |-> value, coverage |-> coverage,
   confidence |-> confidence, critical |-> 0, high |-> 0]
Missing(status) == Result(status, NoScore, 0, 0)
(* "judged" is pass, warn or fail. *)
Judged(value, coverage, confidence) == Result("judged", value, coverage, confidence)

(***************************************************************************)
(* Mutated forms of the definitions below, one plausible slip each.        *)
(***************************************************************************)
MutantSonarUsable(o) == o # NoKeys
MutantCap(R) ==
  IF R["security"].critical > 0 /\ R["security"].confidence = 100 THEN 40
  ELSE IF R["security"].high > 0 THEN 60 ELSE 100
MutantTotalWeight(C) == 100

(***************************************************************************)
(* The analyzers, over the observations o of their fact group; v is what   *)
(* the formula yields.  A category without a coverage total of its own has *)
(* its observations counted as covered and as total, whatever the          *)
(* collector said of them.                                                 *)
(***************************************************************************)
Documentation(o, v) ==
  IF o.files = 0 THEN Judged(NoScore, Whole, 100)
  ELSE Judged(v, Whole, (100 * o.files) \div o.discovered)

(* Without commits there is no number, yet a status as bad as the worst. *)
Activity(o, v) ==
  IF "commits" \notin DOMAIN o THEN Judged(NoScore, Whole, 100)
  ELSE Judged(IF o.commits > 0 THEN v ELSE NoScore, Whole, o.confidence)

(* The components that can be computed; below two of them, or without      *)
(* either of resolution and backlog, the score is the baseline 100. *)
EnoughIssues == 5
Components(o) ==
  IF o.sample < EnoughIssues THEN {}
  ELSE (IF o.comments /\ o.coverage >= 80 THEN o.shown ELSE o.shown \ {"answered"})
IsRich(o) ==
  Cardinality(Components(o)) >= 2 /\ Components(o) \cap {"matured", "aged"} # {}
Issues(o, v) ==
  IF o = NoKeys THEN Missing("inconclusive")
  ELSE Judged(IF IsRich(o) THEN v ELSE 100, Whole, o.coverage)

Cicd(o, v) ==
  IF ~o.decisive THEN Missing("inconclusive") ELSE Judged(v, Whole, o.coverage)

(* A partial scan counts as wholly covered. *)
Penalty(o) == 45 * o.critical + 25 * o.high + 10 * o.medium + 3 * o.low
Security(o, v) ==
  IF facts.scan \in {"no_scan", "failed"} \/ "critical" \notin DOMAIN o
  THEN Missing("inconclusive")
  ELSE [Judged(Larger(0, 100 - Penalty(o)), Whole, o.coverage)
        EXCEPT !.critical = o.critical, !.high = o.high]

Engines == {"sonarqube", "git-sizer", "git.todo-history"}
IsAvailable(s) == facts.status[<<s, "">>] = "available"
SonarUsable(o) == "quality" \in DOMAIN o /\ IsAvailable("sonarqube")
CodeHealth(o, v) ==
  LET covered == Cardinality({s \in Engines : IsAvailable(s)})
      partial == covered < Whole \/ "code_health" \in facts.glims
  IN IF SonarUsable(o) THEN Judged(v, covered, IF partial THEN 65 ELSE 100)
     ELSE Result("inconclusive", NoScore, covered, 20)

Evaluation(c, o, v) ==
  CASE c = "documentation" -> Documentation(o, v)
    [] c = "activity" -> Activity(o, v)
    [] c = "issues" -> Issues(o, v)
    [] c = "cicd" -> Cicd(o, v)
    [] c = "security" -> Security(o, v)
    [] c = "code_health" -> CodeHealth(o, v)
(* Analyzer.analyze. *)
Analyzed(c, v) ==
  IF FactGroupOf[c] \notin facts.avail THEN Missing("skipped")
  ELSE Evaluation(c, facts.obs[FactGroupOf[c]], v)

(***************************************************************************)
(* ScoreEngineV1 over the results R of the categories.                     *)
(***************************************************************************)
Numeric(R) == {c \in Categories : R[c].status = "judged" /\ R[c].value # NoScore}
(* The sum over the categories, those without a number counting nothing.   *)
SumOf(f) ==
  f["documentation"] + f["activity"] + f["issues"] + f["cicd"] + f["security"]
    + f["code_health"]
Quality(R) ==
  LET C == Numeric(R)
  IN SumOf([c \in Categories |->
              IF c \in C THEN Weight[c] * R[c].coverage * R[c].confidence ELSE 0])
TotalWeight(C) == SumOf([c \in Categories |-> IF c \in C THEN Weight[c] ELSE 0])
Points(R) ==
  LET C == Numeric(R)
  IN SumOf([c \in Categories |-> IF c \in C THEN Weight[c] * R[c].value ELSE 0])

(* One more mutated form: K over the categories that have a number. *)
MutantPresentation(R) ==
  LET n == Cardinality(Numeric(R))
      w == TotalWeight(Numeric(R))
  IN IF n >= 5 /\ Quality(R) * 100 >= 22500 * w THEN "SCORE"
     ELSE IF n >= 4 /\ Quality(R) * 100 >= 15000 * w THEN "PROVISIONAL_SCORE"
     ELSE "INSUFFICIENT_DATA"
(* Five categories and K of 0.75, four and 0.50. *)
Presentation(R) ==
  LET n == Cardinality(Numeric(R))
  IN IF n >= 5 /\ Quality(R) >= 22500 THEN "SCORE"
     ELSE IF n >= 4 /\ Quality(R) >= 15000 THEN "PROVISIONAL_SCORE"
     ELSE "INSUFFICIENT_DATA"

(* 100 stands for no cap. *)
Cap(R) ==
  IF R["security"].critical > 0 THEN 40
  ELSE IF R["security"].high > 0 THEN 60 ELSE 100
(* The overall score is points / weight; "raw" is the one before the cap. *)
ScoreOf(R) ==
  LET w == TotalWeight(Numeric(R))
      capped == Points(R) > Cap(R) * w
      presentation == Presentation(R)
  IN [presentation |-> presentation,
      points |-> IF capped THEN Cap(R) * w ELSE Points(R),
      raw |-> Points(R),
      weight |-> w,
      verdict |->
        CASE presentation = "INSUFFICIENT_DATA" -> "inconclusive"
          [] presentation # "INSUFFICIENT_DATA" /\ Cap(R) = 40 -> "fail"
          [] OTHER ->
               IF presentation = "SCORE" /\ ~capped /\ Numeric(R) = Categories
               THEN "pass" ELSE "warn"]

(***************************************************************************)
(* The orchestrator.                                                       *)
(***************************************************************************)
AInit ==
  /\ Init
  /\ stage = "collecting"
  /\ results = [c \in Categories |-> Missing("absent")]
  /\ score = ScoreOf(results)

CollectOne == Collect /\ UNCHANGED <<stage, results, score>>

(* Tasks of categories that were not requested do not exist, and those the *)
(* executor answers with a failure have an ERROR result. *)
ExecuteMany ==
  /\ stage = "collecting" /\ ~Collecting
  /\ \E lost \in SUBSET Categories, status \in {"error", "absent"}, v \in Scores :
       /\ Cardinality(lost) <= MaxFaults - faults
       /\ results' =
            [c \in Categories |->
               IF c \in lost THEN Missing(status)
               ELSE Analyzed(c, v[c])]
  /\ stage' = "executed"
  /\ UNCHANGED <<vars, score>>

(* _commit_result: the engine gives its result no assessment profile, so   *)
(* that results of another than "public" do not fit into it and nothing is *)
(* published. *)
CommitResult ==
  /\ stage = "executed"
  /\ score' = ScoreOf(results)
  /\ stage' = IF profile = "public" THEN "published" ELSE "raised"
  /\ UNCHANGED <<vars, results>>

ANext == CollectOne \/ ExecuteMany \/ CommitResult

ASpec == AInit /\ [][ANext]_allVars

(***************************************************************************)
(* Properties.                                                             *)
(***************************************************************************)
HasScore == score.presentation # "INSUFFICIENT_DATA"
Scored == stage \in {"published", "raised"}

(* A PUBLIC assessment uses nothing of the owner's: where SourceCraft is   *)
(* configured no fact, no source and no number of a result comes from it   *)
(* (collect, _profile_excluded). *)
PublicUsesNothingOwned ==
  Scored /\ profile = "public" =>
    /\ \A s \in Owned : facts.obs[GroupOf[s]] = NoKeys
    /\ "sourcecraft" \in wired => UsedSources \cap Owned = {}
    /\ Numeric(results) \cap {"issues", "cicd", "security"} = {}

(* A category has a number only if the source it is about has measured     *)
(* something in this analysis: what is left of other sources in the same   *)
(* block of facts does not make one (the evaluate methods; Code Health     *)
(* needs SonarQube, Activity PyDriller). *)
CoreOf ==
  [c \in Categories |->
     CASE c = "documentation" -> "vale"
       [] c = "activity" -> "pydriller"
       [] c = "code_health" -> "sonarqube"
       [] c = "security" -> "sourcecraft.appsec"
       [] c = "cicd" -> "sourcecraft.cicd"
       [] c = "issues" -> "sourcecraft.issues"]
NumericMeansEvidence == \A c \in Numeric(results) : CoreOf[c] \notin silent

(* A missing category is not a zero: the score lies between the lowest and *)
(* the highest category that has one, or under a cap that a finding        *)
(* justifies (ScoreEngineV1.score). *)
MissingIsNotZero ==
  Scored /\ HasScore =>
    /\ \E c \in Numeric(results) : score.raw >= results[c].value * score.weight
    /\ \E c \in Numeric(results) : score.raw <= results[c].value * score.weight
    /\ score.points # score.raw =>
         results["security"].critical + results["security"].high > 0

(* Losing a category never promotes the presentation of the score: to have *)
(* less evidence is never the way from INSUFFICIENT_DATA to a score        *)
(* (coverage K of ScoreEngineV1.score is weighted over all six). *)
Rank ==
  [INSUFFICIENT_DATA |-> 0, PROVISIONAL_SCORE |-> 1, SCORE |-> 2]
LossNeverPromotes ==
  \A c \in Numeric(results) :
    Rank[Presentation([results EXCEPT ![c] = Missing("error")])]
      <= Rank[Presentation(results)]

(* A critical finding that AppSec has read, in a partial scan as well,     *)
(* caps the score at 40 and fails it, a high one caps it at 60; only an    *)
(* analyzer that was lost forgets it (from _payload_rows to               *)
(* _security_cap). *)
FindingsCap ==
  Scored /\ HasScore /\ results["security"].status = "judged" =>
    /\ facts.obs["security"].critical > 0 =>
         score.points <= 40 * score.weight /\ score.verdict = "fail"
    /\ facts.obs["security"].high > 0 => score.points <= 60 * score.weight
=============================================================================
