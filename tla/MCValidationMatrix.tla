------------------------- MODULE MCValidationMatrix -------------------------
(* A corpus of five repositories: two small ones, a light one, two mature   *)
(* and large ones.  Per repository one or two readings: what the engine     *)
(* says without SonarQube, with it, or when it is wrong.                    *)
EXTENDS ValidationMatrix

CONSTANTS mvp, work, light, ruff, fast

Corpus == <<mvp, work, light, ruff, fast>>
WholeOrPart == {Repos, {ruff}}
Files == [r \in Repos |-> CASE r = mvp -> 1 [] r = light -> 3 [] OTHER -> 40]

Cat(score, status, coverage, confidence, live) ==
  [score |-> score, status |-> status, coverage |-> coverage,
   confidence |-> confidence, live |-> live, evidence |-> 3,
   components |-> {}, commits |-> None, sonarMissing |-> FALSE]

Unread == Cat(None, "skipped", "unavailable", "unknown", FALSE)
NoSonar == [Cat(None, "inconclusive", "partial", "low", FALSE)
              EXCEPT !.sonarMissing = TRUE, !.components = {"todo_debt"}]
Sonar(score) == [Cat(score, "pass", "complete", "high", TRUE)
                   EXCEPT !.components = {"complexity", "duplication"}]

Says(doc, activity, commits, code) ==
  [c \in Categories |->
    CASE c = "documentation" -> Cat(doc, "pass", "complete", "high", TRUE)
      [] c = "activity" -> [Cat(activity, "warn", "complete", "high", TRUE)
                              EXCEPT !.commits = commits]
      [] c = "code_health" -> code
      [] OTHER -> Unread]

Wrong(a, c, x) == [a EXCEPT ![c] = x]
Zero == Cat(0, "fail", "partial", "low", FALSE)

\* The first reading is what one expects of the repository; another one
\* scores higher than it should, invents a zero, or drifts a little.
Analyses ==
  [r \in Repos |->
    CASE r = mvp -> {Says(54, 7, 2, NoSonar), Says(99, 95, 2, Sonar(95))}
      [] r = work -> {Says(76, 4, 9, NoSonar),
                      Wrong(Says(76, 4, 9, NoSonar), "issues", Zero)}
      [] r = light -> {Says(82, 30, 8, NoSonar)}
      [] r = ruff -> {Says(86, 90, 300, NoSonar), Says(86, 90, 300, Sonar(90))}
      [] r = fast -> {Says(80, 88, 200, Sonar(40)), Says(80, 87, 200, Sonar(40))}]
=============================================================================
