\* Two runs of the lab over one corpus, the second perhaps after a crash and
\* in the same checkout directory.
\* The script ends after its last run.
CONSTANTS
  mvp = mvp
  work = work
  light = light
  ruff = ruff
  fast = fast
  None = None
  Manifest <- Corpus
  Mvp = mvp
  Todo = work
  Light = light
  Mature = {ruff, fast}
  Large = {ruff, fast}
  Small = {mvp, work}
  Readings <- Analyses
  SourceFiles <- Files
  Selections <- WholeOrPart
  EnoughScores = 4
  MaxRuns = 2
SPECIFICATION Spec
INVARIANTS SafeIsEarned DriftClosesGate NoInventedNumbers
CHECK_DEADLOCK FALSE
