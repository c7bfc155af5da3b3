\* Every checkout, provider reply and score of the bounds, two providers or none
\* configured, and at most two sources or analyzers that fail.  An analysis
\* ends when its result is published.
CONSTANTS
  Profiles = {"public", "owner_extended"}
  Wirings <- MCWirings
  MaxFiles = 1
  MaxCommits = 2
  MaxGroups = 1
  RowCounts = {0, 5}
  Histories <- MCHistories
  Severities = {"critical", "high"}
  Shapes = {"whole", "odd", "paged"}
  MaxFaults = 2
  Scores <- MCScores
SPECIFICATION ASpec
CHECK_DEADLOCK FALSE
INVARIANTS EverySourceAccounted FinishedIsWhatWasShown PublicUsesNothingOwned NumericMeansEvidence MissingIsNotZero LossNeverPromotes FindingsCap
PROPERTIES EvidenceKept
