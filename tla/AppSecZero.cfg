\* AppSec bodies without the array they should hold, and no failure at all.
CONSTANTS
  Profiles = {"public", "owner_extended"}
  Wirings <- MCWirings
  MaxFiles = 1
  MaxCommits = 2
  MaxGroups = 1
  RowCounts = {0, 1, 5}
  Histories <- MCHistories
  Severities = {"critical", "high"}
  Shapes = {"whole", "odd"}
  MaxFaults = 0
  Scores <- MCScores
SPECIFICATION ASpec
CHECK_DEADLOCK FALSE
INVARIANT
  ZeroMeansZero
