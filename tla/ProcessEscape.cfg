\* A descendant in a session of its own keeps the pipes open.
CONSTANTS
  Cap = 3
  Chunk = 2
  MaxOutput = 2
  Kinds = {"session"}
  TreeKillFails = FALSE
SPECIFICATION FairSpec
CHECK_DEADLOCK FALSE
PROPERTIES HardTimeout
