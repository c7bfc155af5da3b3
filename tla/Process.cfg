\* Output below, at and above the cap, descendants of both kinds, and a
\* tree kill that may fail.  Nothing is left to do once run has returned.
CONSTANTS
  Cap = 3
  Chunk = 2
  MaxOutput = 5
  Kinds = {"group", "session"}
  TreeKillFails = TRUE
SPECIFICATION FairSpec
CHECK_DEADLOCK FALSE
INVARIANTS HonestOutput TimeoutKeepsWhatWasRead
PROPERTIES ReturnsUnlessHeld
