\* Three attempts, four pages of up to two rows, and a cap of five rows that
\* falls into a page; the call ends, so the last state has no successor.
CONSTANTS
  p = p
  q = q
  r = r
  RetryAttempts = 3
  MaxPages = 4
  MaxRows = 5
  PageRows = 2
  Tokens = {p, q, r}
  NoToken = NoToken
  OddToken = OddToken
SPECIFICATION Spec
CHECK_DEADLOCK FALSE
INVARIANTS CompleteIsEverything Bounded FollowsFreshTokens
