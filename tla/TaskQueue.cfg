\* Two workers with their own ids over one store.
CONSTANTS
  Tasks = {1, 2}
  r1 = r1
  r2 = r2
  w1 = w1
  w2 = w2
  c1 = c1
  c2 = c2
  None = None
  Runners = {r1, r2}
  Connections = {c1}
  WorkerIds = {w1, w2}
  Conn <- OneConnection
  WorkerId <- OwnIds
  Heartbeats = {r1}
  MaxAttempts = 2
  AttemptLimit = 3
  Lease = 2
  MaxClock = 5
  MaxFaults = 1
SPECIFICATION Spec
INVARIANTS AttemptsUnique OutcomeOfLastClaim RetryWithinBudget
PROPERTIES TerminalIsFinal ImplementsLedger
