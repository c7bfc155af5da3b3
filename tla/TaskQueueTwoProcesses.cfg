\* Two worker processes, each with its own connection to the database file.
CONSTANTS
  Tasks = {1}
  r1 = r1
  r2 = r2
  w1 = w1
  w2 = w2
  c1 = c1
  c2 = c2
  None = None
  Runners = {r1, r2}
  Connections = {c1, c2}
  WorkerIds = {w1, w2}
  Conn <- TwoConnections
  WorkerId <- OwnIds
  Heartbeats = {}
  MaxAttempts = 2
  AttemptLimit = 3
  Lease = 2
  MaxClock = 5
  MaxFaults = 0
SPECIFICATION Spec
PROPERTIES CompletedIsFinal
