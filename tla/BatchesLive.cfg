\* Two calls that share a task, in two processes, and a worker that has none.
CONSTANTS
  r1 = r1
  r2 = r2
  r3 = r3
  w1 = w1
  w2 = w2
  c1 = c1
  c2 = c2
  None = None
  Runners = {r1, r2, r3}
  Connections = {c1, c2}
  WorkerIds = {w1, w2}
  Conn <- TwoConnections
  WorkerId <- OwnIds
  Batch <- Overlapping
  Tasks = {1, 2}
  Editions = {1, 2}
  Edition <- NewEdition
  Heartbeats = {r3}
  MaxAttempts = 2
  AttemptLimit = 6
  Lease = 2
  MaxClock = 2
  MaxFaults = 0
SPECIFICATION FairBatchSpec
CHECK_DEADLOCK FALSE
PROPERTIES BatchEnds
