\* Two calls of one process that share a task, and a worker without a batch.
CONSTANTS
  r1 = r1
  r2 = r2
  r3 = r3
  w1 = w1
  w2 = w2
  c1 = c1
  c2 = c2
  None = None
  Runners = {r1, r2, r3}
  Connections = {c1}
  WorkerIds = {w1}
  Conn <- OneConnection
  WorkerId <- OneId
  Batch <- Overlapping
  Tasks = {1, 2}
  Editions = {1, 2}
  Edition <- NewEdition
  Heartbeats = {r3}
  MaxAttempts = 2
  AttemptLimit = 6
  Lease = 2
  MaxClock = 4
  MaxFaults = 1
SPECIFICATION FairBatchSpec
CHECK_DEADLOCK FALSE
INVARIANTS GotIsStored OnlyRetriesFail
PROPERTIES BatchEnds
