\* Two calls of one process, with tasks of their own.
CONSTANTS
  r1 = r1
  r2 = r2
  r3 = r3
  w1 = w1
  w2 = w2
  c1 = c1
  c2 = c2
  None = None
  Runners = {r1, r2}
  Connections = {c1}
  WorkerIds = {w1}
  Conn <- OneConnection
  WorkerId <- OneId
  Batch <- OwnTasks
  Tasks = {1, 2, 3}
  Editions = {1, 2}
  Edition <- NewEdition
  Heartbeats = {}
  MaxAttempts = 2
  AttemptLimit = 6
  Lease = 2
  MaxClock = 2
  MaxFaults = 0
SPECIFICATION BatchSpec
CHECK_DEADLOCK FALSE
INVARIANTS OutcomesReachTheirBatch
