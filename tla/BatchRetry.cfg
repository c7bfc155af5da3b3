\* One call that has the queue to itself, and a transient failure.
CONSTANTS
  r1 = r1
  r2 = r2
  r3 = r3
  w1 = w1
  w2 = w2
  c1 = c1
  c2 = c2
  None = None
  Runners = {r1}
  Connections = {c1}
  WorkerIds = {w1}
  Conn <- OneConnection
  WorkerId <- OneId
  Batch <- AllTasks
  Tasks = {1, 2}
  Editions = {1, 2}
  Edition <- NewEdition
  Heartbeats = {}
  MaxAttempts = 2
  AttemptLimit = 6
  Lease = 3
  MaxClock = 4
  MaxFaults = 0
SPECIFICATION BatchSpec
CHECK_DEADLOCK FALSE
INVARIANTS NothingLeftBehind
