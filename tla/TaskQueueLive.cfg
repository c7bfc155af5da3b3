\* Two workers with their own ids over one store, fair: the queue drains.
CONSTANTS
  Tasks = {1, 2}
  r1 = r1
  r2 = r2
  w1 = w1
  w2 = w2
  c1 = c1
  c2 = c2
  None = None
  Runners = {r1, r2}
  Connections = {c1}
  WorkerIds = {w1, w2}
  Conn <- OneConnection
  WorkerId <- OwnIds
  Heartbeats = {}
  MaxAttempts = 2
  AttemptLimit = 2
  Lease = 1
  MaxClock = 14
  MaxFaults = 1
SPECIFICATION FairSpec
PROPERTIES EventuallySettled
