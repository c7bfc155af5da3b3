\* Three jobs of one process, two requests that use one key (safety only).
CONSTANTS
  q1 = q1
  q2 = q2
  q3 = q3
  k1 = k1
  k2 = k2
  x1 = x1
  x2 = x2
  s1 = s1
  s2 = s2
  j1 = j1
  j2 = j2
  j3 = j3
  p1 = p1
  None = None
  Requests = {q2, q3}
  Repositories = {x1, x2}
  Snapshots = {s1, s2}
  Keys = {k1, k2}
  RepositoryOf <- Repository
  SnapshotOf <- Snapshot
  KeyOf <- Key
  Extended = {}
  Partial = {q2}
  Jobs = {j1, j2, j3}
  Processes = {p1}
  Home <- OneProcess
  Digests = {1, 2}
  MaxFaults = 1
SPECIFICATION Spec
SYMMETRY JobSymmetry
INVARIANTS ReturnedIsStored ConflictsAreRefused QueuedHasJob
PROPERTIES ResultIsFinal
