--------------------------- MODULE MCWorkerBatch ---------------------------
(* Small instances of WorkerBatch: the tasks of each call, who shares a    *)
(* process, who shares a worker id.                                        *)
EXTENDS WorkerBatch

CONSTANTS r1, r2, r3, w1, w2, c1, c2

OneConnection == [r \in Runners |-> c1]
TwoConnections == [r \in Runners |-> IF r = r1 THEN c1 ELSE c2]
OneId == [r \in Runners |-> w1]
OwnIds == [r \in Runners |-> IF r = r1 THEN w1 ELSE w2]
AllTasks == [r \in Runners |-> Tasks]
OwnTasks == [r \in Runners |-> IF r = r1 THEN {1, 3} ELSE {2}]
Overlapping ==
  [r \in Runners |-> IF r = r1 THEN {1, 2} ELSE IF r = r2 THEN {2} ELSE {}]
NewEdition == [r \in Runners |-> IF r = r1 THEN 1 ELSE 2]
=============================================================================
