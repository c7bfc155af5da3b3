---------------------------- MODULE MCTaskQueue ----------------------------
(* Small instances of TaskQueue: who shares a connection, who shares an id. *)
EXTENDS TaskQueue

CONSTANTS r1, r2, w1, w2, c1, c2

OneConnection == [r \in Runners |-> c1]
TwoConnections == [r \in Runners |-> IF r = r1 THEN c1 ELSE c2]
OwnIds == [r \in Runners |-> IF r = r1 THEN w1 ELSE w2]
DefaultId == [r \in Runners |-> w1]
=============================================================================
