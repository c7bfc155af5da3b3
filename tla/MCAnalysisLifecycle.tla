------------------------ MODULE MCAnalysisLifecycle ------------------------
(* Small instances of AnalysisLifecycle: which requests share a key, a     *)
(* repository, a snapshot.  All jobs share a process.                      *)
EXTENDS AnalysisLifecycle, TLC

CONSTANTS q1, q2, q3, k1, k2, x1, x2, s1, s2, j1, j2, j3, p1

(* q1 and q2 name different snapshots of one repository, q2 and q3 use one *)
(* key, q1 and q3 have nothing in common. *)
Repository == [q \in Requests |-> IF q = q3 THEN x2 ELSE x1]
Snapshot == [q \in Requests |-> IF q = q2 THEN s2 ELSE s1]
Key == [q \in Requests |-> IF q = q1 THEN k1 ELSE k2]
OneProcess == [j \in Jobs |-> p1]
JobSymmetry == Permutations(Jobs)
=============================================================================
