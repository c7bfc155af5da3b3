-------------------------- MODULE MCLocalExecutor --------------------------
(* A small instance of LocalExecutor: which calls share a task and a batch. *)
EXTENDS LocalExecutor

CONSTANTS t1, t2, t3, b1, b2

(* The second batch repeats a task of the first one, as a duplicate of an  *)
(* analysis does. *)
SharedTask == [c \in Calls |-> IF c \in {1, 4} THEN t1
                               ELSE IF c = 2 THEN t2 ELSE t3]
TwoBatches == [c \in Calls |-> IF c \in {4} THEN b2 ELSE b1]
=============================================================================
