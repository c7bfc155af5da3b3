------------------------ MODULE MCIntervalScheduler ------------------------
(* Small instances of IntervalScheduler. *)
EXTENDS IntervalScheduler

CONSTANTS a, b, c1
=============================================================================
