-------------------------- MODULE MCProcessRunner --------------------------
(* Small instances of ProcessRunner. *)
EXTENDS ProcessRunner
=============================================================================
