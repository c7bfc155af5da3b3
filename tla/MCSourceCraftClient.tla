------------------------ MODULE MCSourceCraftClient ------------------------
(* A small instance of SourceCraftClient. *)
EXTENDS SourceCraftClient

(* The tokens are alike: none has a place of its own in the client. *)
CONSTANTS p, q, r
=============================================================================
