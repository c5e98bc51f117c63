---------------------------- MODULE MCNewsBoard ----------------------------
(* Model values for the runs of NewsBoard. *)
EXTENDS NewsBoard
=============================================================================
