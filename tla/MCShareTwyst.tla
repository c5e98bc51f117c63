---------------------------- MODULE MCShareTwyst ----------------------------
(* A draft that is sent up to three times.                                 *)
EXTENDS ShareTwyst
=============================================================================
