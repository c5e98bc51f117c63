---------------------------- MODULE MCVideoTwyst ----------------------------
(* One twyst to reply to, or a new one; videos that are too short, and ones *)
(* longer than the maximum, which is two cells of the trim view.           *)
EXTENDS VideoTwyst

CONSTANTS t1, none

MCLengths == {1, 3, 5}
MCDrags == {-2, 2}
=============================================================================
