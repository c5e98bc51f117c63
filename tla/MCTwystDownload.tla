-------------------------- MODULE MCTwystDownload --------------------------
(***************************************************************************)
(* Constants of the runs of TwystDownload.  Odd replies are archives of    *)
(* two photos, even ones movies of one frame.                              *)
(***************************************************************************)
EXTENDS TwystDownload

MCFrameCount == [r \in Replies |-> IF r % 2 = 1 THEN 2 ELSE 1]
MCMovies == {r \in Replies : r % 2 = 0}
Own == {"own"}
OwnAndFriend == {"own", "friend"}
=============================================================================
