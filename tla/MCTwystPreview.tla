--------------------------- MODULE MCTwystPreview ---------------------------
(* One preview of a friend's twyst: a movie and a photo.                   *)
EXTENDS TwystPreview

CONSTANTS t1, p1

MCOf == [p \in Previews |-> t1]
MCFriends == [p \in Previews |-> "friend"]
MCMovies == {0}
=============================================================================
