----------------------------- MODULE SavedTwyst -----------------------------
(***************************************************************************)
(* The stored frames of one twyst, as TSavedTwystManager and the download  *)
(* worker build them.  A twyst's replies are numbered 1, 2, ... in the     *)
(* order in which the server lists them, and that number also stands for   *)
(* the reply's ImageName, which names its archive and its folder on disk.  *)
(* A frame is one TStillframeRegular: the reply it belongs to (the folder  *)
(* in its path), its place `order' and its `replyIndex', which counts from *)
(* 0.  `local' tells a frame that this device added itself from an equal   *)
(* one that a download added: two objects, whatever their attributes.      *)
(*                                                                         *)
(* The collected frames of a download (arrFrames) have the same form, with *)
(* the index in the array as `order'.                                      *)
(***************************************************************************)
EXTENDS Integers, FiniteSets

CONSTANTS MaxReplies,  \* the longest list of replies the server gives out
          FrameCount   \* how many frames the archive of each reply holds

ASSUME MaxRepliesAssumption == MaxReplies \in Nat \ {0}
ASSUME FrameCountAssumption == FrameCount \in [1..MaxReplies -> Nat \ {0}]

Replies == 1..MaxReplies

Frame == [reply : Replies, order : Nat, replyIndex : Nat, local : BOOLEAN]

FrameSet == {F \in SUBSET Frame : IsFiniteSet(F)}

\* arrZipNames: the distinct replies a set of frames comes from.
ZipNames(F) == {f.reply : f \in F}

FramesOf(F, r) == {f \in F : f.reply = r}

\* The position of f in F sorted by `order'.
SortsBefore(g, f) ==
    \/ g.order < f.order
    \/ g.order = f.order /\ ~g.local /\ f.local

Rank(f, F) == Cardinality({g \in F : SortsBefore(g, f)})

\* Mutant: reused frames keep the order they had.
ReusedFrames_OldOrder(F, r, n) ==
    {[f EXCEPT !.replyIndex = r - 1, !.local = FALSE] : f \in FramesOf(F, r)}

\* The worker's two ways to extend arrFrames (of length n) by reply r: the
\* frames it finds in the saved record, in their order, or the entries of
\* the archive it has fetched.  Both get the replyIndex of the list being
\* downloaded.
ReusedFrames(F, r, n) ==
    {[reply |-> r, order |-> n + Rank(f, FramesOf(F, r)),
      replyIndex |-> r - 1, local |-> FALSE] : f \in FramesOf(F, r)}

FetchedFrames(r, n) ==
    {[reply |-> r, order |-> n + k, replyIndex |-> r - 1, local |-> FALSE]
        : k \in 0 .. FrameCount[r] - 1}

\* addReplyToSavedTwyst: the last frame decides the new replyIndex (0 if
\* there is none, plus one); the new frames follow totalFrames.
LastFrames(F) == {f \in F : \A g \in F : g.order <= f.order}

NextReplyIndexes(F) ==
    IF F = {} THEN {1} ELSE {f.replyIndex + 1 : f \in LastFrames(F)}

LocalFrames(r, total, replyIndex) ==
    {[reply |-> r, order |-> total + k, replyIndex |-> replyIndex,
      local |-> TRUE] : k \in 0 .. FrameCount[r] - 1}

\* Orders 0, 1, ... , n-1, each once: what every reader of the record
\* relies on when it sorts by `order' and counts totalFrames.
WellNumbered(F, total) ==
    /\ {f.order : f \in F} = 0 .. total - 1
    /\ Cardinality(F) = total
=============================================================================
