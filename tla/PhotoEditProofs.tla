-------------------------- MODULE PhotoEditProofs --------------------------
(***************************************************************************)
(* Theorems about PhotoEdit, for any number of photos, filters and changes *)
(* and any blocks on the main queue.                                       *)
(***************************************************************************)
EXTENDS PhotoEdit, WellFoundedInduction, SequenceTheorems, TLAPS

USE MaxPhotosAssumption, FiltersAssumption, KindsAssumption, BoundsAssumption

-----------------------------------------------------------------------------
(* Induction, sequences and the loop of deleteFrames:                      *)

\* Induction over the natural numbers, for a set of them.
LEMMA SetInduction ==
    ASSUME NEW T \in SUBSET Nat, 0 \in T, \A n \in T : n + 1 \in T
    PROVE  T = Nat
<1> DEFINE less == {p \in Nat \X Nat : p[1] < p[2]}
<1> SUFFICES ASSUME Nat \ T # {}
             PROVE  FALSE
    OBVIOUS
<1>1. IsWellFoundedOn(less, Nat)
    BY NatLessThanWellFounded DEF OpToRel
<1>2. PICK x \in Nat \ T : \A y \in Nat \ T : <<y, x>> \notin less
    <2> HIDE DEF less
    <2> QED
        BY <1>1, WFMin
<1>3. x # 0 /\ x - 1 \in Nat /\ x - 1 < x /\ (x - 1) + 1 = x
    OBVIOUS
<1>4. <<x - 1, x>> \in less
    BY <1>3
<1>5. x - 1 \in T
    BY <1>2, <1>3, <1>4
<1> QED
    BY <1>3, <1>5

\* Sequences of a bounded length.
LEMMA Bounded ==
    ASSUME NEW S, NEW n \in Nat, NEW s
    PROVE  s \in BoundedSeq(S, n) <=> s \in Seq(S) /\ Len(s) <= n
<1>1. ASSUME s \in BoundedSeq(S, n)
      PROVE  s \in Seq(S) /\ Len(s) <= n
    <2>1. PICK k \in 0 .. n : s \in [1 .. k -> S]
        BY <1>1 DEF BoundedSeq, SeqOf
    <2> QED
        BY <2>1
<1>2. ASSUME s \in Seq(S), Len(s) <= n
      PROVE  s \in BoundedSeq(S, n)
    <2>1. Len(s) \in 0 .. n /\ s \in [1 .. Len(s) -> S]
        BY <1>2
    <2> QED
        BY <2>1 DEF BoundedSeq, SeqOf
<1> QED
    BY <1>1, <1>2

\* What is left when one element of a sequence is removed.
LEMMA RemoveAtValue ==
    ASSUME NEW S, NEW s \in Seq(S), NEW i \in DOMAIN s
    PROVE  /\ RemoveAt(s, i) \in Seq(S) /\ Len(RemoveAt(s, i)) = Len(s) - 1
           /\ \A j \in 1 .. Len(s) - 1 :
                  RemoveAt(s, i)[j] = IF j < i THEN s[j] ELSE s[j + 1]
<1> DEFINE left == SubSeq(s, 1, i - 1)
           right == SubSeq(s, i + 1, Len(s))
<1>1. i \in 1 .. Len(s) /\ Len(s) \in Nat
    OBVIOUS
<1>2. /\ left \in Seq(S) /\ Len(left) = i - 1
      /\ \A j \in 1 .. i - 1 : left[j] = s[j]
    BY <1>1
<1>3. /\ right \in Seq(S) /\ Len(right) = Len(s) - i
      /\ \A j \in 1 .. Len(s) - i : right[j] = s[j + i]
    BY <1>1
<1>4. RemoveAt(s, i) = left \o right
    BY DEF RemoveAt
<1> HIDE DEF left, right
<1>5. /\ left \o right \in Seq(S) /\ Len(left \o right) = Len(s) - 1
      /\ \A j \in 1 .. Len(s) - 1 :
            (left \o right)[j] = IF j < i THEN left[j] ELSE right[j - (i - 1)]
    BY <1>1, <1>2, <1>3, ConcatProperties
<1>6. ASSUME NEW j \in 1 .. Len(s) - 1
      PROVE  (left \o right)[j] = IF j < i THEN s[j] ELSE s[j + 1]
    <2>1. CASE j < i
        BY <1>1, <1>2, <1>5, <2>1
    <2>2. CASE ~(j < i)
        <3>1. j - (i - 1) \in 1 .. Len(s) - i /\ (j - (i - 1)) + i = j + 1
            BY <1>1, <2>2
        <3> QED
            BY <1>3, <1>5, <2>2, <3>1
    <2> QED
        BY <2>1, <2>2
<1> QED
    BY <1>4, <1>5, <1>6

\* One turn of the loop of deleteFrames:.
Turn(m, I, n, f, i) ==
    IF i > n THEN m
    ELSE IF i \in I THEN RemoveCurrentImage(f[i + 1], i)
    ELSE f[i + 1]

\* The loop ends: a function with a value for each of its turns exists.
LEMMA LoopExists ==
    ASSUME NEW m, NEW I, NEW n \in Nat
    PROVE  \E f : f = [i \in 1 .. n + 1 |-> Turn(m, I, n, f, i)]
<1> DEFINE IsLoop(f, k) ==
               f = [i \in n + 1 - k .. n + 1 |-> Turn(m, I, n, f, i)]
           T == {k \in Nat : k <= n => \E f : IsLoop(f, k)}
<1>1. 0 \in T
    <2> DEFINE f == [i \in n + 1 .. n + 1 |-> m]
    <2>1. \A i \in n + 1 .. n + 1 : Turn(m, I, n, f, i) = m
        BY DEF Turn
    <2> HIDE DEF f
    <2>2. IsLoop(f, 0)
        BY <2>1 DEF f
    <2> HIDE DEF IsLoop
    <2> QED
        BY <2>2
<1>2. ASSUME NEW k \in T
      PROVE  k + 1 \in T
    <2> SUFFICES ASSUME k + 1 <= n
                 PROVE  \E g : IsLoop(g, k + 1)
        OBVIOUS
    <2>1. PICK f : IsLoop(f, k)
        <3>1. k <= n /\ \E f : IsLoop(f, k)
            BY DEF T
        <3> QED
            BY <3>1
    <2> DEFINE l == n + 1 - (k + 1)
               g == [i \in l .. n + 1 |->
                        IF i = l THEN Turn(m, I, n, f, l) ELSE f[i]]
    <2>2. l \in Nat /\ l <= n /\ l + 1 = n + 1 - k
        OBVIOUS
    <2>3. \A i \in l .. n + 1 : i # l => i \in n + 1 - k .. n + 1
        BY <2>2
    <2> HIDE DEF l
    <2>4. ASSUME NEW i \in l .. n + 1
          PROVE  g[i] = Turn(m, I, n, g, i)
        <3>1. CASE i > n
            <4>1. i # l /\ i \in n + 1 - k .. n + 1
                BY <2>2, <2>3, <3>1
            <4>2. f[i] = Turn(m, I, n, f, i)
                BY <2>1, <4>1
            <4> QED
                BY <3>1, <4>1, <4>2 DEF Turn
        <3>2. CASE ~(i > n)
            <4>1. i + 1 \in l .. n + 1 /\ i + 1 # l
                BY <2>2, <3>2
            <4>2. g[i + 1] = f[i + 1]
                BY <4>1
            <4>3. Turn(m, I, n, g, i) = Turn(m, I, n, f, i)
                BY <4>2 DEF Turn
            <4>4. i # l => f[i] = Turn(m, I, n, f, i)
                BY <2>1, <2>3
            <4> QED
                BY <4>3, <4>4
        <3> QED
            BY <3>1, <3>2
    <2>5. IsLoop(g, k + 1)
        BY <2>4 DEF l
    <2> HIDE DEF g, IsLoop
    <2> QED
        BY <2>5
<1>3. n \in T
    <2>1. T \in SUBSET Nat
        OBVIOUS
    <2> HIDE DEF T
    <2> QED
        BY <1>1, <1>2, <2>1, SetInduction
<1>4. PICK f : IsLoop(f, n)
    BY <1>3
<1>5. n + 1 - n = 1
    OBVIOUS
<1> QED
    BY <1>4, <1>5

\* deleteFrames: is what the loop has after its last turn.
LEMMA DeleteFramesLoop ==
    ASSUME NEW m, NEW I, Count(m) \in Nat
    PROVE  \E f : /\ f = [i \in 1 .. Count(m) + 1 |-> Turn(m, I, Count(m), f, i)]
                  /\ DeleteFrames(m, I) = f[1]
<1> DEFINE from == CHOOSE f :
               f = [i \in 1 .. Count(m) + 1 |-> Turn(m, I, Count(m), f, i)]
<1>1. from = [i \in 1 .. Count(m) + 1 |-> Turn(m, I, Count(m), from, i)]
    BY LoopExists
<1>2. DeleteFrames(m, I) = from[1]
    BY DEF DeleteFrames, Turn
<1> HIDE DEF from
<1> QED
    BY <1>1, <1>2

-----------------------------------------------------------------------------
(* The invariant                                                           *)

\* What a final image shows.
Image == {i \in [photo : Mark, content : Contents, filter : Filters,
                 strokes : SUBSET Mark, comment : Mark] :
              i.content # "none" => i.photo \in Photos}

\* The arrays of the model have an entry for each photo.
WellTyped(m) ==
    /\ m \in Model
    /\ Len(m.drawApplied) = Count(m) /\ Len(m.blurApplied) = Count(m)

TypeInv == TypeOK /\ final \in [Photos -> Image] /\ replies \in Seq(Seq(Image))

\* The flags of a model say what its files are: drawings d, images c, ...
Flagged(m, d, c) ==
    \A i \in 1 .. Count(m) :
        /\ m.drawApplied[i] <=> d[m.photos[i]] # {}
        /\ c[m.photos[i]] = IF m.blurApplied[i] THEN "blurred" ELSE "original"

\* ... backups b, which bring back what was taken, ...
BackedUp(m, c, b) ==
    \A i \in 1 .. Count(m) :
        /\ b[m.photos[i]] # "blurred"
        /\ c[m.photos[i]] = "blurred" => b[m.photos[i]] = "original"

\* ... and images a in the camera roll, where there may be more if one went
\* there when a twyst was compiled (e).
SavedAs(m, a, e) ==
    \A f \in Filters, i \in 1 .. Count(m) :
        /\ i \in m.saved[f] => <<f, m.photos[i]>> \in a
        /\ e \/ (<<f, m.photos[i]>> \in a => i \in m.saved[f])

Right(m, d, c, b, a, e) ==
    /\ Distinct(m) /\ Flagged(m, d, c) /\ BackedUp(m, c, b)
    /\ SavedAs(m, a, e)

ModelInv ==
    "shared" \notin hazards =>
        Right(model, drawing, content, backup, album, "encoded" \in hazards)

\* A text is being typed on the edit screen only, with the keyboard up.
ViewInv ==
    /\ view.typing => view.keyboard = "up" /\ screen = "edit"
    /\ ~view.typing => view.text = 0

\* What the screens work on is there.
ScreenInv ==
    /\ screen \in {"draw", "blur"} => InRange
    /\ screen \in {"single", "blur"} => current \in Frame
    /\ screen \in {"frames", "single"} => Count(model) <= Len(selected)
    /\ screen = "frames" => deselecting \/ Len(selected) = Count(model)

\* Comments belong to their photos, and when nothing is to be loaded the
\* view holds that of its photo.
CommentsInv ==
    /\ \A i \in Photos : model.comments[i] \in {0, PhotoAt(model, i)}
    /\ view.loads = 0 =>
          view.label \in {0, view.shown} /\ view.text \in {0, view.shown}

MarksInv ==
    hazards \cap {"stale", "crossed"} = {} =>
        /\ \A p \in Photos : drawing[p] \subseteq {0, p}
        /\ view.loads = 0 => view.shown = PhotoAt(model, view.index)
        /\ screen = "draw" => canvas \subseteq {PhotoAt(model, view.index)}
        /\ "shifted" \in hazards \/ CommentsInv

\* The final images that were made are what the editor shows.
FinalInv ==
    "late" \notin hazards =>
        /\ screen = "compiling" =>
              \A i \in Frame : i < current => final[i] = Render(i)
        /\ screen \in {"share", "upload", "post", "sent"} =>
              \A i \in Frame : final[i] = Render(i)

EditInv ==
    /\ TypeInv /\ ModelInv /\ ViewInv /\ ScreenInv /\ NoCrash
    /\ MarksInv /\ FinalInv /\ ReplySentOnce

-----------------------------------------------------------------------------
(* Deleting frames                                                         *)

\* The parts of a model, and their lengths.
LEMMA ModelParts ==
    ASSUME NEW m, WellTyped(m)
    PROVE  /\ m.photos \in Seq(Photos) /\ Len(m.photos) = Count(m)
           /\ Count(m) \in Nat /\ Count(m) <= MaxPhotos
           /\ m.drawApplied \in Seq(BOOLEAN) /\ m.blurApplied \in Seq(BOOLEAN)
           /\ Len(m.drawApplied) = Count(m) /\ Len(m.blurApplied) = Count(m)
           /\ m.saved \in [Filters -> SUBSET Photos]
           /\ m.comments \in [Photos -> Mark] /\ m.filter \in Filters
<1>1. /\ m.photos \in BoundedSeq(Photos, MaxPhotos)
      /\ m.drawApplied \in BoundedSeq(BOOLEAN, MaxPhotos)
      /\ m.blurApplied \in BoundedSeq(BOOLEAN, MaxPhotos)
      /\ m.saved \in [Filters -> SUBSET Photos]
      /\ m.comments \in [Photos -> Mark] /\ m.filter \in Filters
    BY DEF WellTyped, Model
<1>2. m.photos \in Seq(Photos) /\ Len(m.photos) <= MaxPhotos
    BY <1>1, Bounded
<1>3. m.drawApplied \in Seq(BOOLEAN) /\ m.blurApplied \in Seq(BOOLEAN)
    BY <1>1, Bounded
<1> QED
    BY <1>1, <1>2, <1>3 DEF WellTyped, Count

\* A frame goes, its flags with it.
LEMMA RemoveValue ==
    ASSUME NEW m, WellTyped(m), NEW i \in 1 .. Count(m)
    PROVE  LET r == RemoveCurrentImage(m, i) IN
           /\ WellTyped(r) /\ Count(r) = Count(m) - 1
           /\ r.comments = m.comments /\ r.filter = m.filter
           /\ \A j \in 1 .. Count(m) - 1 :
                 LET n == IF j < i THEN j ELSE j + 1 IN
                 /\ r.photos[j] = m.photos[n]
                 /\ r.drawApplied[j] = m.drawApplied[n]
                 /\ r.blurApplied[j] = m.blurApplied[n]
                 /\ \A f \in Filters : j \in r.saved[f] <=> n \in m.saved[f]
<1> DEFINE r == RemoveCurrentImage(m, i)
           kept(f) == {k \in m.saved[f] : k < i}
                        \cup {k - 1 : k \in {l \in m.saved[f] : l > i}}
           saved == [f \in Filters |-> kept(f)]
           photos == RemoveAt(m.photos, i)
           drawn == RemoveAt(m.drawApplied, i)
           blurred == RemoveAt(m.blurApplied, i)
           k == Count(m)
<1>1. /\ m.photos \in Seq(Photos) /\ Len(m.photos) = k /\ k \in Nat
      /\ m.drawApplied \in Seq(BOOLEAN) /\ m.blurApplied \in Seq(BOOLEAN)
      /\ Len(m.drawApplied) = k /\ Len(m.blurApplied) = k /\ k <= MaxPhotos
      /\ m.saved \in [Filters -> SUBSET Photos]
      /\ m.comments \in [Photos -> Mark] /\ m.filter \in Filters
    BY ModelParts
<1>2. i \in DOMAIN m.photos
    BY <1>1
<1>3. i \in DOMAIN m.drawApplied
    BY <1>1
<1>4. i \in DOMAIN m.blurApplied
    BY <1>1
<1> HIDE DEF k
<1>5. /\ photos \in Seq(Photos) /\ Len(photos) = k - 1
      /\ \A j \in 1 .. k - 1 :
            photos[j] = IF j < i THEN m.photos[j] ELSE m.photos[j + 1]
    BY <1>1, <1>2, RemoveAtValue DEF photos
<1>6. /\ drawn \in Seq(BOOLEAN) /\ Len(drawn) = k - 1
      /\ \A j \in 1 .. k - 1 :
            drawn[j] = IF j < i THEN m.drawApplied[j] ELSE m.drawApplied[j + 1]
    BY <1>1, <1>3, RemoveAtValue DEF drawn
<1>7. /\ blurred \in Seq(BOOLEAN) /\ Len(blurred) = k - 1
      /\ \A j \in 1 .. k - 1 :
            blurred[j] = IF j < i THEN m.blurApplied[j]
                         ELSE m.blurApplied[j + 1]
    BY <1>1, <1>4, RemoveAtValue DEF blurred
<1>8. /\ saved \in [Filters -> SUBSET Photos]
      /\ \A f \in Filters, j \in 1 .. k - 1 :
            j \in saved[f] <=> IF j < i THEN j \in m.saved[f]
                               ELSE j + 1 \in m.saved[f]
    <2>1. ASSUME NEW f \in Filters
          PROVE  kept(f) \in SUBSET Photos
        <3>1. m.saved[f] \subseteq Photos
            BY <1>1
        <3> QED
            BY <3>1 DEF Photos
    <2>2. ASSUME NEW f \in Filters, NEW j \in 1 .. k - 1
          PROVE  j \in kept(f) <=> IF j < i THEN j \in m.saved[f]
                                   ELSE j + 1 \in m.saved[f]
        <3>1. m.saved[f] \subseteq Nat
            BY <1>1 DEF Photos
        <3> QED
            BY <3>1
    <2> HIDE DEF kept
    <2> QED
        BY <2>1, <2>2
<1>9. r = [m EXCEPT !.photos = photos, !.drawApplied = drawn,
                    !.blurApplied = blurred, !.saved = saved]
    BY DEF RemoveCurrentImage
<1> HIDE DEF kept, saved, photos, drawn, blurred, r
<1>10. m \in Model
    BY DEF WellTyped
<1>11. /\ r.photos = photos /\ r.drawApplied = drawn /\ r.blurApplied = blurred
      /\ r.saved = saved /\ r.comments = m.comments /\ r.filter = m.filter
    BY <1>9, <1>10 DEF Model
<1>12. r \in Model
    <2>1. /\ photos \in BoundedSeq(Photos, MaxPhotos)
          /\ drawn \in BoundedSeq(BOOLEAN, MaxPhotos)
          /\ blurred \in BoundedSeq(BOOLEAN, MaxPhotos)
        BY <1>1, <1>5, <1>6, <1>7, Bounded
    <2> QED
        BY <1>8, <1>9, <1>10, <2>1 DEF Model
<1>13. WellTyped(r) /\ Count(r) = k - 1
    BY <1>5, <1>6, <1>7, <1>11, <1>12 DEF WellTyped, Count
<1>14. ASSUME NEW j \in 1 .. k - 1
       PROVE  LET n == IF j < i THEN j ELSE j + 1 IN
              /\ r.photos[j] = m.photos[n]
              /\ r.drawApplied[j] = m.drawApplied[n]
              /\ r.blurApplied[j] = m.blurApplied[n]
              /\ \A f \in Filters : j \in r.saved[f] <=> n \in m.saved[f]
    BY <1>5, <1>6, <1>7, <1>8, <1>11
<1> QED
    BY <1>11, <1>13, <1>14 DEF r, k

\* What is right stays right for the frames that are left.
LEMMA RemoveKeepsRight ==
    ASSUME NEW m, WellTyped(m), NEW i \in 1 .. Count(m),
           NEW d, NEW c, NEW b, NEW a, NEW e, Right(m, d, c, b, a, e)
    PROVE  Right(RemoveCurrentImage(m, i), d, c, b, a, e)
<1> DEFINE r == RemoveCurrentImage(m, i)
           Was(j) == IF j < i THEN j ELSE j + 1
<1>1. Count(m) \in Nat
    BY ModelParts
<1>2. /\ Count(r) = Count(m) - 1
      /\ \A j \in 1 .. Count(m) - 1 :
            /\ r.photos[j] = m.photos[Was(j)]
            /\ r.drawApplied[j] = m.drawApplied[Was(j)]
            /\ r.blurApplied[j] = m.blurApplied[Was(j)]
            /\ \A f \in Filters : j \in r.saved[f] <=> Was(j) \in m.saved[f]
    BY RemoveValue
<1>3. \A j \in 1 .. Count(m) - 1 : Was(j) \in 1 .. Count(m)
    BY <1>1
<1>4. \A j, k \in 1 .. Count(m) - 1 : Was(j) = Was(k) => j = k
    BY <1>1
<1> HIDE DEF r, Was
<1>5. Distinct(r)
    BY <1>2, <1>3, <1>4 DEF Right, Distinct
<1>6. Flagged(r, d, c)
    BY <1>2, <1>3 DEF Right, Flagged
<1>7. BackedUp(r, c, b)
    BY <1>2, <1>3 DEF Right, BackedUp
<1>8. SavedAs(r, a, e)
    BY <1>2, <1>3 DEF Right, SavedAs
<1> QED
    BY <1>5, <1>6, <1>7, <1>8 DEF Right, r

\* Files that belong to no frame do not matter, nor does what is known to be
\* in the camera roll without a flag.
LEMMA FilesKeepRight ==
    ASSUME NEW m, NEW d, NEW c, NEW b, NEW a, NEW e, Right(m, d, c, b, a, e),
           NEW x, \A i \in 1 .. Count(m) : x[m.photos[i]] = c[m.photos[i]]
    PROVE  Right(m, d, x, b, a, e)
BY DEF Right, Flagged, BackedUp

\* What has become of m when the frames of I from i on are deleted: those
\* before them are where they were, and any that is left was not deleted.
Left(m, I, i, r) ==
    /\ WellTyped(r) /\ Count(r) <= Count(m)
    /\ r.comments = m.comments /\ r.filter = m.filter
    /\ (\E j \in i .. Count(m) : j \notin I) => Count(r) >= i
    /\ \A j \in 1 .. Count(m) :
          (\A l \in I : l >= i => j < l) =>
              j <= Count(r) /\ r.photos[j] = m.photos[j]
    /\ \A j \in 1 .. Count(r) : \E k \in j .. Count(m) :
          r.photos[j] = m.photos[k] /\ (k \in I => k < i)

\* One turn of the loop.
LEMMA LeftStep ==
    ASSUME NEW m, WellTyped(m), NEW I \in SUBSET (1 .. Count(m)),
           NEW i \in 1 .. Count(m), NEW s, Left(m, I, i + 1, s)
    PROVE  /\ i \in I => /\ i \in 1 .. Count(s)
                         /\ Left(m, I, i, RemoveCurrentImage(s, i))
           /\ i \notin I => Left(m, I, i, s)
<1>1. Count(m) \in Nat /\ I \subseteq Nat
    BY ModelParts
<1>2. WellTyped(s) /\ Count(s) \in Nat
    BY ModelParts DEF Left
<1>3. i <= Count(s)
    <2>1. \A l \in I : l >= i + 1 => i < l
        BY <1>1
    <2> QED
        BY <2>1 DEF Left
<1>4. ASSUME i \in I
      PROVE  Left(m, I, i, RemoveCurrentImage(s, i))
    <2> DEFINE r == RemoveCurrentImage(s, i)
    <2>1. i \in 1 .. Count(s)
        BY <1>2, <1>3
    <2>2. /\ WellTyped(r) /\ Count(r) = Count(s) - 1
          /\ r.comments = s.comments /\ r.filter = s.filter
          /\ \A j \in 1 .. Count(s) - 1 :
                r.photos[j] = s.photos[IF j < i THEN j ELSE j + 1]
        BY <1>2, <2>1, RemoveValue
    <2> HIDE DEF r
    <2>3. (\E j \in i .. Count(m) : j \notin I) => Count(r) >= i
        <3>1. \A j \in i .. Count(m) : j \notin I => j \in i + 1 .. Count(m)
            BY <1>1, <1>4
        <3> QED
            BY <1>1, <1>2, <2>2, <3>1 DEF Left
    <2>4. ASSUME NEW j \in 1 .. Count(m), \A l \in I : l >= i => j < l
          PROVE  j <= Count(r) /\ r.photos[j] = m.photos[j]
        <3>1. j < i
            BY <1>1, <1>4, <2>4
        <3>2. \A l \in I : l >= i + 1 => j < l
            BY <1>1, <2>4
        <3>3. j <= Count(s) /\ s.photos[j] = m.photos[j]
            BY <3>2 DEF Left
        <3>4. j \in 1 .. Count(s) - 1
            BY <1>2, <1>3, <3>1
        <3> QED
            BY <1>2, <2>2, <3>1, <3>3, <3>4
    <2>5. ASSUME NEW j \in 1 .. Count(r)
          PROVE  \E k \in j .. Count(m) :
                     r.photos[j] = m.photos[k] /\ (k \in I => k < i)
        <3>1. j \in 1 .. Count(s) - 1 /\ j \in Nat
            BY <1>2, <2>2
        <3>2. CASE j < i
            <4>1. r.photos[j] = s.photos[j]
                BY <2>2, <3>1, <3>2
            <4>2. \A l \in I : l >= i + 1 => j < l
                BY <1>1, <3>1, <3>2
            <4>3. j \in 1 .. Count(m)
                BY <1>1, <3>1, <3>2
            <4>4. s.photos[j] = m.photos[j]
                BY <4>2, <4>3 DEF Left
            <4>5. j \in j .. Count(m)
                BY <4>3
            <4> QED
                BY <3>2, <4>1, <4>4, <4>5
        <3>3. CASE ~(j < i)
            <4>1. r.photos[j] = s.photos[j + 1] /\ j + 1 \in 1 .. Count(s)
                BY <1>2, <2>2, <3>1, <3>3
            <4>2. PICK k \in j + 1 .. Count(m) :
                      s.photos[j + 1] = m.photos[k] /\ (k \in I => k < i + 1)
                BY <4>1 DEF Left
            <4>3. k \in j .. Count(m) /\ ~(k < i + 1)
                BY <1>1, <3>1, <3>3
            <4> QED
                BY <4>1, <4>2, <4>3
        <3> QED
            BY <3>2, <3>3
    <2>6. WellTyped(r) /\ Count(r) <= Count(m)
        BY <1>1, <1>2, <2>2 DEF Left
    <2> QED
        BY <2>2, <2>3, <2>4, <2>5, <2>6 DEF Left, r
<1>5. ASSUME i \notin I
      PROVE  Left(m, I, i, s)
    <2>1. (\E j \in i .. Count(m) : j \notin I) => Count(s) >= i
        BY <1>2, <1>3
    <2>2. \A j \in 1 .. Count(m) :
              (\A l \in I : l >= i => j < l) => \A l \in I : l >= i + 1 => j < l
        BY <1>1
    <2>3. ASSUME NEW j \in 1 .. Count(s)
          PROVE  \E k \in j .. Count(m) :
                     s.photos[j] = m.photos[k] /\ (k \in I => k < i)
        <3>1. PICK k \in j .. Count(m) :
                  s.photos[j] = m.photos[k] /\ (k \in I => k < i + 1)
            BY DEF Left
        <3>2. k \in I => k < i
            BY <1>1, <1>5, <3>1
        <3> QED
            BY <3>1, <3>2
    <2> QED
        BY <2>1, <2>2, <2>3 DEF Left
<1> QED
    BY <1>2, <1>3, <1>4, <1>5

\* What deleteFrames: leaves.
LEMMA DeleteFramesValue ==
    ASSUME NEW m, WellTyped(m), NEW I \in SUBSET (1 .. Count(m)),
           NEW d, NEW c, NEW b, NEW a, NEW e
    PROVE  /\ Left(m, I, 1, DeleteFrames(m, I))
           /\ Right(m, d, c, b, a, e) => Right(DeleteFrames(m, I), d, c, b, a, e)
<1> DEFINE n == Count(m)
<1>1. n \in Nat
    BY ModelParts
<1>2. PICK f : /\ f = [i \in 1 .. n + 1 |-> Turn(m, I, n, f, i)]
               /\ DeleteFrames(m, I) = f[1]
    BY <1>1, DeleteFramesLoop
<1> HIDE DEF n
<1>3. \A i \in 1 .. n + 1 : f[i] = Turn(m, I, n, f, i)
    BY <1>2
<1> DEFINE Good(r, i) == /\ Left(m, I, i, r)
                         /\ Right(m, d, c, b, a, e) => Right(r, d, c, b, a, e)
           T == {k \in Nat : k <= n => Good(f[n + 1 - k], n + 1 - k)}
<1>4. 0 \in T
    <2>1. f[n + 1] = m
        BY <1>1, <1>3 DEF Turn
    <2>2. Left(m, I, n + 1, m)
        <3>1. \A j \in 1 .. n : \E k \in j .. n :
                  m.photos[j] = m.photos[k] /\ (k \in I => k < n + 1)
            <4> TAKE j \in 1 .. n
            <4>1. j \in j .. n /\ j < n + 1
                BY <1>1
            <4> QED
                BY <4>1
        <3>2. \A j \in 1 .. n : j <= n
            BY <1>1
        <3>3. ~ \E j \in n + 1 .. n : j \notin I
            BY <1>1
        <3>4. n = Count(m) /\ n <= n
            BY <1>1 DEF n
        <3> QED
            BY <3>1, <3>2, <3>3, <3>4 DEF Left
    <2> QED
        BY <1>1, <2>1, <2>2
<1>5. ASSUME NEW k \in T
      PROVE  k + 1 \in T
    <2> SUFFICES ASSUME k + 1 <= n
                 PROVE  Good(f[n + 1 - (k + 1)], n + 1 - (k + 1))
        OBVIOUS
    <2> DEFINE i == n + 1 - (k + 1)
    <2>1. k \in Nat /\ k <= n
        BY <1>1
    <2>2. i \in 1 .. n /\ i + 1 = n + 1 - k /\ i \in 1 .. n + 1
        BY <1>1, <2>1
    <2>3. Good(f[i + 1], i + 1)
        BY <2>1, <2>2
    <2> HIDE DEF i, T
    <2>4. f[i] = IF i \in I THEN RemoveCurrentImage(f[i + 1], i) ELSE f[i + 1]
        BY <1>1, <1>3, <2>2 DEF Turn
    <2>5. /\ i \in I => /\ i \in 1 .. Count(f[i + 1])
                        /\ Left(m, I, i, RemoveCurrentImage(f[i + 1], i))
          /\ i \notin I => Left(m, I, i, f[i + 1])
        BY <2>2, <2>3, LeftStep DEF n
    <2>6. CASE i \in I
        <3>1. Right(m, d, c, b, a, e) =>
                  Right(RemoveCurrentImage(f[i + 1], i), d, c, b, a, e)
            <4>1. WellTyped(f[i + 1])
                BY <2>3 DEF Left
            <4> QED
                BY <2>3, <2>5, <2>6, <4>1, RemoveKeepsRight
        <3> QED
            BY <2>4, <2>5, <2>6, <3>1 DEF i
    <2>7. CASE i \notin I
        BY <2>3, <2>4, <2>5, <2>7 DEF i
    <2> QED
        BY <2>6, <2>7
<1>6. T = Nat
    <2>1. T \in SUBSET Nat
        OBVIOUS
    <2> HIDE DEF T
    <2> QED
        BY <1>4, <1>5, <2>1, SetInduction
<1>7. Good(f[1], 1)
    <2>1. n \in T
        BY <1>1, <1>6
    <2>2. n + 1 - n = 1
        BY <1>1
    <2>3. n <= n
        BY <1>1
    <2>4. Good(f[n + 1 - n], n + 1 - n)
        BY <2>1, <2>3
    <2> QED
        BY <2>2, <2>4
<1> QED
    BY <1>2, <1>7

-----------------------------------------------------------------------------
(* Types                                                                   *)

\* The comments of a model change, ...
LEMMA CommentsEdit ==
    ASSUME NEW m, WellTyped(m), NEW x \in [Photos -> Mark]
    PROVE  LET r == [m EXCEPT !.comments = x] IN
           /\ WellTyped(r) /\ r.photos = m.photos /\ r.drawApplied = m.drawApplied
           /\ r.blurApplied = m.blurApplied /\ r.saved = m.saved
           /\ r.comments = x /\ r.filter = m.filter
<1>1. m \in Model /\ Count(m) \in Nat /\ Count(m) <= MaxPhotos
    BY ModelParts DEF WellTyped
<1> QED
    BY <1>1 DEF Model, WellTyped, Count

\* ... its filter, ...
LEMMA FilterEdit ==
    ASSUME NEW m, WellTyped(m), NEW x \in Filters
    PROVE  LET r == [m EXCEPT !.filter = x] IN
           /\ WellTyped(r) /\ r.photos = m.photos /\ r.drawApplied = m.drawApplied
           /\ r.blurApplied = m.blurApplied /\ r.saved = m.saved
           /\ r.comments = m.comments /\ r.filter = x
<1>1. m \in Model /\ Count(m) \in Nat /\ Count(m) <= MaxPhotos
    BY ModelParts DEF WellTyped
<1> QED
    BY <1>1 DEF Model, WellTyped, Count

\* ... the flags of the drawings, ...
LEMMA DrawEdit ==
    ASSUME NEW m, WellTyped(m), NEW x \in Seq(BOOLEAN), Len(x) = Count(m)
    PROVE  LET r == [m EXCEPT !.drawApplied = x] IN
           /\ WellTyped(r) /\ r.photos = m.photos /\ r.drawApplied = x
           /\ r.blurApplied = m.blurApplied /\ r.saved = m.saved
           /\ r.comments = m.comments /\ r.filter = m.filter
<1>1. m \in Model /\ Count(m) \in Nat /\ Count(m) <= MaxPhotos
    BY ModelParts DEF WellTyped
<1>2. x \in BoundedSeq(BOOLEAN, MaxPhotos)
    BY <1>1, Bounded
<1> QED
    BY <1>1, <1>2 DEF Model, WellTyped, Count

\* ... those of the blurs, ...
LEMMA BlurEdit ==
    ASSUME NEW m, WellTyped(m), NEW x \in Seq(BOOLEAN), Len(x) = Count(m)
    PROVE  LET r == [m EXCEPT !.blurApplied = x] IN
           /\ WellTyped(r) /\ r.photos = m.photos /\ r.drawApplied = m.drawApplied
           /\ r.blurApplied = x /\ r.saved = m.saved
           /\ r.comments = m.comments /\ r.filter = m.filter
<1>1. m \in Model /\ Count(m) \in Nat /\ Count(m) <= MaxPhotos
    BY ModelParts DEF WellTyped
<1>2. x \in BoundedSeq(BOOLEAN, MaxPhotos)
    BY <1>1, Bounded
<1> QED
    BY <1>1, <1>2 DEF Model, WellTyped, Count

\* ... and those of what is in the camera roll.
LEMMA SavedEdit ==
    ASSUME NEW m, WellTyped(m), NEW x \in [Filters -> SUBSET Photos]
    PROVE  LET r == [m EXCEPT !.saved = x] IN
           /\ WellTyped(r) /\ r.photos = m.photos /\ r.drawApplied = m.drawApplied
           /\ r.blurApplied = m.blurApplied /\ r.saved = x
           /\ r.comments = m.comments /\ r.filter = m.filter
<1>1. m \in Model /\ Count(m) \in Nat /\ Count(m) <= MaxPhotos
    BY ModelParts DEF WellTyped
<1> QED
    BY <1>1 DEF Model, WellTyped, Count

\* The view after a text field is left, and after an image is shown.
LEMMA ViewEdits ==
    ASSUME NEW v \in View, NEW m, WellTyped(m)
    PROVE  /\ \A i \in Photos : PhotoAt(m, i) \in Mark
           /\ Resigned(v) \in View
           /\ Resigned(v).index = v.index /\ Resigned(v).shown = v.shown
           /\ Resigned(v).loads = v.loads
           /\ Reloaded(v, m) \in View
           /\ Reloaded(v, m) = [v EXCEPT !.shown = PhotoAt(m, v.index)]
<1>1. /\ m.photos \in Seq(Photos) /\ Len(m.photos) = Count(m)
      /\ Count(m) \in Nat
    BY ModelParts
<1>2. \A i \in Photos : PhotoAt(m, i) \in Mark
    BY <1>1 DEF PhotoAt, Mark, Photos
<1>3. Resigned(v) \in View
    <2> DEFINE label == IF v.text # 0 THEN v.text ELSE v.label
               gone == [v EXCEPT !.typing = FALSE, !.keyboard = "hiding",
                                 !.label = label, !.text = 0]
    <2>1. label \in Mark /\ 0 \in Mark
        BY DEF View, Mark
    <2> HIDE DEF label
    <2>2. gone \in View
        BY <2>1 DEF View
    <2>3. Resigned(v) = v \/ Resigned(v) = gone
        BY DEF Resigned, label
    <2> QED
        BY <2>2, <2>3
<1>4. /\ Resigned(v).index = v.index /\ Resigned(v).shown = v.shown
      /\ Resigned(v).loads = v.loads
    BY DEF Resigned, View
<1>5. v.index \in Photos
    BY DEF View
<1>6. Reloaded(v, m) \in View
    BY <1>2, <1>5 DEF Reloaded, View
<1> QED
    BY <1>2, <1>3, <1>4, <1>6 DEF Reloaded

\* The actions that change the model or one of its files.
ModelSteps ==
    \/ KeyboardDidHide \/ DragComment \/ \E f \in Filters : SelectFilter(f)
    \/ EndDrawing \/ RestoreOrigin \/ ApplyToAll \/ RemoveAllDrawing
    \/ ApplyBlur \/ RemoveBlur
    \/ SaveSelected \/ SaveSingle \/ TrashSelected \/ TrashSingle
    \/ EncodeFlipframe

modelVars == <<model, drawing, content, backup, album>>

\* No other action changes the model or a file of it.
LEMMA OthersLeaveModel ==
    ASSUME [Next]_vars, ~ModelSteps
    PROVE  UNCHANGED modelVars
<1>1. CASE Preview
    BY <1>1 DEF Preview, ModelSteps, TapPreview, HoldPreview, LoadImage,
       SwipeDown, TypeComment, NothingElse, fileVars, modelVars
<1>2. CASE Effects
    BY <1>2 DEF Effects, ModelSteps, TouchCrashes, Crash, BeginDrawing, Stroke,
       CancelDrawing, BeginBlur, CancelBlur, NothingElse, fileVars, modelVars
<1>3. CASE Frames
    BY <1>3 DEF Frames, ModelSteps, OpenFrames, CloseFrames, DeselectAll,
       SelectFrame, OpenSingle, NextSingle, CloseSingle, fileVars, modelVars
<1>4. CASE Finish
    BY <1>4 DEF Finish, ModelSteps, Advance, ThemeBegins, ThemeEnds, GoBack,
       BeginCompile, CompileFrame, CompileDone, Upload, PostReply, NothingElse,
       fileVars, modelVars
<1>5. CASE UNCHANGED vars
    BY <1>5 DEF vars, fileVars, modelVars
<1> QED
    BY <1>1, <1>2, <1>3, <1>4, <1>5 DEF Next

\* The types of the parts of the state.
LEMMA TypeParts ==
    ASSUME TypeInv
    PROVE  /\ WellTyped(model)
           /\ drawing \in [Photos -> SUBSET Mark]
           /\ content \in [Photos -> Contents]
           /\ backup \in [Photos -> Contents]
           /\ album \in SUBSET (Filters \X Photos)
           /\ final \in [Photos -> Image] /\ view \in View
           /\ screen \in Screens /\ canvas \in SUBSET Photos
           /\ selected \in Seq(BOOLEAN) /\ Len(selected) <= MaxPhotos
           /\ deselecting \in BOOLEAN /\ current \in 1 .. MaxPhotos + 1
           /\ encoding \in Nat /\ edits \in 0 .. MaxEdits
<1>1. selected \in BoundedSeq(BOOLEAN, MaxPhotos)
    BY DEF TypeInv, TypeOK
<1>2. selected \in Seq(BOOLEAN) /\ Len(selected) <= MaxPhotos
    BY <1>1, Bounded
<1> QED
    BY <1>2 DEF TypeInv, TypeOK, WellTyped

\* What is right depends on the photos, the flags and the files only.
LEMMA SameRight ==
    ASSUME NEW m, NEW r, NEW d, NEW c, NEW b, NEW a, NEW e,
           Right(m, d, c, b, a, e), r.photos = m.photos, r.drawApplied = m.drawApplied,
           r.blurApplied = m.blurApplied, r.saved = m.saved
    PROVE  Right(r, d, c, b, a, e)
BY DEF Right, Distinct, Flagged, BackedUp, SavedAs, Count

\* The flag of a drawing is set or reset together with its file.
LEMMA DrawKeepsRight ==
    ASSUME NEW m, WellTyped(m), NEW d, NEW c, NEW b, NEW a, NEW e,
           Right(m, d, c, b, a, e), NEW s, NEW x,
           \A i \in 1 .. Count(m) : s[i] <=> x[m.photos[i]] # {},
           NEW r, r.photos = m.photos, r.drawApplied = s,
           r.blurApplied = m.blurApplied, r.saved = m.saved
    PROVE  Right(r, x, c, b, a, e)
<1>1. Distinct(r) /\ BackedUp(r, c, b) /\ SavedAs(r, a, e)
    BY DEF Right, Distinct, BackedUp, SavedAs, Count
<1>2. Flagged(r, x, c)
    BY DEF Right, Flagged, Count
<1> QED
    BY <1>1, <1>2 DEF Right

\* The same of the blur.
LEMMA BlurKeepsRight ==
    ASSUME NEW m, WellTyped(m), NEW d, NEW c, NEW b, NEW a, NEW e,
           Right(m, d, c, b, a, e), NEW s, NEW x, NEW h,
           \A i \in 1 .. Count(m) :
               /\ x[m.photos[i]] = IF s[i] THEN "blurred" ELSE "original"
               /\ h[m.photos[i]] # "blurred"
               /\ x[m.photos[i]] = "blurred" => h[m.photos[i]] = "original",
           NEW r, r.photos = m.photos, r.drawApplied = m.drawApplied,
           r.blurApplied = s, r.saved = m.saved
    PROVE  Right(r, d, x, h, a, e)
BY DEF Right, Distinct, Flagged, BackedUp, SavedAs, Count

\* The frames of I go to the camera roll.
LEMMA SaveKeepsRight ==
    ASSUME NEW m, WellTyped(m), NEW d, NEW c, NEW b, NEW a, NEW e,
           Right(m, d, c, b, a, e), NEW I \in SUBSET (1 .. Count(m)), NEW r,
           r = [m EXCEPT !.saved[m.filter] = @ \cup I]
    PROVE  /\ WellTyped(r)
           /\ Right(r, d, c, b, a \cup {<<m.filter, m.photos[i]>> : i \in I}, e)
<1>1. m.filter \in Filters /\ I \in SUBSET Photos /\ Count(m) \in Nat
    BY ModelParts DEF Photos
<1>2. m.saved \in [Filters -> SUBSET Photos]
    BY ModelParts
<1> DEFINE x == [m.saved EXCEPT ![m.filter] = @ \cup I]
<1>3. /\ WellTyped(r) /\ r.photos = m.photos
      /\ r.drawApplied = m.drawApplied /\ r.blurApplied = m.blurApplied
      /\ r.saved = x
    <2>1. x \in [Filters -> SUBSET Photos]
        BY <1>1, <1>2
    <2>2. r = [m EXCEPT !.saved = x]
        OBVIOUS
    <2> HIDE DEF x
    <2>3. LET q == [m EXCEPT !.saved = x] IN
          /\ WellTyped(q) /\ q.photos = m.photos
          /\ q.drawApplied = m.drawApplied /\ q.blurApplied = m.blurApplied
          /\ q.saved = x
        BY <2>1, SavedEdit
    <2> QED
        BY <2>2, <2>3
<1>4. Distinct(r) /\ Flagged(r, d, c) /\ BackedUp(r, c, b)
    BY <1>3 DEF Right, Distinct, Flagged, BackedUp, Count
<1>5. ASSUME NEW f \in Filters, NEW i \in 1 .. Count(m)
      PROVE  LET g == a \cup {<<m.filter, m.photos[j]>> : j \in I} IN
             /\ i \in r.saved[f] => <<f, m.photos[i]>> \in g
             /\ e \/ (<<f, m.photos[i]>> \in g => i \in r.saved[f])
    <2>1. /\ i \in m.saved[f] => <<f, m.photos[i]>> \in a
          /\ e \/ (<<f, m.photos[i]>> \in a => i \in m.saved[f])
        BY DEF Right, SavedAs
    <2>2. <<f, m.photos[i]>> \in {<<m.filter, m.photos[j]>> : j \in I}
              <=> f = m.filter /\ i \in I
        BY DEF Right, Distinct
    <2>3. i \in r.saved[f] <=> i \in m.saved[f] \/ (f = m.filter /\ i \in I)
        BY <1>1, <1>2, <1>3
    <2> QED
        BY <2>1, <2>2, <2>3
<1>6. SavedAs(r, a \cup {<<m.filter, m.photos[i]>> : i \in I}, e)
    BY <1>3, <1>5 DEF SavedAs, Count
<1> QED
    BY <1>3, <1>4, <1>6 DEF Right

-----------------------------------------------------------------------------
(* The history                                                             *)

\* The types of the rest; what has happened is not forgotten.
LEMMA RestTyped ==
    ASSUME TypeInv, [Next]_vars
    PROVE  /\ screen' \in Screens /\ canvas' \in SUBSET Photos
           /\ deselecting' \in BOOLEAN /\ isReply' \in BOOLEAN
           /\ encoding' \in Nat /\ edits' \in 0 .. MaxEdits
           /\ hazards \subseteq hazards' /\ hazards' \subseteq Hazards
<1>1. /\ screen \in Screens /\ canvas \in SUBSET Photos
      /\ deselecting \in BOOLEAN /\ isReply \in BOOLEAN
      /\ encoding \in Nat /\ edits \in 0 .. MaxEdits
      /\ hazards \subseteq Hazards
    BY DEF TypeInv, TypeOK
<1>2. \A k : Edit(k) => edits' \in 0 .. MaxEdits
    BY <1>1 DEF Edit
<1>3. CASE Preview
    <2>1. UNCHANGED <<canvas, deselecting, isReply, encoding, screen>>
        BY <1>3 DEF Preview, TapPreview, HoldPreview, LoadImage, SwipeDown,
           TypeComment, KeyboardDidHide, DragComment, NothingElse, framesVars,
           replyVars
    <2>2. edits' = edits \/ Edit("comment")
        BY <1>3 DEF Preview, TapPreview, HoldPreview, LoadImage, SwipeDown,
           TypeComment, KeyboardDidHide, DragComment
    <2>3. \/ hazards' = hazards \/ hazards' = hazards \cup {"crossed"}
          \/ StoreComment
        BY <1>3 DEF Preview, TapPreview, HoldPreview, LoadImage, SwipeDown,
           TypeComment, KeyboardDidHide, DragComment
    <2>4. StoreComment => hazards \subseteq hazards'
                          /\ hazards' \subseteq hazards \cup {"crossed", "late"}
        BY DEF StoreComment
    <2> QED
        BY <1>1, <1>2, <2>1, <2>2, <2>3, <2>4 DEF Hazards
<1>4. CASE Effects
    <2>1. UNCHANGED <<deselecting, isReply, encoding>>
        BY <1>4 DEF Effects, SelectFilter, TouchCrashes, Crash, BeginDrawing,
           Stroke, EndDrawing, CancelDrawing, RestoreOrigin, ApplyToAll,
           RemoveAllDrawing, BeginBlur, CancelBlur, ApplyBlur, RemoveBlur,
           NothingElse, framesVars, replyVars
    <2>2. edits' = edits \/ \E k : Edit(k)
        BY <1>4 DEF Effects, SelectFilter, TouchCrashes, Crash, BeginDrawing,
           Stroke, EndDrawing, CancelDrawing, RestoreOrigin, ApplyToAll,
           RemoveAllDrawing, BeginBlur, CancelBlur, ApplyBlur, RemoveBlur
    <2>3. hazards' = hazards \/ hazards' = hazards \cup {"crossed"}
        BY <1>4 DEF Effects, SelectFilter, TouchCrashes, Crash, BeginDrawing,
           Stroke, EndDrawing, CancelDrawing, RestoreOrigin, ApplyToAll,
           RemoveAllDrawing, BeginBlur, CancelBlur, ApplyBlur, RemoveBlur
    <2>4. screen' \in {screen, "crashed", "edit", "draw", "blur"}
        BY <1>4 DEF Effects, SelectFilter, TouchCrashes, Crash, BeginDrawing,
           Stroke, EndDrawing, CancelDrawing, RestoreOrigin, ApplyToAll,
           RemoveAllDrawing, BeginBlur, CancelBlur, ApplyBlur, RemoveBlur
    <2>5. \/ canvas' = canvas \/ canvas' = {}
          \/ view.shown # 0 /\ canvas' = canvas \cup {view.shown}
        BY <1>4 DEF Effects, SelectFilter, TouchCrashes, Crash, BeginDrawing,
           Stroke, EndDrawing, CancelDrawing, RestoreOrigin, ApplyToAll,
           RemoveAllDrawing, BeginBlur, CancelBlur, ApplyBlur, RemoveBlur,
           NothingElse
    <2>6. view.shown # 0 => view.shown \in Photos
        BY TypeParts DEF View, Mark, Photos
    <2>7. screen' \in Screens
        BY <1>1, <2>4 DEF Screens
    <2> QED
        BY <1>1, <1>2, <2>1, <2>2, <2>3, <2>5, <2>6, <2>7 DEF Hazards
<1>5. CASE Frames
    <2>1. UNCHANGED <<canvas, isReply, encoding>>
        BY <1>5 DEF Frames, OpenFrames, CloseFrames, DeselectAll, SelectFrame,
           OpenSingle, SaveSelected, TrashSelected, NextSingle, SaveSingle,
           TrashSingle, CloseSingle, replyVars
    <2>2. deselecting' \in {deselecting, TRUE, FALSE}
        BY <1>5 DEF Frames, OpenFrames, CloseFrames, DeselectAll, SelectFrame,
           OpenSingle, SaveSelected, TrashSelected, NextSingle, SaveSingle,
           TrashSingle, CloseSingle, framesVars
    <2>3. edits' = edits \/ \E k : Edit(k)
        BY <1>5 DEF Frames, OpenFrames, CloseFrames, DeselectAll, SelectFrame,
           OpenSingle, SaveSelected, TrashSelected, NextSingle, SaveSingle,
           TrashSingle, CloseSingle
    <2>4. screen' \in {screen, "frames", "edit", "single", "crashed"}
        BY <1>5 DEF Frames, OpenFrames, CloseFrames, DeselectAll, SelectFrame,
           OpenSingle, SaveSelected, TrashSelected, NextSingle, SaveSingle,
           TrashSingle, CloseSingle
    <2>5. /\ hazards \subseteq hazards'
          /\ hazards' \subseteq hazards \cup {"shifted", "stale", "dangling",
                                              "twice"}
        <3>1. CASE TrashSelected
            BY <3>1 DEF TrashSelected, Shifts, IsStale
        <3>2. CASE TrashSingle
            BY <3>2 DEF TrashSingle, Shifts, IsStale
        <3>3. CASE ~TrashSelected /\ ~TrashSingle
            BY <1>5, <3>3 DEF Frames, OpenFrames, CloseFrames, DeselectAll,
               SelectFrame, OpenSingle, SaveSelected, NextSingle, SaveSingle,
               CloseSingle
        <3> QED
            BY <3>1, <3>2, <3>3
    <2>6. screen' \in Screens
        BY <1>1, <2>4 DEF Screens
    <2> QED
        BY <1>1, <1>2, <2>1, <2>2, <2>3, <2>5, <2>6 DEF Hazards
<1>6. CASE Finish
    <2>1. UNCHANGED <<canvas, deselecting, isReply>>
        BY <1>6 DEF Finish, Advance, ThemeBegins, ThemeEnds, GoBack,
           BeginCompile, CompileFrame, CompileDone, EncodeFlipframe, Upload,
           PostReply,
           NothingElse, framesVars, replyVars
    <2>2. edits' = edits \/ \E k : Edit(k)
        BY <1>6 DEF Finish, Advance, ThemeBegins, ThemeEnds, GoBack,
           BeginCompile, CompileFrame, CompileDone, EncodeFlipframe, Upload,
           PostReply
    <2>3. screen' \in {screen, "confirm", "theme", "edit", "compiling", "upload",
                       "share", "post", "failed", "sent"}
        BY <1>6 DEF Finish, Advance, ThemeBegins, ThemeEnds, GoBack,
           BeginCompile, CompileFrame, CompileDone, EncodeFlipframe, Upload,
           PostReply
    <2>4. \/ hazards' = hazards \/ hazards' = hazards \cup {"lost"}
          \/ hazards' = hazards \cup {"encoded"}
        BY <1>6 DEF Finish, Advance, ThemeBegins, ThemeEnds, GoBack,
           BeginCompile, CompileFrame, CompileDone, EncodeFlipframe, Upload,
           PostReply
    <2>5. screen' \in Screens
        BY <1>1, <2>3 DEF Screens
    <2>6. encoding' \in Nat
        <3>1. CASE EncodeFlipframe
            BY <1>1, <3>1 DEF EncodeFlipframe
        <3>2. CASE ~EncodeFlipframe
            <4>1. encoding' = encoding \/ encoding' = encoding + 1
                BY <1>6, <3>2 DEF Finish, Advance, ThemeBegins, ThemeEnds,
                   GoBack, BeginCompile, CompileFrame, CompileDone, Upload,
                   PostReply, NothingElse, replyVars
            <4> QED
                BY <1>1, <4>1
        <3> QED
            BY <3>1, <3>2
    <2> QED
        BY <1>1, <1>2, <2>1, <2>2, <2>4, <2>5, <2>6 DEF Hazards
<1>7. CASE UNCHANGED vars
    BY <1>1, <1>7 DEF vars, framesVars, replyVars
<1> QED
    BY <1>3, <1>4, <1>5, <1>6, <1>7 DEF Next

-----------------------------------------------------------------------------
(* The model and its files                                                 *)

FilesTyped ==
    /\ drawing \in [Photos -> SUBSET Mark]
    /\ content \in [Photos -> Contents]
    /\ backup \in [Photos -> Contents]
    /\ album \in SUBSET (Filters \X Photos)

\* What a step that adds nothing to the history keeps.
RightNow ==
    Right(model, drawing, content, backup, album, "encoded" \in hazards)

Kept ==
    "shared" \notin hazards =>
        Right(model', drawing', content', backup', album',
              "encoded" \in hazards)

\* A comment or a filter: the photos, their flags and files stay.
LEMMA StoreStep ==
    ASSUME TypeInv, ModelInv,
           KeyboardDidHide \/ DragComment \/ \E f \in Filters : SelectFilter(f)
    PROVE  /\ WellTyped(model') /\ FilesTyped' /\ Kept
           /\ model'.photos = model.photos
           /\ UNCHANGED <<drawing, content, backup, album>>
<1>1. WellTyped(model) /\ FilesTyped /\ view \in View
    BY TypeParts DEF FilesTyped
<1>2. UNCHANGED <<drawing, content, backup, album>>
    BY DEF KeyboardDidHide, DragComment, SelectFilter, NothingElse, fileVars
<1>3. /\ WellTyped(model') /\ model'.photos = model.photos
      /\ model'.drawApplied = model.drawApplied
      /\ model'.blurApplied = model.blurApplied
      /\ model'.saved = model.saved
    <2>1. CASE KeyboardDidHide \/ DragComment
        <3> DEFINE x == [model.comments EXCEPT ![view.index] = view.label]
        <3>1. model' = [model EXCEPT !.comments = x]
            BY <2>1 DEF KeyboardDidHide, DragComment, StoreComment
        <3>2. x \in [Photos -> Mark]
            <4>1. view.index \in Photos /\ view.label \in Mark
                BY <1>1 DEF View
            <4>2. model.comments \in [Photos -> Mark]
                BY <1>1, ModelParts
            <4> QED
                BY <4>1, <4>2
        <3> HIDE DEF x
        <3>3. LET r == [model EXCEPT !.comments = x] IN
              /\ WellTyped(r) /\ r.photos = model.photos
              /\ r.drawApplied = model.drawApplied
              /\ r.blurApplied = model.blurApplied /\ r.saved = model.saved
            BY <1>1, <3>2, CommentsEdit
        <3> QED
            BY <3>1, <3>3
    <2>2. ASSUME NEW f \in Filters, SelectFilter(f)
          PROVE  /\ WellTyped(model') /\ model'.photos = model.photos
                 /\ model'.drawApplied = model.drawApplied
                 /\ model'.blurApplied = model.blurApplied
                 /\ model'.saved = model.saved
        <3>1. model' = [model EXCEPT !.filter = f]
            BY <2>2 DEF SelectFilter
        <3>2. LET r == [model EXCEPT !.filter = f] IN
              /\ WellTyped(r) /\ r.photos = model.photos
              /\ r.drawApplied = model.drawApplied
              /\ r.blurApplied = model.blurApplied /\ r.saved = model.saved
            BY <1>1, FilterEdit
        <3> QED
            BY <3>1, <3>2
    <2> QED
        BY <2>1, <2>2
<1>4. Kept
    BY <1>2, <1>3, SameRight DEF ModelInv, Kept
<1> QED
    BY <1>1, <1>2, <1>3, <1>4 DEF FilesTyped

\* One flag of a sequence is set or reset, ...
LEMMA OneFlag ==
    ASSUME NEW s \in Seq(BOOLEAN), NEW i \in 1 .. Len(s), NEW b \in BOOLEAN
    PROVE  LET t == [s EXCEPT ![i] = b] IN
           /\ t \in Seq(BOOLEAN) /\ Len(t) = Len(s)
           /\ \A j \in 1 .. Len(s) : t[j] = IF j = i THEN b ELSE s[j]
<1> DEFINE t == [s EXCEPT ![i] = b]
<1>1. s \in [1 .. Len(s) -> BOOLEAN] /\ Len(s) \in Nat
    OBVIOUS
<1>2. t \in [1 .. Len(s) -> BOOLEAN]
    BY <1>1
<1>3. \A j \in 1 .. Len(s) : t[j] = IF j = i THEN b ELSE s[j]
    BY <1>1
<1> HIDE DEF t
<1>4. t \in Seq(BOOLEAN) /\ Len(t) = Len(s)
    BY <1>1, <1>2
<1> QED
    BY <1>3, <1>4 DEF t

\* ... or all of them.
LEMMA AllFlags ==
    ASSUME NEW s \in Seq(BOOLEAN), NEW b \in BOOLEAN
    PROVE  LET t == [j \in DOMAIN s |-> b] IN
           /\ t \in Seq(BOOLEAN) /\ Len(t) = Len(s)
           /\ \A j \in 1 .. Len(s) : t[j] = b
<1> DEFINE t == [j \in DOMAIN s |-> b]
<1>1. DOMAIN s = 1 .. Len(s) /\ Len(s) \in Nat
    OBVIOUS
<1>2. t \in [1 .. Len(s) -> BOOLEAN] /\ \A j \in 1 .. Len(s) : t[j] = b
    BY <1>1
<1> HIDE DEF t
<1>3. t \in Seq(BOOLEAN) /\ Len(t) = Len(s)
    BY <1>1, <1>2
<1> QED
    BY <1>2, <1>3 DEF t

\* Drawings: the file and the flag of one frame, or those of all.
LEMMA DrawStep ==
    ASSUME TypeInv, ModelInv, ScreenInv,
           EndDrawing \/ RestoreOrigin \/ ApplyToAll \/ RemoveAllDrawing
    PROVE  /\ WellTyped(model') /\ FilesTyped' /\ Kept
           /\ model'.photos = model.photos
           /\ model'.comments = model.comments
           /\ UNCHANGED <<content, backup, album>>
<1>1. WellTyped(model) /\ FilesTyped /\ view \in View
    BY TypeParts DEF FilesTyped
<1>2. UNCHANGED <<content, backup, album>>
    BY DEF EndDrawing, RestoreOrigin, ApplyToAll, RemoveAllDrawing
<1> DEFINE n == Count(model)
           i == view.index
           p == model.photos[i]
           drawn == model.drawApplied
<1>3. /\ model.photos \in Seq(Photos) /\ Len(model.photos) = n
      /\ n \in Nat /\ drawn \in Seq(BOOLEAN) /\ Len(drawn) = n
    BY <1>1, ModelParts
<1>4. i \in 1 .. n
    <2>1. screen = "draw"
        BY DEF EndDrawing, RestoreOrigin, ApplyToAll, RemoveAllDrawing
    <2>2. i <= n
        BY <2>1 DEF ScreenInv, InRange
    <2>3. i \in Photos
        BY <1>1 DEF View
    <2> QED
        BY <1>3, <2>2, <2>3 DEF Photos
<1>5. p \in Photos /\ \A j \in 1 .. n : model.photos[j] \in Photos
    BY <1>3, <1>4
<1> DEFINE Alone == "shared" \notin hazards
<1>6. Alone => \A j \in 1 .. n : model.photos[j] = p => j = i
    BY <1>4 DEF ModelInv, Right, Distinct
<1>7. Alone => \A j \in 1 .. n : drawn[j] <=> drawing[model.photos[j]] # {}
    BY DEF ModelInv, Right, Flagged
<1>8. ASSUME NEW s \in Seq(BOOLEAN), Len(s) = n,
             NEW e \in [Photos -> SUBSET Mark],
             Alone => \A j \in 1 .. n : s[j] <=> e[model.photos[j]] # {},
             model' = [model EXCEPT !.drawApplied = s], drawing' = e
      PROVE  /\ WellTyped(model') /\ FilesTyped' /\ Kept
             /\ model'.photos = model.photos
             /\ model'.comments = model.comments
    <2>1. LET r == [model EXCEPT !.drawApplied = s] IN
          /\ WellTyped(r) /\ r.photos = model.photos /\ r.drawApplied = s
          /\ r.blurApplied = model.blurApplied /\ r.saved = model.saved
          /\ r.comments = model.comments
        BY <1>1, <1>8, DrawEdit
    <2>2. /\ WellTyped(model') /\ model'.photos = model.photos
          /\ model'.drawApplied = s
          /\ model'.blurApplied = model.blurApplied
          /\ model'.saved = model.saved /\ model'.comments = model.comments
        BY <1>8, <2>1
    <2>3. Alone =>
              Right(model', e, content, backup, album, "encoded" \in hazards)
        BY <1>1, <1>8, <2>2, DrawKeepsRight DEF ModelInv
    <2> QED
        BY <1>1, <1>2, <1>8, <2>2, <2>3 DEF Kept, FilesTyped
<1> DEFINE One(b) == [drawn EXCEPT ![i] = b]
           All(b) == [j \in DOMAIN drawn |-> b]
<1>9. \A b \in BOOLEAN : /\ One(b) \in Seq(BOOLEAN) /\ Len(One(b)) = n
                         /\ \A j \in 1 .. n :
                               One(b)[j] = IF j = i THEN b ELSE drawn[j]
    <2> HIDE DEF n, i, p, drawn
    <2> QED
        BY <1>3, <1>4, OneFlag
<1>10. \A b \in BOOLEAN : /\ All(b) \in Seq(BOOLEAN) /\ Len(All(b)) = n
                          /\ \A j \in 1 .. n : All(b)[j] = b
    <2> HIDE DEF n, i, p, drawn
    <2> QED
        BY <1>3, AllFlags
<1>11. \A j \in 1 .. n : model.photos[j] \in ToSet(model.photos)
    BY <1>3 DEF ToSet
<1>12. ASSUME model' = model, drawing' = drawing
       PROVE  /\ WellTyped(model') /\ FilesTyped' /\ Kept
              /\ model'.photos = model.photos
              /\ model'.comments = model.comments
    BY <1>1, <1>2, <1>12 DEF ModelInv, Kept, FilesTyped
<1>13. CASE EndDrawing
    <2>1. CASE canvas # {}
        <3> DEFINE e == [drawing EXCEPT ![p] = @ \cup canvas]
        <3>1. model' = [model EXCEPT !.drawApplied = One(TRUE)] /\ drawing' = e
            BY <1>13, <2>1 DEF EndDrawing, AppliedTo
        <3>2. canvas \in SUBSET Mark
            BY TypeParts DEF Mark, Photos
        <3>3. e \in [Photos -> SUBSET Mark]
            BY <1>1, <3>2 DEF FilesTyped
        <3>4. \A q \in Photos : e[q] = IF q = p THEN drawing[p] \cup canvas
                                       ELSE drawing[q]
            BY <1>1 DEF FilesTyped
        <3> HIDE DEF e, p, i, drawn, n, One
        <3>5. Alone => \A j \in 1 .. n : One(TRUE)[j] <=> e[model.photos[j]] # {}
            BY <1>5, <1>6, <1>7, <1>9, <2>1, <3>4 DEF p
        <3> QED
            BY <1>2, <1>8, <1>9, <3>1, <3>3, <3>5
    <2>2. CASE canvas = {}
        BY <1>2, <1>12, <1>13, <2>2 DEF EndDrawing
    <2> QED
        BY <2>1, <2>2
<1>14. CASE RestoreOrigin
    <2>1. CASE drawn[i]
        <3> DEFINE e == [drawing EXCEPT ![p] = {}]
        <3>1. model' = [model EXCEPT !.drawApplied = One(FALSE)] /\ drawing' = e
            BY <1>14, <2>1 DEF RestoreOrigin
        <3>2. e \in [Photos -> SUBSET Mark]
            BY <1>1 DEF FilesTyped
        <3>3. \A q \in Photos : e[q] = IF q = p THEN {} ELSE drawing[q]
            BY <1>1 DEF FilesTyped
        <3> HIDE DEF e, p, i, drawn, n, One
        <3>4. Alone => \A j \in 1 .. n : One(FALSE)[j] <=> e[model.photos[j]] # {}
            BY <1>5, <1>6, <1>7, <1>9, <3>3 DEF p
        <3> QED
            BY <1>2, <1>8, <1>9, <3>1, <3>2, <3>4
    <2>2. CASE ~drawn[i]
        BY <1>2, <1>12, <1>14, <2>2 DEF RestoreOrigin
    <2> QED
        BY <2>1, <2>2
<1>15. CASE ApplyToAll
    <2> DEFINE e == [q \in Photos |-> IF q \in ToSet(model.photos)
                                      THEN drawing[q] \cup {0} ELSE drawing[q]]
    <2>1. model' = [model EXCEPT !.drawApplied = All(TRUE)] /\ drawing' = e
        BY <1>15 DEF ApplyToAll
    <2>2. e \in [Photos -> SUBSET Mark]
        BY <1>1 DEF FilesTyped, Mark
    <2>3. \A j \in 1 .. n : e[model.photos[j]] # {}
        BY <1>5, <1>11
    <2> HIDE DEF e, p, i, drawn, n, All
    <2> QED
        BY <1>2, <1>8, <1>10, <2>1, <2>2, <2>3
<1>16. CASE RemoveAllDrawing
    <2> DEFINE e == [q \in Photos |-> IF q \in ToSet(model.photos)
                                      THEN {} ELSE drawing[q]]
    <2>1. model' = [model EXCEPT !.drawApplied = All(FALSE)] /\ drawing' = e
        BY <1>16 DEF RemoveAllDrawing
    <2>2. e \in [Photos -> SUBSET Mark]
        BY <1>1 DEF FilesTyped
    <2>3. \A j \in 1 .. n : e[model.photos[j]] = {}
        BY <1>5, <1>11
    <2> HIDE DEF e, p, i, drawn, n, All
    <2> QED
        BY <1>2, <1>8, <1>10, <2>1, <2>2, <2>3
<1> QED
    BY <1>13, <1>14, <1>15, <1>16

\* The blur of one frame, and the backup that takes it back.
LEMMA BlurStep ==
    ASSUME TypeInv, ModelInv, ScreenInv, ApplyBlur \/ RemoveBlur
    PROVE  /\ WellTyped(model') /\ FilesTyped' /\ Kept
           /\ model'.photos = model.photos
           /\ model'.comments = model.comments
           /\ UNCHANGED <<drawing, album>>
<1>1. WellTyped(model) /\ FilesTyped /\ view \in View
    BY TypeParts DEF FilesTyped
<1>2. UNCHANGED <<drawing, album>>
    BY DEF ApplyBlur, RemoveBlur
<1> DEFINE n == Count(model)
           i == IF screen = "blur" THEN current ELSE view.index
           p == model.photos[i]
           blurred == model.blurApplied
           One(b) == [blurred EXCEPT ![i] = b]
           Alone == "shared" \notin hazards
<1>3. /\ model.photos \in Seq(Photos) /\ Len(model.photos) = n
      /\ n \in Nat /\ blurred \in Seq(BOOLEAN) /\ Len(blurred) = n
    BY <1>1, ModelParts
<1>4. i \in 1 .. n
    <2>1. CASE ApplyBlur
        BY <2>1 DEF ScreenInv, Frame, ApplyBlur
    <2>2. CASE RemoveBlur
        <3>1. i = view.index /\ i <= n
            BY <2>2 DEF RemoveBlur, InRange
        <3>2. i \in Photos
            BY <1>1, <3>1 DEF View
        <3> QED
            BY <1>3, <3>1, <3>2 DEF Photos
    <2> QED
        BY <2>1, <2>2
<1>5. p \in Photos /\ \A j \in 1 .. n : model.photos[j] \in Photos
    BY <1>3, <1>4
<1>6. Alone => \A j \in 1 .. n : model.photos[j] = p => j = i
    BY <1>4 DEF ModelInv, Right, Distinct
<1>7. Alone => \A j \in 1 .. n :
          LET q == model.photos[j] IN
          /\ content[q] = IF blurred[j] THEN "blurred" ELSE "original"
          /\ backup[q] # "blurred"
          /\ content[q] = "blurred" => backup[q] = "original"
    BY DEF ModelInv, Right, Flagged, BackedUp
<1>8. \A b \in BOOLEAN : /\ One(b) \in Seq(BOOLEAN) /\ Len(One(b)) = n
                         /\ \A j \in 1 .. n :
                               One(b)[j] = IF j = i THEN b ELSE blurred[j]
    <2> HIDE DEF n, i, p, blurred
    <2> QED
        BY <1>3, <1>4, OneFlag
<1>9. ASSUME NEW b \in BOOLEAN, NEW x \in Contents,
             NEW h \in [Photos -> Contents],
             model' = [model EXCEPT !.blurApplied = One(b)],
             content' = [content EXCEPT ![p] = x], backup' = h,
             \A q \in Photos : q # p => h[q] = backup[q],
             Alone => /\ x = IF b THEN "blurred" ELSE "original"
                      /\ h[p] # "blurred"
                      /\ x = "blurred" => h[p] = "original"
      PROVE  /\ WellTyped(model') /\ FilesTyped' /\ Kept
             /\ model'.photos = model.photos
             /\ model'.comments = model.comments
    <2> DEFINE s == One(b)
               e == [content EXCEPT ![p] = x]
    <2>1. s \in Seq(BOOLEAN) /\ Len(s) = n
        BY <1>8
    <2>2. /\ e \in [Photos -> Contents]
          /\ \A q \in Photos : e[q] = IF q = p THEN x ELSE content[q]
        BY <1>1 DEF FilesTyped
    <2>3. ASSUME Alone, NEW j \in 1 .. n
          PROVE  /\ e[model.photos[j]] = IF s[j] THEN "blurred" ELSE "original"
                 /\ h[model.photos[j]] # "blurred"
                 /\ e[model.photos[j]] = "blurred"
                       => h[model.photos[j]] = "original"
        <3>1. s[j] = IF j = i THEN b ELSE blurred[j]
            BY <1>8
        <3> HIDE DEF s, e, n, i, p, blurred, Alone
        <3>2. CASE j = i
            BY <1>5, <1>9, <2>2, <2>3, <3>1, <3>2 DEF p
        <3>3. CASE j # i
            BY <1>5, <1>6, <1>7, <1>9, <2>2, <2>3, <3>1, <3>3
        <3> QED
            BY <3>2, <3>3
    <2> HIDE DEF s, e
    <2>4. LET r == [model EXCEPT !.blurApplied = s] IN
          /\ WellTyped(r) /\ r.photos = model.photos
          /\ r.drawApplied = model.drawApplied /\ r.blurApplied = s
          /\ r.saved = model.saved /\ r.comments = model.comments
        BY <1>1, <2>1, BlurEdit
    <2>5. /\ WellTyped(model') /\ model'.photos = model.photos
          /\ model'.drawApplied = model.drawApplied
          /\ model'.blurApplied = s
          /\ model'.saved = model.saved /\ model'.comments = model.comments
        BY <1>9, <2>4 DEF s
    <2>6. Alone => Right(model', drawing, e, h, album, "encoded" \in hazards)
        BY <1>1, <2>3, <2>5, BlurKeepsRight DEF ModelInv
    <2>7. FilesTyped'
        BY <1>1, <1>2, <1>9, <2>2 DEF FilesTyped, e
    <2>8. Kept
        BY <1>2, <1>9, <2>6 DEF Kept, e
    <2> QED
        BY <2>5, <2>7, <2>8
<1> DEFINE kept == IF backup[p] = "none" THEN content[p] ELSE backup[p]
           h == [backup EXCEPT ![p] = kept]
<1>10. CASE ApplyBlur
    <2>1. /\ model' = [model EXCEPT !.blurApplied = One(TRUE)]
          /\ content' = [content EXCEPT ![p] = "blurred"] /\ backup' = h
        BY <1>10 DEF ApplyBlur
    <2>2. kept \in Contents /\ (Alone => kept = "original")
        BY <1>1, <1>4, <1>5, <1>7 DEF FilesTyped, Contents
    <2>3. /\ h \in [Photos -> Contents]
          /\ h[p] = kept /\ \A q \in Photos : q # p => h[q] = backup[q]
        <3> HIDE DEF kept, p
        <3> QED
            BY <1>1, <1>5, <2>2 DEF FilesTyped
    <2>4. "blurred" \in Contents
        BY DEF Contents
    <2> HIDE DEF h, kept, p, n, One, i, Alone
    <2> QED
        BY <1>2, <1>9, <2>1, <2>2, <2>3, <2>4
<1>11. CASE RemoveBlur
    <2> DEFINE x == IF backup[p] = "none" THEN content[p] ELSE backup[p]
    <2>1. x \in Contents /\ (Alone => x = "original")
        <3>1. blurred[i]
            BY <1>11 DEF RemoveBlur
        <3> QED
            BY <1>1, <1>4, <1>5, <1>7, <3>1 DEF FilesTyped
    <2>2. /\ model' = [model EXCEPT !.blurApplied = One(FALSE)]
          /\ content' = [content EXCEPT ![p] = x]
          /\ backup' = backup
        BY <1>11 DEF RemoveBlur
    <2>3. backup \in [Photos -> Contents]
        BY <1>1 DEF FilesTyped
    <2>4. Alone => backup[p] # "blurred"
        BY <1>4, <1>7
    <2> HIDE DEF h, kept, p, n, One, i, x, Alone
    <2> QED
        BY <1>2, <1>9, <2>1, <2>2, <2>3, <2>4
<1> QED
    BY <1>10, <1>11

\* Frames are saved to the camera roll.
LEMMA SaveStep ==
    ASSUME TypeInv, ModelInv, ScreenInv, SaveSelected \/ SaveSingle
    PROVE  /\ WellTyped(model') /\ FilesTyped' /\ Kept
           /\ model'.photos = model.photos
           /\ model'.comments = model.comments
           /\ UNCHANGED <<drawing, content, backup>>
<1>1. WellTyped(model) /\ FilesTyped
    BY TypeParts DEF FilesTyped
<1>2. UNCHANGED <<drawing, content, backup>>
    BY DEF SaveSelected, SaveSingle
<1>3. PICK I \in SUBSET (1 .. Count(model)) : Save(I)
    <2>1. CASE SaveSelected
        BY <2>1 DEF SaveSelected
    <2>2. CASE SaveSingle
        <3>1. {current} \in SUBSET (1 .. Count(model))
            BY <2>2 DEF SaveSingle, ScreenInv, Frame
        <3> QED
            BY <2>2, <3>1 DEF SaveSingle
    <2> QED
        BY <2>1, <2>2
<1> DEFINE f == model.filter
           x == [model.saved EXCEPT ![f] = @ \cup I]
<1>4. /\ model' = [model EXCEPT !.saved = x]
      /\ album' = album \cup {<<f, model.photos[i]>> :
                                i \in {j \in I : HasImage(j)}}
    BY <1>3 DEF Save
<1>5. /\ WellTyped(model') /\ model'.photos = model.photos
      /\ model'.comments = model.comments
    <2>1. f \in Filters /\ I \in SUBSET Photos /\ Count(model) \in Nat
        BY <1>1, ModelParts DEF Photos
    <2>2. model.saved \in [Filters -> SUBSET Photos]
        BY <1>1, ModelParts
    <2>3. x \in [Filters -> SUBSET Photos]
        BY <2>1, <2>2
    <2> HIDE DEF x
    <2>4. LET r == [model EXCEPT !.saved = x] IN
          /\ WellTyped(r) /\ r.photos = model.photos
          /\ r.comments = model.comments
        BY <1>1, <2>3, SavedEdit
    <2> QED
        BY <1>4, <2>4
<1>6. album' \in SUBSET (Filters \X Photos)
    <2>1. f \in Filters /\ \A i \in 1 .. Count(model) : model.photos[i] \in Photos
        BY <1>1, ModelParts
    <2> QED
        BY <1>1, <1>4, <2>1 DEF FilesTyped
<1>7. ASSUME "shared" \notin hazards
      PROVE  Right(model', drawing', content', backup', album',
                   "encoded" \in hazards)
    <2>1. model' = [model EXCEPT !.saved[model.filter] = @ \cup I]
        BY <1>3 DEF Save
    <2>2. RightNow
        BY <1>7 DEF ModelInv, RightNow
    <2>3. Right(model', drawing, content, backup,
                album \cup {<<f, model.photos[i]>> : i \in I},
                "encoded" \in hazards)
        BY <1>1, <2>1, <2>2, SaveKeepsRight DEF RightNow
    <2>4. {j \in I : HasImage(j)} = I
        BY <2>2 DEF RightNow, Right, Flagged, HasImage
    <2>5. album' = album \cup {<<f, model.photos[i]>> : i \in I}
        BY <1>4, <2>4
    <2> QED
        BY <1>2, <2>3, <2>5
<1> QED
    BY <1>1, <1>2, <1>5, <1>6, <1>7 DEF FilesTyped, Kept

\* Frames are deleted, and with each its image.
LEMMA TrashStep ==
    ASSUME TypeInv, ModelInv, ScreenInv, TrashSelected \/ TrashSingle
    PROVE  /\ WellTyped(model') /\ FilesTyped' /\ Kept
           /\ Count(model') <= Count(model)
           /\ model'.comments = model.comments /\ model'.filter = model.filter
           /\ UNCHANGED <<drawing, backup, album>>
<1>1. WellTyped(model) /\ FilesTyped
    BY TypeParts DEF FilesTyped
<1>2. UNCHANGED <<drawing, backup, album>>
    BY DEF TrashSelected, TrashSingle
<1>3. Count(model) \in Nat
    BY <1>1, ModelParts
<1>4. \A I : Gone(I) \in [Photos -> Contents]
    BY <1>1 DEF Gone, FilesTyped, Contents
<1>5. ASSUME NEW I \in SUBSET (1 .. Count(model)), content' = Gone(I),
             NEW r, model' = r, WellTyped(r),
             RightNow => Right(r, drawing, content, backup, album,
                               "encoded" \in hazards),
             \A j \in 1 .. Count(r) : \E k \in 1 .. Count(model) :
                 r.photos[j] = model.photos[k] /\ k \notin I
      PROVE  FilesTyped' /\ Kept
    <2>1. FilesTyped'
        BY <1>1, <1>2, <1>4, <1>5 DEF FilesTyped
    <2>2. ASSUME "shared" \notin hazards
          PROVE  Right(r, drawing, Gone(I), backup, album,
                       "encoded" \in hazards)
        <3>1. RightNow
            BY <2>2 DEF ModelInv, RightNow
        <3>2. \A i, j \in 1 .. Count(model) :
                  model.photos[i] = model.photos[j] => i = j
            BY <3>1 DEF RightNow, Right, Distinct
        <3>3. ASSUME NEW j \in 1 .. Count(r)
              PROVE  Gone(I)[r.photos[j]] = content[r.photos[j]]
            <4>1. PICK k \in 1 .. Count(model) :
                      r.photos[j] = model.photos[k] /\ k \notin I
                BY <1>5
            <4>2. model.photos[k] \in Photos
                BY <1>1, ModelParts
            <4>3. ~ \E i \in I : model.photos[i] = model.photos[k]
                BY <3>2, <4>1
            <4> QED
                BY <4>1, <4>2, <4>3 DEF Gone
        <3>4. Right(r, drawing, content, backup, album, "encoded" \in hazards)
            BY <1>5, <3>1
        <3> QED
            BY <3>3, <3>4, FilesKeepRight
    <2> QED
        BY <1>2, <1>5, <2>1, <2>2 DEF Kept
<1>6. CASE TrashSelected
    <2> DEFINE I == {i \in 1 .. Count(model) : selected[i]}
    <2>1. model' = DeleteFrames(model, I) /\ content' = Gone(I)
        BY <1>6 DEF TrashSelected
    <2>2. I \in SUBSET (1 .. Count(model))
        OBVIOUS
    <2> HIDE DEF I
    <2>3. /\ Left(model, I, 1, model')
          /\ RightNow => Right(model', drawing, content, backup, album,
                               "encoded" \in hazards)
        BY <1>1, <2>1, <2>2, DeleteFramesValue DEF RightNow
    <2>4. \A j \in 1 .. Count(model') : \E k \in 1 .. Count(model) :
              model'.photos[j] = model.photos[k] /\ k \notin I
        <3> TAKE j \in 1 .. Count(model')
        <3>1. PICK k \in j .. Count(model) :
                  model'.photos[j] = model.photos[k] /\ (k \in I => k < 1)
            BY <2>3 DEF Left
        <3>2. k \in 1 .. Count(model) /\ ~(k < 1)
            BY <1>3
        <3> QED
            BY <3>1, <3>2
    <2>5. WellTyped(model')
        BY <2>3 DEF Left
    <2>6. FilesTyped' /\ Kept
        BY <1>5, <2>1, <2>2, <2>3, <2>4, <2>5
    <2> QED
        BY <1>2, <2>3, <2>6 DEF Left
<1>7. CASE TrashSingle
    <2>1. current \in 1 .. Count(model)
        BY <1>7 DEF TrashSingle, ScreenInv, Frame
    <2>2. model' = RemoveCurrentImage(model, current)
          /\ content' = Gone({current})
        BY <1>7 DEF TrashSingle
    <2>3. /\ WellTyped(model') /\ Count(model') = Count(model) - 1
          /\ model'.comments = model.comments /\ model'.filter = model.filter
          /\ \A j \in 1 .. Count(model) - 1 :
                model'.photos[j] = model.photos[IF j < current THEN j
                                                ELSE j + 1]
        BY <1>1, <2>1, <2>2, RemoveValue
    <2>4. RightNow => Right(model', drawing, content, backup, album,
                            "encoded" \in hazards)
        BY <1>1, <2>1, <2>2, RemoveKeepsRight DEF RightNow
    <2>5. \A j \in 1 .. Count(model') : \E k \in 1 .. Count(model) :
              model'.photos[j] = model.photos[k] /\ k \notin {current}
        <3> TAKE j \in 1 .. Count(model')
        <3> DEFINE k == IF j < current THEN j ELSE j + 1
        <3>1. k \in 1 .. Count(model) /\ k # current
            BY <1>3, <2>1, <2>3
        <3>2. model'.photos[j] = model.photos[k]
            BY <2>3
        <3> HIDE DEF k
        <3> QED
            BY <3>1, <3>2
    <2>6. FilesTyped' /\ Kept
        BY <1>5, <2>1, <2>2, <2>3, <2>4, <2>5
    <2> QED
        BY <1>2, <1>3, <2>3, <2>6
<1> QED
    BY <1>6, <1>7

\* The final image of the only frame goes to the camera roll.
LEMMA EncodeStep ==
    ASSUME TypeInv, ModelInv, EncodeFlipframe, hazards \subseteq hazards'
    PROVE  /\ WellTyped(model') /\ FilesTyped' /\ ModelInv'
           /\ UNCHANGED <<model, drawing, content, backup>>
<1>1. WellTyped(model) /\ FilesTyped /\ final \in [Photos -> Image]
    BY TypeParts DEF FilesTyped
<1>2. UNCHANGED <<model, drawing, content, backup>>
    BY DEF EncodeFlipframe
<1> DEFINE f == final[1].filter
           p == final[1].photo
<1>3. CASE Count(model) = 1 /\ final[1].content # "none"
    <2>1. /\ album' = album \cup {<<f, p>>}
          /\ hazards' = IF p = model.photos[1] /\ 1 \notin model.saved[f]
                        THEN hazards \cup {"encoded"} ELSE hazards
        BY <1>3 DEF EncodeFlipframe
    <2>2. f \in Filters /\ p \in Photos
        <3>1. final[1] \in Image
            BY <1>1 DEF Photos
        <3> QED
            BY <1>3, <3>1 DEF Image
    <2>3. FilesTyped'
        BY <1>1, <1>2, <2>1, <2>2 DEF FilesTyped
    <2> HIDE DEF f, p
    <2>4. ASSUME "shared" \notin hazards'
          PROVE  Right(model, drawing, content, backup, album',
                       "encoded" \in hazards')
        <3>1. Right(model, drawing, content, backup, album,
                    "encoded" \in hazards)
            BY <2>4 DEF ModelInv
        <3>2. SavedAs(model, album', "encoded" \in hazards')
            <4> SUFFICES ASSUME NEW g \in Filters, NEW i \in 1 .. Count(model)
                PROVE  /\ i \in model.saved[g] => <<g, model.photos[i]>> \in album'
                       /\ \/ "encoded" \in hazards'
                          \/ <<g, model.photos[i]>> \in album'
                                => i \in model.saved[g]
                BY DEF SavedAs
            <4>1. /\ i \in model.saved[g] => <<g, model.photos[i]>> \in album
                  /\ \/ "encoded" \in hazards
                     \/ <<g, model.photos[i]>> \in album => i \in model.saved[g]
                BY <3>1 DEF Right, SavedAs
            <4>2. i = 1
                BY <1>3
            <4>3. <<g, model.photos[i]>> = <<f, p>> =>
                      "encoded" \in hazards' \/ i \in model.saved[g]
                BY <2>1, <4>2
            <4> QED
                BY <2>1, <4>1, <4>3
        <3> QED
            BY <3>1, <3>2 DEF Right
    <2>5. ModelInv'
        BY <1>2, <2>4 DEF ModelInv
    <2> QED
        BY <1>1, <1>2, <2>3, <2>5
<1>4. CASE ~(Count(model) = 1 /\ final[1].content # "none")
    <2>1. UNCHANGED <<album, hazards>>
        BY <1>4 DEF EncodeFlipframe
    <2> QED
        BY <1>1, <1>2, <2>1 DEF FilesTyped, ModelInv
<1> QED
    BY <1>3, <1>4

\* A history that is longer excuses no less.
LEMMA KeptInv ==
    ASSUME ModelInv, Kept, hazards \subseteq hazards'
    PROVE  ModelInv'
<1> SUFFICES ASSUME "shared" \notin hazards'
             PROVE  Right(model', drawing', content', backup', album',
                          "encoded" \in hazards')
    BY DEF ModelInv
<1>1. Right(model', drawing', content', backup', album',
            "encoded" \in hazards)
    BY DEF Kept
<1>2. "encoded" \in hazards => "encoded" \in hazards'
    OBVIOUS
<1> QED
    BY <1>1, <1>2 DEF Right, SavedAs

\* The model and its files, over every step.
LEMMA ModelStep ==
    ASSUME TypeInv, ModelInv, ScreenInv, [Next]_vars
    PROVE  WellTyped(model') /\ FilesTyped' /\ ModelInv'
<1>1. hazards \subseteq hazards'
    BY RestTyped
<1>2. CASE EncodeFlipframe
    BY <1>1, <1>2, EncodeStep
<1>3. CASE ModelSteps /\ ~EncodeFlipframe
    <2>1. WellTyped(model') /\ FilesTyped' /\ Kept
        BY <1>3, StoreStep, DrawStep, BlurStep, SaveStep, TrashStep
           DEF ModelSteps
    <2> QED
        BY <1>1, <2>1, KeptInv
<1>4. CASE ~ModelSteps
    <2>1. UNCHANGED modelVars
        BY <1>4, OthersLeaveModel
    <2>2. Kept
        BY <2>1 DEF modelVars, ModelInv, Kept
    <2> QED
        BY <1>1, <2>1, <2>2, TypeParts, KeptInv DEF modelVars, FilesTyped
<1> QED
    BY <1>2, <1>3, <1>4

-----------------------------------------------------------------------------
(* The view                                                                *)

\* The type of the view, and when it is typed in.
LEMMA ViewStep ==
    ASSUME TypeInv, ViewInv, WellTyped(model'), [Next]_vars
    PROVE  view' \in View /\ ViewInv'
<1>1. /\ WellTyped(model) /\ view \in View
      /\ model.comments \in [Photos -> Mark]
    BY TypeParts, ModelParts
<1>2. /\ view.index \in Photos /\ view.shown \in Mark /\ view.label \in Mark
      /\ view.text \in Mark /\ view.loads \in 0 .. MaxLoads
      /\ view.keyboard \in {"down", "up", "hiding"}
    BY <1>1 DEF View
<1>3. Resigned(view) \in View
    BY <1>1, ViewEdits
<1>4. Reloaded(view, model) \in View
    BY <1>1, ViewEdits
<1>5. /\ Resigned(view).index = view.index
      /\ Resigned(view).typing = FALSE
      /\ Resigned(view).text = 0
    BY <1>1 DEF Resigned, View, ViewInv
<1>6. /\ Reloaded(view, model).typing = view.typing
      /\ Reloaded(view, model).text = view.text
      /\ Reloaded(view, model).keyboard = view.keyboard
    BY <1>1 DEF Reloaded, View
<1>7. 1 \in Photos /\ 0 \in Mark
    BY DEF Photos, Mark
<1>8. PhotoAt(model, view.index) \in Mark /\ PhotoAt(model', 1) \in Mark
    BY <1>1, <1>2, <1>7, ViewEdits
<1>9. ASSUME view' = NextImage(view), view.loads < MaxLoads, screen' = screen
      PROVE  view' \in View /\ ViewInv'
    <2>1. Count(model) \in Nat /\ Count(model) <= MaxPhotos
        BY <1>1, ModelParts
    <2> DEFINE i == IF view.index < Count(model) THEN view.index + 1 ELSE 1
    <2>2. i \in Photos /\ view.loads + 1 \in 0 .. MaxLoads
        BY <1>2, <1>9, <2>1 DEF Photos
    <2>3. view' = [view EXCEPT !.index = i, !.loads = view.loads + 1]
        BY <1>9 DEF NextImage
    <2> HIDE DEF i
    <2>4. /\ view' \in View /\ view'.typing = view.typing
          /\ view'.text = view.text /\ view'.keyboard = view.keyboard
        BY <1>1, <2>2, <2>3 DEF View
    <2> QED
        BY <1>9, <2>4 DEF ViewInv
<1>10. ASSUME view' = Reloaded(view, model),
              screen' = screen \/ screen # "edit"
       PROVE  view' \in View /\ ViewInv'
    BY <1>4, <1>6, <1>10 DEF ViewInv
<1>11. ASSUME UNCHANGED view,
              \/ screen' = screen \/ screen # "edit" \/ view.keyboard # "up"
       PROVE  view' \in View /\ ViewInv'
    BY <1>1, <1>11 DEF ViewInv
<1>12. CASE Preview
    <2>1. CASE TapPreview
        <3>1. CASE view' = Resigned(view)
            BY <1>3, <1>5, <3>1 DEF ViewInv
        <3>2. CASE view.loads < MaxLoads /\ view' = NextImage(view)
            BY <1>9, <2>1, <3>2 DEF TapPreview
        <3> QED
            BY <2>1, <3>1, <3>2 DEF TapPreview
    <2>2. CASE HoldPreview
        BY <1>9, <2>2 DEF HoldPreview
    <2>3. CASE LoadImage
        <3> DEFINE v == Resigned(view)
                   photo == PhotoAt(model, view.index)
                   text == model.comments[view.index]
        <3>1. view' = [v EXCEPT !.shown = photo, !.label = text, !.text = 0,
                                !.loads = v.loads - 1]
            BY <2>3 DEF LoadImage
        <3>2. text \in Mark
            BY <1>1, <1>2
        <3>3. v.loads = view.loads /\ view.loads - 1 \in 0 .. MaxLoads
            BY <1>1, <1>2, <2>3, ViewEdits DEF LoadImage
        <3> HIDE DEF v, photo, text
        <3>4. view' \in View /\ view'.typing = v.typing /\ view'.text = 0
            BY <1>3, <1>7, <1>8, <3>1, <3>2, <3>3 DEF View, v, photo
        <3> QED
            BY <1>5, <3>4 DEF ViewInv, v
    <2>4. CASE SwipeDown
        <3> DEFINE text == IF view.label # 0 THEN view.label ELSE view.text
        <3>1. view' = [view EXCEPT !.typing = TRUE, !.editing = TRUE,
                                   !.keyboard = "up", !.text = text,
                                   !.label = 0]
            BY <2>4 DEF SwipeDown
        <3>2. text \in Mark
            BY <1>2
        <3> HIDE DEF text
        <3>3. view' \in View /\ view'.typing = TRUE /\ view'.keyboard = "up"
            BY <1>1, <1>7, <3>1, <3>2 DEF View
        <3> QED
            BY <2>4, <3>3 DEF SwipeDown, ViewInv
    <2>5. CASE TypeComment
        <3>1. PICK t \in {0, view.shown} : view' = [view EXCEPT !.text = t]
            BY <2>5 DEF TypeComment
        <3>2. t \in Mark
            BY <1>2, <1>7
        <3>3. /\ view' \in View /\ view'.typing = view.typing
              /\ view'.keyboard = view.keyboard
            BY <1>1, <3>1, <3>2 DEF View
        <3> QED
            BY <2>5, <3>3 DEF TypeComment, ViewInv
    <2>6. CASE KeyboardDidHide
        <3>1. view' = [view EXCEPT !.keyboard = "down", !.editing = FALSE]
            BY <2>6 DEF KeyboardDidHide
        <3>2. /\ view' \in View /\ view'.typing = view.typing
              /\ view'.text = view.text
            BY <1>1, <3>1 DEF View
        <3> QED
            BY <2>6, <3>2 DEF KeyboardDidHide, ViewInv
    <2>7. CASE DragComment
        BY <1>11, <2>7 DEF DragComment
    <2> QED
        BY <1>12, <2>1, <2>2, <2>3, <2>4, <2>5, <2>6, <2>7 DEF Preview
<1>13. CASE Effects
    <2>1. ASSUME NEW f \in Filters, SelectFilter(f)
          PROVE  view' \in View /\ ViewInv'
        BY <1>10, <2>1 DEF SelectFilter
    <2>2. CASE TouchCrashes \/ BeginDrawing \/ BeginBlur
        BY <1>11, <2>2 DEF TouchCrashes, Crash, BeginDrawing, BeginBlur
    <2>3. CASE Stroke \/ CancelDrawing \/ CancelBlur
        BY <1>11, <2>3 DEF Stroke, CancelDrawing, CancelBlur
    <2>4. CASE EndDrawing
        BY <1>10, <1>11, <2>4 DEF EndDrawing
    <2>5. CASE RestoreOrigin \/ ApplyToAll \/ RemoveAllDrawing
        BY <1>10, <2>5 DEF RestoreOrigin, ApplyToAll, RemoveAllDrawing
    <2>6. CASE ApplyBlur \/ RemoveBlur
        BY <1>10, <2>6 DEF ApplyBlur, RemoveBlur
    <2> QED
        BY <1>13, <2>1, <2>2, <2>3, <2>4, <2>5, <2>6 DEF Effects
<1>14. CASE Frames
    <2>1. CASE TrashSelected
        <3> DEFINE photo == PhotoAt(model', 1)
        <3>1. view' = [view EXCEPT !.index = 1, !.shown = photo]
            BY <2>1 DEF TrashSelected
        <3> HIDE DEF photo
        <3>2. /\ view' \in View /\ view'.typing = view.typing
              /\ view'.text = view.text
            BY <1>1, <1>7, <1>8, <3>1 DEF View, photo
        <3>3. screen = "frames"
            BY <2>1 DEF TrashSelected
        <3> QED
            BY <3>2, <3>3 DEF ViewInv
    <2>2. CASE ~TrashSelected
        BY <1>11, <1>14, <2>2 DEF Frames, OpenFrames, CloseFrames, DeselectAll,
           SelectFrame, OpenSingle, SaveSelected, NextSingle, SaveSingle,
           TrashSingle, CloseSingle
    <2> QED
        BY <2>1, <2>2
<1>15. CASE Finish
    <2>1. CASE ThemeBegins
        <3>1. view' = [view EXCEPT !.keyboard = "up"] /\ ~view.typing
            BY <2>1 DEF ThemeBegins
        <3>2. /\ view' \in View /\ view'.typing = view.typing
              /\ view'.text = view.text
            BY <1>1, <3>1 DEF View
        <3> QED
            BY <3>1, <3>2 DEF ViewInv
    <2>2. CASE ThemeEnds
        <3>1. view' = [view EXCEPT !.keyboard = "hiding"] /\ screen = "theme"
            BY <2>2 DEF ThemeEnds
        <3>2. /\ view' \in View /\ view'.typing = view.typing
              /\ view'.text = view.text
            BY <1>1, <3>1 DEF View
        <3> QED
            BY <3>1, <3>2 DEF ViewInv
    <2>3. CASE ~ThemeBegins /\ ~ThemeEnds
        BY <1>11, <1>15, <2>3 DEF Finish, Advance, GoBack, BeginCompile,
           CompileFrame, CompileDone, EncodeFlipframe, Upload, PostReply
    <2> QED
        BY <2>1, <2>2, <2>3
<1>16. CASE UNCHANGED vars
    BY <1>11, <1>16 DEF vars
<1> QED
    BY <1>12, <1>13, <1>14, <1>15, <1>16 DEF Next

-----------------------------------------------------------------------------
(* The screens                                                             *)

\* What a final image is made of.
LEMMA RenderTyped ==
    ASSUME TypeInv, NEW i \in 1 .. Count(model)
    PROVE  Render(i) \in Image
<1>1. /\ WellTyped(model)
      /\ drawing \in [Photos -> SUBSET Mark]
      /\ content \in [Photos -> Contents]
    BY TypeParts
<1>2. /\ model.photos \in Seq(Photos) /\ Len(model.photos) = Count(model)
      /\ Count(model) \in Nat /\ Count(model) <= MaxPhotos
      /\ model.comments \in [Photos -> Mark] /\ model.filter \in Filters
    BY <1>1, ModelParts
<1> DEFINE p == model.photos[i]
           strokes == IF model.drawApplied[i] THEN drawing[p] ELSE {}
<1>3. p \in Photos /\ i \in Photos
    BY <1>2 DEF Photos
<1>4. /\ p \in Mark /\ content[p] \in Contents
      /\ strokes \in SUBSET Mark /\ model.comments[i] \in Mark
    BY <1>1, <1>2, <1>3 DEF Mark, Photos
<1>5. Render(i) = [photo |-> p, content |-> content[p],
                   filter |-> model.filter, strokes |-> strokes,
                   comment |-> model.comments[i]]
    BY DEF Render
<1> HIDE DEF p, strokes
<1> QED
    BY <1>2, <1>3, <1>4, <1>5 DEF Image

\* The final images of all frames.
LEMMA ImagesValue ==
    ASSUME TypeInv
    PROVE  /\ Images \in Seq(Image) /\ Len(Images) = Count(model)
           /\ \A i \in 1 .. Count(model) : Images[i] = final[i]
<1>1. final \in [1 .. MaxPhotos -> Image]
    BY TypeParts DEF Photos
<1>2. final \in Seq(Image) /\ Len(final) = MaxPhotos
    BY <1>1
<1>3. Count(model) \in Nat /\ Count(model) <= MaxPhotos
    BY TypeParts, ModelParts
<1> QED
    BY <1>2, <1>3 DEF Images

\* A selection of nothing.
LEMMA NoneSelectedTyped ==
    ASSUME NEW m, WellTyped(m)
    PROVE  /\ NoneSelected(m) \in Seq(BOOLEAN)
           /\ Len(NoneSelected(m)) = Count(m)
           /\ NoneSelected(m) \in BoundedSeq(BOOLEAN, MaxPhotos)
<1>1. Count(m) \in Nat /\ Count(m) <= MaxPhotos
    BY ModelParts
<1>2. NoneSelected(m) \in [1 .. Count(m) -> BOOLEAN]
    BY DEF NoneSelected
<1>3. NoneSelected(m) \in Seq(BOOLEAN) /\ Len(NoneSelected(m)) = Count(m)
    BY <1>1, <1>2
<1> QED
    BY <1>1, <1>3, Bounded

\* The types of the final images and of the replies.
LEMMA FinalTyped ==
    ASSUME TypeInv, [Next]_vars
    PROVE  final' \in [Photos -> Image] /\ replies' \in Seq(Seq(Image))
<1>1. final \in [Photos -> Image] /\ replies \in Seq(Seq(Image))
    BY DEF TypeInv
<1>2. CASE CompileFrame
    <2>1. current \in 1 .. Count(model)
        BY <1>2, TypeParts, ModelParts DEF CompileFrame
    <2>2. Render(current) \in Image
        BY <2>1, RenderTyped
    <2>3. final' = [final EXCEPT ![current] = Render(current)]
        BY <1>2 DEF CompileFrame
    <2>4. final' \in [Photos -> Image]
        BY <1>1, <2>2, <2>3
    <2>5. replies' = replies
        BY <1>2 DEF CompileFrame, replyVars
    <2> QED
        BY <1>1, <2>4, <2>5
<1>3. CASE PostReply
    <2>1. final' = final /\ (replies' = replies \/ replies' = Append(replies, Images))
        BY <1>3 DEF PostReply, fileVars
    <2>2. Images \in Seq(Image)
        BY ImagesValue
    <2>3. Append(replies, Images) \in Seq(Seq(Image))
        BY <1>1, <2>2, AppendProperties
    <2> QED
        BY <1>1, <2>1, <2>3
<1>4. CASE Preview
    BY <1>1, <1>4 DEF Preview, TapPreview, HoldPreview, LoadImage, SwipeDown,
       TypeComment, KeyboardDidHide, DragComment, NothingElse, fileVars,
       replyVars
<1>5. CASE Effects
    BY <1>1, <1>5 DEF Effects, SelectFilter, TouchCrashes, Crash, BeginDrawing,
       Stroke, EndDrawing, CancelDrawing, RestoreOrigin, ApplyToAll,
       RemoveAllDrawing, BeginBlur, CancelBlur, ApplyBlur, RemoveBlur,
       NothingElse, fileVars, replyVars
<1>6. CASE Frames
    BY <1>1, <1>6 DEF Frames, OpenFrames, CloseFrames, DeselectAll,
       SelectFrame, OpenSingle, SaveSelected, TrashSelected, NextSingle,
       SaveSingle, TrashSingle, CloseSingle, fileVars, replyVars
<1>7. CASE Finish /\ ~CompileFrame /\ ~PostReply
    BY <1>1, <1>7 DEF Finish, Advance, ThemeBegins, ThemeEnds, GoBack,
       BeginCompile, CompileDone, EncodeFlipframe, Upload, NothingElse,
       fileVars, replyVars
<1>8. CASE UNCHANGED vars
    BY <1>1, <1>8 DEF vars, fileVars, replyVars
<1> QED
    BY <1>2, <1>3, <1>4, <1>5, <1>6, <1>7, <1>8 DEF Next

\* The selection of the frames screen, and the frame shown or compiled.
LEMMA SelectionStep ==
    ASSUME TypeInv, ScreenInv, WellTyped(model'), [Next]_vars
    PROVE  /\ selected' \in BoundedSeq(BOOLEAN, MaxPhotos)
           /\ current' \in 1 .. MaxPhotos + 1
<1>1. /\ WellTyped(model) /\ selected \in Seq(BOOLEAN)
      /\ Len(selected) <= MaxPhotos /\ current \in 1 .. MaxPhotos + 1
      /\ selected \in BoundedSeq(BOOLEAN, MaxPhotos)
    BY TypeParts, Bounded
<1>2. /\ Count(model) \in Nat /\ Count(model) <= MaxPhotos
      /\ Count(model') \in Nat /\ Count(model') <= MaxPhotos
    BY <1>1, ModelParts
<1>3. 1 \in 1 .. MaxPhotos + 1
    OBVIOUS
<1>4. CASE Preview
    BY <1>1, <1>4 DEF Preview, TapPreview, HoldPreview, LoadImage, SwipeDown,
       TypeComment, KeyboardDidHide, DragComment, NothingElse, framesVars
<1>5. CASE Effects
    <2>1. view.index \in 1 .. MaxPhotos + 1
        <3>1. view.index \in Photos
            BY TypeParts DEF View
        <3> QED
            BY <3>1 DEF Photos
    <2>2. /\ selected' = selected
          /\ current' = current \/ current' = 1 \/ current' = view.index
        BY <1>5 DEF Effects, SelectFilter, TouchCrashes, Crash, BeginDrawing,
           Stroke, EndDrawing, CancelDrawing, RestoreOrigin, ApplyToAll,
           RemoveAllDrawing, BeginBlur, CancelBlur, ApplyBlur, RemoveBlur,
           NothingElse, framesVars
    <2> QED
        BY <1>1, <1>3, <2>1, <2>2
<1>6. CASE Frames
    <2>1. CASE OpenFrames \/ DeselectAll
        BY <1>1, <2>1, NoneSelectedTyped DEF OpenFrames, DeselectAll
    <2>2. CASE CloseFrames
        <3>1. << >> \in Seq(BOOLEAN) /\ Len(<< >>) <= MaxPhotos
            OBVIOUS
        <3>2. << >> \in BoundedSeq(BOOLEAN, MaxPhotos)
            BY <3>1, Bounded
        <3> QED
            BY <1>1, <2>2, <3>2 DEF CloseFrames
    <2>3. ASSUME NEW i \in Photos, SelectFrame(i)
          PROVE  /\ selected' \in BoundedSeq(BOOLEAN, MaxPhotos)
                 /\ current' = current
        <3>1. /\ i \in 1 .. Len(selected) /\ current' = current
              /\ selected' = [selected EXCEPT ![i] = ~selected[i]]
            BY <1>1, <2>3 DEF SelectFrame
        <3>2. (~selected[i]) \in BOOLEAN
            OBVIOUS
        <3>3. selected' \in Seq(BOOLEAN) /\ Len(selected') = Len(selected)
            BY <1>1, <3>1, <3>2, OneFlag
        <3> QED
            BY <1>1, <3>1, <3>3, Bounded
    <2>4. ASSUME NEW i \in Photos, OpenSingle(i)
          PROVE  selected' = selected /\ current' \in 1 .. MaxPhotos + 1
        BY <2>4 DEF OpenSingle, framesVars, Photos
    <2>5. CASE SaveSelected \/ TrashSelected \/ SaveSingle \/ CloseSingle
        BY <1>1, <1>3, <2>5 DEF SaveSelected, TrashSelected, SaveSingle,
           CloseSingle, framesVars
    <2>6. CASE NextSingle \/ TrashSingle
        <3>1. \/ current' = 1 \/ current' = current
              \/ current < Count(model) /\ current' = current + 1
            BY <2>6 DEF NextSingle, TrashSingle
        <3> QED
            BY <1>1, <1>2, <1>3, <2>6, <3>1 DEF NextSingle, TrashSingle,
               framesVars
    <2> QED
        BY <1>1, <1>6, <2>1, <2>2, <2>3, <2>4, <2>5, <2>6 DEF Frames
<1>7. CASE Finish
    <2>1. CASE CompileFrame
        <3>1. current + 1 \in 1 .. MaxPhotos + 1
            BY <1>1, <1>2, <2>1 DEF CompileFrame
        <3> QED
            BY <1>1, <2>1, <3>1 DEF CompileFrame, framesVars
    <2>2. CASE ~CompileFrame
        BY <1>1, <1>3, <1>7, <2>2 DEF Finish, Advance, ThemeBegins, ThemeEnds,
           GoBack, BeginCompile, CompileDone, EncodeFlipframe, Upload,
           PostReply, NothingElse, framesVars
    <2> QED
        BY <2>1, <2>2
<1>8. CASE UNCHANGED vars
    BY <1>1, <1>8 DEF vars, framesVars
<1> QED
    BY <1>4, <1>5, <1>6, <1>7, <1>8 DEF Next

\* The type of the state.
LEMMA TypeStep ==
    ASSUME TypeInv, ModelInv, ViewInv, ScreenInv, [Next]_vars
    PROVE  TypeInv'
<1>1. WellTyped(model') /\ FilesTyped'
    BY ModelStep
<1>2. view' \in View
    BY <1>1, ViewStep
<1>3. /\ selected' \in BoundedSeq(BOOLEAN, MaxPhotos)
      /\ current' \in 1 .. MaxPhotos + 1
    BY <1>1, SelectionStep
<1>4. final' \in [Photos -> Image] /\ replies' \in Seq(Seq(Image))
    BY FinalTyped
<1>5. /\ screen' \in Screens /\ canvas' \in SUBSET Photos
      /\ deselecting' \in BOOLEAN /\ isReply' \in BOOLEAN
      /\ encoding' \in Nat /\ edits' \in 0 .. MaxEdits
      /\ hazards' \subseteq Hazards
    BY RestTyped
<1>6. DOMAIN final' = Photos
    BY <1>4
<1>7. TypeOK'
    BY <1>1, <1>2, <1>3, <1>5, <1>6 DEF TypeOK, WellTyped, FilesTyped
<1> QED
    BY <1>4, <1>7 DEF TypeInv

\* Only a deletion changes what the frames are.
LEMMA PhotosStay ==
    ASSUME TypeInv, ModelInv, ScreenInv, [Next]_vars,
           ~TrashSelected, ~TrashSingle
    PROVE  /\ model'.photos = model.photos /\ Count(model') = Count(model)
           /\ \A i : PhotoAt(model', i) = PhotoAt(model, i)
<1>1. model'.photos = model.photos
    <2>1. CASE ModelSteps
        BY <2>1, RestTyped, StoreStep, DrawStep, BlurStep, SaveStep, EncodeStep
           DEF ModelSteps
    <2>2. CASE ~ModelSteps
        BY <2>2, OthersLeaveModel DEF modelVars
    <2> QED
        BY <2>1, <2>2
<1> QED
    BY <1>1 DEF Count, PhotoAt

\* Only a tap, a long press and a deletion move the index of the view.
LEMMA IndexStays ==
    ASSUME TypeInv, [Next]_vars, ~TapPreview, ~HoldPreview, ~TrashSelected
    PROVE  view'.index = view.index
<1>1. view \in View /\ WellTyped(model)
    BY TypeParts
<1>2. Resigned(view) \in View /\ Resigned(view).index = view.index
    BY <1>1, ViewEdits
<1>3. Reloaded(view, model).index = view.index
    BY <1>1 DEF Reloaded, View
<1>4. CASE Preview
    <2>1. CASE LoadImage
        <3> DEFINE v == Resigned(view)
        <3>1. view' = [v EXCEPT !.shown = PhotoAt(model, view.index),
                                !.label = model.comments[view.index],
                                !.text = 0, !.loads = v.loads - 1]
            BY <2>1 DEF LoadImage
        <3> HIDE DEF v
        <3>2. view'.index = v.index
            BY <1>2, <3>1 DEF View, v
        <3> QED
            BY <1>2, <3>2 DEF v
    <2>2. CASE SwipeDown
        <3> DEFINE text == IF view.label # 0 THEN view.label ELSE view.text
        <3>1. view' = [view EXCEPT !.typing = TRUE, !.editing = TRUE,
                                   !.keyboard = "up", !.text = text,
                                   !.label = 0]
            BY <2>2 DEF SwipeDown
        <3> HIDE DEF text
        <3> QED
            BY <1>1, <3>1 DEF View
    <2>3. CASE TypeComment
        BY <1>1, <2>3 DEF TypeComment, View
    <2>4. CASE KeyboardDidHide
        BY <1>1, <2>4 DEF KeyboardDidHide, View
    <2>5. CASE DragComment
        BY <2>5 DEF DragComment
    <2> QED
        BY <1>4, <2>1, <2>2, <2>3, <2>4, <2>5 DEF Preview
<1>5. CASE Effects
    <2>1. view' = view \/ view' = Reloaded(view, model)
        BY <1>5 DEF Effects, SelectFilter, TouchCrashes, Crash, BeginDrawing,
           Stroke, EndDrawing, CancelDrawing, RestoreOrigin, ApplyToAll,
           RemoveAllDrawing, BeginBlur, CancelBlur, ApplyBlur, RemoveBlur
    <2> QED
        BY <1>3, <2>1
<1>6. CASE Frames
    BY <1>6 DEF Frames, OpenFrames, CloseFrames, DeselectAll, SelectFrame,
       OpenSingle, SaveSelected, NextSingle, SaveSingle, TrashSingle,
       CloseSingle
<1>7. CASE Finish
    <2>1. CASE ThemeBegins \/ ThemeEnds
        BY <1>1, <2>1 DEF ThemeBegins, ThemeEnds, View
    <2>2. CASE ~ThemeBegins /\ ~ThemeEnds
        BY <1>7, <2>2 DEF Finish, Advance, GoBack, BeginCompile, CompileFrame,
           CompileDone, EncodeFlipframe, Upload, PostReply
    <2> QED
        BY <2>1, <2>2
<1>8. CASE UNCHANGED vars
    BY <1>8 DEF vars
<1> QED
    BY <1>4, <1>5, <1>6, <1>7, <1>8 DEF Next

\* The next frame is there if the one before it is.
LEMMA NextImageInRange ==
    ASSUME TypeInv, InRange
    PROVE  NextImage(view).index <= Count(model)
<1>1. /\ view \in View /\ view.index \in Nat /\ view.index >= 1
      /\ view.index <= Count(model) /\ Count(model) \in Nat
    BY TypeParts, ModelParts DEF View, Photos, InRange
<1> DEFINE i == IF view.index < Count(model) THEN view.index + 1 ELSE 1
<1>2. i <= Count(model)
    BY <1>1
<1>3. NextImage(view) = [view EXCEPT !.index = i, !.loads = view.loads + 1]
    BY DEF NextImage
<1> HIDE DEF i
<1> QED
    BY <1>1, <1>2, <1>3 DEF View

\* What the screens work on is there after any step.
LEMMA ScreenStep ==
    ASSUME TypeInv, ModelInv, ScreenInv, [Next]_vars
    PROVE  ScreenInv'
<1>1. /\ selected \in Seq(BOOLEAN) /\ current \in Nat /\ current >= 1
      /\ WellTyped(model) /\ WellTyped(model')
    BY TypeParts, ModelStep
<1>2. Count(model) \in Nat /\ Count(model') \in Nat
    BY <1>1, ModelParts
<1>3. CASE ~TrashSelected /\ ~TrashSingle
    <2>1. Count(model') = Count(model)
        BY <1>3, PhotosStay
    <2>2. ASSUME UNCHANGED <<selected, deselecting, current>>,
                 screen' # screen =>
                     screen' \notin {"draw", "blur", "frames", "single"},
                 screen \in {"draw", "blur"} =>
                     \/ view'.index = view.index
                     \/ view'.index <= Count(model)
          PROVE  ScreenInv'
        BY <2>1, <2>2 DEF ScreenInv, InRange, Frame
    <2>3. CASE Preview
        <3>1. UNCHANGED <<selected, deselecting, current, screen>>
            BY <2>3 DEF Preview, TapPreview, HoldPreview, LoadImage, SwipeDown,
               TypeComment, KeyboardDidHide, DragComment, NothingElse,
               framesVars
        <3>2. screen \in {"draw", "blur"} => ~TapPreview
            BY DEF TapPreview
        <3>3. HoldPreview /\ screen \in {"draw", "blur"} =>
                  view'.index <= Count(model)
            BY NextImageInRange DEF HoldPreview, ScreenInv
        <3> QED
            BY <1>3, <2>2, <3>1, <3>2, <3>3, IndexStays
    <2>4. CASE Effects
        <3>1. UNCHANGED <<selected, deselecting>>
            BY <2>4 DEF Effects, SelectFilter, TouchCrashes, Crash,
               BeginDrawing, Stroke, EndDrawing, CancelDrawing, RestoreOrigin,
               ApplyToAll, RemoveAllDrawing, BeginBlur, CancelBlur, ApplyBlur,
               RemoveBlur, NothingElse, framesVars
        <3>2. CASE BeginDrawing
            BY <2>1, <3>1, <3>2 DEF BeginDrawing, ScreenInv, InRange
        <3>3. CASE BeginBlur
            <4>1. /\ view.index \in 1 .. Count(model) /\ view' = view
                  /\ current' = view.index /\ screen' = "blur"
                BY <1>2, <3>3, TypeParts DEF BeginBlur, InRange, View, Photos
            <4> QED
                BY <1>2, <2>1, <4>1 DEF ScreenInv, InRange, Frame
        <3>4. CASE CancelBlur \/ ApplyBlur
            BY <3>4 DEF CancelBlur, ApplyBlur, ScreenInv
        <3>5. CASE ~BeginDrawing /\ ~BeginBlur /\ ~CancelBlur /\ ~ApplyBlur
            <4>1. screen' \in {screen, "edit", "crashed"} /\ current' = current
                BY <2>4, <3>5 DEF Effects, SelectFilter, TouchCrashes, Crash,
                   Stroke, EndDrawing, CancelDrawing, RestoreOrigin,
                   ApplyToAll, RemoveAllDrawing, RemoveBlur, NothingElse
            <4>2. view' = view \/ view' = Reloaded(view, model)
                BY <2>4, <3>5 DEF Effects, SelectFilter, TouchCrashes, Crash,
                   Stroke, EndDrawing, CancelDrawing, RestoreOrigin,
                   ApplyToAll, RemoveAllDrawing, RemoveBlur, NothingElse
            <4>3. view'.index = view.index
                BY <4>2, TypeParts DEF Reloaded, View
            <4> QED
                BY <2>2, <3>1, <4>1, <4>3
        <3> QED
            BY <3>2, <3>3, <3>4, <3>5
    <2>5. CASE Frames
        <3>1. CASE OpenFrames
            BY <1>1, <2>1, <3>1, NoneSelectedTyped DEF OpenFrames, ScreenInv
        <3>2. CASE CloseFrames
            BY <3>2 DEF CloseFrames, ScreenInv
        <3>3. CASE DeselectAll
            <4>1. /\ screen' = screen /\ view' = view /\ current' = current
                  /\ Len(selected') = Count(model')
                BY <1>1, <2>1, <3>3, NoneSelectedTyped DEF DeselectAll
            <4> QED
                BY <1>2, <2>1, <4>1 DEF ScreenInv, InRange, Frame
        <3>4. ASSUME NEW i \in Photos, SelectFrame(i)
              PROVE  ScreenInv'
            <4>1. /\ i \in 1 .. Len(selected)
                  /\ selected' = [selected EXCEPT ![i] = ~selected[i]]
                  /\ screen = "frames"
                  /\ UNCHANGED <<screen, view, deselecting, current>>
                BY <1>1, <3>4 DEF SelectFrame
            <4>2. (~selected[i]) \in BOOLEAN
                OBVIOUS
            <4>3. Len(selected') = Len(selected)
                BY <1>1, <4>1, <4>2, OneFlag
            <4> QED
                BY <2>1, <4>1, <4>3 DEF ScreenInv, InRange, Frame
        <3>5. ASSUME NEW i \in Photos, OpenSingle(i)
              PROVE  ScreenInv'
            BY <2>1, <3>5 DEF OpenSingle, framesVars, ScreenInv, Frame, Photos
        <3>6. CASE NextSingle
            <4>1. current' \in 1 .. Count(model')
                BY <1>1, <1>2, <2>1, <3>6 DEF NextSingle, ScreenInv, Frame
            <4> QED
                BY <2>1, <3>6, <4>1 DEF NextSingle, framesVars, ScreenInv,
                   Frame
        <3>7. CASE CloseSingle
            BY <2>1, <3>7 DEF CloseSingle, ScreenInv
        <3>8. CASE SaveSelected
            BY <2>1, <3>8 DEF SaveSelected, ScreenInv
        <3>9. CASE SaveSingle
            BY <2>1, <3>9 DEF SaveSingle, framesVars, ScreenInv, Frame
        <3> QED
            BY <1>3, <2>5, <3>1, <3>2, <3>3, <3>4, <3>5, <3>6, <3>7, <3>8, <3>9
               DEF Frames
    <2>6. CASE Finish
        <3>1. CASE EncodeFlipframe
            BY <2>2, <3>1 DEF EncodeFlipframe, framesVars
        <3>2. CASE ~EncodeFlipframe
            BY <2>6, <3>2 DEF Finish, Advance, ThemeBegins, ThemeEnds, GoBack,
               BeginCompile, CompileFrame, CompileDone, Upload, PostReply,
               ScreenInv
        <3> QED
            BY <3>1, <3>2
    <2>7. CASE UNCHANGED vars
        BY <2>2, <2>7 DEF vars, framesVars
    <2> QED
        BY <2>3, <2>4, <2>5, <2>6, <2>7 DEF Next
<1>4. CASE TrashSelected
    <2>1. Count(model') <= Count(model)
        BY <1>4, TrashStep
    <2>2. /\ screen = "frames" /\ screen' \in {"frames", "crashed"}
          /\ selected' = selected /\ deselecting' = TRUE
        BY <1>4 DEF TrashSelected
    <2>3. Count(model') <= Len(selected)
        BY <1>1, <1>2, <2>1, <2>2 DEF ScreenInv
    <2> QED
        BY <2>2, <2>3 DEF ScreenInv
<1>5. CASE TrashSingle
    <2>1. /\ screen = "single" /\ screen' = "single" /\ selected' = selected
          /\ model' = RemoveCurrentImage(model, current)
          /\ current' = IF current > Count(model') THEN 1 ELSE current
          /\ Count(model) > 1
        BY <1>5 DEF TrashSingle, framesVars
    <2>2. current \in 1 .. Count(model) /\ Count(model) <= Len(selected)
        BY <2>1 DEF ScreenInv, Frame
    <2>3. Count(model') = Count(model) - 1
        BY <1>1, <2>1, <2>2, RemoveValue
    <2>4. current' \in 1 .. Count(model') /\ Count(model') <= Len(selected)
        BY <1>1, <1>2, <2>1, <2>2, <2>3
    <2> QED
        BY <2>1, <2>4 DEF ScreenInv, Frame
<1> QED
    BY <1>3, <1>4, <1>5

\* A deletion with a selection of the frames that are there leaves one.
LEMMA NoCrashStep ==
    ASSUME TypeInv, ModelInv, ScreenInv, NoCrash, [Next]_vars
    PROVE  NoCrash'
<1> SUFFICES ASSUME hazards' \cap {"twice", "dangling"} = {}
             PROVE  screen' # "crashed" /\ InRange'
    BY DEF NoCrash
<1>1. screen # "crashed" /\ view.index <= Count(model)
    BY RestTyped DEF NoCrash, InRange
<1>2. /\ view \in View /\ view.index \in Nat /\ view.index >= 1
      /\ WellTyped(model) /\ WellTyped(model')
    BY TypeParts, ModelStep DEF View, Photos
<1>3. Count(model) \in Nat /\ Count(model') \in Nat
    BY <1>2, ModelParts
<1>4. CASE ~TrashSelected /\ ~TrashSingle
    <2>1. Count(model') = Count(model)
        BY <1>4, PhotosStay
    <2>2. screen' # "crashed"
        <3>1. CASE Preview
            BY <1>1, <3>1 DEF Preview, TapPreview, HoldPreview, LoadImage,
               SwipeDown, TypeComment, KeyboardDidHide, DragComment
        <3>2. CASE Effects
            BY <1>1, <3>2 DEF Effects, SelectFilter, TouchCrashes, Crash,
               InRange, BeginDrawing, Stroke, EndDrawing, CancelDrawing,
               RestoreOrigin, ApplyToAll, RemoveAllDrawing, BeginBlur,
               CancelBlur, ApplyBlur, RemoveBlur
        <3>3. CASE Frames
            BY <1>1, <1>4, <3>3 DEF Frames, OpenFrames, CloseFrames,
               DeselectAll, SelectFrame, OpenSingle, SaveSelected, NextSingle,
               SaveSingle, CloseSingle
        <3>4. CASE Finish
            BY <1>1, <3>4 DEF Finish, Advance, ThemeBegins, ThemeEnds, GoBack,
               BeginCompile, CompileFrame, CompileDone, EncodeFlipframe,
               Upload, PostReply
        <3>5. CASE UNCHANGED vars
            BY <1>1, <3>5 DEF vars
        <3> QED
            BY <3>1, <3>2, <3>3, <3>4, <3>5 DEF Next
    <2>3. view'.index <= Count(model)
        <3>1. CASE TapPreview \/ HoldPreview
            <4>1. CASE view' = Resigned(view)
                BY <1>1, <1>2, <4>1, ViewEdits
            <4>2. CASE view' = NextImage(view)
                BY <1>1, <4>2, NextImageInRange DEF InRange
            <4> QED
                BY <3>1, <4>1, <4>2 DEF TapPreview, HoldPreview
        <3>2. CASE ~TapPreview /\ ~HoldPreview
            BY <1>1, <1>4, <3>2, IndexStays
        <3> QED
            BY <3>1, <3>2
    <2> QED
        BY <2>1, <2>2, <2>3 DEF InRange
<1>5. CASE TrashSelected
    <2> DEFINE I == {i \in 1 .. Count(model) : selected[i]}
               photo == PhotoAt(model', 1)
    <2>1. /\ screen = "frames" /\ model' = DeleteFrames(model, I)
          /\ FALSE \in ToSet(selected)
          /\ screen' = IF Count(model') = 0 THEN "crashed" ELSE screen
          /\ view' = [view EXCEPT !.index = 1, !.shown = photo]
          /\ deselecting => "twice" \in hazards'
        BY <1>5 DEF TrashSelected
    <2>2. ~deselecting
        BY <2>1
    <2>3. Len(selected) = Count(model) /\ selected \in Seq(BOOLEAN)
        BY <2>1, <2>2, TypeParts DEF ScreenInv
    <2>4. PICK j \in 1 .. Count(model) : selected[j] = FALSE
        <3>1. PICK j \in DOMAIN selected : FALSE = selected[j]
            <4>1. FALSE \in ToSet(selected)
                BY <2>1
            <4> QED
                BY <4>1, Zenon DEF ToSet
        <3>2. DOMAIN selected = 1 .. Count(model)
            BY <2>3
        <3> QED
            BY <3>1, <3>2
    <2>5. Left(model, I, 1, model')
        BY <1>2, <2>1, DeleteFramesValue
    <2>6. j \in 1 .. Count(model) /\ j \notin I
        BY <2>4
    <2> HIDE DEF I, photo
    <2>7. Count(model') >= 1
        BY <2>5, <2>6 DEF Left
    <2>8. view'.index = 1
        BY <1>2, <2>1 DEF View
    <2> QED
        BY <1>3, <2>1, <2>7, <2>8 DEF InRange
<1>6. CASE TrashSingle
    <2>1. /\ screen' = screen /\ view' = view
          /\ view.index > Count(model') => "dangling" \in hazards'
        BY <1>6 DEF TrashSingle
    <2> QED
        BY <1>1, <1>2, <1>3, <2>1 DEF InRange
<1> QED
    BY <1>4, <1>5, <1>6

-----------------------------------------------------------------------------
(* Comments and strokes                                                    *)

\* What a deletion leaves of the comments, if it moves none.
LEMMA CommentsAfterTrash ==
    ASSUME TypeInv, ModelInv, ScreenInv, TrashSelected \/ TrashSingle,
           "shifted" \notin hazards',
           \A i \in Photos : model.comments[i] \in {0, PhotoAt(model, i)}
    PROVE  \A i \in Photos : model'.comments[i] \in {0, PhotoAt(model', i)}
<1>1. /\ WellTyped(model) /\ WellTyped(model')
      /\ model'.comments = model.comments
    BY TypeParts, TrashStep
<1>2. /\ Count(model) \in Nat /\ Count(model) <= MaxPhotos
      /\ Count(model') \in Nat /\ Count(model') <= Count(model)
    BY <1>1, ModelParts, TrashStep
<1> SUFFICES ASSUME NEW i \in Photos, model.comments[i] # 0
             PROVE  model.comments[i] = PhotoAt(model', i)
    BY <1>1
<1>3. /\ model.comments[i] = PhotoAt(model, i) /\ i <= Count(model)
      /\ i \in 1 .. Count(model)
    BY DEF PhotoAt, Photos
<1>4. i <= Count(model') /\ model'.photos[i] = model.photos[i]
    <2>1. CASE TrashSelected
        <3> DEFINE I == {j \in 1 .. Count(model) : selected[j]}
        <3>1. model' = DeleteFrames(model, I) /\ Shifts(I) \subseteq hazards'
            BY <2>1 DEF TrashSelected
        <3>2. Left(model, I, 1, model')
            BY <1>1, <3>1, DeleteFramesValue DEF ModelInv
        <3>3. \A l \in I : l \in Nat
            BY <1>2
        <3> HIDE DEF I
        <3>4. \A l \in I : i < l
            <4> SUFFICES ASSUME NEW l \in I, ~(i < l)
                         PROVE  FALSE
                OBVIOUS
            <4>1. i \in l .. MaxPhotos
                BY <1>2, <1>3, <3>3
            <4> QED
                BY <3>1, <4>1 DEF Shifts
        <3> QED
            BY <1>3, <3>2, <3>4 DEF Left
    <2>2. CASE TrashSingle
        <3>1. /\ model' = RemoveCurrentImage(model, current)
              /\ Shifts({current}) \subseteq hazards'
              /\ current \in 1 .. Count(model)
            BY <2>2 DEF TrashSingle, ScreenInv, Frame
        <3>2. i < current
            <4> SUFFICES ASSUME ~(i < current)
                         PROVE  FALSE
                OBVIOUS
            <4>1. i \in current .. MaxPhotos
                BY <1>2, <1>3, <3>1
            <4> QED
                BY <3>1, <4>1 DEF Shifts
        <3>3. /\ Count(model') = Count(model) - 1
              /\ \A j \in 1 .. Count(model) - 1 :
                    model'.photos[j] = model.photos[IF j < current THEN j
                                                    ELSE j + 1]
            BY <1>1, <3>1, RemoveValue
        <3>4. i \in 1 .. Count(model) - 1
            BY <1>2, <1>3, <3>1, <3>2
        <3> QED
            BY <1>2, <3>2, <3>3, <3>4
    <2> QED
        BY <2>1, <2>2
<1> QED
    BY <1>3, <1>4 DEF PhotoAt

\* The parts of the view after a text field is left, ...
LEMMA ResignedParts ==
    ASSUME NEW v \in View, v.label \in {0, v.shown}, v.text \in {0, v.shown}
    PROVE  /\ Resigned(v).label \in {0, v.shown}
           /\ Resigned(v).text \in {0, v.shown}
<1> DEFINE label == IF v.text # 0 THEN v.text ELSE v.label
           gone == [v EXCEPT !.typing = FALSE, !.keyboard = "hiding",
                             !.label = label, !.text = 0]
<1>1. label \in {0, v.shown}
    OBVIOUS
<1>2. Resigned(v) = v \/ Resigned(v) = gone
    BY DEF Resigned
<1> HIDE DEF label
<1>3. gone.label = label /\ gone.text = 0
    BY DEF View
<1> QED
    BY <1>1, <1>2, <1>3

\* ... and what the invariant of the marks says of the view.
ViewMarks(v, m) ==
    v.loads = 0 => v.shown = PhotoAt(m, v.index)

TextMarks(v) ==
    v.loads = 0 => v.label \in {0, v.shown} /\ v.text \in {0, v.shown}

\* The image that is shown again is the one that was shown.
LEMMA ReloadedMarks ==
    ASSUME NEW v \in View, NEW m, ViewMarks(v, m)
    PROVE  /\ ViewMarks(Reloaded(v, m), m)
           /\ TextMarks(v) => TextMarks(Reloaded(v, m))
           /\ Reloaded(v, m).index = v.index
<1> DEFINE photo == PhotoAt(m, v.index)
           r == Reloaded(v, m)
<1>1. r = [v EXCEPT !.shown = photo]
    BY DEF Reloaded
<1> HIDE DEF photo, r
<1>2. /\ r.shown = photo /\ r.index = v.index /\ r.loads = v.loads
      /\ r.label = v.label /\ r.text = v.text
    BY <1>1 DEF View
<1> QED
    BY <1>2 DEF ViewMarks, TextMarks, photo, r

\* Moving on leaves a block on the main queue.
LEMMA NextImageMarks ==
    ASSUME TypeInv
    PROVE  NextImage(view).loads # 0
<1> DEFINE i == IF view.index < Count(model) THEN view.index + 1 ELSE 1
           v == NextImage(view)
<1>1. v = [view EXCEPT !.index = i, !.loads = view.loads + 1]
    BY DEF NextImage
<1>2. view \in View /\ view.loads \in Nat
    BY TypeParts DEF View
<1> HIDE DEF i, v
<1>3. v.loads = view.loads + 1
    BY <1>1, <1>2 DEF View
<1> QED
    BY <1>2, <1>3 DEF v

\* The comments, the strokes and the view over a step that neither adds
\* "stale" nor "crossed".
LEMMA MarksPreview ==
    ASSUME TypeInv, ModelInv, ViewInv, ScreenInv, MarksInv, Preview,
           hazards' \cap {"stale", "crossed"} = {},
           hazards \cap {"stale", "crossed"} = {}
    PROVE  MarksInv'
<1>1. /\ WellTyped(model) /\ view \in View
      /\ model.comments \in [Photos -> Mark]
      /\ view.index \in Photos
    BY TypeParts, ModelParts DEF View
<1>2. UNCHANGED <<drawing, canvas, screen>>
    BY DEF Preview, TapPreview, HoldPreview, LoadImage, SwipeDown, TypeComment,
       KeyboardDidHide, DragComment, NothingElse, fileVars
<1>3. \A i : PhotoAt(model', i) = PhotoAt(model, i)
    <2>1. CASE KeyboardDidHide \/ DragComment
        BY <2>1, StoreStep DEF PhotoAt, Count
    <2>2. CASE ~KeyboardDidHide /\ ~DragComment
        BY <2>2 DEF Preview, TapPreview, HoldPreview, LoadImage, SwipeDown,
           TypeComment
    <2> QED
        BY <2>1, <2>2
<1>4. \A p \in Photos : drawing'[p] \subseteq {0, p}
    BY <1>2 DEF MarksInv
<1>5. ViewMarks(view, model) /\ ("shifted" \in hazards \/ TextMarks(view))
    BY DEF MarksInv, CommentsInv, ViewMarks, TextMarks
<1>6. hazards \subseteq hazards'
    BY RestTyped DEF Next
<1>7. ASSUME ViewMarks(view', model),
             "shifted" \in hazards \/ TextMarks(view'),
             screen = "draw" => canvas = {} \/ view'.index = view.index,
             model' = model
      PROVE  MarksInv'
    <2>1. "shifted" \in hazards' \/ CommentsInv'
        BY <1>6, <1>7 DEF MarksInv, CommentsInv, TextMarks
    <2>2. view'.loads = 0 => view'.shown = PhotoAt(model', view'.index)
        BY <1>3, <1>7 DEF ViewMarks
    <2>3. screen' = "draw" => canvas' \subseteq {PhotoAt(model', view'.index)}
        BY <1>2, <1>3, <1>7 DEF MarksInv
    <2> QED
        BY <1>4, <2>1, <2>2, <2>3 DEF MarksInv
<1>8. CASE TapPreview \/ HoldPreview
    <2>1. model' = model
        BY <1>8 DEF TapPreview, HoldPreview
    <2>2. CASE TapPreview /\ view' = Resigned(view)
        <3>1. /\ view'.index = view.index /\ view'.shown = view.shown
              /\ view'.loads = view.loads
            BY <1>1, <2>2, ViewEdits
        <3>2. ViewMarks(view', model)
            BY <1>5, <3>1 DEF ViewMarks
        <3>3. TextMarks(view) => TextMarks(view')
            BY <1>1, <2>2, <3>1, ResignedParts DEF TextMarks
        <3> QED
            BY <1>5, <1>7, <2>1, <3>1, <3>2, <3>3
    <2>3. CASE view' = NextImage(view)
        <3>1. screen = "draw" => canvas = {}
            BY <1>8 DEF TapPreview, HoldPreview
        <3> QED
            BY <1>7, <2>1, <2>3, <3>1, NextImageMarks DEF ViewMarks, TextMarks
    <2> QED
        BY <1>8, <2>2, <2>3 DEF TapPreview, HoldPreview
<1>9. CASE LoadImage
    <2> DEFINE v == Resigned(view)
               photo == PhotoAt(model, view.index)
               text == model.comments[view.index]
    <2>1. /\ view' = [v EXCEPT !.shown = photo, !.label = text, !.text = 0,
                               !.loads = v.loads - 1]
          /\ model' = model
        BY <1>9 DEF LoadImage
    <2>2. v \in View /\ v.index = view.index
        BY <1>1, ViewEdits
    <2> HIDE DEF v, photo, text
    <2>3. /\ view'.index = view.index /\ view'.shown = photo
          /\ view'.label = text /\ view'.text = 0
        BY <2>1, <2>2 DEF View
    <2>4. "shifted" \in hazards \/ text \in {0, photo}
        BY <1>1 DEF MarksInv, CommentsInv, text, photo
    <2> QED
        BY <1>7, <2>1, <2>3, <2>4 DEF ViewMarks, TextMarks, photo
<1>10. CASE SwipeDown
    <2> DEFINE text == IF view.label # 0 THEN view.label ELSE view.text
    <2>1. /\ view' = [view EXCEPT !.typing = TRUE, !.editing = TRUE,
                                  !.keyboard = "up", !.text = text,
                                  !.label = 0]
          /\ model' = model /\ screen = "edit"
        BY <1>10 DEF SwipeDown
    <2>2. TextMarks(view) /\ view.loads = 0 => text \in {0, view.shown}
        BY DEF TextMarks
    <2> HIDE DEF text
    <2>3. /\ view'.index = view.index /\ view'.shown = view.shown
          /\ view'.loads = view.loads /\ view'.label = 0 /\ view'.text = text
        BY <1>1, <2>1 DEF View
    <2> QED
        BY <1>5, <1>7, <2>1, <2>2, <2>3 DEF ViewMarks, TextMarks
<1>11. CASE TypeComment
    <2>1. PICK t \in {0, view.shown} : view' = [view EXCEPT !.text = t]
        BY <1>11 DEF TypeComment
    <2>2. model' = model /\ screen = "edit"
        BY <1>11 DEF TypeComment
    <2>3. /\ view'.index = view.index /\ view'.shown = view.shown
          /\ view'.loads = view.loads /\ view'.label = view.label
          /\ view'.text = t
        BY <1>1, <2>1 DEF View
    <2> QED
        BY <1>5, <1>7, <2>1, <2>2, <2>3 DEF ViewMarks, TextMarks
<1>12. CASE KeyboardDidHide \/ DragComment
    <2>1. /\ view'.index = view.index /\ view'.shown = view.shown
          /\ view'.loads = view.loads /\ view'.label = view.label
          /\ view'.text = view.text
        <3>1. CASE KeyboardDidHide
            BY <1>1, <3>1 DEF KeyboardDidHide, View
        <3>2. CASE DragComment
            BY <3>2 DEF DragComment
        <3> QED
            BY <1>12, <3>1, <3>2
    <2>2. StoreComment
        BY <1>12 DEF KeyboardDidHide, DragComment
    <2>3. view.loads = 0
        <3>1. ~(view.loads > 0)
            BY <2>2 DEF StoreComment
        <3>2. view.loads \in Nat
            BY <1>1 DEF View
        <3> QED
            BY <3>1, <3>2
    <2>4. "shifted" \in hazards \/
              \A i \in Photos : model'.comments[i] \in {0, PhotoAt(model, i)}
        <3> DEFINE x == [model.comments EXCEPT ![view.index] = view.label]
        <3>1. model' = [model EXCEPT !.comments = x]
            BY <2>2 DEF StoreComment
        <3>2. \A i \in Photos : x[i] = IF i = view.index THEN view.label
                                       ELSE model.comments[i]
            BY <1>1
        <3> HIDE DEF x
        <3>3. model'.comments = x
            BY <1>1, <3>1 DEF WellTyped, Model
        <3>4. view.shown = PhotoAt(model, view.index)
            BY <1>5, <2>3 DEF ViewMarks
        <3>5. "shifted" \in hazards \/ view.label \in {0, view.shown}
            BY <1>5, <2>3 DEF TextMarks
        <3> QED
            BY <3>2, <3>3, <3>4, <3>5 DEF MarksInv, CommentsInv
    <2>5. "shifted" \in hazards' \/ CommentsInv'
        BY <1>3, <1>5, <1>6, <2>1, <2>4 DEF CommentsInv, TextMarks
    <2>6. view'.loads = 0 => view'.shown = PhotoAt(model', view'.index)
        BY <1>3, <1>5, <2>1 DEF ViewMarks
    <2>7. screen' = "draw" => canvas' \subseteq {PhotoAt(model', view'.index)}
        BY <1>2, <1>3, <2>1 DEF MarksInv
    <2> QED
        BY <1>4, <2>5, <2>6, <2>7 DEF MarksInv
<1> QED
    BY <1>8, <1>9, <1>10, <1>11, <1>12 DEF Preview

\* The same over filters, drawings and blurs.
LEMMA MarksEffects ==
    ASSUME TypeInv, ModelInv, ScreenInv, MarksInv, Effects,
           hazards' \cap {"stale", "crossed"} = {},
           hazards \cap {"stale", "crossed"} = {}
    PROVE  MarksInv'
<1>1. /\ WellTyped(model) /\ view \in View /\ view.index \in Photos
      /\ drawing \in [Photos -> SUBSET Mark]
    BY TypeParts DEF View
<1>2. \A p \in Photos : drawing[p] \subseteq {0, p}
    BY DEF MarksInv
<1>3. ViewMarks(view, model) /\ ("shifted" \in hazards \/ TextMarks(view))
    BY DEF MarksInv, CommentsInv, ViewMarks, TextMarks
<1>4. hazards \subseteq hazards'
    BY RestTyped DEF Next
<1>5. model'.comments = model.comments /\ model'.photos = model.photos
    <2>1. ASSUME NEW f \in Filters, SelectFilter(f)
          PROVE  model'.comments = model.comments
                 /\ model'.photos = model.photos
        <3>1. model' = [model EXCEPT !.filter = f]
            BY <2>1 DEF SelectFilter
        <3>2. LET r == [model EXCEPT !.filter = f] IN
              r.comments = model.comments /\ r.photos = model.photos
            BY <1>1, FilterEdit
        <3> QED
            BY <3>1, <3>2
    <2>2. CASE EndDrawing \/ RestoreOrigin \/ ApplyToAll \/ RemoveAllDrawing
        BY <2>2, DrawStep
    <2>3. CASE ApplyBlur \/ RemoveBlur
        BY <2>3, BlurStep
    <2>4. CASE TouchCrashes \/ BeginDrawing \/ Stroke \/ CancelDrawing
               \/ BeginBlur \/ CancelBlur
        BY <2>4 DEF TouchCrashes, Crash, BeginDrawing, Stroke, CancelDrawing,
           BeginBlur, CancelBlur
    <2> QED
        BY <2>1, <2>2, <2>3, <2>4 DEF Effects
<1>6. model'.comments = model.comments
      /\ \A i : PhotoAt(model', i) = PhotoAt(model, i)
    BY <1>5 DEF PhotoAt, Count
<1>7. view' = view \/ view' = Reloaded(view, model)
    BY DEF Effects, SelectFilter, TouchCrashes, Crash, BeginDrawing, Stroke,
       EndDrawing, CancelDrawing, RestoreOrigin, ApplyToAll, RemoveAllDrawing,
       BeginBlur, CancelBlur, ApplyBlur, RemoveBlur
<1>8. /\ ViewMarks(view', model) /\ ("shifted" \in hazards \/ TextMarks(view'))
      /\ view'.index = view.index
    BY <1>1, <1>3, <1>7, ReloadedMarks
<1>9. "shifted" \in hazards' \/ CommentsInv'
    BY <1>4, <1>6, <1>8 DEF MarksInv, CommentsInv, TextMarks
<1>10. view'.loads = 0 => view'.shown = PhotoAt(model', view'.index)
    BY <1>6, <1>8 DEF ViewMarks
<1>11. screen' = "draw" => canvas' \subseteq {PhotoAt(model', view'.index)}
    <2>1. CASE Stroke
        <3>1. canvas' = canvas \cup {view.shown} /\ screen = "draw"
              /\ (view.loads > 0 => hazards' = hazards \cup {"crossed"})
            BY <2>1 DEF Stroke
        <3>2. view.loads = 0
            <4>1. ~(view.loads > 0)
                BY <3>1
            <4>2. view.loads \in Nat
                BY <1>1 DEF View
            <4> QED
                BY <4>1, <4>2
        <3>3. view.shown = PhotoAt(model, view.index)
            BY <1>3, <3>2 DEF ViewMarks
        <3> QED
            BY <1>6, <1>8, <3>1, <3>3 DEF MarksInv
    <2>2. CASE ~Stroke
        <3>1. screen' = "draw" => canvas' = {}
            BY <2>2 DEF Effects, SelectFilter, TouchCrashes, Crash,
               BeginDrawing, EndDrawing, CancelDrawing, RestoreOrigin,
               ApplyToAll, RemoveAllDrawing, BeginBlur, CancelBlur, ApplyBlur,
               RemoveBlur
        <3> QED
            BY <3>1
    <2> QED
        BY <2>1, <2>2
<1>12. \A p \in Photos : drawing'[p] \subseteq {0, p}
    <2>1. CASE EndDrawing /\ canvas # {}
        <3> DEFINE q == model.photos[view.index]
        <3>1. screen = "draw" /\ view.index <= Count(model)
            BY <2>1 DEF EndDrawing, ScreenInv, InRange
        <3>2. PhotoAt(model, view.index) = q
            BY <3>1 DEF PhotoAt
        <3>3. canvas \subseteq {q}
            BY <3>1, <3>2 DEF MarksInv
        <3>4. drawing' = [drawing EXCEPT ![q] = @ \cup canvas]
            BY <2>1 DEF EndDrawing
        <3> HIDE DEF q
        <3> QED
            BY <1>1, <1>2, <3>3, <3>4
    <2>2. CASE RestoreOrigin
        <3> DEFINE q == model.photos[view.index]
        <3>1. \/ drawing' = drawing
              \/ drawing' = [drawing EXCEPT ![q] = {}]
            BY <2>2 DEF RestoreOrigin
        <3> HIDE DEF q
        <3> QED
            BY <1>1, <1>2, <3>1
    <2>3. CASE ApplyToAll
        BY <1>2, <2>3 DEF ApplyToAll
    <2>4. CASE RemoveAllDrawing
        BY <1>2, <2>4 DEF RemoveAllDrawing
    <2>5. CASE (~EndDrawing \/ canvas = {}) /\ ~RestoreOrigin /\ ~ApplyToAll
               /\ ~RemoveAllDrawing
        <3>1. drawing' = drawing
            BY <2>5 DEF Effects, SelectFilter, TouchCrashes, Crash,
               BeginDrawing, Stroke, EndDrawing, CancelDrawing, BeginBlur,
               CancelBlur, ApplyBlur, RemoveBlur, NothingElse, fileVars
        <3> QED
            BY <1>2, <3>1
    <2> QED
        BY <2>1, <2>2, <2>3, <2>4, <2>5
<1> QED
    BY <1>9, <1>10, <1>11, <1>12 DEF MarksInv

\* The same over the frames screen.
LEMMA MarksFrames ==
    ASSUME TypeInv, ModelInv, ViewInv, ScreenInv, MarksInv, Frames,
           hazards' \cap {"stale", "crossed"} = {},
           hazards \cap {"stale", "crossed"} = {}
    PROVE  MarksInv'
<1>1. /\ WellTyped(model) /\ view \in View /\ view.index \in Photos
    BY TypeParts DEF View
<1>2. drawing' = drawing /\ canvas' = canvas
    BY DEF Frames, OpenFrames, CloseFrames, DeselectAll, SelectFrame,
       OpenSingle, SaveSelected, TrashSelected, NextSingle, SaveSingle,
       TrashSingle, CloseSingle, fileVars
<1>3. \A p \in Photos : drawing'[p] \subseteq {0, p}
    BY <1>2 DEF MarksInv
<1>4. hazards \subseteq hazards'
    BY RestTyped DEF Next
<1>5. CASE ~TrashSelected /\ ~TrashSingle
    <2>1. view' = view /\ (screen' = "draw" => screen = "draw")
        BY <1>5 DEF Frames, OpenFrames, CloseFrames, DeselectAll, SelectFrame,
           OpenSingle, SaveSelected, NextSingle, SaveSingle, CloseSingle
    <2>2. \A i : PhotoAt(model', i) = PhotoAt(model, i)
        BY <1>5, PhotosStay DEF Next
    <2>3. model'.comments = model.comments
        <3>1. CASE SaveSelected \/ SaveSingle
            BY <3>1, SaveStep
        <3>2. CASE ~SaveSelected /\ ~SaveSingle
            BY <1>5, <3>2 DEF Frames, OpenFrames, CloseFrames, DeselectAll,
               SelectFrame, OpenSingle, NextSingle, CloseSingle
        <3> QED
            BY <3>1, <3>2
    <2>4. "shifted" \in hazards' \/ CommentsInv'
        BY <1>4, <2>1, <2>2, <2>3 DEF MarksInv, CommentsInv
    <2>5. view'.loads = 0 => view'.shown = PhotoAt(model', view'.index)
        BY <2>1, <2>2 DEF MarksInv
    <2>6. screen' = "draw" => canvas' \subseteq {PhotoAt(model', view'.index)}
        BY <1>2, <2>1, <2>2 DEF MarksInv
    <2> QED
        BY <1>3, <2>4, <2>5, <2>6 DEF MarksInv
<1>6. CASE TrashSelected \/ TrashSingle
    <2>1. /\ screen' # "draw" /\ screen \in {"frames", "single"}
          /\ IsStale(view', model') \subseteq hazards'
        <3>1. CASE TrashSelected
            <4> DEFINE m == DeleteFrames(model, {i \in 1 .. Count(model) : selected[i]})
            <4>1. /\ model' = m
                  /\ view' = [view EXCEPT !.index = 1, !.shown = PhotoAt(m, 1)]
                  /\ IsStale(view', m) \subseteq hazards'
                BY <3>1 DEF TrashSelected
            <4> QED
                BY <3>1, <4>1 DEF TrashSelected
        <3>2. CASE TrashSingle
            BY <3>2 DEF TrashSingle
        <3> QED
            BY <1>6, <3>1, <3>2
    <2>2. /\ view'.shown = PhotoAt(model', view'.index)
          /\ view'.label = model'.comments[view'.index]
        BY <2>1 DEF IsStale
    <2>3. view'.text = 0 /\ view'.index \in Photos
        <3>1. view.text = 0
            BY <2>1 DEF ViewInv
        <3>2. CASE TrashSelected
            <4> DEFINE photo == PhotoAt(model', 1)
            <4>1. view' = [view EXCEPT !.index = 1, !.shown = photo]
                BY <3>2 DEF TrashSelected
            <4> HIDE DEF photo
            <4>2. view'.text = view.text /\ view'.index = 1
                BY <1>1, <4>1 DEF View
            <4> QED
                BY <3>1, <4>2 DEF Photos
        <3>3. CASE TrashSingle
            BY <1>1, <3>1, <3>3 DEF TrashSingle
        <3> QED
            BY <1>6, <3>2, <3>3
    <2>4. ASSUME "shifted" \notin hazards'
          PROVE  CommentsInv'
        <3>1. \A i \in Photos : model.comments[i] \in {0, PhotoAt(model, i)}
            BY <1>4, <2>4 DEF MarksInv, CommentsInv
        <3>2. \A i \in Photos : model'.comments[i] \in {0, PhotoAt(model', i)}
            BY <1>6, <2>4, <3>1, CommentsAfterTrash
        <3>3. view'.label \in {0, view'.shown}
            BY <2>2, <2>3, <3>2
        <3> QED
            BY <2>3, <3>2, <3>3 DEF CommentsInv
    <2> QED
        BY <1>3, <2>1, <2>2, <2>4 DEF MarksInv
<1> QED
    BY <1>5, <1>6

\* The comments and the strokes over any step.
LEMMA MarksStep ==
    ASSUME TypeInv, ModelInv, ViewInv, ScreenInv, MarksInv, [Next]_vars
    PROVE  MarksInv'
<1> SUFFICES ASSUME hazards' \cap {"stale", "crossed"} = {}
             PROVE  MarksInv'
    BY DEF MarksInv
<1>1. hazards \subseteq hazards'
    BY RestTyped
<1>2. hazards \cap {"stale", "crossed"} = {}
    BY <1>1
<1>3. CASE Preview
    BY <1>2, <1>3, MarksPreview
<1>4. CASE Effects
    BY <1>2, <1>4, MarksEffects
<1>5. CASE Frames
    BY <1>2, <1>5, MarksFrames
<1>6. CASE Finish
    <2>1. /\ model' = model /\ drawing' = drawing /\ canvas' = canvas
          /\ screen' = "draw" => screen = "draw"
        BY <1>6 DEF Finish, Advance, ThemeBegins, ThemeEnds, GoBack,
           BeginCompile, CompileFrame, CompileDone, EncodeFlipframe, Upload,
           PostReply, NothingElse, fileVars
    <2>2. /\ view'.index = view.index /\ view'.shown = view.shown
          /\ view'.loads = view.loads /\ view'.label = view.label
          /\ view'.text = view.text
        <3>1. view \in View
            BY TypeParts
        <3>2. CASE ThemeBegins \/ ThemeEnds
            BY <3>1, <3>2 DEF ThemeBegins, ThemeEnds, View
        <3>3. CASE ~ThemeBegins /\ ~ThemeEnds
            BY <1>6, <3>3 DEF Finish, Advance, GoBack, BeginCompile,
               CompileFrame, CompileDone, EncodeFlipframe, Upload, PostReply
        <3> QED
            BY <3>2, <3>3
    <2> QED
        BY <1>1, <1>2, <2>1, <2>2 DEF MarksInv, CommentsInv
<1>7. CASE UNCHANGED vars
    BY <1>2, <1>7 DEF vars, fileVars, MarksInv, CommentsInv
<1> QED
    BY <1>3, <1>4, <1>5, <1>6, <1>7 DEF Next

-----------------------------------------------------------------------------
(* The final images and the reply                                          *)

\* What can happen from the compilation on: the handlers of its screens, and
\* what the screens before them have left on the main queue.
LEMMA CompiledSteps ==
    ASSUME [Next]_vars, screen \in Compiled
    PROVE  \/ HoldPreview \/ LoadImage \/ KeyboardDidHide \/ DeselectAll
           \/ GoBack \/ CompileFrame \/ CompileDone \/ EncodeFlipframe
           \/ Upload \/ PostReply \/ UNCHANGED vars
<1>1. screen \in {"compiling", "share", "upload", "post", "sent"}
    BY DEF Compiled
<1>2. CASE Preview
    BY <1>1, <1>2 DEF Preview, TapPreview, SwipeDown, TypeComment, DragComment
<1>3. ~Effects
    BY <1>1 DEF Effects, SelectFilter, TouchCrashes, BeginDrawing, Stroke,
       EndDrawing, CancelDrawing, RestoreOrigin, ApplyToAll, RemoveAllDrawing,
       BeginBlur, CancelBlur, ApplyBlur, RemoveBlur
<1>4. CASE Frames
    BY <1>1, <1>4 DEF Frames, OpenFrames, CloseFrames, SelectFrame, OpenSingle,
       SaveSelected, TrashSelected, NextSingle, SaveSingle, TrashSingle,
       CloseSingle
<1>5. CASE Finish
    BY <1>1, <1>5 DEF Finish, Advance, ThemeBegins, ThemeEnds, BeginCompile
<1> QED
    BY <1>2, <1>3, <1>4, <1>5 DEF Next

\* The compilation is entered by the two buttons only.
LEMMA CompiledEntered ==
    ASSUME [Next]_vars, screen' \in Compiled, screen \notin Compiled
    PROVE  BeginCompile
<1>1. /\ screen' \in {"compiling", "share", "upload", "post", "sent"}
      /\ screen \notin {"compiling", "share", "upload", "post", "sent"}
    BY DEF Compiled
<1>2. ~Preview
    BY <1>1 DEF Preview, TapPreview, HoldPreview, LoadImage, SwipeDown,
       TypeComment, KeyboardDidHide, DragComment
<1>3. ~Effects
    BY <1>1 DEF Effects, SelectFilter, TouchCrashes, Crash, BeginDrawing,
       Stroke, EndDrawing, CancelDrawing, RestoreOrigin, ApplyToAll,
       RemoveAllDrawing, BeginBlur, CancelBlur, ApplyBlur, RemoveBlur
<1>4. ~Frames
    <2>1. ~TrashSelected
        BY <1>1 DEF TrashSelected
    <2> QED
        BY <1>1, <2>1 DEF Frames, OpenFrames, CloseFrames, DeselectAll,
           SelectFrame, OpenSingle, SaveSelected, NextSingle, SaveSingle,
           TrashSingle, CloseSingle
<1>5. CASE Finish
    <2>1. ~EncodeFlipframe
        BY <1>1 DEF EncodeFlipframe
    <2> QED
        BY <1>1, <1>5, <2>1 DEF Finish, Advance, ThemeBegins, ThemeEnds,
           GoBack, CompileFrame, CompileDone, Upload, PostReply
<1>6. ~UNCHANGED vars
    BY <1>1 DEF vars
<1> QED
    BY <1>2, <1>3, <1>4, <1>5, <1>6 DEF Next

\* The final images over any step.
LEMMA FinalStep ==
    ASSUME TypeInv, FinalInv, [Next]_vars
    PROVE  FinalInv'
<1> SUFFICES ASSUME "late" \notin hazards', screen' \in Compiled
             PROVE  FinalInv'
    BY DEF FinalInv, Compiled
<1>1. "late" \notin hazards
    BY RestTyped
<1>2. /\ final \in [Photos -> Image] /\ current \in 1 .. MaxPhotos + 1
      /\ WellTyped(model)
    BY TypeParts
<1>3. Count(model) \in Nat /\ Count(model) <= MaxPhotos
    BY <1>2, ModelParts
<1>4. ASSUME UNCHANGED <<model, drawing, content>>
      PROVE  /\ \A i : Render(i)' = Render(i)
             /\ Frame' = Frame
    BY <1>4 DEF Render, Frame, Count
<1>5. ASSUME UNCHANGED <<model, drawing, content, final, current, screen>>
      PROVE  FinalInv'
    BY <1>1, <1>4, <1>5 DEF FinalInv
<1>6. CASE BeginCompile
    <2>1. screen' = "compiling" /\ current' = 1
        BY <1>6 DEF BeginCompile
    <2>2. \A i \in Frame' : ~(i < current')
        BY <2>1 DEF Frame
    <2> QED
        BY <2>1, <2>2 DEF FinalInv
<1>7. CASE HoldPreview \/ LoadImage \/ DeselectAll \/ EncodeFlipframe
    BY <1>5, <1>7 DEF HoldPreview, LoadImage, DeselectAll, EncodeFlipframe,
       NothingElse, fileVars
<1>8. CASE KeyboardDidHide /\ screen \in Compiled
    <2>1. UNCHANGED <<drawing, content, final, current, screen>>
        BY <1>8 DEF KeyboardDidHide, NothingElse, fileVars
    <2>2. model' = model
        BY <1>8 DEF KeyboardDidHide, StoreComment
    <2> QED
        BY <1>5, <2>1, <2>2
<1>9. CASE GoBack
    BY <1>9 DEF GoBack, Compiled
<1>10. CASE CompileFrame
    <2>1. /\ screen = "compiling" /\ screen' = "compiling"
          /\ current <= Count(model) /\ current' = current + 1
          /\ final' = [final EXCEPT ![current] = Render(current)]
          /\ UNCHANGED <<model, drawing, content>>
        BY <1>10 DEF CompileFrame
    <2>2. ASSUME NEW i \in Frame, i < current + 1
          PROVE  final'[i] = Render(i)
        <3>1. i \in Photos /\ current \in Photos /\ i \in Nat
            BY <1>2, <1>3, <2>1 DEF Frame, Photos
        <3>2. CASE i = current
            BY <1>2, <2>1, <3>1, <3>2
        <3>3. CASE i # current
            <4>1. i < current
                BY <1>2, <2>2, <3>1, <3>3
            <4>2. final[i] = Render(i)
                BY <1>1, <2>1, <4>1 DEF FinalInv
            <4> QED
                BY <1>2, <2>1, <3>1, <3>3, <4>2
        <3> QED
            BY <3>2, <3>3
    <2> QED
        BY <1>4, <2>1, <2>2 DEF FinalInv
<1>11. CASE CompileDone
    <2>1. /\ screen = "compiling" /\ screen' \in {"upload", "share"}
          /\ current > Count(model) /\ final' = final
          /\ UNCHANGED <<model, drawing, content>>
        BY <1>11 DEF CompileDone, fileVars
    <2>2. \A i \in Frame : i < current
        BY <1>2, <1>3, <2>1 DEF Frame
    <2> QED
        BY <1>1, <1>4, <2>1, <2>2 DEF FinalInv
<1>12. CASE Upload
    <2>1. /\ screen = "upload" /\ screen' # "compiling" /\ final' = final
          /\ UNCHANGED <<model, drawing, content>>
        BY <1>12 DEF Upload, NothingElse, fileVars
    <2> QED
        BY <1>1, <1>4, <2>1 DEF FinalInv
<1>13. CASE PostReply
    <2>1. /\ screen = "post" /\ screen' # "compiling" /\ final' = final
          /\ UNCHANGED <<model, drawing, content>>
        BY <1>13 DEF PostReply, fileVars
    <2> QED
        BY <1>1, <1>4, <2>1 DEF FinalInv
<1>14. CASE UNCHANGED vars
    BY <1>5, <1>14 DEF vars, fileVars
<1> QED
    <2>1. CASE screen \notin Compiled
        BY <1>6, <2>1, CompiledEntered
    <2>2. CASE screen \in Compiled
        BY <1>7, <1>8, <1>9, <1>10, <1>11, <1>12, <1>13, <1>14, <2>2,
           CompiledSteps
    <2> QED
        BY <2>1, <2>2

\* Only the answer to the post of a reply changes what the server has.
LEMMA RepliesStay ==
    ASSUME [Next]_vars, ~PostReply
    PROVE  replies' = replies
<1>1. CASE Preview
    BY <1>1 DEF Preview, TapPreview, HoldPreview, LoadImage, SwipeDown,
       TypeComment, KeyboardDidHide, DragComment, NothingElse, replyVars
<1>2. CASE Effects
    BY <1>2 DEF Effects, SelectFilter, TouchCrashes, Crash, BeginDrawing,
       Stroke, EndDrawing, CancelDrawing, RestoreOrigin, ApplyToAll,
       RemoveAllDrawing, BeginBlur, CancelBlur, ApplyBlur, RemoveBlur,
       NothingElse, replyVars
<1>3. CASE Frames
    BY <1>3 DEF Frames, OpenFrames, CloseFrames, DeselectAll, SelectFrame,
       OpenSingle, SaveSelected, TrashSelected, NextSingle, SaveSingle,
       TrashSingle, CloseSingle, replyVars
<1>4. CASE Finish
    BY <1>4 DEF Finish, Advance, ThemeBegins, ThemeEnds, GoBack, BeginCompile,
       CompileFrame, CompileDone, EncodeFlipframe, Upload, NothingElse,
       replyVars
<1>5. CASE UNCHANGED vars
    BY <1>5 DEF vars, replyVars
<1> QED
    BY <1>1, <1>2, <1>3, <1>4, <1>5 DEF Next

\* What the server has, over any step.
LEMMA ReplyStep ==
    ASSUME TypeInv, ModelInv, ScreenInv, ReplySentOnce, [Next]_vars
    PROVE  ReplySentOnce'
<1> SUFFICES ASSUME "lost" \notin hazards'
             PROVE  /\ Len(replies') <= 1
                    /\ replies' # <<>> =>
                          screen' = "sent" /\ Len(replies'[1]) = Count(model')
    BY DEF ReplySentOnce
<1>1. "lost" \notin hazards /\ replies \in Seq(Seq(Image))
    BY RestTyped DEF TypeInv
<1>2. /\ Len(replies) <= 1
      /\ replies # <<>> => screen = "sent" /\ Len(replies[1]) = Count(model)
    BY <1>1 DEF ReplySentOnce
<1>3. CASE PostReply
    <2>1. screen = "post" /\ model' = model
        BY <1>3 DEF PostReply
    <2>2. replies = <<>>
        BY <1>2, <2>1
    <2>3. CASE replies' = Append(replies, Images)
        <3>1. screen' = "sent"
            <4>1. CASE replies' = replies
                <5>1. Len(Append(replies, Images)) = Len(replies) + 1
                    BY <1>1, ImagesValue, AppendProperties
                <5>2. Len(replies) \in Nat
                    BY <1>1
                <5> QED
                    BY <2>3, <4>1, <5>1, <5>2
            <4>2. CASE replies' # replies
                BY <1>3, <4>2 DEF PostReply
            <4> QED
                BY <4>1, <4>2
        <3>2. Images \in Seq(Image) /\ Len(Images) = Count(model)
            BY ImagesValue
        <3>3. Len(replies') = 1 /\ replies'[1] = Images
            BY <2>2, <2>3, <3>2
        <3> QED
            BY <2>1, <3>1, <3>2, <3>3
    <2>4. CASE replies' = replies
        BY <1>2, <2>2, <2>4
    <2> QED
        BY <1>3, <2>3, <2>4 DEF PostReply
<1>4. CASE ~PostReply
    <2>1. replies' = replies
        BY <1>4, RepliesStay
    <2>2. CASE screen = "sent"
        <3>1. CASE HoldPreview \/ LoadImage \/ DeselectAll \/ EncodeFlipframe
            BY <1>2, <2>1, <3>1 DEF HoldPreview, LoadImage, DeselectAll,
               EncodeFlipframe
        <3>2. CASE KeyboardDidHide
            <4>1. screen' = screen
                BY <3>2 DEF KeyboardDidHide
            <4>2. Count(model') = Count(model)
                BY <3>2, StoreStep DEF Count
            <4> QED
                BY <1>2, <2>1, <4>1, <4>2
        <3>3. CASE UNCHANGED vars
            BY <1>2, <2>1, <3>3 DEF vars
        <3>4. ~GoBack /\ ~CompileFrame /\ ~CompileDone /\ ~Upload
            BY <2>2 DEF GoBack, CompileFrame, CompileDone, Upload
        <3>5. screen \in Compiled
            BY <2>2 DEF Compiled
        <3> QED
            BY <1>4, <3>1, <3>2, <3>3, <3>4, <3>5, CompiledSteps
    <2>3. CASE screen # "sent"
        BY <1>2, <2>1, <2>3
    <2> QED
        BY <2>2, <2>3
<1> QED
    BY <1>3, <1>4

-----------------------------------------------------------------------------
(* The theorems                                                            *)

\* The invariant holds of photos that were just taken.
LEMMA InitInv ==
    ASSUME Init
    PROVE  EditInv
<1>1. PICK s \in BoundedSeq(Photos, MaxPhotos) :
          /\ s # <<>> /\ \A i \in DOMAIN s : s[i] <= i
          /\ model = NewModel(s)
    BY DEF Init
<1> DEFINE n == Len(s)
<1>2. /\ model.photos = s
      /\ model.drawApplied = [i \in DOMAIN s |-> FALSE]
      /\ model.blurApplied = [i \in DOMAIN s |-> FALSE]
      /\ model.saved = [f \in Filters |-> {}]
      /\ model.comments = [i \in Photos |-> 0] /\ model.filter = 0
    BY <1>1 DEF NewModel
<1>3. /\ model.photos \in Seq(Photos) /\ Len(model.photos) = n
      /\ n \in Nat /\ n <= MaxPhotos /\ n >= 1 /\ DOMAIN s = 1 .. n
    <2>1. s \in Seq(Photos) /\ n <= MaxPhotos
        BY <1>1, Bounded
    <2> QED
        BY <1>1, <1>2, <2>1
<1> HIDE DEF n
<1>4. /\ model.drawApplied \in Seq(BOOLEAN) /\ Len(model.drawApplied) = n
      /\ model.blurApplied \in Seq(BOOLEAN) /\ Len(model.blurApplied) = n
    <2>1. /\ model.drawApplied \in [1 .. n -> BOOLEAN]
          /\ model.blurApplied \in [1 .. n -> BOOLEAN]
        BY <1>2, <1>3
    <2> QED
        BY <1>3, <2>1
<1>5. Count(model) = n
    BY <1>3 DEF Count
<1>6. WellTyped(model)
    <2>1. model.photos \in BoundedSeq(Photos, MaxPhotos)
        BY <1>3, Bounded
    <2>2. /\ model.drawApplied \in BoundedSeq(BOOLEAN, MaxPhotos)
          /\ model.blurApplied \in BoundedSeq(BOOLEAN, MaxPhotos)
        BY <1>3, <1>4, Bounded
    <2>3. /\ model.saved \in [Filters -> SUBSET Photos]
          /\ model.comments \in [Photos -> Mark] /\ model.filter \in Filters
        BY <1>2 DEF Mark
    <2>4. model = [photos |-> model.photos, drawApplied |-> model.drawApplied,
                   blurApplied |-> model.blurApplied, saved |-> model.saved,
                   comments |-> model.comments, filter |-> model.filter]
        BY <1>1 DEF NewModel
    <2>5. model \in Model
        BY <2>1, <2>2, <2>3, <2>4 DEF Model
    <2> QED
        BY <1>4, <1>5, <2>5 DEF WellTyped
<1>7. /\ drawing = [p \in Photos |-> {}]
      /\ content = [p \in Photos |-> "original"]
      /\ backup = [p \in Photos |-> "none"]
      /\ album = {} /\ final = [i \in Photos |-> NoImage] /\ view = NewView
      /\ screen = "edit" /\ canvas = {} /\ selected = <<>>
      /\ deselecting = FALSE /\ current = 1 /\ isReply \in BOOLEAN
      /\ encoding = 0 /\ replies = <<>> /\ edits = 0
      /\ hazards = IF Distinct(model) THEN {} ELSE {"shared"}
    BY DEF Init
<1>8. NoImage \in Image
    BY DEF NoImage, Image, Contents, Mark
<1>9. view \in View
    BY <1>7 DEF NewView, View, Photos, Mark
<1>10. selected \in BoundedSeq(BOOLEAN, MaxPhotos)
    <2>1. selected \in Seq(BOOLEAN) /\ Len(selected) <= MaxPhotos
        BY <1>7
    <2> QED
        BY <2>1, Bounded
<1>11. TypeInv
    <2>1. final \in [Photos -> Image] /\ replies \in Seq(Seq(Image))
        BY <1>7, <1>8
    <2>2. /\ drawing \in [Photos -> SUBSET Mark]
          /\ content \in [Photos -> Contents] /\ backup \in [Photos -> Contents]
          /\ album \subseteq Filters \X Photos /\ canvas \in SUBSET Photos
        BY <1>7 DEF Contents
    <2>3. screen \in Screens
        BY <1>7 DEF Screens
    <2>4. current \in 1 .. MaxPhotos + 1 /\ edits \in 0 .. MaxEdits
        BY <1>7
    <2>5. deselecting \in BOOLEAN /\ isReply \in BOOLEAN
          /\ DOMAIN final = Photos /\ encoding \in Nat
        BY <1>7
    <2>6. hazards \subseteq Hazards
        BY <1>7 DEF Hazards
    <2>7. TypeOK
        BY <1>6, <1>9, <1>10, <2>2, <2>3, <2>4, <2>5, <2>6 DEF TypeOK,
           WellTyped
    <2> QED
        BY <2>1, <2>7 DEF TypeInv
<1>12. ModelInv
    <2> SUFFICES ASSUME "shared" \notin hazards
                 PROVE  Right(model, drawing, content, backup, album,
                              "encoded" \in hazards)
        BY DEF ModelInv
    <2>1. \A i \in 1 .. n : model.photos[i] \in Photos
        BY <1>3
    <2>2. Distinct(model)
        BY <1>7
    <2>3. Flagged(model, drawing, content)
        BY <1>2, <1>3, <1>5, <1>7, <2>1 DEF Flagged
    <2>4. BackedUp(model, content, backup)
        BY <1>5, <1>7, <2>1 DEF BackedUp
    <2>5. SavedAs(model, album, "encoded" \in hazards)
        BY <1>2, <1>7 DEF SavedAs
    <2> QED
        BY <2>2, <2>3, <2>4, <2>5 DEF Right
<1>13. view.index = 1 /\ view.shown = 1 /\ view.label = 0 /\ view.text = 0
       /\ view.typing = FALSE
    BY <1>7 DEF NewView
<1>14. ViewInv /\ ScreenInv
    BY <1>7, <1>13 DEF ViewInv, ScreenInv
<1>15. NoCrash
    BY <1>3, <1>5, <1>7, <1>13 DEF NoCrash, InRange
<1>16. MarksInv
    <2>1. PhotoAt(model, 1) = 1
        <3>1. 1 \in 1 .. n /\ model.photos[1] \in Photos
            BY <1>3
        <3>2. model.photos[1] <= 1
            BY <1>1, <1>2, <1>3, <3>1
        <3> QED
            BY <1>5, <3>1, <3>2 DEF PhotoAt, Photos
    <2>2. \A i \in Photos : model.comments[i] = 0
        BY <1>2
    <2> QED
        BY <1>7, <1>13, <2>1, <2>2 DEF MarksInv, CommentsInv
<1>17. FinalInv /\ ReplySentOnce
    BY <1>7 DEF FinalInv, ReplySentOnce
<1> QED
    BY <1>11, <1>12, <1>14, <1>15, <1>16, <1>17 DEF EditInv

\* The invariant holds after any step.
LEMMA EditStep ==
    ASSUME EditInv, [Next]_vars
    PROVE  EditInv'
<1>1. /\ TypeInv /\ ModelInv /\ ViewInv /\ ScreenInv /\ NoCrash /\ MarksInv
      /\ FinalInv /\ ReplySentOnce
    BY DEF EditInv
<1>2. WellTyped(model') /\ ModelInv'
    BY <1>1, ModelStep
<1>3. TypeInv'
    BY <1>1, TypeStep
<1>4. ViewInv'
    BY <1>1, <1>2, ViewStep
<1>5. ScreenInv' /\ NoCrash'
    BY <1>1, ScreenStep, NoCrashStep
<1>6. MarksInv'
    BY <1>1, MarksStep
<1>7. FinalInv' /\ ReplySentOnce'
    BY <1>1, FinalStep, ReplyStep
<1> QED
    BY <1>2, <1>3, <1>4, <1>5, <1>6, <1>7 DEF EditInv

\* The strengthening that the theorems below are read off.
THEOREM EditTheorem == Spec => []EditInv
<1>1. Init => EditInv
    BY InitInv
<1>2. EditInv /\ [Next]_vars => EditInv'
    BY EditStep
<1> QED
    BY <1>1, <1>2, PTL DEF Spec

\* The state has its types, whatever is shown, deleted, blurred or sent.
THEOREM TypeCorrect == Spec => []TypeOK
<1>1. EditInv => TypeOK
    BY DEF EditInv, TypeInv
<1> QED
    BY <1>1, EditTheorem, PTL

\* A comment and a stroke stay on the photo they were made on, unless a
\* frame before a comment is deleted or the view has not loaded its frame.
THEOREM MarksTheorem == Spec => []MarksStay
<1>1. EditInv => MarksStay
    <2> SUFFICES ASSUME EditInv, hazards \cap {"stale", "crossed"} = {}
                 PROVE  /\ \A p \in Photos : drawing[p] \subseteq {0, p}
                        /\ \/ "shifted" \in hazards
                           \/ \A i \in Frame :
                                 model.comments[i] \in {0, model.photos[i]}
        BY DEF MarksStay
    <2>1. \A p \in Photos : drawing[p] \subseteq {0, p}
        BY DEF EditInv, MarksInv
    <2>2. "shifted" \in hazards \/ CommentsInv
        BY DEF EditInv, MarksInv
    <2>3. \A i \in Frame : i \in Photos /\ PhotoAt(model, i) = model.photos[i]
        <3>1. WellTyped(model)
            BY TypeParts DEF EditInv
        <3>2. Count(model) \in Nat /\ Count(model) <= MaxPhotos
            BY <3>1, ModelParts
        <3> QED
            BY <3>2 DEF Frame, Photos, PhotoAt
    <2> QED
        BY <2>1, <2>2, <2>3 DEF CommentsInv
<1> QED
    BY <1>1, EditTheorem, PTL

\* The buttons tell the truth: a frame has a drawing, is blurred or is as it
\* was taken exactly if its flags say so, unless the camera handed over two
\* frames with one file.
THEOREM EffectsTheorem == Spec => []EffectsAreFlagged
<1>1. EditInv => EffectsAreFlagged
    BY DEF EditInv, ModelInv, Right, Flagged, EffectsAreFlagged, Frame
<1> QED
    BY <1>1, EditTheorem, PTL

\* A frame that shows as saved is in the camera roll, and the other way round
\* unless it went there when the twyst was compiled; this too of frames with
\* files of their own.
THEOREM SavedTheorem == Spec => []SavedIsInAlbum
<1>1. EditInv => SavedIsInAlbum
    BY DEF EditInv, ModelInv, Right, SavedAs, SavedIsInAlbum, Frame
<1> QED
    BY <1>1, EditTheorem, PTL

\* No handler asks for a frame beyond the last, unless frames were deleted
\* twice with one selection or one behind the view was deleted.
THEOREM NoCrashTheorem == Spec => []NoCrash
<1>1. EditInv => NoCrash
    BY DEF EditInv
<1> QED
    BY <1>1, EditTheorem, PTL

\* What is shared, uploaded or was sent is what the editor shows.
THEOREM FinalTheorem == Spec => []FinalIsCurrent
<1>1. EditInv => FinalIsCurrent
    BY DEF EditInv, FinalInv, FinalIsCurrent, Compiled
<1> QED
    BY <1>1, EditTheorem, PTL

\* The server has a reply once, with a final image for each frame, unless
\* an answer was lost.
THEOREM ReplyTheorem == Spec => []ReplySentOnce
<1>1. EditInv => ReplySentOnce
    BY DEF EditInv
<1> QED
    BY <1>1, EditTheorem, PTL
=============================================================================
