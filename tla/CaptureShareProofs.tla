------------------------- MODULE CaptureShareProofs -------------------------
(***************************************************************************)
(* Theorems about ShareTwyst, for any set of ids and any number of         *)
(* attempts: what is shared, uploaded and left behind by failed attempts.  *)
(*                                                                         *)
(* And about PhotoCapture, for any limit on the frames and any number      *)
(* of photos: the counts of the service and of the screen agree with what  *)
(* is in the frames and on its way there, each frame's file holds its own  *)
(* photo, and no photo is dropped between the camera and the frames.       *)
(***************************************************************************)
EXTENDS ShareTwyst, PhotoCapture, WellFoundedInduction, SequenceTheorems,
        FiniteSetTheorems, TLAPS

-----------------------------------------------------------------------------
(* Taking photos                                                           *)

USE MaxFramesAssumption, MaxShotsAssumption

-----------------------------------------------------------------------------
(* The invariant                                                           *)

\* The photos that have a frame or are on their way to one.
Known == taking \cup ToSet(burst) \cup ToSet(frames)

\* How many they are.
Held == Len(frames) + Cardinality(taking) + Len(burst)

\* Between one more than the photos that failed or were added, counted down,
\* and the photos there ever were.
InBounds(n) == Cardinality(taking) - taken <= n /\ n <= taken

\* The counts never leave their range, whatever is late, since a shot is
\* counted back once at most; and a photo on its way is in one place.
BoundsInv ==
    /\ IsFiniteSet(taking)
    /\ Held <= taken
    /\ InBounds(curIndex + 1) /\ InBounds(totalImages) /\ InBounds(frameCounter)
    /\ taken + importing.left <= MaxShots
    /\ \A s \in Known : s.shot <= taken
    /\ taking \cap (ToSet(burst) \cup ToSet(frames)) = {}

\* An import holds the camera screen; the delete screen shows no more rows
\* than it lets select, and no more than there are frames.
ScreenInv ==
    /\ importing.on => screen = "camera"
    /\ ~importing.on => importing.left = 0
    /\ screen = "delete" /\ ~crashed
          => totalImages <= selectable /\ totalImages <= Len(frames)
    /\ screen = "delete" /\ "late" \notin hazards => ~InFlight
    /\ NoCrash

\* Unless something is late, the newest index counts what is held, the other
\* two counts follow it between imports, and nothing on its way is cancelled.
CountInv ==
    "late" \notin hazards
        => /\ curIndex + 1 = Held
           /\ ~importing.on => totalImages = curIndex + 1 /\ frameCounter = totalImages
           /\ InFlight => ~cancelled

\* As long as nothing unusual was met, a name is that of one photo, no name
\* is still to be given out, the files hold the photos of their names, and a
\* file that is still to be written is a frame's.
PhotoInv ==
    hazards = {}
        => /\ \A a, b \in Known : a.index = b.index => a = b
           /\ \A a \in Known : a.index <= curIndex
           /\ \A a \in ToSet(burst) \cup ToSet(frames) : disk[a.index] = a.shot
           /\ writes \subseteq ToSet(frames)

CaptureInv ==
    CaptureTypeOK /\ BoundsInv /\ ScreenInv /\ CountInv /\ AtMostMaxFrames /\ PhotoInv

-----------------------------------------------------------------------------
(* Induction, sequences and the loop of deleteFrames:                      *)

\* Induction over the natural numbers, for a set of them.
LEMMA SetInduction ==
    ASSUME NEW T \in SUBSET Nat, 0 \in T, \A n \in T : n + 1 \in T
    PROVE  T = Nat
<1> DEFINE less == {p \in Nat \X Nat : p[1] < p[2]}
<1> SUFFICES ASSUME Nat \ T # {}
             PROVE  FALSE
    OBVIOUS
<1>1. IsWellFoundedOn(less, Nat)
    BY NatLessThanWellFounded DEF OpToRel
<1>2. PICK x \in Nat \ T : \A y \in Nat \ T : <<y, x>> \notin less
    <2> HIDE DEF less
    <2> QED
        BY <1>1, WFMin
<1>3. x # 0 /\ x - 1 \in Nat /\ x - 1 < x /\ (x - 1) + 1 = x
    OBVIOUS
<1>4. <<x - 1, x>> \in less
    BY <1>3
<1>5. x - 1 \in T
    BY <1>2, <1>3, <1>4
<1> QED
    BY <1>3, <1>5

\* What a sequence holds: its elements, ...
LEMMA ElementsIn ==
    ASSUME NEW S, NEW s \in Seq(S)
    PROVE  ToSet(s) \subseteq S /\ Len(s) \in Nat /\ (s = <<>> <=> Len(s) = 0)
BY DEF ToSet

\* ... nothing when it is empty, ...
LEMMA EmptyElements == ToSet(<<>>) = {}
BY DEF ToSet

\* ... one more when one is added at its end, ...
LEMMA AppendElements ==
    ASSUME NEW S, NEW s \in Seq(S), NEW x \in S
    PROVE  /\ Append(s, x) \in Seq(S)
           /\ Len(Append(s, x)) = Len(s) + 1
           /\ ToSet(Append(s, x)) = ToSet(s) \cup {x}
<1>1. /\ Append(s, x) \in Seq(S) /\ Len(Append(s, x)) = Len(s) + 1
      /\ \A i \in 1 .. Len(s) : Append(s, x)[i] = s[i]
      /\ Append(s, x)[Len(s) + 1] = x
    OBVIOUS
<1>2. DOMAIN Append(s, x) = 1 .. Len(s) + 1 /\ DOMAIN s = 1 .. Len(s)
    BY <1>1
<1>3. 1 .. Len(s) + 1 = (1 .. Len(s)) \cup {Len(s) + 1}
    OBVIOUS
<1> QED
    BY <1>1, <1>2, <1>3 DEF ToSet

\* ... and its first one beside the rest.
LEMMA TailElements ==
    ASSUME NEW S, NEW s \in Seq(S), s # <<>>
    PROVE  /\ Head(s) \in S /\ Tail(s) \in Seq(S)
           /\ Len(Tail(s)) = Len(s) - 1
           /\ ToSet(s) = {Head(s)} \cup ToSet(Tail(s))
<1>1. /\ Head(s) = s[1] /\ Tail(s) \in Seq(S) /\ Len(Tail(s)) = Len(s) - 1
      /\ \A i \in 1 .. Len(s) - 1 : Tail(s)[i] = s[i + 1]
      /\ Len(s) \in Nat \ {0} /\ s[1] \in S
    OBVIOUS
<1>2. DOMAIN Tail(s) = 1 .. Len(s) - 1 /\ DOMAIN s = 1 .. Len(s)
    BY <1>1
<1>3. ASSUME NEW x \in ToSet(s)
      PROVE  x = Head(s) \/ x \in ToSet(Tail(s))
    <2>1. PICK i \in 1 .. Len(s) : x = s[i]
        BY <1>2 DEF ToSet
    <2>2. CASE i = 1
        BY <1>1, <2>1, <2>2
    <2>3. CASE i # 1
        <3>1. i - 1 \in 1 .. Len(s) - 1 /\ (i - 1) + 1 = i
            BY <1>1, <2>3
        <3>2. Tail(s)[i - 1] = x
            BY <1>1, <2>1, <3>1
        <3> QED
            BY <1>2, <3>1, <3>2 DEF ToSet
    <2> QED
        BY <2>2, <2>3
<1>4. ASSUME NEW x \in ToSet(Tail(s))
      PROVE  x \in ToSet(s)
    <2>1. PICK i \in 1 .. Len(s) - 1 : x = Tail(s)[i]
        BY <1>2 DEF ToSet
    <2>2. i + 1 \in 1 .. Len(s) /\ x = s[i + 1]
        BY <1>1, <2>1
    <2> QED
        BY <1>2, <2>2 DEF ToSet
<1>5. Head(s) \in ToSet(s)
    BY <1>1, <1>2 DEF ToSet
<1> QED
    BY <1>1, <1>3, <1>4, <1>5

\* One turn of the loop of deleteFrames:.
Turn(selected, f, i) ==
    IF i = 0 THEN <<>>
    ELSE IF i - 1 \in selected THEN f[i - 1]
    ELSE Append(f[i - 1], frames[i])

\* The loop ends: a function with a value for each of its turns exists.
LEMMA LoopExists ==
    ASSUME NEW selected, NEW n \in Nat
    PROVE  \E f : f = [i \in 0 .. n |-> Turn(selected, f, i)]
<1> DEFINE IsLoop(f, k) == f = [i \in 0 .. k |-> Turn(selected, f, i)]
           T == {k \in Nat : \E f : IsLoop(f, k)}
<1>1. 0 \in T
    <2> DEFINE f == [i \in 0 .. 0 |-> <<>>]
    <2>1. \A i \in 0 .. 0 : Turn(selected, f, i) = <<>>
        BY DEF Turn
    <2> HIDE DEF f
    <2>2. IsLoop(f, 0)
        BY <2>1 DEF f
    <2> HIDE DEF IsLoop
    <2> QED
        BY <2>2
<1>2. ASSUME NEW k \in T
      PROVE  k + 1 \in T
    <2>1. PICK f : IsLoop(f, k)
        OBVIOUS
    <2> DEFINE g == [i \in 0 .. k + 1 |->
                        IF i = k + 1 THEN Turn(selected, f, k + 1) ELSE f[i]]
    <2>2. ASSUME NEW i \in 0 .. k + 1
          PROVE  g[i] = Turn(selected, g, i)
        <3>1. Turn(selected, g, i) = Turn(selected, f, i)
            <4>1. i # 0 => i - 1 \in 0 .. k + 1 /\ i - 1 # k + 1
                OBVIOUS
            <4>2. i # 0 => g[i - 1] = f[i - 1]
                BY <4>1
            <4> HIDE DEF g
            <4> QED
                BY <4>2 DEF Turn
        <3>2. i # k + 1 => i \in 0 .. k
            OBVIOUS
        <3>3. i # k + 1 => f[i] = Turn(selected, f, i)
            BY <2>1, <3>2
        <3> QED
            BY <3>1, <3>3
    <2>3. IsLoop(g, k + 1)
        BY <2>2
    <2> HIDE DEF g, IsLoop
    <2> QED
        BY <2>3
<1>3. n \in T
    <2>1. T \in SUBSET Nat
        OBVIOUS
    <2> HIDE DEF T
    <2> QED
        BY <1>1, <1>2, <2>1, SetInduction
<1> QED
    BY <1>3

\* The frames that a deletion leaves are some of those that were there.
LEMMA RemainingFrames ==
    ASSUME NEW selected, frames \in Seq(Shot)
    PROVE  /\ Remaining(selected) \in Seq(Shot)
           /\ Len(Remaining(selected)) <= Len(frames)
           /\ ToSet(Remaining(selected)) \subseteq ToSet(frames)
<1> DEFINE n == Len(frames)
           kept == CHOOSE f : f = [i \in 0 .. n |-> Turn(selected, f, i)]
           Good(k) == /\ kept[k] \in Seq(Shot)
                      /\ Len(kept[k]) <= k
                      /\ ToSet(kept[k]) \subseteq ToSet(frames)
           T == {k \in Nat : k <= n => Good(k)}
<1>1. n \in Nat
    OBVIOUS
<1>2. kept = [i \in 0 .. n |-> Turn(selected, kept, i)]
    BY <1>1, LoopExists
<1>3. Remaining(selected) = kept[n]
    BY DEF Remaining, Turn
<1> HIDE DEF kept, n
<1>4. 0 \in T
    <2>1. kept[0] = <<>>
        BY <1>1, <1>2 DEF Turn
    <2>2. <<>> \in Seq(Shot) /\ Len(<<>>) <= 0
        OBVIOUS
    <2>3. Good(0)
        BY <2>1, <2>2, EmptyElements
    <2> HIDE DEF Good
    <2> QED
        BY <2>3
<1>5. ASSUME NEW k \in T
      PROVE  k + 1 \in T
    <2> SUFFICES ASSUME k + 1 <= n
                 PROVE  Good(k + 1)
        OBVIOUS
    <2>1. Good(k)
        BY <1>1
    <2>2. k + 1 \in 0 .. n /\ k + 1 # 0 /\ (k + 1) - 1 = k
        BY <1>1
    <2>3. kept[k + 1] = IF k \in selected THEN kept[k]
                        ELSE Append(kept[k], frames[k + 1])
        BY <1>2, <2>2 DEF Turn
    <2>4. frames[k + 1] \in Shot /\ frames[k + 1] \in ToSet(frames)
        BY <2>2 DEF n, ToSet
    <2>5. CASE k \in selected
        BY <2>1, <2>3, <2>5
    <2>6. CASE k \notin selected
        <3>1. /\ Append(kept[k], frames[k + 1]) \in Seq(Shot)
              /\ Len(Append(kept[k], frames[k + 1])) = Len(kept[k]) + 1
              /\ ToSet(Append(kept[k], frames[k + 1]))
                    = ToSet(kept[k]) \cup {frames[k + 1]}
            BY <2>1, <2>4, AppendElements
        <3>2. Len(kept[k]) \in Nat
            BY <2>1
        <3> QED
            BY <2>1, <2>3, <2>4, <2>6, <3>1, <3>2
    <2> QED
        BY <2>5, <2>6
<1>6. n \in T
    <2>1. T \in SUBSET Nat
        OBVIOUS
    <2> HIDE DEF T
    <2> QED
        BY <1>1, <1>4, <1>5, <2>1, SetInduction
<1>7. Good(n)
    BY <1>1, <1>6
<1> QED
    BY <1>3, <1>7 DEF n

-----------------------------------------------------------------------------
(* Each action keeps the invariant                                         *)

\* What the invariant says of the numbers.
LEMMA Numbers ==
    ASSUME CaptureInv
    PROVE  /\ curIndex \in Int /\ totalImages \in Int /\ frameCounter \in Int
           /\ selectable \in Int /\ taken \in Nat
           /\ importing.on \in BOOLEAN /\ importing.left \in Nat
           /\ importing = [on |-> importing.on, left |-> importing.left]
           /\ Len(frames) \in Nat /\ Len(burst) \in Nat
           /\ Cardinality(taking) \in Nat
           /\ Cardinality(taking) = 0 <=> taking = {}
           /\ Len(burst) = 0 <=> burst = <<>>
           /\ taken + importing.left <= MaxShots
<1>1. IsFiniteSet(taking)
    BY DEF CaptureInv, BoundsInv
<1>2. Cardinality(taking) \in Nat /\ (Cardinality(taking) = 0 <=> taking = {})
    BY <1>1, FS_CardinalityType, FS_EmptySet
<1>3. burst \in Seq(Shot) /\ frames \in Seq(Shot)
    BY DEF CaptureInv, CaptureTypeOK
<1>4. taken + importing.left <= MaxShots
    BY DEF CaptureInv, BoundsInv
<1>5. /\ curIndex \in Int /\ totalImages \in Int /\ frameCounter \in Int
      /\ selectable \in Int /\ taken \in Nat
      /\ importing.on \in BOOLEAN /\ importing.left \in Nat
      /\ importing = [on |-> importing.on, left |-> importing.left]
    BY DEF CaptureInv, CaptureTypeOK
<1>6. /\ Len(frames) \in Nat /\ Len(burst) \in Nat
      /\ (Len(burst) = 0 <=> burst = <<>>)
    BY <1>3
<1> QED
    BY <1>2, <1>4, <1>5, <1>6

\* The photos that are known are shots.
LEMMA KnownShots ==
    ASSUME CaptureInv
    PROVE  /\ Known \subseteq Shot /\ frames \in Seq(Shot) /\ burst \in Seq(Shot)
           /\ ToSet(frames) \subseteq Shot /\ ToSet(burst) \subseteq Shot
           /\ IsFiniteSet(taking) /\ taking \subseteq Shot
<1>1. taking \subseteq Shot /\ burst \in Seq(Shot) /\ frames \in Seq(Shot)
    BY DEF CaptureInv, CaptureTypeOK
<1> QED
    BY <1>1, ElementsIn DEF Known, CaptureInv, BoundsInv

LEMMA InitInv == CaptureInit => CaptureInv
<1> SUFFICES ASSUME CaptureInit
             PROVE  CaptureInv
    OBVIOUS
<1>1. /\ IsFiniteSet({}) /\ Cardinality({}) = 0 /\ Len(<<>>) = 0
      /\ ToSet(<<>>) = {} /\ <<>> \in Seq(Shot)
    BY FS_EmptySet, EmptyElements
<1>2. CaptureTypeOK
    <2>1. /\ -1 \in -1 - MaxShots .. MaxShots /\ 0 \in -MaxShots .. MaxShots
          /\ 0 \in 0 .. MaxShots
        OBVIOUS
    <2>2. NoFiles \in [Indexes -> Shots \cup {NoShot}]
        BY DEF NoFiles
    <2>3. /\ frames \in Seq(Shot) /\ Len(frames) <= MaxShots /\ burst \in Seq(Shot)
          /\ importing \in [on : BOOLEAN, left : 0 .. MaxShots]
        BY <1>1, <2>1 DEF CaptureInit
    <2> QED
        BY <2>1, <2>2, <2>3 DEF CaptureInit, CaptureTypeOK
<1>3. BoundsInv
    BY <1>1 DEF CaptureInit, BoundsInv, Held, Known, InBounds
<1>4. ScreenInv
    BY DEF CaptureInit, ScreenInv, NoCrash
<1>5. CountInv
    BY <1>1 DEF CaptureInit, CountInv, Held, InFlight
<1>6. AtMostMaxFrames
    BY <1>1 DEF CaptureInit, AtMostMaxFrames
<1>7. PhotoInv
    BY <1>1 DEF CaptureInit, PhotoInv, Known
<1> QED
    BY <1>2, <1>3, <1>4, <1>5, <1>6, <1>7 DEF CaptureInv

LEMMA StutterStep ==
    ASSUME CaptureInv, UNCHANGED captureVars
    PROVE  CaptureInv'
BY DEF CaptureInv, CaptureTypeOK, BoundsInv, ScreenInv, CountInv, AtMostMaxFrames,
       PhotoInv, Known, Held, InBounds, InFlight, NoCrash, captureVars, counts,
       background, ui

\* The shutter: the shot's photo is a new one and its index follows all
\* others, and the counts agreed.
LEMMA CapturePhotoStep ==
    ASSUME CaptureInv, CapturePhoto
    PROVE  CaptureInv'
<1> DEFINE s == [index |-> curIndex + 1, shot |-> taken + 1]
<1>1. /\ taking' = taking \cup {s} /\ taken' = taken + 1 /\ cancelled' = FALSE
      /\ curIndex' = curIndex + 1 /\ totalImages' = curIndex + 2
      /\ frameCounter' = curIndex + 2 /\ frameCounter < MaxFrames
      /\ taken < MaxShots /\ screen = "camera" /\ ~importing.on
      /\ frames' = frames /\ burst' = burst /\ disk' = disk /\ writes' = writes
      /\ importing' = importing /\ screen' = screen /\ hazards' = hazards
      /\ crashed' = crashed /\ selectable' = selectable
      /\ started' = TRUE /\ buttons' = (buttons \/ ~started)
    BY DEF CapturePhoto, OnCamera
<1>2. CaptureTypeOK /\ BoundsInv /\ ScreenInv /\ CountInv /\ AtMostMaxFrames /\ PhotoInv
    BY DEF CaptureInv
<1>3. s.index = curIndex + 1 /\ s.shot = taken + 1
    OBVIOUS
<1> HIDE DEF s
<1>4. \A a \in Known : a.shot # s.shot /\ a # s
    BY <1>2, <1>3, Numbers, KnownShots DEF BoundsInv, Shot, Shots
<1>5. s \notin taking /\ s \notin ToSet(burst) /\ s \notin ToSet(frames)
    BY <1>4 DEF Known
<1>6. /\ IsFiniteSet(taking')
      /\ Cardinality(taking') = Cardinality(taking) + 1
    BY <1>1, <1>5, KnownShots, FS_AddElement
<1>7. Known' = Known \cup {s}
    BY <1>1 DEF Known
<1>8. Held' = Held + 1 /\ Held \in Nat
    <2>1. Len(frames)' = Len(frames) /\ Len(burst)' = Len(burst)
        BY <1>1
    <2> QED
        BY <1>6, <2>1, Numbers DEF Held
<1>9. s \in Shot
    BY <1>1, <1>2, Numbers DEF s, Shot, Shots, Indexes, BoundsInv, InBounds, CaptureTypeOK
<1>10. CaptureTypeOK'
    <2>1. curIndex + 2 <= MaxShots /\ 0 - MaxShots <= curIndex + 1
        BY <1>1, <1>2, Numbers DEF BoundsInv, InBounds
    <2>2. /\ curIndex + 1 \in -1 - MaxShots .. MaxShots
          /\ curIndex + 2 \in -MaxShots .. MaxShots
          /\ taken + 1 \in 0 .. MaxShots
        BY <1>1, <2>1, Numbers
    <2>3. taking' \in SUBSET Shot /\ buttons' \in BOOLEAN
        BY <1>1, <1>2, <1>9 DEF CaptureTypeOK
    <2> QED
        BY <1>1, <1>2, <2>2, <2>3 DEF CaptureTypeOK
<1>11. BoundsInv'
    <2>1. Held' <= taken'
        BY <1>1, <1>2, <1>8, Numbers DEF BoundsInv
    <2>2. InBounds(curIndex + 1)' /\ InBounds(totalImages)' /\ InBounds(frameCounter)'
        BY <1>1, <1>2, <1>6, Numbers DEF BoundsInv, InBounds
    <2>3. (taken + importing.left)' <= MaxShots
        BY <1>1, <1>2, Numbers DEF ScreenInv
    <2>4. \A a \in Known' : a.shot <= taken'
        BY <1>1, <1>2, <1>3, <1>7, Numbers, KnownShots DEF BoundsInv, Shot, Shots
    <2>5. (taking \cap (ToSet(burst) \cup ToSet(frames)))' = {}
        BY <1>1, <1>2, <1>5 DEF BoundsInv
    <2> QED
        BY <1>6, <2>1, <2>2, <2>3, <2>4, <2>5 DEF BoundsInv
<1>12. ScreenInv'
    BY <1>1, <1>2 DEF ScreenInv, NoCrash
<1>13. CountInv'
    BY <1>1, <1>2, <1>8, Numbers DEF CountInv
<1>14. AtMostMaxFrames'
    <2> SUFFICES ASSUME hazards \cap {"late", "stray"} = {}
                 PROVE  (Len(frames) + Cardinality(taking) + Len(burst)
                            + importing.left)' <= MaxFrames
        BY <1>1 DEF AtMostMaxFrames
    <2>1. frameCounter = Held /\ importing.left = 0
        BY <1>1, <1>2 DEF CountInv, ScreenInv
    <2> QED
        BY <1>1, <1>6, <2>1, Numbers DEF Held
<1>15. PhotoInv'
    <2> SUFFICES ASSUME hazards = {}
                 PROVE  PhotoInv'
        BY <1>1 DEF PhotoInv
    <2>1. \A a \in Known : a.index <= curIndex /\ a.index \in Int
        BY <1>2, KnownShots DEF PhotoInv, Shot, Indexes
    <2>2. \A a \in Known : a.index # s.index /\ a.index <= curIndex + 1
        BY <1>3, <2>1, Numbers
    <2>3. \A a, b \in Known' : a.index = b.index => a = b
        BY <1>2, <1>7, <2>2 DEF PhotoInv
    <2>4. \A a \in Known' : a.index <= curIndex'
        BY <1>1, <1>3, <1>7, <2>2, Numbers
    <2> QED
        BY <1>1, <1>2, <2>3, <2>4 DEF PhotoInv
<1> QED
    BY <1>10, <1>11, <1>12, <1>13, <1>14, <1>15 DEF CaptureInv

\* The camera's answer: the shot moves on.
LEMMA ShotArrivesStep ==
    ASSUME CaptureInv, NEW s \in taking, ShotArrives(s)
    PROVE  CaptureInv'
<1>1. /\ taking' = taking \ {s} /\ disk' = [disk EXCEPT ![s.index] = s.shot]
      /\ burst' = Append(burst, s)
      /\ curIndex' = curIndex /\ totalImages' = totalImages
      /\ frameCounter' = frameCounter /\ frames' = frames /\ writes' = writes
      /\ importing' = importing /\ cancelled' = cancelled /\ started' = started
      /\ buttons' = buttons /\ screen' = screen /\ selectable' = selectable
      /\ crashed' = crashed /\ taken' = taken /\ hazards' = hazards
    BY DEF ShotArrives, counts, ui
<1>2. CaptureTypeOK /\ BoundsInv /\ ScreenInv /\ CountInv /\ AtMostMaxFrames /\ PhotoInv
    BY DEF CaptureInv
<1>3. s \in Shot /\ s.index \in Indexes /\ s.shot \in Shots /\ InFlight
    BY KnownShots DEF Shot, InFlight
<1>4. /\ burst' \in Seq(Shot) /\ Len(burst') = Len(burst) + 1
      /\ ToSet(burst') = ToSet(burst) \cup {s}
    BY <1>1, <1>3, KnownShots, AppendElements
<1>5. /\ IsFiniteSet(taking')
      /\ Cardinality(taking') = Cardinality(taking) - 1
    BY <1>1, KnownShots, FS_RemoveElement
<1>6. Known' = Known /\ ToSet(frames)' = ToSet(frames)
    BY <1>1, <1>4 DEF Known
<1>7. Held' = Held
    BY <1>1, <1>4, <1>5, Numbers DEF Held
<1>8. CaptureTypeOK'
    BY <1>1, <1>2, <1>3, <1>4 DEF CaptureTypeOK
<1>9. BoundsInv'
    <2>1. InBounds(curIndex + 1)' /\ InBounds(totalImages)' /\ InBounds(frameCounter)'
        BY <1>1, <1>2, <1>5, Numbers DEF BoundsInv, InBounds
    <2>2. (taking \cap (ToSet(burst) \cup ToSet(frames)))' = {}
        BY <1>1, <1>2, <1>4 DEF BoundsInv
    <2> QED
        BY <1>1, <1>2, <1>5, <1>6, <1>7, <2>1, <2>2 DEF BoundsInv
<1>10. ScreenInv'
    BY <1>1, <1>2, <1>3 DEF ScreenInv, NoCrash
<1>11. CountInv'
    BY <1>1, <1>2, <1>3, <1>7 DEF CountInv
<1>12. AtMostMaxFrames'
    BY <1>1, <1>2, <1>4, <1>5, Numbers DEF AtMostMaxFrames
<1>13. PhotoInv'
    <2> SUFFICES ASSUME hazards = {}
                 PROVE  PhotoInv'
        BY <1>1 DEF PhotoInv
    <2>1. disk \in [Indexes -> Shots \cup {NoShot}]
        BY <1>2 DEF CaptureTypeOK
    <2>2. ASSUME NEW a \in ToSet(burst') \cup ToSet(frames')
          PROVE  disk'[a.index] = a.shot
        <3>1. a \in Known /\ s \in Known /\ a.index \in Indexes
            BY <1>1, <1>4, KnownShots DEF Known, Shot
        <3>2. CASE a.index = s.index
            BY <1>1, <1>2, <2>1, <3>1, <3>2 DEF PhotoInv
        <3>3. CASE a.index # s.index
            BY <1>1, <1>2, <1>4, <2>1, <3>1, <3>3 DEF PhotoInv
        <3> QED
            BY <3>2, <3>3
    <2> QED
        BY <1>1, <1>2, <1>6, <2>2 DEF PhotoInv
<1> QED
    BY <1>8, <1>9, <1>10, <1>11, <1>12, <1>13 DEF CaptureInv

\* A failed shot is no longer counted; unless a newer one is, its name was
\* the last.
LEMMA ShotFailsStep ==
    ASSUME CaptureInv, NEW s \in taking, ShotFails(s)
    PROVE  CaptureInv'
<1>1. /\ taking' = taking \ {s}
      /\ curIndex' = curIndex - 1 /\ totalImages' = totalImages - 1
      /\ frameCounter' = curIndex
      /\ hazards' = hazards \cup (IF s.index = curIndex THEN {} ELSE {"failed"})
      /\ disk' = disk /\ burst' = burst /\ frames' = frames /\ writes' = writes
      /\ importing' = importing /\ cancelled' = cancelled /\ started' = started
      /\ buttons' = buttons /\ screen' = screen /\ selectable' = selectable
      /\ crashed' = crashed /\ taken' = taken
    BY DEF ShotFails, ui, Meets
<1>2. CaptureTypeOK /\ BoundsInv /\ ScreenInv /\ CountInv /\ AtMostMaxFrames /\ PhotoInv
    BY DEF CaptureInv
<1>3. InFlight /\ s \in Known /\ s.index \in Int
    BY KnownShots DEF Shot, InFlight, Known, Indexes
<1>4. /\ IsFiniteSet(taking')
      /\ Cardinality(taking') = Cardinality(taking) - 1
    BY <1>1, KnownShots, FS_RemoveElement
<1>5. Known' = Known \ {s} /\ ToSet(frames)' = ToSet(frames)
    BY <1>1, <1>2 DEF Known, BoundsInv
<1>6. Held' = Held - 1 /\ Held \in Nat
    BY <1>1, <1>4, Numbers DEF Held
<1>7. ("late" \in hazards' <=> "late" \in hazards)
      /\ ("stray" \in hazards' <=> "stray" \in hazards)
    BY <1>1
<1>8. BoundsInv'
    <2>1. InBounds(curIndex + 1)' /\ InBounds(totalImages)' /\ InBounds(frameCounter)'
        BY <1>1, <1>2, <1>4, Numbers DEF BoundsInv, InBounds
    <2>2. (taking \cap (ToSet(burst) \cup ToSet(frames)))' = {}
        BY <1>1, <1>2 DEF BoundsInv
    <2>3. Held' <= taken'
        BY <1>1, <1>2, <1>6, Numbers DEF BoundsInv
    <2> QED
        BY <1>1, <1>2, <1>4, <1>5, <2>1, <2>2, <2>3 DEF BoundsInv
<1>9. CaptureTypeOK'
    <2>1. /\ curIndex - 1 \in -1 - MaxShots .. MaxShots
          /\ totalImages - 1 \in -MaxShots .. MaxShots
          /\ curIndex \in -MaxShots .. MaxShots
        <3>1. Cardinality(taking) > 0 /\ taken <= MaxShots
            BY Numbers
        <3>2. /\ Cardinality(taking) - taken <= curIndex + 1 /\ curIndex + 1 <= taken
              /\ Cardinality(taking) - taken <= totalImages /\ totalImages <= taken
            BY <1>2 DEF BoundsInv, InBounds
        <3>3. /\ Cardinality(taking) \in Nat /\ taken \in Nat /\ curIndex \in Int
              /\ totalImages \in Int
            BY Numbers
        <3> QED
            BY <3>1, <3>2, <3>3
    <2> QED
        BY <1>1, <1>2, <2>1 DEF CaptureTypeOK, HazardKinds
<1>10. ScreenInv'
    BY <1>1, <1>2, <1>3, <1>7, Numbers DEF ScreenInv, NoCrash, CaptureTypeOK
<1>11. CountInv'
    BY <1>1, <1>2, <1>3, <1>6, <1>7, Numbers DEF CountInv
<1>12. AtMostMaxFrames'
    BY <1>1, <1>2, <1>4, <1>7, Numbers DEF AtMostMaxFrames
<1>13. PhotoInv'
    <2> SUFFICES ASSUME hazards = {}, s.index = curIndex
                 PROVE  PhotoInv'
        BY <1>1 DEF PhotoInv
    <2>1. \A a \in Known' : a \in Known /\ a.index # curIndex
        BY <1>2, <1>3, <1>5 DEF PhotoInv
    <2>2. \A a \in Known' : a.index <= curIndex /\ a.index \in Int
        BY <1>2, <2>1, KnownShots DEF PhotoInv, Shot, Indexes
    <2>3. \A a \in Known' : a.index <= curIndex'
        BY <1>1, <2>1, <2>2, Numbers
    <2> QED
        BY <1>1, <1>2, <2>1, <2>3 DEF PhotoInv
<1> QED
    BY <1>8, <1>9, <1>10, <1>11, <1>12, <1>13 DEF CaptureInv

\* The serial queue: the photo read from the shot's file is its own, and the
\* shot is dropped only when something came late.
LEMMA CropAndSaveStep ==
    ASSUME CaptureInv, CropAndSave
    PROVE  CaptureInv'
<1> DEFINE s == Head(burst)
           new == {[index |-> s.index, shot |-> p] :
                      p \in {disk[s.index]} \ {NoShot}}
<1>1. /\ burst # <<>> /\ burst' = Tail(burst) /\ taking' = taking /\ disk' = disk
      /\ curIndex' = curIndex /\ totalImages' = totalImages
      /\ frameCounter' = frameCounter
      /\ importing' = importing /\ cancelled' = cancelled /\ started' = started
      /\ buttons' = buttons /\ screen' = screen /\ selectable' = selectable
      /\ crashed' = crashed /\ taken' = taken /\ hazards' = hazards
    BY DEF CropAndSave, counts, ui
<1>2. CaptureTypeOK /\ BoundsInv /\ ScreenInv /\ CountInv /\ AtMostMaxFrames /\ PhotoInv
    BY DEF CaptureInv
<1>3. IF cancelled THEN frames' = frames /\ writes' = writes
      ELSE frames' = Append(frames, s) /\ writes' = writes \cup new
    BY DEF CropAndSave
<1>4. /\ s \in Shot /\ burst' \in Seq(Shot) /\ Len(burst') = Len(burst) - 1
      /\ ToSet(burst) = {s} \cup ToSet(burst')
    BY <1>1, KnownShots, TailElements
<1> HIDE DEF s
<1>5. /\ Append(frames, s) \in Seq(Shot)
      /\ Len(Append(frames, s)) = Len(frames) + 1
      /\ ToSet(Append(frames, s)) = ToSet(frames) \cup {s}
    BY <1>4, KnownShots, AppendElements
<1>6. /\ frames' \in Seq(Shot) /\ ToSet(frames) \subseteq ToSet(frames')
      /\ ToSet(frames') \subseteq ToSet(frames) \cup {s}
      /\ Len(frames') \in Nat /\ Len(frames') >= Len(frames)
      /\ Len(frames') <= Len(frames) + 1
    <2>1. Len(frames) \in Nat /\ frames \in Seq(Shot)
        BY Numbers, KnownShots
    <2>2. CASE cancelled
        BY <1>3, <2>1, <2>2
    <2>3. CASE ~cancelled
        <3>1. frames' = Append(frames, s)
            BY <1>3, <2>3
        <3>2. /\ frames' \in Seq(Shot) /\ Len(frames') = Len(frames) + 1
              /\ ToSet(frames') = ToSet(frames) \cup {s}
            BY <1>5, <3>1
        <3> QED
            BY <2>1, <3>2
    <2> QED
        BY <2>2, <2>3
<1>7. Known' \subseteq Known
    BY <1>1, <1>4, <1>6 DEF Known
<1>8. Held' \in Int /\ Held \in Int /\ Held' <= Held /\ (~cancelled => Held' = Held)
    <2>1. Cardinality(taking') = Cardinality(taking)
        BY <1>1
    <2>2. /\ Len(frames) \in Nat /\ Len(burst) \in Nat
          /\ Cardinality(taking) \in Nat
        BY Numbers
    <2>3. ~cancelled => Len(frames') = Len(frames) + 1
        BY <1>3, <1>5
    <2> QED
        BY <1>4, <1>6, <2>1, <2>2, <2>3 DEF Held
<1>9. new \subseteq Shot
    <2>1. s.index \in Indexes /\ disk[s.index] \in Shots \cup {NoShot}
        BY <1>2, <1>4 DEF CaptureTypeOK, Shot
    <2> QED
        BY <2>1 DEF Shot
<1>10. BoundsInv'
    <2>1. Held' <= taken'
        BY <1>1, <1>2, <1>8, Numbers DEF BoundsInv
    <2>2. InBounds(curIndex + 1)' /\ InBounds(totalImages)' /\ InBounds(frameCounter)'
        BY <1>1, <1>2 DEF BoundsInv, InBounds
    <2>3. (taking \cap (ToSet(burst) \cup ToSet(frames)))' = {}
        BY <1>1, <1>2, <1>4, <1>6 DEF BoundsInv
    <2> QED
        BY <1>1, <1>2, <1>7, <2>1, <2>2, <2>3 DEF BoundsInv
<1>11. CaptureTypeOK'
    <2>1. Len(frames') <= MaxShots
        <3>1. Len(frames') <= Held'
            BY <1>1, <1>4, <1>6, Numbers DEF Held
        <3>2. Held' <= taken /\ taken <= MaxShots
            BY <1>1, <1>10, Numbers DEF BoundsInv
        <3> QED
            BY <1>6, <1>8, <3>1, <3>2, Numbers
    <2>2. writes' \in SUBSET Shot
        BY <1>2, <1>3, <1>9 DEF CaptureTypeOK
    <2> QED
        BY <1>1, <1>2, <1>4, <1>6, <2>1, <2>2 DEF CaptureTypeOK
<1>12. InFlight
    BY <1>1 DEF InFlight
<1>13. ScreenInv'
    BY <1>1, <1>2, <1>6, <1>12, Numbers DEF ScreenInv, NoCrash
<1>14. CountInv'
    BY <1>1, <1>2, <1>8, <1>12 DEF CountInv
<1>15. AtMostMaxFrames'
    <2>1. /\ Len(frames) + Cardinality(taking) + Len(burst) + importing.left
                = Held + importing.left
          /\ (Len(frames) + Cardinality(taking) + Len(burst) + importing.left)'
                = Held' + importing.left
        BY <1>1 DEF Held
    <2>2. importing.left \in Nat
        BY Numbers
    <2> HIDE DEF Held
    <2> QED
        BY <1>1, <1>2, <1>8, <2>1, <2>2 DEF AtMostMaxFrames
<1>16. PhotoInv'
    <2> SUFFICES ASSUME hazards = {}
                 PROVE  PhotoInv'
        BY <1>1 DEF PhotoInv
    <2>1. ~cancelled /\ disk[s.index] = s.shot
        BY <1>2, <1>4, <1>12 DEF CountInv, PhotoInv
    <2>2. new \subseteq {s}
        BY <1>4, <2>1 DEF Shot
    <2>3. writes' \subseteq ToSet(frames')
        BY <1>2, <1>3, <1>5, <2>1, <2>2 DEF PhotoInv
    <2> QED
        BY <1>1, <1>2, <1>4, <1>6, <1>7, <2>3 DEF PhotoInv
<1> QED
    BY <1>10, <1>11, <1>13, <1>14, <1>15, <1>16 DEF CaptureInv

\* A background queue: the file is a frame's, and gets that frame's photo.
LEMMA WriteCroppedStep ==
    ASSUME CaptureInv, NEW w \in writes, WriteCropped(w)
    PROVE  CaptureInv'
<1>1. /\ disk' = [disk EXCEPT ![w.index] = w.shot] /\ writes' = writes \ {w}
      /\ curIndex' = curIndex /\ totalImages' = totalImages
      /\ frameCounter' = frameCounter /\ frames' = frames /\ taking' = taking
      /\ burst' = burst
      /\ importing' = importing /\ cancelled' = cancelled /\ started' = started
      /\ buttons' = buttons /\ screen' = screen /\ selectable' = selectable
      /\ crashed' = crashed /\ taken' = taken /\ hazards' = hazards
    BY DEF WriteCropped, counts, ui
<1>2. CaptureTypeOK /\ BoundsInv /\ ScreenInv /\ CountInv /\ AtMostMaxFrames /\ PhotoInv
    BY DEF CaptureInv
<1>3. w \in Shot /\ w.index \in Indexes /\ w.shot \in Shots
    BY <1>2 DEF CaptureTypeOK, Shot
<1>4. Known' = Known /\ Held' = Held
    BY <1>1 DEF Known, Held
<1>5. CaptureTypeOK'
    BY <1>1, <1>2, <1>3 DEF CaptureTypeOK
<1>6. BoundsInv' /\ ScreenInv' /\ CountInv' /\ AtMostMaxFrames'
    BY <1>1, <1>2, <1>4 DEF BoundsInv, InBounds, ScreenInv, NoCrash, InFlight,
          CountInv, AtMostMaxFrames
<1>7. PhotoInv'
    <2> SUFFICES ASSUME hazards = {}
                 PROVE  PhotoInv'
        BY <1>1 DEF PhotoInv
    <2>1. w \in Known
        BY <1>2 DEF PhotoInv, Known
    <2>2. ASSUME NEW a \in ToSet(burst) \cup ToSet(frames)
          PROVE  disk'[a.index] = a.shot
        <3>1. a \in Known /\ a.index \in Indexes
            BY KnownShots DEF Known, Shot
        <3>2. disk \in [Indexes -> Shots \cup {NoShot}]
            BY <1>2 DEF CaptureTypeOK
        <3>3. CASE a.index = w.index
            BY <1>1, <1>2, <2>1, <3>1, <3>2, <3>3 DEF PhotoInv
        <3>4. CASE a.index # w.index
            BY <1>1, <1>2, <3>1, <3>2, <3>4 DEF PhotoInv
        <3> QED
            BY <3>3, <3>4
    <2> QED
        BY <1>1, <1>2, <1>4, <2>2 DEF PhotoInv
<1> QED
    BY <1>5, <1>6, <1>7 DEF CaptureInv

\* An import asks for as many photos as there is room for.
LEMMA StartImportStep ==
    ASSUME CaptureInv, StartImport
    PROVE  CaptureInv'
<1>1. /\ screen = "camera" /\ ~importing.on
      /\ curIndex' = curIndex /\ totalImages' = totalImages
      /\ frameCounter' = frameCounter /\ frames' = frames /\ taking' = taking
      /\ burst' = burst /\ disk' = disk /\ writes' = writes
      /\ cancelled' = cancelled /\ started' = started
      /\ buttons' = buttons /\ screen' = screen /\ selectable' = selectable
      /\ crashed' = crashed /\ taken' = taken /\ hazards' = hazards
    BY DEF StartImport, OnCamera, counts, background, ui
<1>2. PICK n \in 1 .. MaxFrames - frameCounter :
          n <= MaxShots - taken /\ importing' = [on |-> TRUE, left |-> n]
    BY DEF StartImport
<1>3. CaptureTypeOK /\ BoundsInv /\ ScreenInv /\ CountInv /\ AtMostMaxFrames /\ PhotoInv
    BY DEF CaptureInv
<1>4. n \in Nat /\ n <= MaxFrames - frameCounter /\ importing'.left = n
    BY <1>2, Numbers
<1>5. Known' = Known /\ Held' = Held
    BY <1>1 DEF Known, Held
<1>6. CaptureTypeOK'
    <2>1. n \in 0 .. MaxShots
        BY <1>2, <1>4, Numbers
    <2> QED
        BY <1>1, <1>2, <1>3, <2>1 DEF CaptureTypeOK
<1>7. BoundsInv'
    <2>1. (taken + importing.left)' <= MaxShots
        BY <1>1, <1>2, <1>4, Numbers
    <2> QED
        BY <1>1, <1>3, <1>5, <2>1 DEF BoundsInv, InBounds
<1>8. ScreenInv' /\ CountInv'
    BY <1>1, <1>2, <1>3, <1>5 DEF ScreenInv, CountInv, NoCrash, InFlight
<1>9. AtMostMaxFrames'
    <2> SUFFICES ASSUME hazards \cap {"late", "stray"} = {}
                 PROVE  (Len(frames) + Cardinality(taking) + Len(burst)
                            + importing.left)' <= MaxFrames
        BY <1>1 DEF AtMostMaxFrames
    <2>1. frameCounter = Held
        BY <1>1, <1>3 DEF CountInv
    <2> QED
        BY <1>1, <1>4, <2>1, Numbers DEF Held
<1>10. PhotoInv'
    BY <1>1, <1>3, <1>5 DEF PhotoInv
<1> QED
    BY <1>6, <1>7, <1>8, <1>9, <1>10 DEF CaptureInv

\* An imported photo is a new one and its name follows all others.
LEMMA ImportPhotoStep ==
    ASSUME CaptureInv, ImportPhoto
    PROVE  CaptureInv'
<1> DEFINE s == [index |-> curIndex + 1, shot |-> taken + 1]
<1>1. /\ importing.left > 0 /\ taken' = taken + 1
      /\ importing' = [importing EXCEPT !.left = @ - 1]
      /\ curIndex' = curIndex + 1 /\ frames' = Append(frames, s)
      /\ disk' = [disk EXCEPT ![curIndex + 1] = taken + 1]
      /\ totalImages' = totalImages /\ frameCounter' = frameCounter
      /\ taking' = taking /\ burst' = burst /\ writes' = writes
      /\ cancelled' = cancelled /\ started' = started
      /\ buttons' = buttons /\ screen' = screen /\ selectable' = selectable
      /\ crashed' = crashed /\ hazards' = hazards
    BY DEF ImportPhoto, background, ui
<1>2. CaptureTypeOK /\ BoundsInv /\ ScreenInv /\ CountInv /\ AtMostMaxFrames /\ PhotoInv
    BY DEF CaptureInv
<1>3. /\ s.index = curIndex + 1 /\ s.shot = taken + 1
      /\ disk' = [disk EXCEPT ![s.index] = s.shot]
    BY <1>1
<1>4. /\ importing' = [on |-> importing.on, left |-> importing.left - 1]
      /\ importing'.on = importing.on /\ importing'.left = importing.left - 1
      /\ importing.on /\ importing.left - 1 \in Nat /\ screen = "camera"
      /\ importing.left - 1 <= MaxShots
    <2>1. importing.on /\ screen = "camera"
        BY <1>1, <1>2, Numbers DEF ScreenInv
    <2>2. importing' = [on |-> importing.on, left |-> importing.left - 1]
        BY <1>1, Numbers
    <2>3. importing'.on = importing.on /\ importing'.left = importing.left - 1
        BY <2>2
    <2>4. importing.left - 1 \in Nat /\ importing.left - 1 <= MaxShots
        BY <1>1, Numbers
    <2> QED
        BY <2>1, <2>2, <2>3, <2>4
<1>5. /\ 0 - MaxShots <= curIndex + 1 /\ curIndex + 1 <= MaxShots
      /\ taken + 1 \in 1 .. MaxShots
    <2>1. curIndex + 1 <= taken /\ 0 - taken <= curIndex + 1
        <3>1. Cardinality(taking) - taken <= curIndex + 1 /\ curIndex + 1 <= taken
            BY <1>2 DEF BoundsInv, InBounds
        <3> QED
            BY <3>1, Numbers
    <2> QED
        BY <1>1, <2>1, Numbers
<1>6. s \in Shot
    BY <1>5, Numbers DEF Shot, Shots, Indexes
<1> HIDE DEF s
<1>7. \A a \in Known : a.shot # s.shot /\ a # s
    BY <1>2, <1>3, Numbers, KnownShots DEF BoundsInv, Shot, Shots
<1>8. /\ frames' \in Seq(Shot) /\ Len(frames') = Len(frames) + 1
      /\ ToSet(frames') = ToSet(frames) \cup {s}
    BY <1>1, <1>6, KnownShots, AppendElements
<1>9. Known' = Known \cup {s}
    BY <1>1, <1>8 DEF Known
<1>10. Held' = Held + 1 /\ Held \in Nat
    <2>1. Cardinality(taking)' = Cardinality(taking) /\ Len(burst)' = Len(burst)
        BY <1>1
    <2>2. /\ Len(frames) \in Nat /\ Len(burst) \in Nat
          /\ Cardinality(taking) \in Nat
        BY Numbers
    <2> QED
        BY <1>8, <2>1, <2>2 DEF Held
<1>11. BoundsInv'
    <2>1. Held' <= taken' /\ (taken + importing.left)' <= MaxShots
        BY <1>1, <1>2, <1>4, <1>10, Numbers DEF BoundsInv
    <2>2. InBounds(curIndex + 1)' /\ InBounds(totalImages)' /\ InBounds(frameCounter)'
        <3>1. InBounds(curIndex + 1) /\ InBounds(totalImages) /\ InBounds(frameCounter)
            BY <1>2 DEF BoundsInv
        <3>2. /\ curIndex \in Int /\ totalImages \in Int /\ frameCounter \in Int
              /\ taken \in Nat /\ Cardinality(taking) \in Nat
            BY Numbers
        <3> QED
            BY <1>1, <3>1, <3>2 DEF InBounds
    <2>3. (taking \cap (ToSet(burst) \cup ToSet(frames)))' = {}
        BY <1>1, <1>2, <1>7, <1>8 DEF BoundsInv, Known
    <2>4. \A a \in Known' : a.shot <= taken'
        BY <1>1, <1>2, <1>3, <1>9, Numbers, KnownShots DEF BoundsInv, Shot, Shots
    <2> QED
        BY <1>1, <1>2, <2>1, <2>2, <2>3, <2>4 DEF BoundsInv
<1>12. CaptureTypeOK'
    <2>1. Len(frames') <= MaxShots
        <3>1. Len(frames') <= Held'
            BY <1>1, <1>8, Numbers DEF Held
        <3>2. Held' <= taken + 1
            BY <1>1, <1>11 DEF BoundsInv
        <3> QED
            BY <1>5, <1>8, <1>10, <3>1, <3>2, Numbers
    <2>2. /\ curIndex' \in -1 - MaxShots .. MaxShots /\ taken' \in 0 .. MaxShots
        BY <1>1, <1>5, Numbers
    <2>3. disk' \in [Indexes -> Shots \cup {NoShot}]
        BY <1>2, <1>3, <1>6 DEF CaptureTypeOK, Shot
    <2>4. importing' \in [on : BOOLEAN, left : 0 .. MaxShots]
        BY <1>4, Numbers
    <2> QED
        BY <1>1, <1>2, <1>8, <2>1, <2>2, <2>3, <2>4 DEF CaptureTypeOK
<1>13. ScreenInv'
    BY <1>1, <1>2, <1>4 DEF ScreenInv, NoCrash
<1>14. CountInv'
    BY <1>1, <1>2, <1>4, <1>10, Numbers DEF CountInv, InFlight
<1>15. AtMostMaxFrames'
    <2>1. /\ Len(frames) \in Nat /\ Len(burst) \in Nat
          /\ Cardinality(taking) \in Nat /\ importing.left \in Nat
        BY Numbers
    <2>2. (Len(frames) + Cardinality(taking) + Len(burst) + importing.left)'
             = Len(frames) + Cardinality(taking) + Len(burst) + importing.left
        BY <1>1, <1>4, <1>8, <2>1
    <2> QED
        BY <1>1, <1>2, <2>2 DEF AtMostMaxFrames
<1>16. PhotoInv'
    <2> SUFFICES ASSUME hazards = {}
                 PROVE  PhotoInv'
        BY <1>1 DEF PhotoInv
    <2>1. \A a \in Known : a.index <= curIndex /\ a.index \in Int /\ a.index \in Indexes
        BY <1>2, KnownShots DEF PhotoInv, Shot, Indexes
    <2>2. \A a \in Known : a.index # s.index /\ a.index <= curIndex + 1
        BY <1>3, <2>1, Numbers
    <2>3. \A a, b \in Known' : a.index = b.index => a = b
        BY <1>2, <1>9, <2>2 DEF PhotoInv
    <2>4. \A a \in Known' : a.index <= curIndex'
        BY <1>1, <1>3, <1>9, <2>2, Numbers
    <2>5. ASSUME NEW a \in ToSet(burst') \cup ToSet(frames')
          PROVE  disk'[a.index] = a.shot
        <3>1. disk \in [Indexes -> Shots \cup {NoShot}] /\ s.index \in Indexes
            BY <1>2, <1>6 DEF CaptureTypeOK, Shot
        <3>2. CASE a = s
            BY <1>3, <3>1, <3>2
        <3>3. CASE a # s
            <4>1. a \in ToSet(burst) \cup ToSet(frames) /\ a \in Known
                BY <1>1, <1>8, <3>3 DEF Known
            <4> QED
                BY <1>2, <1>3, <2>1, <2>2, <3>1, <4>1 DEF PhotoInv
        <3> QED
            BY <3>2, <3>3
    <2>6. writes' \subseteq ToSet(frames')
        BY <1>1, <1>2, <1>8 DEF PhotoInv
    <2> QED
        BY <2>3, <2>4, <2>5, <2>6 DEF PhotoInv
<1> QED
    BY <1>11, <1>12, <1>13, <1>14, <1>15, <1>16 DEF CaptureInv

\* After an import the counts follow the index again.
LEMMA ImportDoneStep ==
    ASSUME CaptureInv, ImportDone
    PROVE  CaptureInv'
<1>1. /\ importing.on /\ importing.left = 0
      /\ importing' = [on |-> FALSE, left |-> 0]
      /\ totalImages' = curIndex + 1 /\ frameCounter' = curIndex + 1
      /\ buttons' = TRUE /\ curIndex' = curIndex /\ frames' = frames
      /\ taking' = taking /\ burst' = burst /\ disk' = disk /\ writes' = writes
      /\ cancelled' = cancelled /\ started' = started
      /\ screen' = screen /\ selectable' = selectable
      /\ crashed' = crashed /\ taken' = taken /\ hazards' = hazards
    BY DEF ImportDone, background
<1>2. CaptureTypeOK /\ BoundsInv /\ ScreenInv /\ CountInv /\ AtMostMaxFrames /\ PhotoInv
    BY DEF CaptureInv
<1>3. Known' = Known /\ Held' = Held /\ importing'.left = 0 /\ ~importing'.on
    BY <1>1 DEF Known, Held
<1>4. BoundsInv'
    BY <1>1, <1>2, <1>3 DEF BoundsInv, InBounds
<1>5. CaptureTypeOK'
    <2>1. curIndex + 1 \in -MaxShots .. MaxShots
        <3>1. Cardinality(taking) - taken <= curIndex + 1 /\ curIndex + 1 <= taken
            BY <1>2 DEF BoundsInv, InBounds
        <3> QED
            BY <3>1, Numbers
    <2>2. importing' \in [on : BOOLEAN, left : 0 .. MaxShots]
        BY <1>1
    <2> QED
        BY <1>1, <1>2, <2>1, <2>2 DEF CaptureTypeOK
<1>6. ScreenInv' /\ CountInv' /\ AtMostMaxFrames' /\ PhotoInv'
    BY <1>1, <1>2, <1>3 DEF ScreenInv, CountInv, AtMostMaxFrames, PhotoInv,
          NoCrash, InFlight
<1> QED
    BY <1>4, <1>5, <1>6 DEF CaptureInv

\* A session that begins anew holds what is still on its way, and that is
\* late.
LEMMA ResetStep ==
    ASSUME CaptureInv, ResetAll, ~importing.on, crashed' = FALSE,
           screen' = "camera", cancelled' \in BOOLEAN,
           UNCHANGED <<background, importing, selectable, taken>>
    PROVE  CaptureInv'
<1>1. /\ curIndex' = -1 /\ totalImages' = 0 /\ frameCounter' = 0 /\ frames' = <<>>
      /\ disk' = NoFiles /\ started' = FALSE /\ buttons' = FALSE
      /\ hazards' = WhenPending
      /\ taking' = taking /\ burst' = burst /\ writes' = writes
      /\ importing' = importing /\ selectable' = selectable /\ taken' = taken
    BY DEF ResetAll, background
<1>2. CaptureTypeOK /\ BoundsInv /\ ScreenInv
    BY DEF CaptureInv
<1>3. /\ <<>> \in Seq(Shot) /\ Len(<<>>) = 0
    OBVIOUS
<1>4. /\ ToSet(frames') = {} /\ Len(frames') = 0
    BY <1>1, <1>3, EmptyElements
<1>5. /\ Len(frames) \in Nat /\ Len(burst) \in Nat
      /\ Cardinality(taking) \in Nat /\ taken \in Nat /\ taken <= MaxShots
    BY Numbers
<1>6. Known' \subseteq Known
    BY <1>1, <1>4 DEF Known
<1>7. Held' = Cardinality(taking) + Len(burst) /\ Held' <= Held
    BY <1>1, <1>4, <1>5 DEF Held
<1>8. "late" \notin hazards'
         => /\ taking = {} /\ burst = <<>> /\ writes = {}
            /\ Cardinality(taking) = 0 /\ Len(burst) = 0 /\ ~InFlight'
    BY <1>1, Numbers DEF WhenPending, Pending, InFlight
<1>9. CaptureTypeOK'
    <2>1. /\ -1 \in -1 - MaxShots .. MaxShots /\ 0 \in -MaxShots .. MaxShots
        OBVIOUS
    <2>2. NoFiles \in [Indexes -> Shots \cup {NoShot}]
        BY DEF NoFiles
    <2>3. frames' \in Seq(Shot) /\ Len(frames') <= MaxShots
        BY <1>1, <1>3
    <2>4. WhenPending \in SUBSET HazardKinds
        BY DEF WhenPending, HazardKinds
    <2> QED
        BY <1>1, <1>2, <2>1, <2>2, <2>3, <2>4 DEF CaptureTypeOK
<1>10. BoundsInv'
    <2>1. Held' <= taken'
        BY <1>1, <1>2, <1>5, <1>7 DEF BoundsInv, Held
    <2>2. Cardinality(taking) <= taken
        BY <1>2, <1>5 DEF BoundsInv, Held
    <2>3. InBounds(curIndex + 1)' /\ InBounds(totalImages)' /\ InBounds(frameCounter)'
        BY <1>1, <1>5, <2>2 DEF InBounds
    <2>4. (taking \cap (ToSet(burst) \cup ToSet(frames)))' = {}
        BY <1>1, <1>2, <1>4 DEF BoundsInv
    <2> QED
        BY <1>1, <1>2, <1>6, <2>1, <2>3, <2>4 DEF BoundsInv
<1>11. ScreenInv'
    BY <1>1, <1>2 DEF ScreenInv, NoCrash
<1>12. CountInv'
    BY <1>1, <1>7, <1>8 DEF CountInv
<1>13. AtMostMaxFrames'
    <2>1. importing'.left = 0
        BY <1>1, <1>2 DEF ScreenInv
    <2> QED
        BY <1>1, <1>4, <1>8, <2>1 DEF AtMostMaxFrames
<1>14. PhotoInv'
    <2> SUFFICES ASSUME hazards' = {}
                 PROVE  PhotoInv'
        BY DEF PhotoInv
    <2>1. Known' = {} /\ writes' = {} /\ ToSet(burst') = {}
        BY <1>1, <1>4, <1>8, EmptyElements DEF Known
    <2> QED
        BY <1>4, <2>1 DEF PhotoInv
<1> QED
    BY <1>9, <1>10, <1>11, <1>12, <1>13, <1>14 DEF CaptureInv

\* Deleting all frames begins anew, ...
LEMMA DeleteAllFramesStep ==
    ASSUME CaptureInv, ~crashed, DeleteAllFrames
    PROVE  CaptureInv'
<1>1. crashed' = FALSE
    BY DEF DeleteAllFrames, CaptureInv, CaptureTypeOK
<1> QED
    BY <1>1, ResetStep DEF DeleteAllFrames, OnCamera

\* ... and so does coming back from another screen, where no import runs.
LEMMA StartNewSessionStep ==
    ASSUME CaptureInv, ~crashed, StartNewSession
    PROVE  CaptureInv'
<1>1. crashed' = FALSE /\ cancelled' \in BOOLEAN
    BY DEF StartNewSession, CaptureInv, CaptureTypeOK
<1>2. ~importing.on
    BY DEF StartNewSession, CaptureInv, ScreenInv
<1> QED
    BY <1>1, <1>2, ResetStep DEF StartNewSession

\* Steps that change the screen, but no photo and no count.
LEMMA ScreenStep ==
    ASSUME CaptureInv, ScreenInv', CountInv', screen' \in {"camera", "delete", "edit", "home"},
           selectable' \in -MaxShots .. MaxShots, crashed' \in BOOLEAN,
           cancelled' \in BOOLEAN, hazards \subseteq hazards',
           hazards' \subseteq hazards \cup {"late"},
           UNCHANGED <<counts, frames, disk, background, importing, started,
                       buttons, taken>>
    PROVE  CaptureInv'
<1>1. /\ curIndex' = curIndex /\ totalImages' = totalImages
      /\ frameCounter' = frameCounter /\ frames' = frames /\ disk' = disk
      /\ taking' = taking /\ burst' = burst /\ writes' = writes
      /\ importing' = importing /\ started' = started /\ buttons' = buttons
      /\ taken' = taken
    BY DEF counts, background
<1>2. Known' = Known /\ Held' = Held
    BY <1>1 DEF Known, Held
<1>3. CaptureTypeOK'
    BY <1>1 DEF CaptureInv, CaptureTypeOK, HazardKinds
<1>4. BoundsInv' /\ AtMostMaxFrames' /\ PhotoInv'
    BY <1>1, <1>2 DEF CaptureInv, BoundsInv, InBounds, AtMostMaxFrames, PhotoInv
<1> QED
    BY <1>3, <1>4 DEF CaptureInv

\* The delete screen has a thumbnail for every row unless a shot is still on
\* its way.
LEMMA OpenDeleteStep ==
    ASSUME CaptureInv, OpenDelete
    PROVE  CaptureInv'
<1>1. /\ screen = "camera" /\ ~importing.on /\ screen' = "delete"
      /\ selectable' = totalImages /\ crashed' = (Len(frames) < totalImages)
      /\ hazards' = hazards \cup WhenInFlight /\ cancelled' = cancelled
      /\ curIndex' = curIndex /\ totalImages' = totalImages
      /\ frameCounter' = frameCounter /\ frames' = frames
      /\ taking' = taking /\ burst' = burst /\ importing' = importing
    BY DEF OpenDelete, OnCamera, Meets, counts, background
<1>2. CaptureTypeOK /\ ScreenInv /\ CountInv
    BY DEF CaptureInv
<1>3. "late" \notin hazards' => "late" \notin hazards /\ ~InFlight
    BY <1>1 DEF WhenInFlight
<1>4. "late" \notin hazards' => totalImages = Len(frames)
    BY <1>1, <1>2, <1>3, Numbers DEF CountInv, Held, InFlight
<1>5. crashed' => "late" \in hazards'
    BY <1>1, <1>4, Numbers
<1>6. ScreenInv'
    <2>1. ~crashed' => totalImages <= selectable' /\ totalImages <= Len(frames)
        <3>1. ~crashed' => ~(Len(frames) < totalImages)
            BY <1>1
        <3>2. Len(frames) \in Nat /\ totalImages \in Int /\ selectable' = totalImages
            BY <1>1, Numbers
        <3> QED
            BY <3>1, <3>2
    <2>2. InFlight' = InFlight
        BY <1>1 DEF InFlight
    <2> QED
        BY <1>1, <1>2, <1>3, <1>5, <2>1, <2>2 DEF ScreenInv, NoCrash
<1>7. CountInv'
    BY <1>1, <1>2, <1>3 DEF CountInv, Held, InFlight
<1>8. hazards' \subseteq hazards \cup {"late"}
    BY <1>1 DEF WhenInFlight
<1>9. selectable' \in -MaxShots .. MaxShots /\ crashed' \in BOOLEAN
      /\ cancelled' \in BOOLEAN
    BY <1>1, <1>2 DEF CaptureTypeOK
<1> QED
    BY <1>1, <1>6, <1>7, <1>8, <1>9, ScreenStep DEF OpenDelete

LEMMA CloseDeleteStep ==
    ASSUME CaptureInv, CloseDelete
    PROVE  CaptureInv'
<1>1. ScreenInv' /\ CountInv'
    BY DEF CloseDelete, CaptureInv, ScreenInv, CountInv, NoCrash, Held, InFlight,
           counts, background
<1> QED
    BY <1>1, ScreenStep DEF CloseDelete, CaptureInv, CaptureTypeOK

LEMMA GoHomeStep ==
    ASSUME CaptureInv, GoHome
    PROVE  CaptureInv'
<1>1. /\ ~importing.on /\ screen' = "home" /\ cancelled' = TRUE
      /\ hazards' = hazards \cup WhenInFlight /\ crashed' = crashed
      /\ curIndex' = curIndex /\ totalImages' = totalImages
      /\ frameCounter' = frameCounter /\ frames' = frames
      /\ taking' = taking /\ burst' = burst /\ importing' = importing
    BY DEF GoHome, OnCamera, Meets, counts, background
<1>2. "late" \notin hazards' => "late" \notin hazards /\ ~InFlight
    BY <1>1 DEF WhenInFlight
<1>3. ScreenInv' /\ CountInv'
    BY <1>1, <1>2 DEF CaptureInv, ScreenInv, CountInv, NoCrash, Held, InFlight
<1>4. hazards' \subseteq hazards \cup {"late"}
    BY <1>1 DEF WhenInFlight
<1> QED
    BY <1>1, <1>3, <1>4, ScreenStep DEF GoHome, CaptureInv, CaptureTypeOK

LEMMA AdvanceStep ==
    ASSUME CaptureInv, Advance
    PROVE  CaptureInv'
<1>1. ScreenInv' /\ CountInv'
    BY DEF Advance, OnCamera, CaptureInv, ScreenInv, CountInv, NoCrash, Held,
           InFlight, counts, background
<1> QED
    BY <1>1, ScreenStep DEF Advance, CaptureInv, CaptureTypeOK

\* Every row that can be selected has its frame.
LEMMA SelectionInRange ==
    ASSUME CaptureInv, ~crashed, screen = "delete", NEW selected \in SUBSET Int
    PROVE  ~OutOfRange(selected)
<1>1. /\ totalImages <= selectable /\ totalImages <= Len(frames)
      /\ totalImages \in Int /\ selectable \in Int /\ Len(frames) \in Int
    BY Numbers DEF CaptureInv, ScreenInv
<1> QED
    BY <1>1 DEF OutOfRange

\* A deletion that leaves frames counts those.  Whoever deletes something
\* late takes it for his own, and that is noted.
LEMMA DeleteFramesStep ==
    ASSUME CaptureInv, ~crashed, DeleteFrames
    PROVE  CaptureInv'
<1>1. /\ screen = "delete" /\ screen' = "camera" /\ cancelled' = TRUE
      /\ taking' = taking /\ burst' = burst /\ writes' = writes
      /\ importing' = importing /\ selectable' = selectable /\ taken' = taken
      /\ UNCHANGED <<background, importing, selectable, taken>>
    BY DEF DeleteFrames, background
<1> DEFINE rest(selected) == Remaining({i \in selected : i < totalImages})
<1>2. PICK selected \in SUBSET (0 .. selectable - 1) :
         /\ crashed' = OutOfRange(selected)
         /\ IF rest(selected) = <<>> THEN ResetAll
            ELSE /\ frames' = rest(selected)
                 /\ curIndex' = Len(rest(selected)) - 1
                 /\ totalImages' = Len(rest(selected))
                 /\ frameCounter' = Len(rest(selected))
                 /\ hazards' = (hazards \ {"late"}) \cup WhenPending
                                 \cup After(rest(selected))
                 /\ UNCHANGED <<disk, started, buttons>>
    BY DEF DeleteFrames
<1> DEFINE left == rest(selected)
<1>3. CaptureTypeOK /\ BoundsInv /\ ScreenInv /\ CountInv /\ AtMostMaxFrames /\ PhotoInv
    BY DEF CaptureInv
<1>4. crashed' = FALSE
    <2>1. selected \in SUBSET Int
        BY Numbers
    <2>2. ~OutOfRange(selected)
        BY <1>1, <2>1, SelectionInRange
    <2>3. OutOfRange(selected) \in BOOLEAN
        BY DEF OutOfRange
    <2> QED
        BY <1>2, <2>2, <2>3
<1>5. ~importing.on
    BY <1>1, <1>3 DEF ScreenInv
<1>6. CASE left = <<>>
    BY <1>1, <1>2, <1>4, <1>5, <1>6, ResetStep
<1>7. CASE left # <<>>
    <2>1. /\ frames' = left /\ curIndex' = Len(left) - 1
          /\ totalImages' = Len(left) /\ frameCounter' = Len(left)
          /\ hazards' = (hazards \ {"late"}) \cup WhenPending \cup After(left)
          /\ disk' = disk /\ started' = started /\ buttons' = buttons
        BY <1>2, <1>7
    <2>2. /\ left \in Seq(Shot) /\ Len(left) <= Len(frames)
          /\ ToSet(left) \subseteq ToSet(frames)
        BY KnownShots, RemainingFrames
    <2> HIDE DEF left
    <2>3. /\ Len(left) \in Nat /\ Len(left) > 0
        BY <1>7, <2>2
    <2>4. /\ Len(frames) \in Nat /\ Len(burst) \in Nat
          /\ Cardinality(taking) \in Nat /\ taken \in Nat /\ taken <= MaxShots
        BY Numbers
    <2>5. Known' \subseteq Known
        BY <1>1, <2>1, <2>2 DEF Known
    <2>6. /\ Held' = Len(left) + Cardinality(taking) + Len(burst)
          /\ Held' <= Held /\ Held <= taken
        BY <1>1, <1>3, <2>1, <2>2, <2>3, <2>4 DEF Held, BoundsInv
    <2>7. "late" \notin hazards'
             => /\ taking = {} /\ burst = <<>> /\ writes = {}
                /\ Cardinality(taking) = 0 /\ Len(burst) = 0 /\ ~InFlight'
        <3>1. "late" \notin hazards' => ~Pending
            BY <2>1 DEF WhenPending
        <3> QED
            BY <1>1, <3>1, Numbers DEF Pending, InFlight
    <2>8. "stray" \notin hazards' => "late" \notin hazards /\ "stray" \notin hazards
        BY <2>1 DEF After
    <2>9. CaptureTypeOK'
        <3>1. /\ Len(left) - 1 \in -1 - MaxShots .. MaxShots
              /\ Len(left) \in -MaxShots .. MaxShots /\ Len(left) <= MaxShots
            BY <2>2, <2>3, <2>4, <2>6 DEF Held
        <3>2. hazards' \in SUBSET HazardKinds
            BY <1>3, <2>1 DEF CaptureTypeOK, HazardKinds, WhenPending, After
        <3> QED
            BY <1>1, <1>3, <1>4, <2>1, <2>2, <3>1, <3>2 DEF CaptureTypeOK
    <2>10. BoundsInv'
        <3>1. Held' <= taken'
            BY <1>1, <2>2, <2>3, <2>4, <2>6 DEF Held
        <3>2. Cardinality(taking) <= taken /\ Len(left) <= taken
            BY <2>2, <2>3, <2>4, <2>6 DEF Held
        <3>3. InBounds(curIndex + 1)' /\ InBounds(totalImages)' /\ InBounds(frameCounter)'
            BY <1>1, <2>1, <2>3, <2>4, <3>2 DEF InBounds
        <3>4. (taking \cap (ToSet(burst) \cup ToSet(frames)))' = {}
            BY <1>1, <1>3, <2>1, <2>2 DEF BoundsInv
        <3> QED
            BY <1>1, <1>3, <2>5, <3>1, <3>3, <3>4 DEF BoundsInv
    <2>11. ScreenInv'
        BY <1>1, <1>3, <1>4 DEF ScreenInv, NoCrash
    <2>12. CountInv'
        BY <2>1, <2>3, <2>6, <2>7 DEF CountInv
    <2>13. AtMostMaxFrames'
        <3> SUFFICES ASSUME hazards' \cap {"late", "stray"} = {}
                     PROVE  (Len(frames) + Cardinality(taking) + Len(burst)
                                + importing.left)' <= MaxFrames
            BY DEF AtMostMaxFrames
        <3>1. hazards \cap {"late", "stray"} = {}
            BY <2>8
        <3>2. importing.left = 0 /\ importing'.left = 0
            BY <1>1, <1>3, <1>5 DEF ScreenInv
        <3>3. Held <= MaxFrames
            BY <1>3, <2>4, <3>1, <3>2 DEF AtMostMaxFrames, Held
        <3>4. Held' <= MaxFrames
            BY <2>3, <2>4, <2>6, <3>3 DEF Held
        <3> QED
            BY <2>1, <2>3, <2>4, <3>2, <3>4, <1>1 DEF Held
    <2>14. PhotoInv'
        <3> SUFFICES ASSUME hazards' = {}
                     PROVE  PhotoInv'
            BY DEF PhotoInv
        <3>1. hazards = {} /\ taking = {} /\ burst = <<>> /\ writes = {}
            BY <2>1, <2>7, <2>8
        <3>2. Known' = ToSet(left) /\ Known = ToSet(frames) /\ ToSet(burst') = {}
            BY <1>1, <2>1, <3>1, EmptyElements DEF Known
        <3>3. \A a \in ToSet(left) : a.index \in Int
            BY <2>2, KnownShots DEF Shot, Indexes
        <3>4. \A a \in ToSet(left) : ~(a.index >= Len(left))
            BY <2>1 DEF After
        <3>5. \A a \in Known' : a.index <= curIndex'
            BY <2>1, <2>3, <3>2, <3>3, <3>4
        <3> QED
            BY <1>1, <1>3, <2>1, <2>2, <3>1, <3>2, <3>5 DEF PhotoInv
    <2> QED
        BY <2>9, <2>10, <2>11, <2>12, <2>13, <2>14 DEF CaptureInv
<1> QED
    BY <1>6, <1>7

-----------------------------------------------------------------------------
(* The theorems                                                            *)

LEMMA InvStep == CaptureInv /\ [CaptureNext]_captureVars => CaptureInv'
<1> SUFFICES ASSUME CaptureInv, [CaptureNext]_captureVars
             PROVE  CaptureInv'
    OBVIOUS
<1>1. CASE UNCHANGED captureVars
    BY <1>1, StutterStep
<1>2. CASE CaptureNext /\ User
    BY <1>2, CapturePhotoStep, StartImportStep, DeleteAllFramesStep,
       OpenDeleteStep, CloseDeleteStep, DeleteFramesStep, GoHomeStep,
       AdvanceStep, StartNewSessionStep DEF CaptureNext, User
<1>3. CASE CaptureNext /\ Queues
    BY <1>3, ShotArrivesStep, ShotFailsStep, CropAndSaveStep, WriteCroppedStep,
       ImportPhotoStep, ImportDoneStep DEF CaptureNext, Queues
<1> QED
    BY <1>1, <1>2, <1>3 DEF CaptureNext

LEMMA InvAlways == CaptureSpec => []CaptureInv
    BY InitInv, InvStep, PTL DEF CaptureSpec

\* The counts, the frames and the queues keep their types, and their ranges:
\* no order of failures, deletions and late shots drives a count further
\* down than shots were taken.
THEOREM TypeCorrect == CaptureSpec => []CaptureTypeOK
<1>1. CaptureInv => CaptureTypeOK
    BY DEF CaptureInv
<1> QED
    BY <1>1, InvAlways, PTL

\* The counts of the service and of the screen agree with the frames and the
\* shots on their way, the limit on frames holds and the delete screen stays
\* within its arrays, unless a shot came late.
THEOREM CountsTheorem == CaptureSpec => []CountsAgree
<1>1. CaptureInv => CountsAgree
    <2> SUFFICES ASSUME CaptureInv
                 PROVE  CountsAgree
        OBVIOUS
    <2>1. AtMostMaxFrames /\ NoCrash /\ CountInv
        BY DEF CaptureInv, ScreenInv
    <2> QED
        BY <2>1, Numbers DEF CountsAgree, CountInv, Held
<1> QED
    BY <1>1, InvAlways, PTL

\* The file of each frame holds the photo that the frame was added for, as
\* long as nothing unusual was met.
THEOREM FramesTheorem == CaptureSpec => []FramesKeepTheirPhoto
<1>1. CaptureInv => FramesKeepTheirPhoto
    BY DEF CaptureInv, PhotoInv, FramesKeepTheirPhoto
<1> QED
    BY <1>1, InvAlways, PTL

\* A shot leaves the serial queue for the frames.
LEMMA BurstStep ==
    ASSUME CaptureInv, [CaptureNext]_captureVars, NEW s \in ToSet(burst)
    PROVE  s \in ToSet(burst') \cup ToSet(frames') \/ "late" \in hazards'
<1>1. burst # <<>>
    BY EmptyElements
<1>2. InFlight
    BY <1>1 DEF InFlight
<1>3. CASE CropAndSave
    <2>1. ToSet(burst) = {Head(burst)} \cup ToSet(Tail(burst)) /\ Head(burst) \in Shot
        BY <1>1, KnownShots, TailElements
    <2>2. burst' = Tail(burst) /\ hazards' = hazards
        BY <1>3 DEF CropAndSave
    <2>3. CASE cancelled
        BY <1>2, <2>2, <2>3 DEF CaptureInv, CountInv
    <2>4. CASE ~cancelled
        <3>1. frames' = Append(frames, Head(burst))
            BY <1>3, <2>4 DEF CropAndSave
        <3>2. Head(burst) \in ToSet(frames')
            BY <2>1, <3>1, KnownShots, AppendElements
        <3> QED
            BY <2>1, <2>2, <3>2
    <2> QED
        BY <2>3, <2>4
<1>4. CASE \E a \in taking : ShotArrives(a)
    <2>1. PICK a \in taking : ShotArrives(a)
        BY <1>4
    <2>2. ToSet(burst') = ToSet(burst) \cup {a}
        BY <2>1, KnownShots, AppendElements DEF ShotArrives
    <2> QED
        BY <2>2
<1>5. CASE burst' = burst
    BY <1>5
<1>6. \/ CropAndSave \/ burst' = burst
      \/ \E a \in taking : ShotArrives(a)
    BY DEF CaptureNext, User, Queues, CapturePhoto, StartImport, DeleteAllFrames,
           OpenDelete, CloseDelete, DeleteFrames, GoHome, Advance,
           StartNewSession, ShotFails, WriteCropped, ImportPhoto, ImportDone,
           background, captureVars
<1> QED
    BY <1>3, <1>4, <1>5, <1>6

\* No photo that the camera has taken is dropped before it is a frame, unless
\* it came late.
THEOREM NoShotTheorem == CaptureSpec => NoShotDropped
<1>1. CaptureInv /\ [CaptureNext]_captureVars
         => [\A s \in ToSet(burst) :
                s \in ToSet(burst') \cup ToSet(frames') \/ "late" \in hazards']_captureVars
    BY BurstStep
<1> QED
    BY <1>1, InvAlways, PTL DEF CaptureSpec, NoShotDropped

USE NoIdAssumption, MaxAttemptsAssumption
-----------------------------------------------------------------------------
(* Sharing                                                                 *)

USE NoIdAssumption, MaxAttemptsAssumption

\* Where the app holds an id.
HoldsInv ==
    /\ (twyst = NoId) <=> (step \in {"idle", "create", "left"})
    /\ answer # NoId => step \in {"create", "share"}
    /\ answer # NoId /\ step = "share" => answer = twyst

\* What has been uploaded by when.
UploadInv ==
    /\ step \in {"archive", "share", "save", "done"} => twyst \in thumbs
    /\ step \in {"share", "save", "done"} => twyst \in archives
    /\ \A r \in requests : r.kind = "share" => r.id \in thumbs \cap archives
    /\ SharedIsUploaded

\* Nobody knows of an id that the server has not given out.
FreshInv ==
    \A i \in Ids : server[i] = "free" =>
        /\ i \notin {twyst, answer} \cup saved
        /\ \A r \in requests : r.id # i

\* What the app holds or has saved is not to be deleted, and it is shared
\* once the app believes so.
OwnInv ==
    /\ \A i \in Ids \cap ({twyst, answer} \cup saved) :
          DeleteRequest(i) \notin requests
    /\ step \in {"save", "done"} => server[twyst] = "shared"
    /\ step = "share" /\ answer # NoId => server[twyst] = "shared"
    /\ \A i \in saved : server[i] = "shared"
    /\ twyst \in saved => step = "done"
    /\ answer \notin saved

\* Where a twyst that was only created is accounted for.
AccountedInv ==
    \A i \in Ids : server[i] = "created" =>
        \/ i \in {twyst, answer} \cup unheard \cup undeleted \cup abandoned
        \/ DeleteRequest(i) \in requests

\* The server answers an attempt once.
AttemptInv ==
    /\ \A r \in requests : r.kind = "create" => r.attempt <= attempts
    /\ step = "create" /\ answer # NoId =>
          \A r \in requests : r.kind = "create" => r.attempt # attempts

\* Where a twyst that is shared, or may still be, is accounted for.
OnceInv ==
    \A i \in Ids : server[i] = "shared" \/ ShareRequest(i) \in requests =>
        \/ i \in {twyst} \cup undeleted \cup abandoned
        \/ DeleteRequest(i) \in requests
        \/ server[i] = "deleted"

ShareInv ==
    /\ TypeOK /\ HoldsInv /\ UploadInv /\ FreshInv /\ OwnInv
    /\ AccountedInv /\ AttemptInv /\ OnceInv

-----------------------------------------------------------------------------
(* Type correctness                                                        *)

\* Requests are well typed, and the attempts stay within their bound.
LEMMA FailedType ==
    ASSUME TypeOK, Failed
    PROVE  /\ requests' \in SUBSET Request
           /\ twyst' = NoId /\ answer' = NoId /\ step' = "idle"
    BY DEF TypeOK, Failed, DeleteRequest, Request

\* The steps at which the app uploads or saves are steps with an id.
LEMMA HoldsStep == TypeOK /\ HoldsInv /\ [Next]_vars => HoldsInv'
<1> SUFFICES ASSUME TypeOK, HoldsInv, [Next]_vars
             PROVE  HoldsInv'
    OBVIOUS
<1>1. CASE UNCHANGED vars
    BY <1>1 DEF HoldsInv, vars, appVars
<1>2. ASSUME NEW r \in requests, NEW i \in Ids, ServerCreates(r, i)
      PROVE  HoldsInv'
    BY <1>2 DEF HoldsInv, ServerCreates, Awaits, appVars
<1>3. ASSUME NEW r \in requests,
             ServerShares(r) \/ ServerDeletes(r) \/ RequestLost(r)
      PROVE  HoldsInv'
    BY <1>3 DEF HoldsInv, ServerShares, ServerDeletes, RequestLost, Awaits,
       serverVars, appVars
<1>4. CASE HandleBtnSend \/ CreateAnswered \/ ShareAnswered
    BY <1>4 DEF TypeOK, HoldsInv, HandleBtnSend, CreateAnswered, ShareAnswered
<1>5. CASE CreateFails \/ ZipFiles \/ UploadThumb \/ UploadTwyst \/ ShareFails
    BY <1>5, FailedType DEF HoldsInv, CreateFails, ZipFiles, UploadThumb,
       UploadTwyst, ShareFails, Goes
<1>6. CASE SaveTwyst \/ Leave
    BY <1>6 DEF HoldsInv, SaveTwyst, Leave, Goes
<1> QED
    BY <1>1, <1>2, <1>3, <1>4, <1>5, <1>6 DEF Next, Server, Sending

\* Every step keeps the types; a handler that uploads or shares holds an id.
LEMMA TypeStep == TypeOK /\ HoldsInv /\ [Next]_vars => TypeOK'
<1> SUFFICES ASSUME TypeOK, HoldsInv, [Next]_vars
             PROVE  TypeOK'
    OBVIOUS
<1>1. CASE UNCHANGED vars
    BY <1>1 DEF TypeOK, vars, serverVars, appVars, history
<1>2. ASSUME NEW r \in requests, NEW i \in Ids, ServerCreates(r, i)
      PROVE  TypeOK'
    BY <1>2 DEF TypeOK, ServerCreates, appVars
<1>3. ASSUME NEW r \in requests, ServerShares(r)
      PROVE  TypeOK'
    BY <1>3 DEF TypeOK, Request, ServerShares, appVars, history
<1>4. ASSUME NEW r \in requests, ServerDeletes(r) \/ RequestLost(r)
      PROVE  TypeOK'
    BY <1>4 DEF TypeOK, Request, ServerDeletes, RequestLost, serverVars,
       appVars, history
<1>5. CASE HandleBtnSend
    <2>1. attempts + 1 \in 1..MaxAttempts
        BY <1>5 DEF TypeOK, HandleBtnSend
    <2>2. CreateRequest(attempts + 1) \in Request
        BY <2>1 DEF CreateRequest, Request
    <2> QED
        BY <1>5, <2>1, <2>2 DEF TypeOK, HandleBtnSend, serverVars, history
<1>6. CASE CreateAnswered \/ ShareAnswered
    BY <1>6 DEF TypeOK, CreateAnswered, ShareAnswered, serverVars, history
<1>7. CASE SaveTwyst \/ Leave
    BY <1>7 DEF TypeOK, HoldsInv, SaveTwyst, Leave, Goes, serverVars, history
<1>8. CASE CreateFails \/ ZipFiles \/ ShareFails
    BY <1>8, FailedType DEF TypeOK, CreateFails, ZipFiles, ShareFails, Goes,
       serverVars, history
<1>9. CASE UploadThumb
    BY <1>9, FailedType DEF TypeOK, HoldsInv, UploadThumb, Goes, history
<1>10. CASE UploadTwyst
    <2>1. twyst \in Ids /\ ShareRequest(twyst) \in Request
        BY <1>10 DEF TypeOK, HoldsInv, UploadTwyst, ShareRequest, Request
    <2> QED
        BY <1>10, <2>1, FailedType DEF TypeOK, UploadTwyst, history
<1> QED
    BY <1>1, <1>2, <1>3, <1>4, <1>5, <1>6, <1>7, <1>8, <1>9, <1>10
    DEF Next, Server, Sending

-----------------------------------------------------------------------------
(* What has been uploaded, and which ids are in use                        *)

\* A failure forgets the twyst, and at most adds the request to delete it.
LEMMA FailedRequests ==
    ASSUME TypeOK, Failed
    PROVE  /\ requests \subseteq requests'
           /\ \A r \in requests' : r \in requests \/ r = DeleteRequest(twyst)
           /\ twyst # NoId => DeleteRequest(twyst) \in requests'
           /\ twyst = NoId => requests' = requests
    BY DEF Failed

\* Every step keeps the order of uploads, share request and sharing.
LEMMA UploadStep == TypeOK /\ HoldsInv /\ UploadInv /\ [Next]_vars => UploadInv'
<1> SUFFICES ASSUME TypeOK, HoldsInv, UploadInv, [Next]_vars
             PROVE  UploadInv'
    OBVIOUS
<1> USE DEF UploadInv, SharedIsUploaded
<1>1. CASE UNCHANGED vars
    BY <1>1 DEF vars, serverVars, appVars
<1>2. ASSUME NEW r \in requests, NEW i \in Ids, ServerCreates(r, i)
      PROVE  UploadInv'
    BY <1>2 DEF TypeOK, ServerCreates, appVars
<1>3. ASSUME NEW r \in requests, ServerShares(r)
      PROVE  UploadInv'
    BY <1>3 DEF TypeOK, ServerShares, appVars
<1>4. ASSUME NEW r \in requests, ServerDeletes(r)
      PROVE  UploadInv'
    BY <1>4 DEF TypeOK, ServerDeletes, appVars
<1>5. ASSUME NEW r \in requests, RequestLost(r)
      PROVE  UploadInv'
    BY <1>5 DEF TypeOK, RequestLost, appVars, serverVars
<1>6. CASE HandleBtnSend \/ CreateAnswered \/ ShareAnswered
    BY <1>6 DEF TypeOK, HandleBtnSend, CreateAnswered, ShareAnswered,
       CreateRequest, serverVars
<1>7. CASE SaveTwyst \/ Leave
    BY <1>7 DEF SaveTwyst, Leave, Goes, serverVars
<1>8. CASE CreateFails \/ ZipFiles \/ ShareFails
    BY <1>8, FailedType, FailedRequests DEF CreateFails, ZipFiles, ShareFails,
       Goes, serverVars, DeleteRequest
<1>9. CASE UploadThumb
    BY <1>9, FailedType, FailedRequests DEF UploadThumb, Goes, DeleteRequest
<1>10. CASE UploadTwyst
    BY <1>10, FailedType, FailedRequests DEF UploadTwyst, ShareRequest,
       DeleteRequest
<1> QED
    BY <1>1, <1>2, <1>3, <1>4, <1>5, <1>6, <1>7, <1>8, <1>9, <1>10
    DEF Next, Server, Sending

\* Every step gives out at most ids that nobody knew of.
LEMMA FreshStep == TypeOK /\ HoldsInv /\ FreshInv /\ [Next]_vars => FreshInv'
<1> SUFFICES ASSUME TypeOK, HoldsInv, FreshInv, [Next]_vars
             PROVE  FreshInv'
    OBVIOUS
<1> USE DEF FreshInv
<1>1. CASE UNCHANGED vars
    BY <1>1 DEF vars, serverVars, appVars
<1>2. ASSUME NEW r \in requests, NEW i \in Ids, ServerCreates(r, i)
      PROVE  FreshInv'
    BY <1>2 DEF TypeOK, ServerCreates, appVars
<1>3. ASSUME NEW r \in requests, ServerShares(r)
      PROVE  FreshInv'
    BY <1>3 DEF TypeOK, ServerShares, appVars
<1>4. ASSUME NEW r \in requests, ServerDeletes(r) \/ RequestLost(r)
      PROVE  FreshInv'
    BY <1>4 DEF TypeOK, ServerDeletes, RequestLost, appVars, serverVars
<1>5. CASE HandleBtnSend
    BY <1>5 DEF HandleBtnSend, CreateRequest, serverVars
<1>6. CASE CreateAnswered \/ ShareAnswered \/ SaveTwyst \/ Leave
    BY <1>6 DEF TypeOK, CreateAnswered, ShareAnswered, SaveTwyst, Leave, Goes,
       serverVars
<1>7. CASE CreateFails \/ ZipFiles \/ UploadThumb \/ ShareFails
    BY <1>7, FailedType, FailedRequests DEF CreateFails, ZipFiles, UploadThumb,
       ShareFails, Goes, serverVars, DeleteRequest
<1>8. CASE UploadTwyst
    BY <1>8, FailedType, FailedRequests DEF UploadTwyst, ShareRequest,
       DeleteRequest
<1> QED
    BY <1>1, <1>2, <1>3, <1>4, <1>5, <1>6, <1>7, <1>8
    DEF Next, Server, Sending

\* Every step leaves at most one request of the attempt under way.
LEMMA AttemptStep ==
    TypeOK /\ HoldsInv /\ AttemptInv /\ [Next]_vars => AttemptInv'
<1> SUFFICES ASSUME TypeOK, HoldsInv, AttemptInv, [Next]_vars
             PROVE  AttemptInv'
    OBVIOUS
<1> USE DEF AttemptInv
<1>1. CASE UNCHANGED vars
    BY <1>1 DEF vars, serverVars, appVars
<1>2. ASSUME NEW r \in requests, NEW i \in Ids, ServerCreates(r, i)
      PROVE  AttemptInv'
    <2>1. ASSUME NEW q \in requests', q.kind = "create", Awaits(r)
          PROVE  q.attempt # attempts
        <3>1. q \in requests /\ q # r /\ q \in Request /\ r \in Request
            BY <1>2, <2>1 DEF TypeOK, ServerCreates
        <3>2. r.kind = "create" /\ r.attempt = attempts
            BY <1>2, <2>1 DEF ServerCreates, Awaits
        <3> QED
            BY <2>1, <3>1, <3>2 DEF Request
    <2> QED
        BY <1>2, <2>1 DEF ServerCreates, appVars
<1>3. ASSUME NEW r \in requests,
             ServerShares(r) \/ ServerDeletes(r) \/ RequestLost(r)
      PROVE  AttemptInv'
    BY <1>3 DEF ServerShares, ServerDeletes, RequestLost, Awaits, appVars
<1>4. CASE HandleBtnSend
    BY <1>4 DEF TypeOK, HoldsInv, Request, HandleBtnSend, CreateRequest
<1>5. CASE CreateAnswered \/ ShareAnswered \/ SaveTwyst \/ Leave
    BY <1>5 DEF CreateAnswered, ShareAnswered, SaveTwyst, Leave, Goes
<1>6. CASE CreateFails \/ ZipFiles \/ UploadThumb \/ ShareFails
    BY <1>6, FailedType, FailedRequests DEF CreateFails, ZipFiles, UploadThumb,
       ShareFails, Goes, DeleteRequest
<1>7. CASE UploadTwyst
    BY <1>7, FailedType, FailedRequests DEF UploadTwyst, ShareRequest,
       DeleteRequest
<1> QED
    BY <1>1, <1>2, <1>3, <1>4, <1>5, <1>6, <1>7 DEF Next, Server, Sending

-----------------------------------------------------------------------------
(* What is shared, and what is to be deleted                               *)

\* A delete request is determined by its id.
LEMMA DeleteIsUnique ==
    ASSUME TypeOK, NEW r \in requests, r.kind = "delete"
    PROVE  r.id \in Ids /\ r = DeleteRequest(r.id)
    BY DEF TypeOK, Request, DeleteRequest

\* A share request is determined by its id, too.
LEMMA ShareIsUnique ==
    ASSUME TypeOK, NEW r \in requests, r.kind = "share"
    PROVE  r.id \in Ids /\ r = ShareRequest(r.id)
    BY DEF TypeOK, Request, ShareRequest

\* No step deletes what the app holds or has saved.
LEMMA OwnStep ==
    TypeOK /\ HoldsInv /\ FreshInv /\ OwnInv /\ [Next]_vars => OwnInv'
<1> SUFFICES ASSUME TypeOK, HoldsInv, FreshInv, OwnInv, [Next]_vars
             PROVE  OwnInv'
    OBVIOUS
<1>1. CASE UNCHANGED vars
    BY <1>1 DEF OwnInv, vars, serverVars, appVars
<1>2. ASSUME NEW r \in requests, NEW i \in Ids, ServerCreates(r, i)
      PROVE  OwnInv'
    <2>1. i \notin {twyst, answer} \cup saved /\ DeleteRequest(i) \notin requests
        BY <1>2 DEF FreshInv, ServerCreates, DeleteRequest
    <2> QED
        BY <1>2, <2>1 DEF TypeOK, OwnInv, HoldsInv, ServerCreates, Awaits,
           appVars
<1>3. ASSUME NEW r \in requests, ServerShares(r)
      PROVE  OwnInv'
    BY <1>3 DEF TypeOK, OwnInv, HoldsInv, ServerShares, Awaits, appVars
<1>4. ASSUME NEW r \in requests, ServerDeletes(r)
      PROVE  OwnInv'
    <2>1. r.id \notin {twyst, answer} \cup saved
        BY <1>4, DeleteIsUnique DEF OwnInv, ServerDeletes
    <2> QED
        BY <1>4, <2>1 DEF TypeOK, OwnInv, ServerDeletes, appVars
<1>5. ASSUME NEW r \in requests, RequestLost(r)
      PROVE  OwnInv'
    BY <1>5 DEF OwnInv, RequestLost, serverVars, appVars
<1>6. CASE HandleBtnSend
    BY <1>6 DEF OwnInv, HoldsInv, HandleBtnSend, CreateRequest, DeleteRequest,
       serverVars
<1>7. CASE CreateAnswered \/ ShareAnswered
    BY <1>7 DEF TypeOK, OwnInv, HoldsInv, CreateAnswered, ShareAnswered,
       serverVars
<1>8. CASE SaveTwyst \/ Leave
    BY <1>8 DEF TypeOK, OwnInv, HoldsInv, SaveTwyst, Leave, Goes, serverVars
<1>9. ASSUME Failed, step \notin {"done", "left"},
             UNCHANGED <<server, saved>>
      PROVE  OwnInv'
    <2>1. twyst \notin saved /\ NoId \notin saved
        BY <1>9 DEF OwnInv, TypeOK
    <2>2. \A i \in Ids \cap saved : DeleteRequest(i) \notin requests'
        BY <2>1, <1>9, FailedRequests DEF OwnInv, DeleteRequest
    <2> QED
        BY <1>9, <2>1, <2>2, FailedType DEF OwnInv
<1>10. CASE CreateFails \/ ShareFails
    BY <1>9, <1>10 DEF CreateFails, ShareFails, serverVars
<1>11. CASE ZipFiles \/ UploadThumb
    <2>1. ASSUME Goes(IF step = "zip" THEN "thumb" ELSE "archive"),
                 step \in {"zip", "thumb"}, UNCHANGED <<server, saved>>
          PROVE  OwnInv'
        BY <2>1 DEF OwnInv, Goes
    <2> QED
        BY <1>9, <1>11, <2>1 DEF ZipFiles, UploadThumb, serverVars
<1>12. CASE UploadTwyst
    <2>1. CASE Failed
        BY <1>9, <1>12, <2>1 DEF UploadTwyst
    <2>2. CASE requests' = requests \cup {ShareRequest(twyst)} /\ step' = "share"
               /\ UNCHANGED <<twyst, answer>>
        BY <1>12, <2>2 DEF OwnInv, HoldsInv, UploadTwyst, ShareRequest,
           DeleteRequest
    <2> QED
        BY <1>12, <2>1, <2>2 DEF UploadTwyst
<1> QED
    BY <1>1, <1>2, <1>3, <1>4, <1>5, <1>6, <1>7, <1>8, <1>10, <1>11, <1>12
    DEF Next, Server, Sending

-----------------------------------------------------------------------------
(* Where every twyst is accounted for                                      *)

\* What a failure leaves behind: the twyst is to be deleted.
LEMMA FailedAccounts ==
    ASSUME TypeOK, AccountedInv, OnceInv, Failed,
           UNCHANGED <<server, undeleted, abandoned>>,
           unheard' = unheard \cup ({answer} \ {NoId, twyst})
    PROVE  AccountedInv' /\ OnceInv'
<1>1. \A i \in Ids : DeleteRequest(i) \in requests => DeleteRequest(i) \in requests'
    BY FailedRequests
<1>2. \A i \in Ids : i = twyst => DeleteRequest(i) \in requests'
    BY FailedRequests DEF TypeOK
<1>3. \A i \in Ids : i = answer /\ i # twyst => i \in unheard'
    BY DEF TypeOK
<1>4. \A i \in Ids : ShareRequest(i) \in requests' => ShareRequest(i) \in requests
    BY FailedRequests DEF ShareRequest, DeleteRequest
<1>5. AccountedInv'
    BY <1>1, <1>2, <1>3 DEF AccountedInv
<1>6. OnceInv'
    BY <1>1, <1>2, <1>4 DEF OnceInv
<1> QED
    BY <1>5, <1>6

\* Every step that loses an id puts it among the exceptions or asks for its
\* deletion.
LEMMA AccountedStep ==
    ShareInv /\ [Next]_vars => AccountedInv' /\ OnceInv'
<1> SUFFICES ASSUME ShareInv, [Next]_vars
             PROVE  AccountedInv' /\ OnceInv'
    OBVIOUS
<1> USE DEF ShareInv
<1>1. CASE UNCHANGED vars
    BY <1>1 DEF AccountedInv, OnceInv, vars, serverVars, appVars, history
<1>2. ASSUME NEW r \in requests, NEW i \in Ids, ServerCreates(r, i)
      PROVE  AccountedInv' /\ OnceInv'
    <2>1. Awaits(r) => answer = NoId
        BY <1>2 DEF ServerCreates, Awaits, AttemptInv
    <2>2. \A k \in Ids : DeleteRequest(k) # r /\ ShareRequest(k) # r
        BY <1>2 DEF ServerCreates, DeleteRequest, ShareRequest
    <2>3. i \in {answer'} \cup unheard' /\ unheard \subseteq unheard'
        BY <1>2 DEF ServerCreates
    <2>4. ShareRequest(i) \notin requests
        BY <1>2 DEF ServerCreates, FreshInv, ShareRequest
    <2>5. AccountedInv'
        BY <1>2, <2>1, <2>2, <2>3 DEF TypeOK, AccountedInv, ServerCreates,
           appVars
    <2>6. OnceInv'
        BY <1>2, <2>2, <2>4 DEF TypeOK, OnceInv, ServerCreates, appVars
    <2> QED
        BY <2>5, <2>6
<1>3. ASSUME NEW r \in requests, ServerShares(r)
      PROVE  AccountedInv' /\ OnceInv'
    <2>1. r.id \in Ids /\ r = ShareRequest(r.id)
        BY <1>3, ShareIsUnique DEF ServerShares
    <2>2. \A k \in Ids : DeleteRequest(k) # r
        BY <1>3 DEF ServerShares, DeleteRequest
    <2>3. answer \in {NoId, answer', twyst}
        BY <1>3 DEF HoldsInv, ServerShares, Awaits
    <2>4. AccountedInv'
        BY <1>3, <2>1, <2>2, <2>3 DEF TypeOK, AccountedInv, ServerShares,
           appVars, history
    <2>5. OnceInv'
        BY <1>3, <2>1, <2>2 DEF TypeOK, OnceInv, ServerShares, appVars,
           history
    <2> QED
        BY <2>4, <2>5
<1>4. ASSUME NEW r \in requests, ServerDeletes(r)
      PROVE  AccountedInv' /\ OnceInv'
    <2>1. \A k \in Ids \ {r.id} : DeleteRequest(k) # r
        BY DEF DeleteRequest
    <2> QED
        BY <1>4, <2>1 DEF TypeOK, AccountedInv, OnceInv, ServerDeletes,
           appVars, history
<1>5. ASSUME NEW r \in requests, RequestLost(r)
      PROVE  AccountedInv' /\ OnceInv'
    <2>1. \A k \in Ids : DeleteRequest(k) = r => k \in undeleted'
        BY <1>5 DEF RequestLost, DeleteRequest
    <2>2. undeleted \subseteq undeleted'
        BY <1>5 DEF RequestLost
    <2> QED
        BY <1>5, <2>1, <2>2 DEF AccountedInv, OnceInv, RequestLost,
           serverVars, appVars
<1>6. CASE HandleBtnSend
    BY <1>6 DEF AccountedInv, OnceInv, HandleBtnSend, CreateRequest,
       ShareRequest, DeleteRequest, serverVars, history
<1>7. CASE CreateAnswered
    BY <1>7 DEF TypeOK, HoldsInv, AccountedInv, OnceInv, CreateAnswered,
       serverVars, history
<1>8. CASE ShareAnswered
    BY <1>8 DEF AccountedInv, OnceInv, ShareAnswered, serverVars, history
<1>9. CASE SaveTwyst
    BY <1>9 DEF AccountedInv, OnceInv, SaveTwyst, Goes, serverVars, history
<1>10. CASE Leave
    BY <1>10 DEF TypeOK, AccountedInv, OnceInv, Leave, serverVars
<1>11. CASE CreateFails
    <2>1. unheard' = unheard \cup ({answer} \ {NoId, twyst})
        BY <1>11 DEF HoldsInv, CreateFails
    <2> QED
        BY <1>11, <2>1, FailedAccounts DEF CreateFails, serverVars
<1>12. ASSUME Failed, step \in {"zip", "thumb", "archive", "share"},
              UNCHANGED <<server, unheard, undeleted, abandoned>>
       PROVE  AccountedInv' /\ OnceInv'
    <2>1. unheard' = unheard \cup ({answer} \ {NoId, twyst})
        BY <1>12 DEF HoldsInv
    <2> QED
        BY <1>12, <2>1, FailedAccounts
<1>13. CASE ZipFiles \/ UploadThumb
    <2>1. ASSUME UNCHANGED <<server, twyst, answer, requests, history>>
          PROVE  AccountedInv' /\ OnceInv'
        BY <2>1 DEF AccountedInv, OnceInv, history
    <2> QED
        BY <1>12, <1>13, <2>1 DEF ZipFiles, UploadThumb, Goes, serverVars,
           history
<1>14. CASE UploadTwyst
    <2>1. ASSUME requests' = requests \cup {ShareRequest(twyst)},
                 UNCHANGED <<server, twyst, answer, history>>
          PROVE  AccountedInv' /\ OnceInv'
        <3>1. \A k \in Ids : ShareRequest(k) = ShareRequest(twyst) => k = twyst
            BY DEF ShareRequest
        <3>2. \A k \in Ids : DeleteRequest(k) # ShareRequest(twyst)
            BY DEF DeleteRequest, ShareRequest
        <3> QED
            BY <2>1, <3>1, <3>2 DEF AccountedInv, OnceInv, history
    <2> QED
        BY <1>12, <1>14, <2>1 DEF UploadTwyst, history
<1>15. CASE ShareFails
    BY <1>12, <1>15 DEF ShareFails, serverVars, history
<1> QED
    BY <1>1, <1>2, <1>3, <1>4, <1>5, <1>6, <1>7, <1>8, <1>9, <1>10, <1>11,
       <1>13, <1>14, <1>15 DEF Next, Server, Sending

-----------------------------------------------------------------------------
(* The theorems                                                            *)

\* The conjuncts together are an invariant of the protocol.
LEMMA ShareInvariant == Spec => []ShareInv
<1>1. Init => ShareInv
    BY DEF Init, ShareInv, TypeOK, HoldsInv, UploadInv, SharedIsUploaded,
       FreshInv, OwnInv, AccountedInv, AttemptInv, OnceInv
<1>2. ShareInv /\ [Next]_vars => ShareInv'
    BY TypeStep, HoldsStep, UploadStep, FreshStep, OwnStep, AttemptStep,
       AccountedStep DEF ShareInv
<1> QED
    BY <1>1, <1>2, PTL DEF Spec

\* The share screen never sends a request without a twyst: a failure before
\* the server has answered deletes nothing.
THEOREM ShareTypeCorrect == Spec => []TypeOK
    BY ShareInvariant, PTL DEF ShareInv

\* No friend is told of a twyst whose thumbnail or archive is missing, for
\* the share request leaves only once both uploads have succeeded.
THEOREM SharedAfterUpload == Spec => []SharedIsUploaded
<1>1. ShareInv => SharedIsUploaded
    BY DEF ShareInv, UploadInv
<1> QED
    BY <1>1, ShareInvariant, PTL

\* The app reports and saves only what the server has shared, and none of
\* the deletions that earlier attempts have sent is for it.
THEOREM SuccessStaysShared == Spec => []SuccessIsShared
<1>1. ShareInv => SuccessIsShared
    BY DEF ShareInv, TypeOK, HoldsInv, OwnInv, SuccessIsShared
<1> QED
    BY <1>1, ShareInvariant, PTL

\* Once nothing is on its way, a twyst that was created and not shared is
\* one that the app never heard of, was killed with, or could not delete.
THEOREM OrphansAreAccounted == Spec => []NoOrphans
<1>1. ShareInv => NoOrphans
    <2> SUFFICES ASSUME ShareInv, Quiet, NEW i \in Ids, server[i] = "created"
                 PROVE  i \in unheard \cup undeleted \cup abandoned
        BY DEF NoOrphans
    <2>1. answer = NoId /\ (twyst = NoId \/ server[twyst] = "shared")
        BY DEF ShareInv, Quiet, HoldsInv, OwnInv
    <2> QED
        BY <2>1 DEF ShareInv, Quiet, AccountedInv
<1> QED
    BY <1>1, ShareInvariant, PTL

\* However often a draft is sent, and whatever was lost, at most one twyst
\* of it stays shared, but for those that could not be deleted.
THEOREM DraftIsSharedOnce == Spec => []SharedOnce
<1>1. ShareInv => SharedOnce
    <2> DEFINE S == {i \in Ids : server[i] = "shared"}
                        \ (undeleted \cup abandoned)
    <2> SUFFICES ASSUME ShareInv, Quiet
                 PROVE  Cardinality(S) <= 1
        BY DEF SharedOnce
    <2>1. S \subseteq {twyst}
        BY DEF ShareInv, Quiet, OnceInv
    <2>2. IsFiniteSet({twyst}) /\ Cardinality({twyst}) = 1
        BY FS_Singleton
    <2> QED
        BY <2>1, <2>2, FS_Subset
<1> QED
    BY <1>1, ShareInvariant, PTL

=============================================================================
