--------------------------- MODULE HomeFeedProofs ---------------------------
(***************************************************************************)
(* Theorems about HomeFeed, for any twysts and servers and any number of   *)
(* page requests and notifications under way: the lists stay sorted, the   *)
(* tables agree with them, what was deleted does not come back, and a list *)
(* that is taken for complete misses nothing.                              *)
(***************************************************************************)
EXTENDS HomeFeed, WellFoundedInduction, SequenceTheorems, FiniteSetTheorems,
        TLAPS

-----------------------------------------------------------------------------
(* Numbers, sequences and the loops over them                              *)

\* Induction over the natural numbers, for a set of them.
LEMMA SetInduction ==
    ASSUME NEW T \in SUBSET Nat, 0 \in T, \A n \in T : n + 1 \in T
    PROVE  T = Nat
<1> DEFINE less == {p \in Nat \X Nat : p[1] < p[2]}
<1> SUFFICES ASSUME Nat \ T # {}
             PROVE  FALSE
    OBVIOUS
<1>1. IsWellFoundedOn(less, Nat)
    BY NatLessThanWellFounded DEF OpToRel
<1>2. PICK x \in Nat \ T : \A y \in Nat \ T : <<y, x>> \notin less
    <2> HIDE DEF less
    <2> QED
        BY <1>1, WFMin
<1>3. x # 0 /\ x - 1 \in Nat /\ x - 1 < x /\ (x - 1) + 1 = x
    OBVIOUS
<1>4. <<x - 1, x>> \in less
    BY <1>3
<1>5. x - 1 \in T
    BY <1>2, <1>3, <1>4
<1> QED
    BY <1>3, <1>5

\* What a sequence holds: nothing when it is empty, ...
LEMMA EmptyElements == ToSet(<<>>) = {}
BY DEF ToSet

\* ... one more when one is added at its end, ...
LEMMA AppendElements ==
    ASSUME NEW S, NEW s \in Seq(S), NEW x \in S
    PROVE  /\ Append(s, x) \in Seq(S)
           /\ Len(Append(s, x)) = Len(s) + 1
           /\ ToSet(Append(s, x)) = ToSet(s) \cup {x}
<1>1. /\ Append(s, x) \in Seq(S) /\ Len(Append(s, x)) = Len(s) + 1
      /\ \A i \in 1 .. Len(s) : Append(s, x)[i] = s[i]
      /\ Append(s, x)[Len(s) + 1] = x
    OBVIOUS
<1>2. DOMAIN Append(s, x) = 1 .. Len(s) + 1 /\ DOMAIN s = 1 .. Len(s)
    BY <1>1
<1>3. 1 .. Len(s) + 1 = (1 .. Len(s)) \cup {Len(s) + 1}
    OBVIOUS
<1> QED
    BY <1>1, <1>2, <1>3 DEF ToSet

\* What is left when one element of a sequence is removed.
LEMMA RemoveAtValue ==
    ASSUME NEW S, NEW s \in Seq(S), NEW i \in DOMAIN s
    PROVE  /\ RemoveAt(s, i) \in Seq(S) /\ Len(RemoveAt(s, i)) = Len(s) - 1
           /\ \A j \in 1 .. Len(s) - 1 :
                  RemoveAt(s, i)[j] = IF j < i THEN s[j] ELSE s[j + 1]
<1> DEFINE left == SubSeq(s, 1, i - 1)
           right == SubSeq(s, i + 1, Len(s))
<1>1. i \in 1 .. Len(s) /\ Len(s) \in Nat
    OBVIOUS
<1>2. /\ left \in Seq(S) /\ Len(left) = i - 1
      /\ \A j \in 1 .. i - 1 : left[j] = s[j]
    BY <1>1
<1>3. /\ right \in Seq(S) /\ Len(right) = Len(s) - i
      /\ \A j \in 1 .. Len(s) - i : right[j] = s[j + i]
    BY <1>1
<1>4. RemoveAt(s, i) = left \o right
    BY DEF RemoveAt
<1> HIDE DEF left, right
<1>5. /\ left \o right \in Seq(S) /\ Len(left \o right) = Len(s) - 1
      /\ \A j \in 1 .. Len(s) - 1 :
            (left \o right)[j] = IF j < i THEN left[j] ELSE right[j - (i - 1)]
    BY <1>1, <1>2, <1>3, ConcatProperties
<1>6. ASSUME NEW j \in 1 .. Len(s) - 1
      PROVE  (left \o right)[j] = IF j < i THEN s[j] ELSE s[j + 1]
    <2>1. CASE j < i
        BY <1>1, <1>2, <1>5, <2>1
    <2>2. CASE ~(j < i)
        <3>1. j - (i - 1) \in 1 .. Len(s) - i /\ (j - (i - 1)) + i = j + 1
            BY <1>1, <2>2
        <3> QED
            BY <1>3, <1>5, <2>2, <3>1
    <2> QED
        BY <2>1, <2>2
<1> QED
    BY <1>4, <1>5, <1>6

\* ... and what it holds then.
LEMMA RemoveAtElements ==
    ASSUME NEW S, NEW s \in Seq(S), NEW i \in DOMAIN s
    PROVE  /\ ToSet(RemoveAt(s, i)) \subseteq ToSet(s)
           /\ ToSet(s) = ToSet(RemoveAt(s, i)) \cup {s[i]}
<1> DEFINE rest == RemoveAt(s, i)
<1>1. /\ rest \in Seq(S) /\ Len(rest) = Len(s) - 1
      /\ \A j \in 1 .. Len(s) - 1 :
            rest[j] = IF j < i THEN s[j] ELSE s[j + 1]
    BY RemoveAtValue
<1>2. /\ i \in 1 .. Len(s) /\ Len(s) \in Nat /\ DOMAIN s = 1 .. Len(s)
      /\ DOMAIN rest = 1 .. Len(s) - 1
    BY <1>1
<1> HIDE DEF rest
<1>3. \A j \in 1 .. Len(s) - 1 : rest[j] \in ToSet(s)
    BY <1>1, <1>2 DEF ToSet
<1>4. ASSUME NEW k \in 1 .. Len(s), k # i
      PROVE  s[k] \in ToSet(rest)
    <2>1. CASE k < i
        <3>1. k \in 1 .. Len(s) - 1 /\ rest[k] = s[k]
            BY <1>1, <1>2, <2>1
        <3> QED
            BY <1>2, <3>1 DEF ToSet
    <2>2. CASE k > i
        <3>1. k - 1 \in 1 .. Len(s) - 1 /\ ~(k - 1 < i) /\ (k - 1) + 1 = k
            BY <1>2, <2>2
        <3>2. rest[k - 1] = s[k]
            BY <1>1, <3>1
        <3> QED
            BY <1>2, <3>1, <3>2 DEF ToSet
    <2> QED
        BY <1>2, <1>4, <2>1, <2>2
<1>5. ToSet(rest) \subseteq ToSet(s)
    BY <1>2, <1>3 DEF ToSet
<1>6. \A x \in ToSet(s) : x = s[i] \/ x \in ToSet(rest)
    BY <1>2, <1>4 DEF ToSet
<1>7. s[i] \in ToSet(s)
    BY <1>2 DEF ToSet
<1> QED
    BY <1>5, <1>6, <1>7 DEF rest

\* What a sequence holds is of its type, and at one of its places.
LEMMA Elements ==
    ASSUME NEW S, NEW s \in Seq(S)
    PROVE  /\ ToSet(s) \subseteq S
           /\ DOMAIN s = 1 .. Len(s) /\ Len(s) \in Nat
           /\ \A i \in 1 .. Len(s) : s[i] \in ToSet(s)
           /\ \A x \in ToSet(s) : \E i \in 1 .. Len(s) : s[i] = x
           /\ Len(s) = 0 <=> s = <<>>
           /\ Len(s) = 0 => ToSet(s) = {}
<1>1. DOMAIN s = 1 .. Len(s) /\ Len(s) \in Nat /\ (Len(s) = 0 <=> s = <<>>)
      /\ \A i \in 1 .. Len(s) : s[i] \in S
    OBVIOUS
<1> QED
    BY <1>1 DEF ToSet

\* The least of some numbers ...
LEMMA MinOf ==
    ASSUME NEW S \in SUBSET Nat, S # {}
    PROVE  Min(S) \in S /\ \A y \in S : Min(S) <= y
<1> DEFINE less == {p \in Nat \X Nat : p[1] < p[2]}
<1>1. IsWellFoundedOn(less, Nat)
    BY NatLessThanWellFounded DEF OpToRel
<1>2. PICK x \in S : \A y \in S : <<y, x>> \notin less
    <2> HIDE DEF less
    <2> QED
        BY <1>1, WFMin
<1>3. ASSUME NEW y \in S
      PROVE  x <= y
    <2>1. x \in Nat /\ y \in Nat /\ <<y, x>> \notin less
        BY <1>2
    <2>2. ~(y < x)
        BY <2>1
    <2> QED
        BY <2>1, <2>2
<1> QED
    BY <1>3 DEF Min

\* ... and the greatest, if there is a bound.
LEMMA MaxOf ==
    ASSUME NEW S \in SUBSET Nat, S # {}, NEW n \in Nat, \A y \in S : y <= n
    PROVE  Max(S) \in S /\ \A y \in S : y <= Max(S)
<1> DEFINE T == {k \in Nat : k <= n /\ n - k \in S}
<1>1. T \in SUBSET Nat /\ T # {}
    <2>1. PICK y \in S : TRUE
        OBVIOUS
    <2>2. n - y \in Nat /\ n - (n - y) = y /\ n - y <= n
        OBVIOUS
    <2> QED
        BY <2>2
<1>2. Min(T) \in T /\ \A y \in T : Min(T) <= y
    <2> HIDE DEF T
    <2> QED
        BY <1>1, MinOf
<1> DEFINE k == Min(T)
<1>3. k \in Nat /\ k <= n /\ n - k \in S /\ \A y \in T : k <= y
    BY <1>2
<1> HIDE DEF k
<1>4. ASSUME NEW y \in S
      PROVE  y <= n - k
    <2>1. n - y \in Nat /\ n - (n - y) = y /\ n - y <= n
        OBVIOUS
    <2>2. k <= n - y
        BY <1>3, <2>1
    <2> QED
        BY <1>3, <2>2
<1>5. \E x \in S : \A y \in S : x >= y
    BY <1>3, <1>4
<1> QED
    BY <1>5 DEF Max

\* A sequence with one more element at a place of it.
LEMMA InsertAtValue ==
    ASSUME NEW S, NEW s \in Seq(S), NEW i \in 1 .. Len(s) + 1, NEW x \in S
    PROVE  /\ InsertAt(s, i, x) \in Seq(S)
           /\ Len(InsertAt(s, i, x)) = Len(s) + 1
           /\ \A j \in 1 .. Len(s) + 1 :
                  InsertAt(s, i, x)[j] = IF j < i THEN s[j]
                                         ELSE IF j = i THEN x ELSE s[j - 1]
<1> DEFINE left == SubSeq(s, 1, i - 1)
           right == SubSeq(s, i, Len(s))
           middle == <<x>>
<1>1. i \in Nat /\ 1 <= i /\ i <= Len(s) + 1 /\ Len(s) \in Nat
    OBVIOUS
<1>2. /\ left \in Seq(S) /\ Len(left) = i - 1
      /\ \A j \in 1 .. i - 1 : left[j] = s[j]
    BY <1>1
<1>3. /\ right \in Seq(S) /\ Len(right) = Len(s) + 1 - i
      /\ \A j \in 1 .. Len(s) + 1 - i : right[j] = s[j + i - 1]
    BY <1>1
<1>0. /\ middle \in Seq(S) /\ Len(middle) = 1 /\ middle[1] = x
    OBVIOUS
<1>4. InsertAt(s, i, x) = left \o middle \o right
    BY DEF InsertAt
<1> HIDE DEF left, right, middle
<1> DEFINE half == left \o middle
<1>5. /\ half \in Seq(S) /\ Len(half) = i
      /\ \A j \in 1 .. i : half[j] = IF j < i THEN s[j] ELSE x
    <2>1. /\ half \in Seq(S) /\ Len(half) = i
          /\ \A j \in 1 .. i :
                half[j] = IF j <= i - 1 THEN left[j] ELSE middle[j - (i - 1)]
        <3>1. /\ half \in Seq(S) /\ Len(half) = Len(left) + Len(middle)
              /\ \A j \in 1 .. Len(left) + Len(middle) :
                    half[j] = IF j <= Len(left) THEN left[j]
                              ELSE middle[j - Len(left)]
            BY <1>0, <1>2, ConcatProperties
        <3>2. Len(left) + Len(middle) = i
            BY <1>0, <1>1, <1>2
        <3> QED
            BY <1>2, <3>1, <3>2
    <2> HIDE DEF half
    <2>2. ASSUME NEW j \in 1 .. i
          PROVE  half[j] = IF j < i THEN s[j] ELSE x
        <3>1. CASE j < i
            BY <1>1, <1>2, <2>1, <3>1
        <3>2. CASE j = i
            <4>1. j - (i - 1) = 1 /\ ~(j <= i - 1)
                BY <1>1, <3>2
            <4> QED
                BY <1>0, <2>1, <3>2, <4>1
        <3> QED
            BY <1>1, <3>1, <3>2
    <2> QED
        BY <2>1, <2>2
<1> HIDE DEF half
<1>6. /\ half \o right \in Seq(S) /\ Len(half \o right) = Len(s) + 1
      /\ \A j \in 1 .. Len(s) + 1 :
            (half \o right)[j] = IF j <= i THEN half[j] ELSE right[j - i]
    <2>1. /\ half \o right \in Seq(S)
          /\ Len(half \o right) = Len(half) + Len(right)
          /\ \A j \in 1 .. Len(half) + Len(right) :
                (half \o right)[j] = IF j <= Len(half) THEN half[j]
                                     ELSE right[j - Len(half)]
        BY <1>3, <1>5, ConcatProperties
    <2>2. Len(half) + Len(right) = Len(s) + 1
        BY <1>1, <1>3, <1>5
    <2> QED
        BY <1>5, <2>1, <2>2
<1>7. ASSUME NEW j \in 1 .. Len(s) + 1
      PROVE  (half \o right)[j] = IF j < i THEN s[j]
                                  ELSE IF j = i THEN x ELSE s[j - 1]
    <2>1. CASE j <= i
        BY <1>1, <1>5, <1>6, <2>1
    <2>2. CASE ~(j <= i)
        <3>1. j - i \in 1 .. Len(s) + 1 - i /\ (j - i) + i - 1 = j - 1
            BY <1>1, <2>2
        <3> QED
            BY <1>1, <1>3, <1>6, <2>2, <3>1
    <2> QED
        BY <2>1, <2>2
<1>8. InsertAt(s, i, x) = half \o right
    BY <1>4 DEF half
<1> QED
    BY <1>6, <1>7, <1>8

-----------------------------------------------------------------------------
(* The arrays                                                              *)

Sorted(l) == \A i, j \in DOMAIN l : i < j => l[i] > l[j]

\* A sorted list to which t is added, if it is not there.
Added(r, l, t) ==
    /\ r \in Seq(Twysts) /\ Sorted(r)
    /\ ToSet(r) = ToSet(l) \cup {t}
    /\ t \in ToSet(l) => r = l
    /\ t \notin ToSet(l) => Len(r) = Len(l) + 1

\* What is at the places of a list.
LEMMA ListPlaces ==
    ASSUME NEW l \in Seq(Twysts)
    PROVE  /\ DOMAIN l = 1 .. Len(l) /\ Len(l) \in Nat
           /\ \A j \in 1 .. Len(l) : l[j] \in Twysts /\ l[j] \in Nat
<1>1. DOMAIN l = 1 .. Len(l) /\ Len(l) \in Nat
    OBVIOUS
<1>2. \A j \in 1 .. Len(l) : l[j] \in Twysts
    OBVIOUS
<1> QED
    BY <1>1, <1>2, TwystsAssumption

\* A sorted list holds nothing twice, and its places follow its values.
LEMMA SortedPlaces ==
    ASSUME NEW l \in Seq(Twysts), Sorted(l),
           NEW i \in 1 .. Len(l), NEW j \in 1 .. Len(l)
    PROVE  /\ l[i] \in Nat /\ l[j] \in Nat
           /\ i < j => l[j] < l[i]
           /\ i <= j => l[j] <= l[i]
           /\ l[i] = l[j] => i = j
<1>1. l[i] \in Nat /\ l[j] \in Nat /\ DOMAIN l = 1 .. Len(l) /\ Len(l) \in Nat
    BY ListPlaces
<1>2. i < j => l[i] > l[j]
    BY <1>1 DEF Sorted
<1>3. j < i => l[j] > l[i]
    BY <1>1 DEF Sorted
<1>4. i \in Nat /\ j \in Nat
    BY <1>1
<1> QED
    BY <1>1, <1>2, <1>3, <1>4

\* An element inserted between the newer and the older ones.
LEMMA InsertedSorted ==
    ASSUME NEW l \in Seq(Twysts), Sorted(l), NEW t \in Twysts,
           NEW m \in 1 .. Len(l) + 1, NEW r \in Seq(Twysts),
           Len(r) = Len(l) + 1,
           \A j \in 1 .. Len(l) + 1 :
              r[j] = IF j < m THEN l[j] ELSE IF j = m THEN t ELSE l[j - 1],
           \A j \in 1 .. Len(l) : j < m => l[j] > t,
           \A j \in 1 .. Len(l) : j >= m => l[j] < t
    PROVE  Added(r, l, t)
<1>0. /\ DOMAIN l = 1 .. Len(l) /\ Len(l) \in Nat /\ DOMAIN r = 1 .. Len(r)
      /\ \A j \in 1 .. Len(l) : l[j] \in Nat
    BY ListPlaces
<1>1. /\ DOMAIN r = 1 .. Len(l) + 1 /\ DOMAIN l = 1 .. Len(l) /\ Len(l) \in Nat
      /\ m \in Nat /\ 1 <= m /\ m <= Len(l) + 1 /\ t \in Nat
      /\ \A j \in 1 .. Len(l) : l[j] \in Nat
    BY <1>0, TwystsAssumption
<1>2. ASSUME NEW j \in 1 .. Len(l) + 1
      PROVE  /\ j < m => j \in 1 .. Len(l) /\ r[j] = l[j] /\ l[j] > t
             /\ j = m => r[j] = t
             /\ j > m => j - 1 \in 1 .. Len(l) /\ r[j] = l[j - 1] /\ l[j - 1] < t
    <2>1. j \in Nat /\ (j < m => j \in 1 .. Len(l))
          /\ (j > m => j - 1 \in 1 .. Len(l) /\ j - 1 >= m)
        BY <1>1
    <2> QED
        BY <1>1, <2>1
<1>3. ASSUME NEW i \in 1 .. Len(l) + 1, NEW j \in 1 .. Len(l) + 1, i < j
      PROVE  r[i] > r[j]
    <2>1. i \in Nat /\ j \in Nat
        BY <1>1
    <2>2. CASE j < m
        <3>1. i < m
            BY <1>1, <1>3, <2>1, <2>2
        <3>2. /\ i \in 1 .. Len(l) /\ j \in 1 .. Len(l) /\ r[i] = l[i]
              /\ r[j] = l[j]
            BY <1>2, <2>2, <3>1
        <3> QED
            BY <1>1, <1>3, <3>2 DEF Sorted
    <2>3. CASE i > m
        <3>1. j > m
            BY <1>1, <1>3, <2>1, <2>3
        <3>2. /\ i - 1 \in 1 .. Len(l) /\ j - 1 \in 1 .. Len(l)
              /\ r[i] = l[i - 1] /\ r[j] = l[j - 1] /\ i - 1 < j - 1
            BY <1>1, <1>2, <1>3, <2>1, <2>3, <3>1
        <3> QED
            BY <1>1, <3>2 DEF Sorted
    <2>4. CASE i <= m /\ j >= m
        <3>1. /\ i < m => r[i] > t /\ r[i] \in Nat
              /\ i = m => r[i] = t
              /\ j > m => r[j] < t /\ r[j] \in Nat
              /\ j = m => r[j] = t
            BY <1>1, <1>2
        <3> QED
            BY <1>1, <1>3, <2>1, <2>4, <3>1
    <2> QED
        BY <1>1, <2>1, <2>2, <2>3, <2>4
<1>4. t \notin ToSet(l)
    <2>1. \A j \in 1 .. Len(l) : l[j] # t
        BY <1>1
    <2> QED
        BY <1>1, <2>1 DEF ToSet
<1>5. ToSet(r) \subseteq ToSet(l) \cup {t}
    <2>1. \A j \in 1 .. Len(l) + 1 : r[j] \in ToSet(l) \cup {t}
        <3> TAKE j \in 1 .. Len(l) + 1
        <3>1. \A k \in 1 .. Len(l) : l[k] \in ToSet(l)
            BY <1>1 DEF ToSet
        <3>2. j < m \/ j = m \/ j > m
            BY <1>1
        <3> QED
            BY <1>2, <3>1, <3>2
    <2> QED
        BY <1>1, <2>1 DEF ToSet
<1>6. ToSet(l) \cup {t} \subseteq ToSet(r)
    <2>1. ASSUME NEW k \in 1 .. Len(l)
          PROVE  l[k] \in ToSet(r)
        <3>1. CASE k < m
            <4>1. k \in 1 .. Len(l) + 1 /\ r[k] = l[k]
                BY <1>1, <3>1
            <4> QED
                BY <1>1, <4>1 DEF ToSet
        <3>2. CASE k >= m
            <4>1. k + 1 \in 1 .. Len(l) + 1 /\ k + 1 > m /\ (k + 1) - 1 = k
                BY <1>1, <3>2
            <4>2. r[k + 1] = l[k]
                BY <1>2, <4>1
            <4> QED
                BY <1>1, <4>1, <4>2 DEF ToSet
        <3> QED
            BY <1>1, <3>1, <3>2
    <2>2. t \in ToSet(r)
        BY <1>1, <1>2 DEF ToSet
    <2> QED
        BY <1>1, <2>1, <2>2 DEF ToSet
<1>7. Sorted(r)
    BY <1>1, <1>3 DEF Sorted
<1> QED
    BY <1>4, <1>5, <1>6, <1>7 DEF Added

\* A twyst that is there already.
LEMMA AddedAlready ==
    ASSUME NEW l \in Seq(Twysts), Sorted(l), NEW t \in ToSet(l)
    PROVE  Added(l, l, t)
BY DEF Added

\* Adding from the newest entry on ...
LEMMA AscendingAdds ==
    ASSUME NEW l \in Seq(Twysts), Sorted(l), NEW t \in Twysts
    PROVE  Added(Ascending(l, t), l, t)
<1> DEFINE notNewer == {i \in DOMAIN l : l[i] <= t}
           m == Min(notNewer)
<1>1. /\ DOMAIN l = 1 .. Len(l) /\ Len(l) \in Nat /\ t \in Nat
      /\ \A j \in 1 .. Len(l) : l[j] \in Nat
    BY ListPlaces, TwystsAssumption
<1>2. Ascending(l, t) = IF notNewer = {} THEN Append(l, t)
                        ELSE IF l[m] = t THEN l ELSE InsertAt(l, m, t)
    BY DEF Ascending
<1>3. CASE notNewer = {}
    <2>1. \A j \in 1 .. Len(l) : l[j] > t
        BY <1>1, <1>3
    <2>2. /\ Append(l, t) \in Seq(Twysts) /\ Len(Append(l, t)) = Len(l) + 1
          /\ \A j \in 1 .. Len(l) : Append(l, t)[j] = l[j]
          /\ Append(l, t)[Len(l) + 1] = t
        OBVIOUS
    <2>3. Len(l) + 1 \in 1 .. Len(l) + 1
        BY <1>1
    <2>4. \A j \in 1 .. Len(l) + 1 :
             Append(l, t)[j] = IF j < Len(l) + 1 THEN l[j]
                               ELSE IF j = Len(l) + 1 THEN t ELSE l[j - 1]
        BY <1>1, <2>2
    <2>5. \A j \in 1 .. Len(l) : j >= Len(l) + 1 => l[j] < t
        BY <1>1
    <2>6. Added(Append(l, t), l, t)
        BY <2>1, <2>2, <2>3, <2>4, <2>5, InsertedSorted
    <2> QED
        BY <1>2, <1>3, <2>6
<1>4. CASE notNewer # {}
    <2>1. m \in notNewer /\ \A y \in notNewer : m <= y
        <3>1. notNewer \in SUBSET Nat
            BY <1>1
        <3> HIDE DEF notNewer
        <3> QED
            BY <1>4, <3>1, MinOf
    <2>2. m \in 1 .. Len(l) /\ l[m] <= t /\ \A j \in 1 .. Len(l) : l[j] <= t => m <= j
        BY <1>1, <2>1
    <2> HIDE DEF m, notNewer
    <2>3. CASE l[m] = t
        <3>1. t \in ToSet(l)
            BY <1>1, <2>2, <2>3 DEF ToSet
        <3> QED
            BY <1>2, <1>4, <2>3, <3>1, AddedAlready
    <2>4. CASE l[m] # t
        <3>1. m \in 1 .. Len(l) + 1
            BY <1>1, <2>2
        <3>2. ASSUME NEW j \in 1 .. Len(l)
              PROVE  (j < m => l[j] > t) /\ (j >= m => l[j] < t)
            <4>1. l[j] \in Nat /\ l[m] \in Nat /\ j \in Nat /\ m \in Nat
                BY <1>1, <2>2
            <4>2. j < m => l[j] > t
                BY <1>1, <2>2, <4>1
            <4>3. j >= m => l[j] <= l[m]
                BY <2>2, SortedPlaces
            <4> QED
                BY <1>1, <2>2, <2>4, <4>1, <4>2, <4>3
        <3>3. /\ InsertAt(l, m, t) \in Seq(Twysts)
              /\ Len(InsertAt(l, m, t)) = Len(l) + 1
              /\ \A j \in 1 .. Len(l) + 1 :
                    InsertAt(l, m, t)[j] = IF j < m THEN l[j]
                                           ELSE IF j = m THEN t ELSE l[j - 1]
            BY <3>1, InsertAtValue
        <3>4. Added(InsertAt(l, m, t), l, t)
            BY <3>1, <3>2, <3>3, InsertedSorted
        <3> QED
            BY <1>2, <1>4, <2>4, <3>4
    <2> QED
        BY <2>3, <2>4
<1> QED
    BY <1>3, <1>4

\* ... or from the oldest.
LEMMA DescendingAdds ==
    ASSUME NEW l \in Seq(Twysts), Sorted(l), NEW t \in Twysts
    PROVE  Added(Descending(l, t), l, t)
<1> DEFINE notOlder == {i \in DOMAIN l : l[i] >= t}
           m == Max(notOlder)
<1>1. /\ DOMAIN l = 1 .. Len(l) /\ Len(l) \in Nat /\ t \in Nat
      /\ \A j \in 1 .. Len(l) : l[j] \in Nat
    BY ListPlaces, TwystsAssumption
<1>2. Descending(l, t) = IF notOlder = {} THEN <<t>> \o l
                         ELSE IF l[m] = t THEN l ELSE InsertAt(l, m + 1, t)
    BY DEF Descending
<1>3. CASE notOlder = {}
    <2> DEFINE head == <<t>>
               r == head \o l
    <2>0. head \in Seq(Twysts) /\ Len(head) = 1 /\ head[1] = t
        OBVIOUS
    <2>1. \A j \in 1 .. Len(l) : l[j] < t
        BY <1>1, <1>3
    <2> HIDE DEF head
    <2>2. /\ r \in Seq(Twysts) /\ Len(r) = Len(head) + Len(l)
          /\ \A j \in 1 .. Len(head) + Len(l) :
                r[j] = IF j <= Len(head) THEN head[j] ELSE l[j - Len(head)]
        BY <2>0, ConcatProperties
    <2> HIDE DEF r
    <2>3. Len(r) = Len(l) + 1 /\ 1 \in 1 .. Len(l) + 1
        BY <1>1, <2>0, <2>2
    <2>4. \A j \in 1 .. Len(l) + 1 :
             r[j] = IF j < 1 THEN l[j] ELSE IF j = 1 THEN t ELSE l[j - 1]
        BY <1>1, <2>0, <2>2
    <2>5. \A j \in 1 .. Len(l) : j < 1 => l[j] > t
        BY <1>1
    <2>6. Added(r, l, t)
        BY <2>1, <2>2, <2>3, <2>4, <2>5, InsertedSorted
    <2> QED
        BY <1>2, <1>3, <2>6 DEF r, head
<1>4. CASE notOlder # {}
    <2>1. m \in notOlder /\ \A y \in notOlder : y <= m
        <3>1. notOlder \in SUBSET Nat /\ \A y \in notOlder : y <= Len(l)
            BY <1>1
        <3> HIDE DEF notOlder
        <3> QED
            BY <1>1, <1>4, <3>1, MaxOf
    <2>2. m \in 1 .. Len(l) /\ l[m] >= t /\ \A j \in 1 .. Len(l) : l[j] >= t => j <= m
        BY <1>1, <2>1
    <2> HIDE DEF m, notOlder
    <2>3. CASE l[m] = t
        <3>1. t \in ToSet(l)
            BY <1>1, <2>2, <2>3 DEF ToSet
        <3> QED
            BY <1>2, <1>4, <2>3, <3>1, AddedAlready
    <2>4. CASE l[m] # t
        <3>1. PICK k \in 1 .. Len(l) + 1 : k = m + 1
            BY <1>1, <2>2
        <3>2. ASSUME NEW j \in 1 .. Len(l)
              PROVE  (j < k => l[j] > t) /\ (j >= k => l[j] < t)
            <4>1. l[j] \in Nat /\ l[m] \in Nat /\ j \in Nat /\ m \in Nat
                BY <1>1, <2>2
            <4>2. j >= k => l[j] < t
                BY <1>1, <2>2, <3>1, <4>1
            <4>3. j <= m => l[m] <= l[j]
                BY <2>2, SortedPlaces
            <4> QED
                BY <1>1, <2>2, <2>4, <3>1, <4>1, <4>2, <4>3
        <3>3. /\ InsertAt(l, k, t) \in Seq(Twysts)
              /\ Len(InsertAt(l, k, t)) = Len(l) + 1
              /\ \A j \in 1 .. Len(l) + 1 :
                    InsertAt(l, k, t)[j] =
                        IF j < k THEN l[j]
                        ELSE IF j = k THEN t ELSE l[j - 1]
            <4> k \in 1 .. Len(l) + 1
                BY <3>1
            <4> QED
                BY ONLY k \in 1 .. Len(l) + 1, l \in Seq(Twysts), t \in Twysts,
                   InsertAtValue
        <3>4. Added(InsertAt(l, k, t), l, t)
            BY <3>2, <3>3, InsertedSorted
        <3> QED
            BY <1>2, <1>4, <2>4, <3>1, <3>4
    <2> QED
        BY <2>3, <2>4
<1> QED
    BY <1>3, <1>4

\* What f tells of each turn of a loop.
LoopOver(f, X, b, n, step) ==
    /\ f \in [0 .. n -> X]
    /\ \A i \in 0 .. n : f[i] = IF i = 0 THEN b ELSE step[<<i, f[i - 1]>>]

\* A loop of n turns over values of X ends.
LEMMA LoopExists ==
    ASSUME NEW X, NEW b \in X, NEW n \in Nat,
           NEW step \in [(1 .. n) \X X -> X]
    PROVE  \E f : LoopOver(f, X, b, n, step)
<1> DEFINE IsLoop(f, k) ==
              /\ f \in [0 .. k -> X]
              /\ \A i \in 0 .. k :
                    f[i] = IF i = 0 THEN b ELSE step[<<i, f[i - 1]>>]
           T == {k \in Nat : k <= n => \E f : IsLoop(f, k)}
<1>1. 0 \in T
    <2> DEFINE f == [i \in 0 .. 0 |-> b]
    <2>1. IsLoop(f, 0)
        OBVIOUS
    <2> HIDE DEF f, IsLoop
    <2> QED
        BY <2>1
<1>2. ASSUME NEW k \in T
      PROVE  k + 1 \in T
    <2> SUFFICES ASSUME k + 1 <= n
                 PROVE  \E f : IsLoop(f, k + 1)
        OBVIOUS
    <2>1. PICK f : IsLoop(f, k)
        OBVIOUS
    <2> DEFINE g == [i \in 0 .. k + 1 |->
                        IF i = k + 1 THEN step[<<k + 1, f[k]>>] ELSE f[i]]
    <2>2. f[k] \in X /\ k + 1 \in 1 .. n /\ k \in 0 .. k
        BY <2>1
    <2>3. step[<<k + 1, f[k]>>] \in X
        BY <2>2
    <2>4. \A i \in 0 .. k : f[i] \in X
        BY <2>1
    <2>5. g \in [0 .. k + 1 -> X]
        BY <2>3, <2>4
    <2>6. ASSUME NEW i \in 0 .. k + 1
          PROVE  g[i] = IF i = 0 THEN b ELSE step[<<i, g[i - 1]>>]
        <3>1. CASE i = k + 1
            <4>1. i - 1 = k /\ i # 0 /\ k \in 0 .. k + 1 /\ k # k + 1
                BY <3>1
            <4>2. g[k] = f[k]
                BY <4>1
            <4> QED
                BY <3>1, <4>1, <4>2
        <3>2. CASE i # k + 1
            <4>1. i \in 0 .. k
                BY <3>2
            <4>2. i # 0 => i - 1 \in 0 .. k + 1 /\ i - 1 # k + 1
                BY <4>1
            <4>3. i # 0 => g[i - 1] = f[i - 1]
                BY <4>2
            <4>4. g[i] = f[i]
                BY <3>2
            <4> HIDE DEF g
            <4> QED
                BY <2>1, <4>1, <4>3, <4>4
        <3> QED
            BY <3>1, <3>2
    <2>7. IsLoop(g, k + 1)
        BY <2>5, <2>6
    <2> HIDE DEF g, IsLoop
    <2> QED
        BY <2>7
<1>3. n \in T
    <2>1. T \in SUBSET Nat
        OBVIOUS
    <2> HIDE DEF T
    <2> QED
        BY <1>1, <1>2, <2>1, SetInduction
<1>4. \E f : IsLoop(f, n)
    BY <1>3
<1> QED
    BY <1>4 DEF LoopOver

MergeTurn(l, items, f, i) ==
    IF i = 0 THEN l ELSE Descending(f[i - 1], items[i])

\* The entries of a page join those that are there.
LEMMA MergedAdds ==
    ASSUME NEW l \in Seq(Twysts), Sorted(l), NEW items \in Seq(Twysts)
    PROVE  /\ Merged(l, items) \in Seq(Twysts) /\ Sorted(Merged(l, items))
           /\ ToSet(Merged(l, items)) = ToSet(l) \cup ToSet(items)
           /\ Len(Merged(l, items)) >= Len(l)
<1> DEFINE n == Len(items)
           X == {s \in Seq(Twysts) : Sorted(s)}
           step == [q \in (1 .. n) \X X |-> Descending(q[2], items[q[1]])]
           Loop(f) == f = [i \in 0 .. n |-> MergeTurn(l, items, f, i)]
           after == CHOOSE f : Loop(f)
<1>1. n \in Nat /\ DOMAIN items = 1 .. n /\ \A i \in 1 .. n : items[i] \in Twysts
    OBVIOUS
<1>2. \A i \in 1 .. n : \A s \in X : Descending(s, items[i]) \in X
    BY <1>1, DescendingAdds DEF Added
<1>3. step \in [(1 .. n) \X X -> X]
    BY <1>2
<1>4. l \in X
    OBVIOUS
<1>5. PICK f \in [0 .. n -> X] :
         \A i \in 0 .. n : f[i] = IF i = 0 THEN l ELSE step[<<i, f[i - 1]>>]
    <2>1. n \in Nat
        OBVIOUS
    <2> HIDE DEF X, step, n
    <2>2. \E f : LoopOver(f, X, l, n, step)
        BY <1>3, <1>4, <2>1, LoopExists
    <2> QED
        BY <2>2 DEF LoopOver
<1>6. \A i \in 0 .. n : f[i] \in X
    BY <1>5
<1>7. ASSUME NEW i \in 0 .. n
      PROVE  f[i] = MergeTurn(l, items, f, i)
    <2>1. CASE i = 0
        BY <1>5, <2>1 DEF MergeTurn
    <2>2. CASE i # 0
        <3>1. i \in 1 .. n /\ i - 1 \in 0 .. n
            BY <1>1, <2>2
        <3>2. f[i - 1] \in X
            BY <1>6, <3>1
        <3>3. step[<<i, f[i - 1]>>] = Descending(f[i - 1], items[i])
            BY <3>1, <3>2
        <3> QED
            BY <1>5, <2>2, <3>3 DEF MergeTurn
    <2> QED
        BY <2>1, <2>2
<1>8. Loop(f)
    <2> HIDE DEF X, n
    <2> QED
        BY <1>5, <1>7
<1>9. Loop(after)
    <2> HIDE DEF Loop
    <2> QED
        BY <1>8
<1>10. Merged(l, items) = after[n]
    BY DEF Merged, MergeTurn
<1> HIDE DEF step, after
<1> DEFINE Upto(k) == {items[j] : j \in 1 .. k}
           T == {k \in Nat : k <= n =>
                   /\ after[k] \in X
                   /\ ToSet(after[k]) = ToSet(l) \cup Upto(k)
                   /\ Len(after[k]) >= Len(l)}
<1>11. 0 \in T
    <2>1. 0 \in 0 .. n
        BY <1>1
    <2>2. after[0] = l
        BY <1>9, <2>1 DEF MergeTurn
    <2>3. Upto(0) = {}
        OBVIOUS
    <2>4. Len(l) >= Len(l)
        BY ListPlaces
    <2> QED
        BY <1>4, <2>2, <2>3, <2>4
<1>12. ASSUME NEW k \in T
       PROVE  k + 1 \in T
    <2> SUFFICES ASSUME k + 1 <= n
                 PROVE  /\ after[k + 1] \in X
                        /\ ToSet(after[k + 1]) = ToSet(l) \cup Upto(k + 1)
                        /\ Len(after[k + 1]) >= Len(l)
        OBVIOUS
    <2>0. k <= n
        BY <1>1
    <2>1. /\ after[k] \in X /\ Len(after[k]) >= Len(l)
          /\ ToSet(after[k]) = ToSet(l) \cup Upto(k)
        BY <2>0
    <2>2. /\ k + 1 \in 0 .. n /\ k + 1 # 0 /\ (k + 1) - 1 = k /\ k + 1 \in 1 .. n
        BY <1>1
    <2>3. after[k + 1] = Descending(after[k], items[k + 1])
        <3>1. after[k + 1] = MergeTurn(l, items, after, k + 1)
            <4> HIDE DEF n
            <4> QED
                BY <1>9, <2>2
        <3> QED
            BY <2>2, <3>1 DEF MergeTurn
    <2>4. Added(after[k + 1], after[k], items[k + 1])
        BY <1>1, <2>1, <2>2, <2>3, DescendingAdds
    <2>5. 1 .. k + 1 = (1 .. k) \cup {k + 1}
        OBVIOUS
    <2>6. Upto(k + 1) = Upto(k) \cup {items[k + 1]}
        BY <2>5
    <2> HIDE DEF Upto, n
    <2>7. Len(after[k + 1]) >= Len(after[k])
        <3>1. Len(after[k]) \in Nat
            BY <2>1, ListPlaces
        <3> QED
            BY <2>4, <3>1 DEF Added
    <2>8. Len(after[k + 1]) \in Nat /\ Len(after[k]) \in Nat /\ Len(l) \in Nat
        BY <2>1, <2>4, ListPlaces DEF Added
    <2>9. Len(after[k + 1]) >= Len(l)
        BY <2>1, <2>7, <2>8
    <2> QED
        BY <2>1, <2>4, <2>6, <2>9 DEF Added
<1>13. n \in T
    <2>1. T \in SUBSET Nat
        OBVIOUS
    <2> HIDE DEF T
    <2> QED
        BY <1>1, <1>11, <1>12, <2>1, SetInduction
<1>14. /\ after[n] \in X /\ ToSet(after[n]) = ToSet(l) \cup Upto(n)
       /\ Len(after[n]) >= Len(l)
    BY <1>1, <1>13
<1>15. Upto(n) = ToSet(items)
    BY <1>1 DEF ToSet
<1> QED
    BY <1>10, <1>14, <1>15

\* A list without one of its entries.
LEMMA WithoutOne ==
    ASSUME NEW l \in Seq(Twysts), Sorted(l), NEW t \in ToSet(l)
    PROVE  /\ Without(l, t) \in Seq(Twysts) /\ Sorted(Without(l, t))
           /\ ToSet(Without(l, t)) = ToSet(l) \ {t}
           /\ Len(Without(l, t)) = Len(l) - 1
<1> DEFINE i == CHOOSE k \in DOMAIN l : l[k] = t
           r == RemoveAt(l, i)
<1>1. DOMAIN l = 1 .. Len(l) /\ Len(l) \in Nat
    OBVIOUS
<1>2. i \in DOMAIN l /\ l[i] = t
    BY DEF ToSet
<1>3. Without(l, t) = r
    BY DEF Without
<1> HIDE DEF i
<1>4. /\ r \in Seq(Twysts) /\ Len(r) = Len(l) - 1
      /\ \A j \in 1 .. Len(l) - 1 : r[j] = IF j < i THEN l[j] ELSE l[j + 1]
    BY <1>2, RemoveAtValue
<1>5. ToSet(r) \subseteq ToSet(l) /\ ToSet(l) = ToSet(r) \cup {t}
    BY <1>2, RemoveAtElements
<1> HIDE DEF r
<1>6. i \in 1 .. Len(l) /\ DOMAIN r = 1 .. Len(l) - 1
    BY <1>1, <1>2, <1>4
<1>7. ASSUME NEW j \in 1 .. Len(l) - 1
      PROVE  \E k \in 1 .. Len(l) : r[j] = l[k] /\ k # i
                                    /\ k = IF j < i THEN j ELSE j + 1
    BY <1>1, <1>4, <1>6
<1>8. t \notin ToSet(r)
    <2>1. ASSUME NEW j \in 1 .. Len(l) - 1
          PROVE  r[j] # t
        <3>1. PICK k \in 1 .. Len(l) : r[j] = l[k] /\ k # i
            BY <1>7
        <3> QED
            BY <1>2, <1>6, <3>1, SortedPlaces
    <2> QED
        BY <1>6, <2>1 DEF ToSet
<1>9. Sorted(r)
    <2>1. ASSUME NEW j \in 1 .. Len(l) - 1, NEW k \in 1 .. Len(l) - 1, j < k
          PROVE  r[j] > r[k]
        <3>1. PICK a \in 1 .. Len(l) : r[j] = l[a] /\ a = IF j < i THEN j ELSE j + 1
            BY <1>7
        <3>2. PICK c \in 1 .. Len(l) : r[k] = l[c] /\ c = IF k < i THEN k ELSE k + 1
            BY <1>7
        <3>3. a < c
            BY <1>1, <1>6, <2>1, <3>1, <3>2
        <3> QED
            BY <1>1, <3>1, <3>2, <3>3 DEF Sorted
    <2> QED
        BY <1>6, <2>1 DEF Sorted
<1> QED
    BY <1>3, <1>4, <1>5, <1>8, <1>9

\* Of some twysts, one has acted last.
LEMMA HasLatest ==
    ASSUME actionTime \in [Twysts -> Nat], NEW S \in SUBSET Twysts, S # {}
    PROVE  \E t \in S : \A r \in S : actionTime[r] <= actionTime[t]
<1> DEFINE HasOne(U) == \E t \in U : \A r \in U : actionTime[r] <= actionTime[t]
           T == {k \in Nat : \A U \in SUBSET Twysts :
                    Cardinality(U) = k + 1 => HasOne(U)}
<1>0. IsFiniteSet(Twysts) /\ \A t \in Twysts : actionTime[t] \in Nat
    <2>1. IsFiniteSet(Twysts)
        BY TwystsAssumption
    <2>2. \A t \in Twysts : actionTime[t] \in Nat
        OBVIOUS
    <2> QED
        BY <2>1, <2>2
<1>1. 0 \in T
    <2> SUFFICES ASSUME NEW U \in SUBSET Twysts, Cardinality(U) = 1
                 PROVE  HasOne(U)
        OBVIOUS
    <2>1. IsFiniteSet(U)
        BY <1>0, FS_Subset
    <2>2. PICK x : U = {x}
        BY <2>1, FS_Singleton
    <2>3. actionTime[x] \in Nat
        BY <1>0, <2>2
    <2> QED
        BY <2>2, <2>3
<1>2. ASSUME NEW k \in T
      PROVE  k + 1 \in T
    <2> SUFFICES ASSUME NEW U \in SUBSET Twysts, Cardinality(U) = (k + 1) + 1
                 PROVE  HasOne(U)
        OBVIOUS
    <2>1. IsFiniteSet(U) /\ Cardinality(U) # 0
        BY <1>0, FS_Subset
    <2>2. PICK x \in U : TRUE
        BY <2>1, FS_EmptySet
    <2> DEFINE V == U \ {x}
    <2>3. Cardinality(V) = k + 1
        <3>1. Cardinality(V) = Cardinality(U) - 1
            BY <2>1, <2>2, FS_RemoveElement
        <3> QED
            BY <3>1
    <2>4. V \in SUBSET Twysts
        OBVIOUS
    <2>5. HasOne(V)
        BY <2>3, <2>4
    <2>6. PICK t \in V : \A r \in V : actionTime[r] <= actionTime[t]
        BY <2>5
    <2>7. actionTime[t] \in Nat /\ actionTime[x] \in Nat
        BY <1>0, <2>2, <2>4, <2>6
    <2>8. CASE actionTime[x] <= actionTime[t]
        BY <2>6, <2>8
    <2>9. CASE actionTime[t] < actionTime[x]
        <3>1. \A r \in U : actionTime[r] <= actionTime[x]
            BY <1>0, <2>4, <2>6, <2>7, <2>9
        <3> QED
            BY <2>2, <3>1
    <2> QED
        BY <2>7, <2>8, <2>9
<1>3. T = Nat
    <2>1. T \in SUBSET Nat
        OBVIOUS
    <2> HIDE DEF T
    <2> QED
        BY <1>1, <1>2, <2>1, SetInduction
<1>4. IsFiniteSet(S)
    BY <1>0, FS_Subset
<1>5. Cardinality(S) \in Nat /\ Cardinality(S) # 0
    BY <1>4, FS_CardinalityType, FS_EmptySet
<1>6. Cardinality(S) - 1 \in T /\ (Cardinality(S) - 1) + 1 = Cardinality(S)
    BY <1>3, <1>5
<1> QED
    BY <1>6

\* The twysts of S in the order of their last actions, as far as F goes.
InOrder(F, S) ==
    /\ F \in Seq(S)
    /\ \A i, j \in DOMAIN F : i < j => /\ F[i] # F[j]
                                       /\ actionTime[F[j]] <= actionTime[F[i]]
    /\ \A r \in S \ ToSet(F), i \in DOMAIN F :
          actionTime[r] <= actionTime[F[i]]

NextLatest(F, S) ==
    LET rest == S \ ToSet(F) IN
    IF rest = {} THEN F
    ELSE Append(F, CHOOSE t \in rest :
                       \A r \in rest : actionTime[r] <= actionTime[t])

LatestTurn(S, f, k) == IF k = 0 THEN <<>> ELSE NextLatest(f[k - 1], S)

\* One turn of the loop of Latest: the order is kept, and one twyst joins
\* if there is one left.
LEMMA NextInOrder ==
    ASSUME actionTime \in [Twysts -> Nat], NEW S \in SUBSET Twysts,
           NEW F, InOrder(F, S)
    PROVE  /\ InOrder(NextLatest(F, S), S)
           /\ S \ ToSet(F) = {} => NextLatest(F, S) = F
           /\ S \ ToSet(F) # {} => Len(NextLatest(F, S)) = Len(F) + 1
<1> DEFINE rest == S \ ToSet(F)
           x == CHOOSE t \in rest : \A r \in rest : actionTime[r] <= actionTime[t]
           G == Append(F, x)
<1>1. CASE rest = {}
    BY <1>1 DEF NextLatest
<1>2. CASE rest # {}
    <2>1. rest \in SUBSET Twysts
        OBVIOUS
    <2>2. x \in rest /\ \A r \in rest : actionTime[r] <= actionTime[x]
        <3>1. \E t \in rest : \A r \in rest : actionTime[r] <= actionTime[t]
            BY <1>2, <2>1, HasLatest
        <3> QED
            BY <3>1
    <2>3. NextLatest(F, S) = G
        BY <1>2 DEF NextLatest
    <2> HIDE DEF x
    <2>4. F \in Seq(S) /\ x \in S /\ x \notin ToSet(F)
        BY <2>2 DEF InOrder
    <2>5. /\ G \in Seq(S) /\ Len(G) = Len(F) + 1 /\ ToSet(G) = ToSet(F) \cup {x}
        BY <2>4, AppendElements
    <2>6. /\ DOMAIN F = 1 .. Len(F) /\ DOMAIN G = 1 .. Len(F) + 1 /\ Len(F) \in Nat
          /\ \A i \in 1 .. Len(F) : G[i] = F[i] /\ F[i] \in ToSet(F) /\ F[i] \in S
          /\ G[Len(F) + 1] = x
        BY <2>4, <2>5, Elements
    <2>7. \A t \in Twysts : actionTime[t] \in Nat
        OBVIOUS
    <2> HIDE DEF G
    <2>8. ASSUME NEW i \in DOMAIN G, NEW j \in DOMAIN G, i < j
          PROVE  G[i] # G[j] /\ actionTime[G[j]] <= actionTime[G[i]]
        <3>1. i \in 1 .. Len(F) /\ G[i] = F[i]
            BY <2>6, <2>8
        <3>2. CASE j = Len(F) + 1
            BY <2>2, <2>4, <2>6, <3>1, <3>2 DEF InOrder
        <3>3. CASE j # Len(F) + 1
            <4>1. j \in 1 .. Len(F) /\ G[j] = F[j]
                BY <2>6, <3>3
            <4> QED
                BY <2>6, <2>8, <3>1, <4>1 DEF InOrder
        <3> QED
            BY <3>2, <3>3
    <2>9. ASSUME NEW r \in S \ ToSet(G), NEW i \in DOMAIN G
          PROVE  actionTime[r] <= actionTime[G[i]]
        <3>1. r \in rest
            BY <2>5
        <3>2. CASE i = Len(F) + 1
            BY <2>2, <2>6, <3>1, <3>2
        <3>3. CASE i # Len(F) + 1
            <4>1. i \in 1 .. Len(F) /\ G[i] = F[i]
                BY <2>6, <3>3
            <4> QED
                BY <2>6, <3>1, <4>1 DEF InOrder
        <3> QED
            BY <3>2, <3>3
    <2>10. InOrder(G, S)
        BY <2>5, <2>8, <2>9 DEF InOrder
    <2> QED
        BY <1>2, <2>3, <2>5, <2>10
<1> QED
    BY <1>1, <1>2

\* The twysts of S that acted last: in order, at most n, and all of them if
\* they are less.
LEMMA LatestFacts ==
    ASSUME actionTime \in [Twysts -> Nat], NEW S \in SUBSET Twysts, NEW n \in Nat
    PROVE  /\ InOrder(Latest(S, n), S)
           /\ Len(Latest(S, n)) <= n
           /\ Len(Latest(S, n)) < n => ToSet(Latest(S, n)) = S
<1> DEFINE X == {F \in Seq(S) : InOrder(F, S)}
           step == [q \in (1 .. n) \X X |-> NextLatest(q[2], S)]
           Loop(f) == f = [k \in 0 .. n |-> LatestTurn(S, f, k)]
           first == CHOOSE f : Loop(f)
<1>1. \A F \in X : NextLatest(F, S) \in X
    BY NextInOrder DEF InOrder
<1>2. step \in [(1 .. n) \X X -> X]
    BY <1>1
<1>3. <<>> \in X
    BY DEF InOrder
<1>4. PICK f : LoopOver(f, X, <<>>, n, step)
    <2> HIDE DEF X, step
    <2>1. \E f : LoopOver(f, X, <<>>, n, step)
        BY <1>2, <1>3, LoopExists
    <2> QED
        BY <2>1
<1>5. /\ f \in [0 .. n -> X]
      /\ \A k \in 0 .. n : f[k] = IF k = 0 THEN <<>> ELSE step[<<k, f[k - 1]>>]
    BY <1>4 DEF LoopOver
<1>6. \A k \in 0 .. n : f[k] \in X
    BY <1>5
<1>7. ASSUME NEW k \in 0 .. n
      PROVE  f[k] = LatestTurn(S, f, k)
    <2>1. CASE k = 0
        BY <1>5, <2>1 DEF LatestTurn
    <2>2. CASE k # 0
        <3>1. k \in 1 .. n /\ k - 1 \in 0 .. n
            BY <2>2
        <3>2. f[k - 1] \in X
            BY <1>6, <3>1
        <3>3. step[<<k, f[k - 1]>>] = NextLatest(f[k - 1], S)
            BY <3>1, <3>2
        <3> QED
            BY <1>5, <2>2, <3>3 DEF LatestTurn
    <2> QED
        BY <2>1, <2>2
<1>8. Loop(f)
    <2> HIDE DEF X
    <2> QED
        BY <1>5, <1>7
<1>9. Loop(first)
    <2> HIDE DEF Loop
    <2> QED
        BY <1>8
<1>10. Latest(S, n) = first[n]
    BY DEF Latest, LatestTurn, NextLatest
<1> HIDE DEF step, first
<1> DEFINE T == {k \in Nat : k <= n =>
                   /\ InOrder(first[k], S)
                   /\ Len(first[k]) <= k
                   /\ Len(first[k]) < k => ToSet(first[k]) = S}
<1>11. 0 \in T
    <2>1. first[0] = <<>>
        BY <1>9 DEF LatestTurn
    <2> QED
        BY <1>3, <2>1
<1>12. ASSUME NEW k \in T
       PROVE  k + 1 \in T
    <2> SUFFICES ASSUME k + 1 <= n
                 PROVE  /\ InOrder(first[k + 1], S)
                        /\ Len(first[k + 1]) <= k + 1
                        /\ Len(first[k + 1]) < k + 1 => ToSet(first[k + 1]) = S
        OBVIOUS
    <2>1. /\ InOrder(first[k], S) /\ Len(first[k]) <= k
          /\ Len(first[k]) < k => ToSet(first[k]) = S
        OBVIOUS
    <2>2. k + 1 \in 0 .. n /\ k + 1 # 0 /\ (k + 1) - 1 = k
        OBVIOUS
    <2>3. first[k + 1] = NextLatest(first[k], S)
        <3>1. first[k + 1] = LatestTurn(S, first, k + 1)
            BY <1>9, <2>2
        <3> QED
            BY <2>2, <3>1 DEF LatestTurn
    <2>4. /\ InOrder(first[k + 1], S)
          /\ S \ ToSet(first[k]) = {} => first[k + 1] = first[k]
          /\ S \ ToSet(first[k]) # {} => Len(first[k + 1]) = Len(first[k]) + 1
        BY <2>1, <2>3, NextInOrder
    <2>5. /\ first[k] \in Seq(S) /\ Len(first[k]) \in Nat
          /\ ToSet(first[k]) \subseteq S
        BY <2>1, Elements DEF InOrder
    <2>6. CASE S \ ToSet(first[k]) = {}
        <3>1. first[k + 1] = first[k] /\ ToSet(first[k]) = S
            BY <2>4, <2>5, <2>6
        <3> QED
            BY <2>1, <2>5, <3>1
    <2>7. CASE S \ ToSet(first[k]) # {}
        <3>1. ~(Len(first[k]) < k)
            BY <2>1, <2>5, <2>7
        <3> QED
            BY <2>1, <2>4, <2>5, <2>7, <3>1
    <2> QED
        BY <2>6, <2>7
<1>13. n \in T
    <2>1. T \in SUBSET Nat
        OBVIOUS
    <2> HIDE DEF T
    <2> QED
        BY <1>11, <1>12, <2>1, SetInduction
<1> QED
    BY <1>10, <1>13

-----------------------------------------------------------------------------
(* Types, and what is in the lists and on the pages                        *)

\* The server's clock runs ahead of the twysts that are complete, no two of
\* them acted at once, and what a notification says has happened.
ServerInv ==
    /\ \A t \in Twysts : status[t] = "complete" =>
          0 < actionTime[t] /\ actionTime[t] <= clock
    /\ \A s, t \in Twysts :
          status[s] = "complete" /\ status[t] = "complete"
          /\ actionTime[s] = actionTime[t] => s = t
    /\ \A n \in ToSet(notices) :
          /\ status[n.twyst] # "draft"
          /\ n.kind = "delete" => status[n.twyst] = "deleted"

\* The entries of a list belong there.
EntriesInv ==
    \A tab \in Tabs : \A t \in ToSet(list[tab]) :
        TabOf[t] = tab /\ status[t] # "draft"

\* What a page brings, and that pages are for lists that exist.
PageGood(p) ==
    /\ p.tab \in opened
    /\ p.phase # "answered" => p.items = <<>>
    /\ \A t \in ToSet(p.items) :
          /\ TabOf[t] = p.tab /\ status[t] # "draft"
          /\ p.lastTime <= actionTime[t] /\ 0 < p.lastTime

ItemsInv ==
    /\ \A i \in DOMAIN pages : PageGood(pages[i])
    /\ \A tab \in Tabs \ opened : cursor[tab] = 0 /\ ~allLoaded[tab]

FeedInv == TypeOK /\ ListIsSorted /\ ServerInv /\ EntriesInv /\ ItemsInv

\* The parts of the type invariant.
ServerType ==
    /\ feed \in Feeds
    /\ status \in [Twysts -> {"draft", "complete", "deleted"}]
    /\ actionTime \in [Twysts -> Nat]
    /\ clock \in 0 .. MaxTime
    /\ notices \in Seq(Notice)

PagesType == pages \in Seq(Page) /\ Len(pages) <= MaxPages

ArraysType ==
    /\ opened \in SUBSET Tabs
    /\ list \in [Tabs -> Seq(Twysts)]
    /\ \A tab \in Tabs \ opened : list[tab] = <<>>
    /\ cursor \in [Tabs -> Nat]
    /\ allLoaded \in [Tabs -> BOOLEAN]
    /\ loadFailed \in [Tabs -> BOOLEAN]
    /\ reloading \in BOOLEAN

TableType ==
    /\ rows \in [Tabs -> Nat \ {0}]
    /\ asked \in SUBSET Twysts
    /\ crashed \in BOOLEAN
    /\ hazards \in [Tabs -> SUBSET (ListHazards \cup TableHazards)]

\* The type invariant is its parts.
LEMMA TypeParts == TypeOK <=> ServerType /\ PagesType /\ ArraysType /\ TableType
BY DEF TypeOK, ServerType, PagesType, ArraysType, TableType

\* What the types say.
LEMMA TabFacts ==
    ASSUME feed \in Feeds
    PROVE  /\ TabOf \in [Twysts -> {"twysted", "private"}]
           /\ Tabs \subseteq {"twysted", "private"}
           /\ \A t \in Twysts : TabOf[t] \in Tabs /\ t \in Nat /\ t # 0
           /\ MaxTime \in Nat
           /\ feed.drafts \subseteq Twysts
           /\ \A t \in Twysts \ feed.drafts : t <= MaxTime
<1>1. /\ TabOf \in [Twysts -> {"twysted", "private"}] /\ MaxTime \in Nat
      /\ feed.drafts \subseteq Twysts
      /\ \A t \in Twysts \ feed.drafts : t <= MaxTime
    BY FeedsAssumption DEF TabOf, MaxTime
<1>2. \A t \in Twysts : TabOf[t] \in Tabs
    BY <1>1 DEF Tabs, Range
<1>3. Tabs \subseteq {"twysted", "private"}
    BY <1>1 DEF Tabs, Range
<1>4. \A t \in Twysts : t \in Nat /\ t # 0
    BY TwystsAssumption
<1> QED
    BY <1>1, <1>2, <1>3, <1>4

\* What the type says of a page request.
LEMMA PageFacts ==
    ASSUME PagesType, NEW i \in DOMAIN pages
    PROVE  /\ pages[i] \in Page /\ i \in 1 .. Len(pages) /\ Len(pages) \in Nat
           /\ pages[i].tab \in Tabs /\ pages[i].cursor \in Nat
           /\ pages[i].phase \in {"sent", "answered", "failed"}
           /\ pages[i].items \in Seq(Twysts) /\ pages[i].lastTime \in Nat
           /\ pages[i].cut \in BOOLEAN /\ pages[i].crossed \in BOOLEAN
           /\ pages[i].stale \in BOOLEAN
<1>1. pages[i] \in Page /\ i \in 1 .. Len(pages) /\ Len(pages) \in Nat
    BY DEF PagesType
<1> QED
    BY <1>1 DEF Page

\* Pages in the places of others.
LEMMA SamePlaces ==
    ASSUME PagesType, NEW g, \A i \in DOMAIN pages : g[i] \in Page,
           g = [i \in DOMAIN pages |-> g[i]]
    PROVE  g \in Seq(Page) /\ Len(g) = Len(pages) /\ DOMAIN g = DOMAIN pages
<1>1. DOMAIN pages = 1 .. Len(pages) /\ Len(pages) \in Nat
    BY DEF PagesType
<1>2. g \in [1 .. Len(pages) -> Page]
    BY <1>1
<1>3. g \in Seq(Page)
    BY <1>1, <1>2, SeqDef
<1> QED
    BY <1>1, <1>2, <1>3

\* A notification is told to the app.
LEMMA TellFacts ==
    ASSUME ServerType, NEW kind \in {"create", "reply", "didReply", "delete"},
           NEW t \in Twysts, Tell(kind, t)
    PROVE  /\ notices' \in Seq(Notice) /\ Len(notices') = Len(notices) + 1
           /\ ToSet(notices') =
                 ToSet(notices) \cup {[kind |-> kind, twyst |-> t]}
           /\ notices'[Len(notices) + 1] = [kind |-> kind, twyst |-> t]
           /\ \A i \in 1 .. Len(notices) : notices'[i] = notices[i]
<1> DEFINE n == [kind |-> kind, twyst |-> t]
<1>1. n \in Notice /\ notices \in Seq(Notice) /\ notices' = Append(notices, n)
    BY DEF Notice, ServerType, Tell
<1> HIDE DEF n
<1>2. /\ notices' \in Seq(Notice) /\ Len(notices') = Len(notices) + 1
      /\ ToSet(notices') = ToSet(notices) \cup {n}
    BY <1>1, AppendElements
<1>3. /\ notices'[Len(notices) + 1] = n
      /\ \A i \in 1 .. Len(notices) : notices'[i] = notices[i]
    BY <1>1
<1> QED
    BY <1>2, <1>3 DEF n

\* What a notification that is under way says.
LEMMA NoticeFacts ==
    ASSUME ServerType
    PROVE  /\ DOMAIN notices = 1 .. Len(notices) /\ Len(notices) \in Nat
           /\ \A i \in 1 .. Len(notices) :
                 /\ notices[i] \in Notice /\ notices[i] \in ToSet(notices)
                 /\ notices[i].twyst \in Twysts
           /\ \A n \in ToSet(notices) : n \in Notice /\ n.twyst \in Twysts
<1>1. notices \in Seq(Notice)
    BY DEF ServerType
<1>2. /\ DOMAIN notices = 1 .. Len(notices) /\ Len(notices) \in Nat
      /\ \A i \in 1 .. Len(notices) : notices[i] \in ToSet(notices)
      /\ ToSet(notices) \subseteq Notice
    BY <1>1, Elements
<1>3. \A n \in Notice : n.twyst \in Twysts
    BY DEF Notice
<1> QED
    BY <1>2, <1>3

\* The server's lists, arrays and tables are as they were.
RestUnchanged ==
    UNCHANGED <<feed, pages, tabVars, reloading, tableVars, asked, hazards>>

\* What a finalised twyst, one passed on and a reply have in common.
Acted(t) ==
    /\ status[t] # "deleted"
    /\ status' = [status EXCEPT ![t] = "complete"]
    /\ Acts(t)
    /\ \E kind \in {"create", "reply", "didReply"} : Tell(kind, t)
    /\ RestUnchanged

\* A twyst that is created or replied to has acted.
LEMMA ActedFacts ==
    ASSUME ServerType, NEW t \in Twysts, ServerCreates(t) \/ ServerReplies(t)
    PROVE  Acted(t)
<1>1. CASE ServerCreates(t)
    BY <1>1 DEF ServerCreates, Acted, RestUnchanged
<1>2. CASE ServerReplies(t)
    <2>1. status[t] = "complete" /\ status' = status
        BY <1>2 DEF ServerReplies
    <2>2. status' = [status EXCEPT ![t] = "complete"]
        BY <2>1 DEF ServerType
    <2> QED
        BY <1>2, <2>1, <2>2 DEF ServerReplies, Acted, RestUnchanged
<1> QED
    BY <1>1, <1>2

\* An action is the last one, and no other twyst is touched.
LEMMA ActedTime ==
    ASSUME ServerType, ServerInv, NEW t \in Twysts, Acted(t)
    PROVE  /\ actionTime' \in [Twysts -> Nat] /\ actionTime'[t] = clock + 1
           /\ clock' = clock + 1 /\ clock' \in 0 .. MaxTime /\ clock \in Nat
           /\ \A s \in Twysts : s # t => actionTime'[s] = actionTime[s]
           /\ \A s \in Twysts : status[s] # "draft" =>
                 actionTime[s] <= actionTime'[s]
           /\ status'[t] = "complete" /\ status[t] # "deleted"
           /\ \A s \in Twysts : s # t => status'[s] = status[s]
           /\ \A s \in Twysts : status[s] # "draft" => status'[s] # "draft"
           /\ \A s \in Twysts : status[s] = "deleted" <=> status'[s] = "deleted"
           /\ status' \in [Twysts -> {"draft", "complete", "deleted"}]
           /\ UNCHANGED <<feed, Tabs, TabOf, MaxTime>>
<1>1. /\ clock < MaxTime /\ clock' = clock + 1
      /\ actionTime' = [actionTime EXCEPT ![t] = clock + 1]
      /\ status' = [status EXCEPT ![t] = "complete"] /\ status[t] # "deleted"
      /\ feed' = feed
    BY DEF Acted, Acts, RestUnchanged
<1>2. clock \in Nat /\ MaxTime \in Nat /\ clock <= MaxTime
    BY TabFacts DEF ServerType
<1>3. /\ actionTime \in [Twysts -> Nat]
      /\ status \in [Twysts -> {"draft", "complete", "deleted"}]
    BY DEF ServerType
<1>4. /\ actionTime' \in [Twysts -> Nat] /\ actionTime'[t] = clock + 1
      /\ \A s \in Twysts : s # t => actionTime'[s] = actionTime[s]
    BY <1>1, <1>2, <1>3
<1>5. /\ status' \in [Twysts -> {"draft", "complete", "deleted"}]
      /\ status'[t] = "complete"
      /\ \A s \in Twysts : s # t => status'[s] = status[s]
    BY <1>1, <1>3
<1>6. \A s \in Twysts : status[s] # "draft" => actionTime[s] <= actionTime'[s]
    <2> TAKE s \in Twysts
    <2> HAVE status[s] # "draft"
    <2>1. CASE s = t
        <3>1. status[t] = "complete"
            BY <1>1, <1>3, <2>1
        <3>2. actionTime[t] <= clock /\ actionTime[t] \in Nat
            BY <1>3, <3>1 DEF ServerInv
        <3> QED
            BY <1>2, <1>4, <2>1, <3>2
    <2>2. CASE s # t
        <3>1. actionTime[s] \in Nat
            BY <1>3
        <3> QED
            BY <1>4, <2>2, <3>1
    <2> QED
        BY <2>1, <2>2
<1>7. UNCHANGED <<feed, Tabs, TabOf, MaxTime>>
    BY <1>1 DEF Tabs, TabOf, MaxTime
<1>8. clock' \in 0 .. MaxTime
    BY <1>1, <1>2
<1> QED
    BY <1>1, <1>2, <1>4, <1>5, <1>6, <1>7, <1>8

\* An action of a twyst keeps the invariant.
LEMMA ActedFeed ==
    ASSUME FeedInv, NEW t \in Twysts, Acted(t)
    PROVE  FeedInv'
<1> USE DEF FeedInv
<1>0. ServerType /\ PagesType /\ ArraysType /\ TableType
    BY TypeParts
<1>1. /\ actionTime' \in [Twysts -> Nat] /\ actionTime'[t] = clock + 1
      /\ clock' = clock + 1 /\ clock' \in 0 .. MaxTime /\ clock \in Nat
      /\ \A s \in Twysts : s # t => actionTime'[s] = actionTime[s]
      /\ \A s \in Twysts : status[s] # "draft" =>
            actionTime[s] <= actionTime'[s]
      /\ status'[t] = "complete" /\ status[t] # "deleted"
      /\ \A s \in Twysts : s # t => status'[s] = status[s]
      /\ \A s \in Twysts : status[s] # "draft" => status'[s] # "draft"
      /\ \A s \in Twysts : status[s] = "deleted" <=> status'[s] = "deleted"
      /\ status' \in [Twysts -> {"draft", "complete", "deleted"}]
      /\ UNCHANGED <<feed, Tabs, TabOf, MaxTime>>
    BY <1>0, ActedTime
<1>2. PICK kind \in {"create", "reply", "didReply"} : Tell(kind, t)
    BY DEF Acted
<1>3. /\ notices' \in Seq(Notice)
      /\ ToSet(notices') = ToSet(notices) \cup {[kind |-> kind, twyst |-> t]}
    BY <1>0, <1>2, TellFacts
<1>4. RestUnchanged
    BY DEF Acted
<1>5. TypeOK'
    <2>1. ServerType'
        BY <1>0, <1>1, <1>3 DEF ServerType
    <2>2. Page' = Page
        BY <1>1 DEF Page
    <2>3. PagesType' /\ ArraysType' /\ TableType'
        BY <1>0, <1>1, <1>4, <2>2
        DEF PagesType, ArraysType, TableType, RestUnchanged, tabVars, tableVars,
            ListHazards, TableHazards
    <2> QED
        BY <2>1, <2>3 DEF TypeOK, ServerType, PagesType, ArraysType, TableType
<1>6. ListIsSorted'
    BY <1>1, <1>4 DEF ListIsSorted, RestUnchanged, tabVars
<1>7. ServerInv'
    <2>1. \A s \in Twysts : actionTime[s] \in Nat
        BY <1>0 DEF ServerType
    <2>2. ASSUME NEW s \in Twysts, status'[s] = "complete"
          PROVE  /\ 0 < actionTime'[s] /\ actionTime'[s] <= clock'
                 /\ s # t => actionTime'[s] <= clock /\ actionTime'[s] \in Nat
        BY <1>1, <2>1, <2>2 DEF ServerInv
    <2>3. ASSUME NEW r \in Twysts, NEW s \in Twysts, status'[r] = "complete",
                 status'[s] = "complete", actionTime'[r] = actionTime'[s]
          PROVE  r = s
        <3>1. CASE r = t \/ s = t
            BY <1>1, <2>2, <2>3, <3>1
        <3>2. CASE r # t /\ s # t
            BY <1>1, <2>3, <3>2 DEF ServerInv
        <3> QED
            BY <3>1, <3>2
    <2>4. ASSUME NEW n \in ToSet(notices')
          PROVE  /\ status'[n.twyst] # "draft"
                 /\ n.kind = "delete" => status'[n.twyst] = "deleted"
        <3>1. CASE n \in ToSet(notices)
            <4>1. n.twyst \in Twysts
                BY <1>0, <3>1, NoticeFacts
            <4> QED
                BY <1>1, <3>1, <4>1 DEF ServerInv
        <3>2. CASE n = [kind |-> kind, twyst |-> t]
            BY <1>1, <1>2, <3>2
        <3> QED
            BY <1>3, <2>4, <3>1, <3>2
    <2>5. ToSet(notices)' = ToSet(notices')
        BY DEF ToSet
    <2> QED
        BY <2>2, <2>3, <2>4, <2>5 DEF ServerInv
<1>8. EntriesInv'
    <2>1. \A tab \in Tabs : ToSet(list[tab]) \subseteq Twysts
        <3>1. \A tab \in Tabs : list[tab] \in Seq(Twysts)
            BY <1>0 DEF ArraysType
        <3> QED
            BY <3>1, Elements
    <2> QED
        BY <1>1, <1>4, <2>1 DEF EntriesInv, RestUnchanged, tabVars
<1>9. ItemsInv'
    <2>1. \A i \in DOMAIN pages : ToSet(pages[i].items) \subseteq Twysts
        BY <1>0, PageFacts, Elements
    <2>2. ASSUME NEW i \in DOMAIN pages, NEW s \in ToSet(pages[i].items)
          PROVE  /\ TabOf[s] = pages[i].tab /\ status'[s] # "draft"
                 /\ pages[i].lastTime <= actionTime'[s] /\ 0 < pages[i].lastTime
        <3>1. s \in Twysts /\ pages[i].lastTime \in Nat
            BY <1>0, <2>1, PageFacts
        <3>2. /\ TabOf[s] = pages[i].tab /\ status[s] # "draft"
              /\ pages[i].lastTime <= actionTime[s] /\ 0 < pages[i].lastTime
            BY DEF ItemsInv, PageGood
        <3>3. actionTime[s] \in Nat /\ actionTime'[s] \in Nat
            BY <1>0, <1>1, <3>1 DEF ServerType
        <3> QED
            BY <1>1, <3>1, <3>2, <3>3
    <2> QED
        BY <1>1, <1>4, <2>2 DEF ItemsInv, PageGood, RestUnchanged, tabVars
<1> QED
    BY <1>5, <1>6, <1>7, <1>8, <1>9

\* So does a deletion on the server.
LEMMA DeletesFeed ==
    ASSUME FeedInv, NEW t \in Twysts, ServerDeletes(t)
    PROVE  FeedInv'
<1> USE DEF FeedInv
<1>0. ServerType /\ PagesType /\ ArraysType /\ TableType
    BY TypeParts
<1>1. /\ status[t] = "complete" /\ status' = [status EXCEPT ![t] = "deleted"]
      /\ Tell("delete", t) /\ RestUnchanged /\ UNCHANGED <<actionTime, clock>>
      /\ UNCHANGED <<feed, Tabs, TabOf, MaxTime>>
    BY DEF ServerDeletes, RestUnchanged, Tabs, TabOf, MaxTime
<1>2. /\ status' \in [Twysts -> {"draft", "complete", "deleted"}]
      /\ status'[t] = "deleted" /\ \A s \in Twysts : s # t => status'[s] = status[s]
    BY <1>0, <1>1 DEF ServerType
<1>3. /\ notices' \in Seq(Notice)
      /\ ToSet(notices') = ToSet(notices) \cup {[kind |-> "delete", twyst |-> t]}
    BY <1>0, <1>1, TellFacts
<1>5. TypeOK'
    <2>1. ServerType'
        BY <1>0, <1>1, <1>2, <1>3 DEF ServerType
    <2>2. Page' = Page
        BY <1>1 DEF Page
    <2>3. PagesType' /\ ArraysType' /\ TableType'
        BY <1>0, <1>1, <2>2
        DEF PagesType, ArraysType, TableType, RestUnchanged, tabVars, tableVars,
            ListHazards, TableHazards
    <2> QED
        BY <2>1, <2>3 DEF TypeOK, ServerType, PagesType, ArraysType, TableType
<1>6. ListIsSorted'
    BY <1>1 DEF ListIsSorted, RestUnchanged, tabVars
<1>7. ServerInv'
    <2>1. \A s \in Twysts : status'[s] = "complete" => status[s] = "complete"
        BY <1>2
    <2>2. ASSUME NEW n \in ToSet(notices')
          PROVE  /\ status'[n.twyst] # "draft"
                 /\ n.kind = "delete" => status'[n.twyst] = "deleted"
        <3>1. CASE n \in ToSet(notices)
            <4>1. n.twyst \in Twysts
                BY <1>0, <3>1, NoticeFacts
            <4> QED
                BY <1>2, <3>1, <4>1 DEF ServerInv
        <3>2. CASE n = [kind |-> "delete", twyst |-> t]
            BY <1>2, <3>2
        <3> QED
            BY <1>3, <2>2, <3>1, <3>2
    <2>3. ToSet(notices)' = ToSet(notices')
        BY DEF ToSet
    <2> QED
        BY <1>1, <2>1, <2>2, <2>3 DEF ServerInv
<1>8. \A s \in Twysts : status[s] # "draft" => status'[s] # "draft"
    BY <1>2
<1>9. EntriesInv'
    <2>1. \A tab \in Tabs : ToSet(list[tab]) \subseteq Twysts
        <3>1. \A tab \in Tabs : list[tab] \in Seq(Twysts)
            BY <1>0 DEF ArraysType
        <3> QED
            BY <3>1, Elements
    <2> QED
        BY <1>1, <1>8, <2>1 DEF EntriesInv, RestUnchanged, tabVars
<1>10. ItemsInv'
    <2>1. \A i \in DOMAIN pages : ToSet(pages[i].items) \subseteq Twysts
        BY <1>0, PageFacts, Elements
    <2> QED
        BY <1>1, <1>8, <2>1 DEF ItemsInv, PageGood, RestUnchanged, tabVars
<1> QED
    BY <1>5, <1>6, <1>7, <1>9, <1>10

\* The twysts of a tab that the server lists for sure.
Complete(tab) == {t \in Twysts : TabOf[t] = tab /\ status[t] = "complete"}

\* Where a twyst is that the server lists and that is not on a page: before
\* it or, if the page is full, after it.
Before(p, listed, t) ==
    IF p.tab = "twysted" THEN p.cursor # 0 /\ actionTime[t] >= p.cursor
    ELSE \E newest, k : /\ InOrder(newest, listed)
                        /\ k \in DOMAIN newest /\ k <= p.cursor
                        /\ newest[k] = t

\* What the server puts on a page, and where the rest is.
LEMMA FollowingFacts ==
    ASSUME ServerType, NEW p \in Page, NEW listed \in SUBSET Twysts
    PROVE  LET raw == Following(p, listed) IN
           /\ raw \in Seq(Twysts) /\ Len(raw) <= Bunch
           /\ ToSet(raw) \subseteq listed
           /\ \A t \in listed \ ToSet(raw) :
                 \/ Before(p, listed, t)
                 \/ /\ Len(raw) = Bunch
                    /\ \A r \in ToSet(raw) : actionTime[t] <= actionTime[r]
<1> DEFINE raw == Following(p, listed)
<1>0. /\ actionTime \in [Twysts -> Nat] /\ Bunch \in Nat /\ p.cursor \in Nat
      /\ \A t \in Twysts : actionTime[t] \in Nat
    BY BoundsAssumption DEF ServerType, Page
<1>1. CASE p.tab = "twysted"
    <2> DEFINE S == {t \in listed : p.cursor = 0 \/ actionTime[t] < p.cursor}
    <2>1. raw = Latest(S, Bunch)
        BY <1>1 DEF Following
    <2>2. S \in SUBSET Twysts /\ S \subseteq listed
        OBVIOUS
    <2>3. \A t \in listed \ S : Before(p, listed, t)
        BY <1>0, <1>1 DEF Before
    <2> HIDE DEF S, raw
    <2>4. /\ InOrder(raw, S) /\ Len(raw) <= Bunch
          /\ Len(raw) < Bunch => ToSet(raw) = S
        BY <1>0, <2>1, <2>2, LatestFacts
    <2>5. raw \in Seq(S)
        BY <2>4 DEF InOrder
    <2>6. /\ ToSet(raw) \subseteq S /\ Len(raw) \in Nat
          /\ \A r \in ToSet(raw) : \E i \in DOMAIN raw : raw[i] = r
        BY <2>5, Elements
    <2>7. raw \in Seq(Twysts)
        BY <2>2, <2>5
    <2>8. ASSUME NEW t \in S \ ToSet(raw)
          PROVE  /\ Len(raw) = Bunch
                 /\ \A r \in ToSet(raw) : actionTime[t] <= actionTime[r]
        <3>1. Len(raw) = Bunch
            BY <1>0, <2>4, <2>6
        <3>2. \A i \in DOMAIN raw : actionTime[t] <= actionTime[raw[i]]
            BY <2>4 DEF InOrder
        <3> QED
            BY <2>6, <3>1, <3>2
    <2> QED
        BY <2>2, <2>3, <2>4, <2>6, <2>7, <2>8 DEF raw
<1>2. CASE p.tab # "twysted"
    <2> DEFINE c == p.cursor
               newest == Latest(listed, c + Bunch)
               n == Len(newest)
    <2>1. raw = SubSeq(newest, c + 1, n)
        BY <1>2 DEF Following
    <2>2. c + Bunch \in Nat
        BY <1>0
    <2> HIDE DEF newest, raw
    <2>3. /\ InOrder(newest, listed) /\ n <= c + Bunch
          /\ n < c + Bunch => ToSet(newest) = listed
        BY <1>0, <2>2, LatestFacts DEF newest
    <2>4. newest \in Seq(listed)
        BY <2>3 DEF InOrder
    <2>5. /\ DOMAIN newest = 1 .. n /\ n \in Nat
          /\ \A i \in 1 .. n : newest[i] \in ToSet(newest)
          /\ \A x \in ToSet(newest) : \E i \in 1 .. n : newest[i] = x
        BY <2>4, Elements
    <2>6. /\ raw \in Seq(listed)
          /\ Len(raw) = IF c + 1 <= n THEN n - c ELSE 0
          /\ \A j \in 1 .. Len(raw) : raw[j] = newest[c + j]
        <3>1. c \in Nat /\ n \in Nat /\ c + 1 \in Int
            BY <1>0, <2>5
        <3>2. ASSUME NEW j \in c + 1 .. n
              PROVE  newest[j] \in listed
            BY <2>4, <2>5, <3>1
        <3> HIDE DEF c, n
        <3>3. SubSeq(newest, c + 1, n) = [j \in 1 .. (1 + n - (c + 1)) |->
                                             newest[(c + 1) + j - 1]]
            BY <2>4, <3>1
        <3> DEFINE m == IF c + 1 <= n THEN n - c ELSE 0
        <3>4. m \in Nat /\ 1 .. (1 + n - (c + 1)) = 1 .. m
            BY <3>1
        <3>5. \A j \in 1 .. m : (c + 1) + j - 1 = c + j /\ c + j \in c + 1 .. n
            BY <3>1, <3>4
        <3>6. raw = [j \in 1 .. m |-> newest[c + j]]
            BY <2>1, <3>3, <3>4, <3>5 DEF n
        <3>7. \A j \in 1 .. m : newest[c + j] \in listed
            BY <3>2, <3>5
        <3> HIDE DEF m
        <3>8. raw \in Seq(listed) /\ Len(raw) = m
            BY <3>4, <3>6, <3>7
        <3> QED
            BY <3>6, <3>8 DEF m
    <2>7. /\ ToSet(raw) \subseteq listed /\ Len(raw) \in Nat
          /\ DOMAIN raw = 1 .. Len(raw)
          /\ \A r \in ToSet(raw) : \E j \in 1 .. Len(raw) : raw[j] = r
        BY <2>6, Elements
    <2>8. raw \in Seq(Twysts)
        BY <2>6
    <2>9. \A j \in 1 .. Len(raw) : c + j \in 1 .. n
        BY <1>0, <2>5, <2>6
    <2>10. Len(raw) <= Bunch
        BY <1>0, <2>3, <2>5, <2>6
    <2>11. ASSUME NEW t \in listed \ ToSet(raw)
           PROVE  \/ Before(p, listed, t)
                  \/ /\ Len(raw) = Bunch
                     /\ \A r \in ToSet(raw) : actionTime[t] <= actionTime[r]
        <3>1. CASE t \in ToSet(newest)
            <4>1. PICK k \in 1 .. n : newest[k] = t
                BY <2>5, <3>1
            <4>2. k <= c
                <5> SUFFICES ASSUME k > c
                             PROVE  FALSE
                    BY <1>0, <2>5
                <5>1. k - c \in 1 .. Len(raw) /\ c + (k - c) = k
                    BY <1>0, <2>5, <2>6
                <5>2. raw[k - c] = t
                    BY <2>6, <4>1, <5>1
                <5> QED
                    BY <2>7, <5>1, <5>2 DEF ToSet
            <4> QED
                BY <1>2, <2>3, <2>5, <4>1, <4>2 DEF Before
        <3>2. CASE t \notin ToSet(newest)
            <4>1. n = c + Bunch
                BY <1>0, <2>3, <2>5, <3>2
            <4>2. Len(raw) = Bunch
                BY <1>0, <2>6, <4>1, BoundsAssumption
            <4>3. ASSUME NEW r \in ToSet(raw)
                  PROVE  actionTime[t] <= actionTime[r]
                <5>1. PICK j \in 1 .. Len(raw) : raw[j] = r
                    BY <2>7
                <5>2. c + j \in DOMAIN newest /\ newest[c + j] = r
                    BY <2>5, <2>6, <2>9, <5>1
                <5> QED
                    BY <2>3, <3>2, <5>2 DEF InOrder
            <4> QED
                BY <4>2, <4>3
        <3> QED
            BY <3>1, <3>2
    <2> QED
        BY <2>7, <2>8, <2>10, <2>11 DEF raw
<1> QED
    BY <1>1, <1>2

\* The page p with its answer.
Answered(p, raw, items) ==
    [p EXCEPT !.phase = "answered", !.items = items,
              !.lastTime = IF items = <<>> THEN 0 ELSE actionTime[Last(items)],
              !.cut = Len(items) < Bunch /\ Len(raw) = Bunch]

\* The answer to a request, by its parts.
LEMMA AnswerIs ==
    ASSUME ServerType, PagesType, NEW i \in DOMAIN pages, ServerAnswers(i)
    PROVE  \E listed \in SUBSET Twysts :
              LET p == pages[i]
                  raw == Following(p, listed)
                  items == Latest(ToSet(raw) \cap Complete(p.tab), Bunch)
              IN  /\ p.phase = "sent"
                  /\ Complete(p.tab) \subseteq listed
                  /\ pages' = [pages EXCEPT ![i] = Answered(p, raw, items)]
                  /\ UNCHANGED <<serverVars, notices, tabVars, reloading,
                                 tableVars, asked, hazards>>
<1> DEFINE p == pages[i]
           complete == {t \in Twysts : TabOf[t] = p.tab /\ status[t] = "complete"}
           Next2(others) ==
              LET raw == Following(p, complete \cup others)
                  items == Latest(ToSet(raw) \cap complete, Bunch)
              IN pages' = [pages EXCEPT ![i] =
                    [p EXCEPT !.phase = "answered", !.items = items,
                              !.lastTime = IF items = <<>> THEN 0
                                           ELSE actionTime[Last(items)],
                              !.cut = Len(items) < Bunch /\ Len(raw) = Bunch]]
<1>1. PICK others \in SUBSET ({t \in Twysts : TabOf[t] = p.tab} \ complete) :
         Next2(others)
    BY DEF ServerAnswers
<1> DEFINE listed == complete \cup others
<1>2. listed \in SUBSET Twysts /\ complete \subseteq listed
    OBVIOUS
<1>3. complete = Complete(p.tab)
    BY DEF Complete
<1>4. /\ p.phase = "sent"
      /\ UNCHANGED <<serverVars, notices, tabVars, reloading, tableVars, asked,
                     hazards>>
    BY DEF ServerAnswers
<1> DEFINE raw == Following(p, listed)
           items == Latest(ToSet(raw) \cap complete, Bunch)
<1>5. pages' = [pages EXCEPT ![i] = Answered(p, raw, items)]
    BY <1>1 DEF Answered
<1> HIDE DEF complete
<1> QED
    BY <1>2, <1>3, <1>4, <1>5

\* What the page brings then.
LEMMA AnsweredFacts ==
    ASSUME ServerType, ServerInv, NEW p \in Page, NEW raw \in Seq(Twysts)
    PROVE  LET S == ToSet(raw) \cap Complete(p.tab)
               items == Latest(S, Bunch)
               a == Answered(p, raw, items)
           IN  /\ a \in Page /\ a.tab = p.tab /\ a.phase = "answered"
               /\ a.items = items /\ a.cursor = p.cursor /\ a.stale = p.stale
               /\ a.crossed = p.crossed
               /\ a.cut = (Len(items) < Bunch /\ Len(raw) = Bunch)
               /\ items \in Seq(Twysts) /\ ToSet(items) \subseteq S
               /\ Len(items) <= Bunch /\ Len(items) \in Nat
               /\ Len(items) < Bunch => ToSet(items) = S
               /\ \A t \in S \ ToSet(items) : actionTime[t] <= a.lastTime
               /\ items # <<>> => \E t \in ToSet(items) : a.lastTime = actionTime[t]
               /\ \A t \in ToSet(items) : a.lastTime <= actionTime[t]
                                          /\ 0 < a.lastTime
<1> DEFINE S == ToSet(raw) \cap Complete(p.tab)
           items == Latest(S, Bunch)
           a == Answered(p, raw, items)
           last == IF items = <<>> THEN 0 ELSE actionTime[Last(items)]
<1>0. /\ actionTime \in [Twysts -> Nat] /\ Bunch \in Nat
      /\ \A t \in Twysts : actionTime[t] \in Nat
    BY BoundsAssumption DEF ServerType
<1>1. S \in SUBSET Twysts
    BY DEF Complete
<1>2. /\ InOrder(items, S) /\ Len(items) <= Bunch
      /\ Len(items) < Bunch => ToSet(items) = S
    <2> HIDE DEF S
    <2> QED
        BY <1>0, <1>1, LatestFacts
<1>3. \A t \in S : 0 < actionTime[t]
    BY DEF Complete, ServerInv
<1> HIDE DEF items, S
<1>4. items \in Seq(S)
    BY <1>2 DEF InOrder
<1>5. /\ ToSet(items) \subseteq S /\ Len(items) \in Nat
      /\ DOMAIN items = 1 .. Len(items)
      /\ \A t \in ToSet(items) : \E j \in 1 .. Len(items) : items[j] = t
      /\ \A j \in 1 .. Len(items) : items[j] \in ToSet(items)
      /\ Len(items) = 0 <=> items = <<>>
      /\ Len(items) = 0 => ToSet(items) = {}
    BY <1>4, Elements
<1>6. items \in Seq(Twysts)
    BY <1>1, <1>4
<1>7. last \in Nat
    <2>1. CASE items = <<>>
        BY <2>1
    <2>2. CASE items # <<>>
        <3>1. Len(items) \in 1 .. Len(items)
            BY <1>5, <2>2
        <3>2. Last(items) \in Twysts
            BY <1>1, <1>5, <3>1 DEF Last
        <3> QED
            BY <1>0, <2>2, <3>2
    <2> QED
        BY <2>1, <2>2
<1>8. /\ a \in Page /\ a.tab = p.tab /\ a.phase = "answered"
      /\ a.items = items /\ a.cursor = p.cursor /\ a.stale = p.stale
      /\ a.crossed = p.crossed /\ a.lastTime = last
      /\ a.cut = (Len(items) < Bunch /\ Len(raw) = Bunch)
    <2>1. (Len(items) < Bunch /\ Len(raw) = Bunch) \in BOOLEAN
        OBVIOUS
    <2> HIDE DEF last
    <2>2. a = [p EXCEPT !.phase = "answered", !.items = items,
                        !.lastTime = last,
                        !.cut = Len(items) < Bunch /\ Len(raw) = Bunch]
        BY DEF Answered, last
    <2> QED
        BY <1>6, <1>7, <2>1, <2>2 DEF Page
<1>9. ASSUME items # <<>>
      PROVE  /\ \E t \in ToSet(items) : last = actionTime[t]
             /\ 0 < last
             /\ \A t \in ToSet(items) : last <= actionTime[t]
             /\ \A t \in S \ ToSet(items) : actionTime[t] <= last
    <2>1. Len(items) \in 1 .. Len(items) /\ last = actionTime[items[Len(items)]]
        BY <1>5, <1>9 DEF Last
    <2>2. items[Len(items)] \in ToSet(items)
        BY <1>5, <2>1
    <2>3. 0 < last
        BY <1>3, <1>5, <2>1, <2>2
    <2>4. ASSUME NEW t \in ToSet(items)
          PROVE  last <= actionTime[t]
        <3>1. PICK j \in 1 .. Len(items) : items[j] = t
            BY <1>5
        <3>2. CASE j = Len(items)
            BY <1>7, <2>1, <3>1, <3>2
        <3>3. CASE j # Len(items)
            <4>1. j < Len(items)
                <5>1. Len(items) \in Nat
                    BY <1>5
                <5> QED
                    BY <3>3, <5>1
            <4> QED
                BY <1>2, <1>5, <2>1, <3>1, <4>1 DEF InOrder
        <3> QED
            BY <3>2, <3>3
    <2>5. \A t \in S \ ToSet(items) : actionTime[t] <= last
        BY <1>2, <1>5, <2>1 DEF InOrder
    <2> QED
        BY <2>1, <2>2, <2>3, <2>4, <2>5
<1>10. items = <<>> => ToSet(items) = S
    BY <1>0, <1>2, <1>5, BoundsAssumption
<1>11. items = <<>> => ToSet(items) = {}
    BY <1>5
<1> HIDE DEF last
<1> QED
    BY <1>2, <1>5, <1>6, <1>8, <1>9, <1>10, <1>11 DEF items, S

\* The server and the notifications are as they were.
SameServer == UNCHANGED <<serverVars, notices>>

\* What a step of the app leaves alone.
LEMMA SameServerFacts ==
    ASSUME SameServer
    PROVE  /\ UNCHANGED <<feed, status, actionTime, clock, notices, TabOf, Tabs,
                          MaxTime, Page, ToSet(notices)>>
           /\ ServerType => ServerType'
           /\ ServerInv => ServerInv'
<1>1. UNCHANGED <<feed, status, actionTime, clock, notices>>
    BY DEF SameServer, serverVars
<1>2. UNCHANGED <<TabOf, Tabs, MaxTime>>
    BY <1>1 DEF TabOf, Tabs, MaxTime
<1>3. UNCHANGED Page
    BY <1>2 DEF Page
<1>4. ToSet(notices)' = ToSet(notices)
    BY <1>1 DEF ToSet
<1> QED
    BY <1>1, <1>2, <1>3, <1>4 DEF ServerType, ServerInv

\* The parts of the type invariant make it up.
LEMMA TypeJoin ==
    ASSUME ServerType', PagesType', ArraysType', TableType'
    PROVE  TypeOK'
BY DEF TypeOK, ServerType, PagesType, ArraysType, TableType

\* A table has at least one row.
LEMMA RowsTyped ==
    ASSUME ArraysType', NEW tab \in Tabs'
    PROVE  NumberOfRows(tab)' \in Nat \ {0}
<1>1. list'[tab] \in Seq(Twysts)
    BY DEF ArraysType
<1>2. Len(list'[tab]) \in Nat /\ (Len(list'[tab]) = 0 <=> list'[tab] = <<>>)
    BY <1>1, Elements
<1> QED
    BY <1>2 DEF NumberOfRows

\* A table that is reloaded has the rows that it asks for.
LEMMA ReloadedTyped ==
    ASSUME ArraysType', TableType, NEW tab \in Tabs, Tabs' = Tabs, Reloaded(tab)
    PROVE  /\ rows' \in [Tabs -> Nat \ {0}] /\ rows'[tab] = NumberOfRows(tab)'
           /\ \A s \in Tabs : s # tab => rows'[s] = rows[s]
<1>1. NumberOfRows(tab)' \in Nat \ {0}
    BY RowsTyped
<1>2. rows \in [Tabs -> Nat \ {0}] /\ rows' = [rows EXCEPT ![tab] = NumberOfRows(tab)']
    BY DEF TableType, Reloaded
<1> QED
    BY <1>1, <1>2

\* One page is replaced by another ...
LEMMA PageReplaced ==
    ASSUME PagesType, NEW i \in DOMAIN pages, NEW q \in Page, Page' = Page,
           pages' = [pages EXCEPT ![i] = q]
    PROVE  /\ PagesType' /\ DOMAIN pages' = DOMAIN pages
           /\ \A k \in DOMAIN pages : pages'[k] = IF k = i THEN q ELSE pages[k]
BY DEF PagesType

\* ... or is gone.
LEMMA PageGone ==
    ASSUME PagesType, NEW i \in DOMAIN pages, Page' = Page,
           pages' = RemoveAt(pages, i)
    PROVE  /\ PagesType'
           /\ \A k \in DOMAIN pages' : \E m \in DOMAIN pages :
                 m # i /\ pages'[k] = pages[m] /\ m = IF k < i THEN k ELSE k + 1
<1>1. /\ DOMAIN pages = 1 .. Len(pages) /\ Len(pages) \in Nat
      /\ MaxPages \in Nat /\ i \in 1 .. Len(pages)
    BY BoundsAssumption DEF PagesType
<1>2. /\ pages' \in Seq(Page) /\ Len(pages') = Len(pages) - 1
      /\ \A j \in 1 .. Len(pages) - 1 :
            pages'[j] = IF j < i THEN pages[j] ELSE pages[j + 1]
    BY RemoveAtValue DEF PagesType
<1>3. DOMAIN pages' = 1 .. Len(pages) - 1
    BY <1>2
<1>4. ASSUME NEW k \in 1 .. Len(pages) - 1
      PROVE  \E m \in 1 .. Len(pages) :
                 m # i /\ pages'[k] = pages[m] /\ m = IF k < i THEN k ELSE k + 1
    <2>1. CASE k < i
        BY <1>1, <1>2, <2>1
    <2>2. CASE ~(k < i)
        <3>1. k + 1 \in 1 .. Len(pages) /\ k + 1 # i
            BY <1>1, <2>2
        <3> QED
            BY <1>2, <2>2, <3>1
    <2> QED
        BY <2>1, <2>2
<1>5. PagesType'
    BY <1>1, <1>2 DEF PagesType
<1> QED
    BY <1>1, <1>3, <1>4, <1>5

\* A request that was just sent.
LEMMA NewPageFacts ==
    ASSUME NEW tab \in Tabs, NEW c \in Nat
    PROVE  LET n == NewPage(tab, c) IN
           /\ n \in Page /\ n.tab = tab /\ n.cursor = c /\ n.phase = "sent"
           /\ n.items = <<>> /\ n.stale = FALSE
BY DEF NewPage, Page

\* The pages under way when their list is pulled.
LEMMA StaleFacts ==
    ASSUME PagesType, NEW tab
    PROVE  /\ Stale(tab) \in Seq(Page) /\ Len(Stale(tab)) = Len(pages)
           /\ \A i \in DOMAIN pages :
                 LET p == pages[i]
                     q == Stale(tab)[i]
                 IN  /\ q.tab = p.tab /\ q.cursor = p.cursor
                     /\ q.phase = p.phase /\ q.items = p.items
                     /\ q.lastTime = p.lastTime /\ q.cut = p.cut
                     /\ q.crossed = p.crossed
                     /\ q.stale = (p.stale \/ p.tab = tab)
<1>1. ASSUME NEW i \in DOMAIN pages
      PROVE  LET p == pages[i]
                 q == Stale(tab)[i]
             IN  /\ q \in Page
                 /\ q.tab = p.tab /\ q.cursor = p.cursor
                 /\ q.phase = p.phase /\ q.items = p.items
                 /\ q.lastTime = p.lastTime /\ q.cut = p.cut
                 /\ q.crossed = p.crossed
                 /\ q.stale = (p.stale \/ p.tab = tab)
    <2> DEFINE p == pages[i]
    <2>1. p \in Page
        BY PageFacts
    <2>2. Stale(tab)[i] = [p EXCEPT !.stale = p.stale \/ p.tab = tab]
        BY DEF Stale
    <2> HIDE DEF p
    <2> DEFINE s == p.stale \/ p.tab = tab
    <2>3. s \in BOOLEAN
        OBVIOUS
    <2> HIDE DEF s
    <2>4. Stale(tab)[i] = [p EXCEPT !.stale = s]
        BY <2>2 DEF s
    <2>5. LET q == Stale(tab)[i]
          IN  /\ q \in Page
              /\ q.tab = p.tab /\ q.cursor = p.cursor
              /\ q.phase = p.phase /\ q.items = p.items
              /\ q.lastTime = p.lastTime /\ q.cut = p.cut
              /\ q.crossed = p.crossed /\ q.stale = s
        BY <2>1, <2>3, <2>4 DEF Page
    <2> QED
        BY <2>5 DEF s, p
<1>2. Stale(tab) = [i \in DOMAIN pages |-> Stale(tab)[i]]
    BY DEF Stale
<1>3. Stale(tab) \in Seq(Page) /\ Len(Stale(tab)) = Len(pages)
    <2> DEFINE g == Stale(tab)
    <2>1. \A i \in DOMAIN pages : g[i] \in Page
        BY <1>1
    <2>2. g = [i \in DOMAIN pages |-> g[i]]
        BY <1>2
    <2> HIDE DEF g
    <2>3. g \in Seq(Page) /\ Len(g) = Len(pages)
        BY <2>1, <2>2, SamePlaces
    <2> QED
        BY <2>3 DEF g
<1> QED
    BY <1>1, <1>3

\* The answered pages of a list are marked, and nothing else changes.
LEMMA CrossedFacts ==
    ASSUME PagesType, NEW tab
    PROVE  /\ Crossed(tab) \in Seq(Page) /\ Len(Crossed(tab)) = Len(pages)
           /\ DOMAIN Crossed(tab) = DOMAIN pages
           /\ \A i \in DOMAIN pages :
                 LET p == pages[i]
                     q == Crossed(tab)[i]
                 IN  /\ q.tab = p.tab /\ q.cursor = p.cursor
                     /\ q.phase = p.phase /\ q.items = p.items
                     /\ q.lastTime = p.lastTime /\ q.cut = p.cut
                     /\ q.stale = p.stale
                     /\ q.crossed = (p.crossed \/ (p.tab = tab /\ p.phase = "answered"))
<1>1. ASSUME NEW i \in DOMAIN pages
      PROVE  LET p == pages[i]
                 q == Crossed(tab)[i]
             IN  /\ q \in Page
                 /\ q.tab = p.tab /\ q.cursor = p.cursor
                 /\ q.phase = p.phase /\ q.items = p.items
                 /\ q.lastTime = p.lastTime /\ q.cut = p.cut
                 /\ q.stale = p.stale
                 /\ q.crossed = (p.crossed \/ (p.tab = tab /\ p.phase = "answered"))
    <2> DEFINE p == pages[i]
               q == Crossed(tab)[i]
    <2>1. p \in Page
        BY PageFacts
    <2>2. q = IF p.tab = tab /\ p.phase = "answered"
              THEN [p EXCEPT !.crossed = TRUE] ELSE p
        BY DEF Crossed
    <2> HIDE DEF p, q
    <2>3. /\ q \in Page
          /\ q.tab = p.tab /\ q.cursor = p.cursor
          /\ q.phase = p.phase /\ q.items = p.items
          /\ q.lastTime = p.lastTime /\ q.cut = p.cut
          /\ q.stale = p.stale
        BY <2>1, <2>2 DEF Page
    <2>4. q.crossed = (p.crossed \/ (p.tab = tab /\ p.phase = "answered"))
        <3>1. CASE p.tab = tab /\ p.phase = "answered"
            BY <2>1, <2>2, <3>1 DEF Page
        <3>2. CASE ~(p.tab = tab /\ p.phase = "answered")
            <4>1. q = p /\ p.crossed \in BOOLEAN
                BY <2>1, <2>2, <3>2 DEF Page
            <4> QED
                BY <3>2, <4>1
        <3> QED
            BY <3>1, <3>2
    <2> QED
        BY <2>3, <2>4 DEF p, q
<1>2. Crossed(tab) = [i \in DOMAIN pages |-> Crossed(tab)[i]]
    BY DEF Crossed
<1>3. /\ Crossed(tab) \in Seq(Page) /\ Len(Crossed(tab)) = Len(pages)
      /\ DOMAIN Crossed(tab) = DOMAIN pages
    <2> DEFINE g == Crossed(tab)
    <2>1. \A i \in DOMAIN pages : g[i] \in Page
        BY <1>1
    <2>2. g = [i \in DOMAIN pages |-> g[i]]
        BY <1>2
    <2> HIDE DEF g
    <2>3. g \in Seq(Page) /\ Len(g) = Len(pages) /\ DOMAIN g = DOMAIN pages
        BY <2>1, <2>2, SamePlaces
    <2> QED
        BY <2>3 DEF g
<1> QED
    BY <1>1, <1>3

\* The invariant gives the types.
LEMMA FeedParts ==
    FeedInv => ServerType /\ PagesType /\ ArraysType /\ TableType
BY TypeParts DEF FeedInv

\* Lists that are as they were stay sorted, with the same entries.
LEMMA SameLists ==
    ASSUME SameServer, list' = list
    PROVE  /\ ListIsSorted => ListIsSorted'
           /\ EntriesInv => EntriesInv'
<1>1. UNCHANGED <<feed, status, actionTime, clock, notices, TabOf, Tabs,
                  MaxTime, Page, ToSet(notices)>>
    BY SameServerFacts
<1> QED
    BY <1>1 DEF ListIsSorted, EntriesInv

\* The pages that are left are good if the old ones were and the new one is.
LEMMA PagesKept ==
    ASSUME SameServer, opened' = opened, cursor' = cursor,
           allLoaded' = allLoaded, ItemsInv,
           \A k \in DOMAIN pages' :
              \/ \E m \in DOMAIN pages :
                    /\ pages'[k].tab = pages[m].tab
                    /\ pages'[k].phase = pages[m].phase
                    /\ pages'[k].items = pages[m].items
                    /\ pages'[k].lastTime = pages[m].lastTime
              \/ /\ pages'[k].tab \in opened
                 /\ pages'[k].phase # "answered" => pages'[k].items = <<>>
                 /\ \A t \in ToSet(pages'[k].items) :
                       /\ TabOf[t] = pages'[k].tab /\ status[t] # "draft"
                       /\ pages'[k].lastTime <= actionTime[t]
                       /\ 0 < pages'[k].lastTime
    PROVE  ItemsInv'
<1>1. UNCHANGED <<feed, status, actionTime, clock, notices, TabOf, Tabs,
                  MaxTime, Page, ToSet(notices)>>
    BY SameServerFacts
<1> QED
    BY <1>1 DEF ItemsInv, PageGood

\* An answer of the server keeps the invariant.
LEMMA AnswersFeed ==
    ASSUME FeedInv, NEW i \in DOMAIN pages, ServerAnswers(i)
    PROVE  FeedInv'
<1>0. ServerType /\ PagesType /\ ArraysType /\ TableType
    BY FeedParts
<1>1. ListIsSorted /\ ServerInv /\ EntriesInv /\ ItemsInv
    BY DEF FeedInv
<1>2. PICK listed \in SUBSET Twysts :
         LET p == pages[i]
             raw == Following(p, listed)
             items == Latest(ToSet(raw) \cap Complete(p.tab), Bunch)
         IN  /\ p.phase = "sent"
             /\ Complete(p.tab) \subseteq listed
             /\ pages' = [pages EXCEPT ![i] = Answered(p, raw, items)]
             /\ UNCHANGED <<serverVars, notices, tabVars, reloading,
                            tableVars, asked, hazards>>
    BY <1>0, AnswerIs
<1> DEFINE p == pages[i]
           raw == Following(p, listed)
           S == ToSet(raw) \cap Complete(p.tab)
           items == Latest(S, Bunch)
           a == Answered(p, raw, items)
<1>3. SameServer
    BY <1>2 DEF SameServer
<1>4. UNCHANGED <<opened, list, cursor, allLoaded, loadFailed, reloading, rows,
                  crashed, asked, hazards>>
    BY <1>2 DEF tabVars, tableVars
<1>5. p \in Page
    BY <1>0, PageFacts
<1>6. raw \in Seq(Twysts)
    BY <1>0, <1>5, FollowingFacts
<1> HIDE DEF p, raw
<1>7. /\ a \in Page /\ a.tab = p.tab /\ a.phase = "answered" /\ a.items = items
      /\ ToSet(items) \subseteq S
      /\ \A t \in ToSet(items) : a.lastTime <= actionTime[t] /\ 0 < a.lastTime
    BY <1>0, <1>1, <1>5, <1>6, AnsweredFacts
<1>8. pages' = [pages EXCEPT ![i] = a]
    BY <1>2 DEF p, raw
<1> HIDE DEF a, items
<1>9. UNCHANGED <<feed, status, actionTime, clock, notices, TabOf, Tabs,
                  MaxTime, Page, ToSet(notices)>>
    BY <1>3, SameServerFacts
<1>10. /\ PagesType' /\ DOMAIN pages' = DOMAIN pages
       /\ \A k \in DOMAIN pages : pages'[k] = IF k = i THEN a ELSE pages[k]
    BY <1>0, <1>7, <1>8, <1>9, PageReplaced
<1>11. TypeOK'
    <2>1. ServerType'
        BY <1>0, <1>3, SameServerFacts
    <2>2. ArraysType' /\ TableType'
        BY <1>0, <1>4, <1>9 DEF ArraysType, TableType, ListHazards, TableHazards
    <2> QED
        BY <1>10, <2>1, <2>2, TypeJoin
<1>12. ServerInv'
    BY <1>1, <1>3, SameServerFacts
<1>13. ListIsSorted' /\ EntriesInv'
    BY <1>1, <1>3, <1>4, SameLists
<1>14. ItemsInv'
    <2>1. /\ a.tab \in opened
          /\ a.phase # "answered" => a.items = <<>>
          /\ \A t \in ToSet(a.items) :
                /\ TabOf[t] = a.tab /\ status[t] # "draft"
                /\ a.lastTime <= actionTime[t] /\ 0 < a.lastTime
        <3>1. p.tab \in opened
            BY <1>1 DEF ItemsInv, PageGood, p
        <3>2. \A t \in ToSet(items) : TabOf[t] = p.tab /\ status[t] = "complete"
            BY <1>7 DEF Complete
        <3> QED
            BY <1>7, <3>1, <3>2
    <2>2. ASSUME NEW k \in DOMAIN pages'
          PROVE  \/ \E m \in DOMAIN pages :
                       /\ pages'[k].tab = pages[m].tab
                       /\ pages'[k].phase = pages[m].phase
                       /\ pages'[k].items = pages[m].items
                       /\ pages'[k].lastTime = pages[m].lastTime
                 \/ /\ pages'[k].tab \in opened
                    /\ pages'[k].phase # "answered" => pages'[k].items = <<>>
                    /\ \A t \in ToSet(pages'[k].items) :
                          /\ TabOf[t] = pages'[k].tab /\ status[t] # "draft"
                          /\ pages'[k].lastTime <= actionTime[t]
                          /\ 0 < pages'[k].lastTime
        BY <1>10, <2>1
    <2> QED
        BY <1>1, <1>3, <1>4, <2>2, PagesKept
<1> QED
    BY <1>11, <1>12, <1>13, <1>14 DEF FeedInv

\* A page p that failed is q: it brings nothing, or nothing that counts.
FailedAs(p, q) ==
    /\ q.tab = p.tab /\ q.cursor = p.cursor /\ q.items = p.items
    /\ q.lastTime = p.lastTime /\ q.stale = p.stale /\ q.crossed = p.crossed
    /\ q.phase = "failed" \/ q.cut = TRUE

\* A request that fails, by its parts.
LEMMA FailsIs ==
    ASSUME PagesType, NEW i \in DOMAIN pages, RequestFails(i)
    PROVE  /\ \E q \in Page :
                 /\ FailedAs(pages[i], q)
                 /\ pages' = [pages EXCEPT ![i] = q]
           /\ pages[i].phase = "sent"
           /\ UNCHANGED <<serverVars, notices, tabVars, reloading, tableVars,
                          asked, hazards>>
<1>1. PICK p : p = pages[i]
    OBVIOUS
<1>2. p \in Page
    BY <1>1, PageFacts
<1>3. /\ pages[i].phase = "sent"
      /\ UNCHANGED <<serverVars, notices, tabVars, reloading, tableVars,
                     asked, hazards>>
    BY DEF RequestFails
<1>4. \/ pages' = [pages EXCEPT ![i] = [p EXCEPT !.phase = "failed"]]
      \/ pages' = [pages EXCEPT ![i] =
                      [p EXCEPT !.phase = "answered", !.cut = TRUE]]
    BY <1>1 DEF RequestFails
<1>5. CASE pages' = [pages EXCEPT ![i] = [p EXCEPT !.phase = "failed"]]
    <2>1. PICK q : q = [p EXCEPT !.phase = "failed"]
        OBVIOUS
    <2>2. q \in Page /\ FailedAs(p, q)
        BY <1>2, <2>1 DEF Page, FailedAs
    <2> QED
        BY <1>1, <1>3, <1>5, <2>1, <2>2
<1>6. CASE pages' = [pages EXCEPT ![i] =
                       [p EXCEPT !.phase = "answered", !.cut = TRUE]]
    <2>1. PICK q : q = [p EXCEPT !.phase = "answered", !.cut = TRUE]
        OBVIOUS
    <2>2. q \in Page /\ FailedAs(p, q)
        BY <1>2, <2>1 DEF Page, FailedAs
    <2> QED
        BY <1>1, <1>3, <1>6, <2>1, <2>2
<1> QED
    BY <1>4, <1>5, <1>6

\* A failing request keeps the invariant.
LEMMA FailsFeed ==
    ASSUME FeedInv, NEW i \in DOMAIN pages, RequestFails(i)
    PROVE  FeedInv'
<1>0. ServerType /\ PagesType /\ ArraysType /\ TableType
    BY FeedParts
<1>1. ListIsSorted /\ ServerInv /\ EntriesInv /\ ItemsInv
    BY DEF FeedInv
<1>2. PICK q \in Page :
         /\ q.tab = pages[i].tab /\ q.items = pages[i].items
         /\ q.lastTime = pages[i].lastTime
         /\ pages[i].phase = "sent" /\ pages' = [pages EXCEPT ![i] = q]
         /\ UNCHANGED <<serverVars, notices, tabVars, reloading, tableVars,
                        asked, hazards>>
    BY <1>0, FailsIs DEF FailedAs
<1>3. SameServer
    BY <1>2 DEF SameServer
<1>4. UNCHANGED <<opened, list, cursor, allLoaded, loadFailed, reloading, rows,
                  crashed, asked, hazards>>
    BY <1>2 DEF tabVars, tableVars
<1>9. UNCHANGED <<feed, status, actionTime, clock, notices, TabOf, Tabs,
                  MaxTime, Page, ToSet(notices)>>
    BY <1>3, SameServerFacts
<1>10. /\ PagesType' /\ DOMAIN pages' = DOMAIN pages
       /\ \A k \in DOMAIN pages : pages'[k] = IF k = i THEN q ELSE pages[k]
    BY <1>0, <1>2, <1>9, PageReplaced
<1>11. TypeOK'
    <2>1. ServerType'
        BY <1>0, <1>3, SameServerFacts
    <2>2. ArraysType' /\ TableType'
        BY <1>0, <1>4, <1>9 DEF ArraysType, TableType, ListHazards, TableHazards
    <2> QED
        BY <1>10, <2>1, <2>2, TypeJoin
<1>12. ServerInv'
    BY <1>1, <1>3, SameServerFacts
<1>13. ListIsSorted' /\ EntriesInv'
    BY <1>1, <1>3, <1>4, SameLists
<1>14. ItemsInv'
    <2>1. pages[i].items = <<>> /\ pages[i].tab \in opened
        BY <1>1, <1>2 DEF ItemsInv, PageGood
    <2>2. ASSUME NEW k \in DOMAIN pages'
          PROVE  \/ \E m \in DOMAIN pages :
                       /\ pages'[k].tab = pages[m].tab
                       /\ pages'[k].phase = pages[m].phase
                       /\ pages'[k].items = pages[m].items
                       /\ pages'[k].lastTime = pages[m].lastTime
                 \/ /\ pages'[k].tab \in opened
                    /\ pages'[k].phase # "answered" => pages'[k].items = <<>>
                    /\ \A t \in ToSet(pages'[k].items) :
                          /\ TabOf[t] = pages'[k].tab /\ status[t] # "draft"
                          /\ pages'[k].lastTime <= actionTime[t]
                          /\ 0 < pages'[k].lastTime
        <3>1. CASE k = i
            BY <1>2, <1>10, <2>1, <3>1, EmptyElements
        <3>2. CASE k # i
            BY <1>10, <3>2
        <3> QED
            BY <3>1, <3>2
    <2> QED
        BY <1>1, <1>3, <1>4, <2>2, PagesKept
<1> QED
    BY <1>11, <1>12, <1>13, <1>14 DEF FeedInv

\* The pages after a refresh.
LEMMA RefreshPages ==
    ASSUME PagesType, NEW tab \in Tabs, Refresh(tab), Page' = Page
    PROVE  /\ PagesType' /\ DOMAIN pages' = (DOMAIN pages) \cup {Len(pages) + 1}
           /\ Len(pages) + 1 \notin DOMAIN pages
           /\ pages'[Len(pages) + 1] = NewPage(tab, 0)
           /\ \A i \in DOMAIN pages :
                 LET p == pages[i]
                     q == pages'[i]
                 IN  /\ q.tab = p.tab /\ q.cursor = p.cursor
                     /\ q.phase = p.phase /\ q.items = p.items
                     /\ q.lastTime = p.lastTime /\ q.cut = p.cut
                     /\ q.crossed = p.crossed
                     /\ q.stale = (p.stale \/ p.tab = tab)
<1> DEFINE g == Stale(tab)
           n == NewPage(tab, 0)
<1>1. /\ g \in Seq(Page) /\ Len(g) = Len(pages)
      /\ \A i \in DOMAIN pages :
            LET p == pages[i]
                q == g[i]
            IN  /\ q.tab = p.tab /\ q.cursor = p.cursor
                /\ q.phase = p.phase /\ q.items = p.items
                /\ q.lastTime = p.lastTime /\ q.cut = p.cut
                /\ q.crossed = p.crossed
                /\ q.stale = (p.stale \/ p.tab = tab)
    BY StaleFacts
<1>2. n \in Page
    BY NewPageFacts
<1>3. pages' = Append(g, n) /\ Len(pages) < MaxPages
    BY DEF Refresh
<1> HIDE DEF g, n
<1>4. /\ pages' \in Seq(Page) /\ Len(pages') = Len(pages) + 1
      /\ pages'[Len(pages) + 1] = n
      /\ \A i \in 1 .. Len(pages) : pages'[i] = g[i]
    BY <1>1, <1>2, <1>3
<1>5. /\ DOMAIN pages = 1 .. Len(pages) /\ Len(pages) \in Nat /\ MaxPages \in Nat
      /\ DOMAIN pages' = 1 .. Len(pages) + 1
    BY <1>4, BoundsAssumption DEF PagesType
<1>6. PagesType'
    BY <1>3, <1>4, <1>5 DEF PagesType
<1>7. DOMAIN pages' = (DOMAIN pages) \cup {Len(pages) + 1}
      /\ Len(pages) + 1 \notin DOMAIN pages
    BY <1>5
<1> QED
    BY <1>1, <1>4, <1>5, <1>6, <1>7 DEF n

\* A pulled list, or a first look at the private one, keeps it.
LEMMA RefreshFeed ==
    ASSUME FeedInv, NEW tab \in Tabs, Refresh(tab), reloading' \in BOOLEAN
    PROVE  FeedInv'
<1>0. ServerType /\ PagesType /\ ArraysType /\ TableType
    BY FeedParts
<1>1. ListIsSorted /\ ServerInv /\ EntriesInv /\ ItemsInv
    BY DEF FeedInv
<1>2. /\ cursor' = [cursor EXCEPT ![tab] = 0]
      /\ allLoaded' = [allLoaded EXCEPT ![tab] = FALSE]
      /\ opened' = opened \cup {tab}
      /\ UNCHANGED <<list, crashed>> /\ asked' = {}
    BY DEF Refresh
<1>3. SameServer
    BY DEF SameServer, Refresh
<1>9. UNCHANGED <<feed, status, actionTime, clock, notices, TabOf, Tabs,
                  MaxTime, Page, ToSet(notices)>>
    BY <1>3, SameServerFacts
<1>10. /\ PagesType' /\ DOMAIN pages' = (DOMAIN pages) \cup {Len(pages) + 1}
       /\ Len(pages) + 1 \notin DOMAIN pages
       /\ pages'[Len(pages) + 1] = NewPage(tab, 0)
       /\ \A i \in DOMAIN pages :
             LET p == pages[i]
                 q == pages'[i]
             IN  /\ q.tab = p.tab /\ q.cursor = p.cursor
                 /\ q.phase = p.phase /\ q.items = p.items
                 /\ q.lastTime = p.lastTime /\ q.cut = p.cut
                 /\ q.crossed = p.crossed
                 /\ q.stale = (p.stale \/ p.tab = tab)
    BY <1>0, <1>9, RefreshPages
<1>11. TypeOK'
    <2>1. ServerType'
        BY <1>0, <1>3, SameServerFacts
    <2>2. loadFailed' \in [Tabs -> BOOLEAN]
        BY <1>0 DEF Refresh, ArraysType
    <2>3. ArraysType'
        BY <1>0, <1>2, <1>9, <2>2 DEF ArraysType
    <2>4. rows' \in [Tabs -> Nat \ {0}]
        <3>1. CASE tab = "private"
            <4>1. Reloaded(tab)
                BY <3>1 DEF Refresh
            <4> QED
                BY <1>0, <1>9, <2>3, <4>1, ReloadedTyped
        <3>2. CASE tab # "private"
            BY <1>0, <3>2 DEF Refresh, TableType
        <3> QED
            BY <3>1, <3>2
    <2>5. hazards' \in [Tabs -> SUBSET (ListHazards \cup TableHazards)]
        <3>1. hazards \in [Tabs -> SUBSET (ListHazards \cup TableHazards)]
            BY <1>0 DEF TableType
        <3>2. CASE tab = "private"
            <4>1. hazards' = [hazards EXCEPT ![tab] = hazards[tab] \ TableHazards]
                BY <3>2 DEF Refresh
            <4> QED
                BY <3>1, <4>1
        <3>3. CASE tab # "private"
            <4>1. hazards' = [hazards EXCEPT ![tab] = hazards[tab] \cup
                                 (IF allLoaded[tab] THEN {"refreshed"} ELSE {})]
                BY <3>3 DEF Refresh
            <4>2. "refreshed" \in TableHazards
                BY DEF TableHazards
            <4> QED
                BY <3>1, <4>1, <4>2
        <3> QED
            BY <3>2, <3>3
    <2>6. TableType'
        BY <1>0, <1>2, <1>9, <2>4, <2>5 DEF TableType, ListHazards, TableHazards
    <2> QED
        BY <1>10, <2>1, <2>3, <2>6, TypeJoin
<1>12. ServerInv'
    BY <1>1, <1>3, SameServerFacts
<1>13. ListIsSorted' /\ EntriesInv'
    BY <1>1, <1>2, <1>3, SameLists
<1>14. ItemsInv'
    <2>1. \A s \in Tabs' \ opened' : cursor'[s] = 0 /\ ~allLoaded'[s]
        BY <1>0, <1>1, <1>2, <1>9 DEF ItemsInv, ArraysType
    <2>2. ASSUME NEW k \in DOMAIN pages'
          PROVE  PageGood(pages[k])'
        <3>1. CASE k = Len(pages) + 1
            <4>1. /\ pages'[k].tab = tab /\ pages'[k].phase = "sent"
                  /\ pages'[k].items = <<>>
                <5>1. pages'[k] = NewPage(tab, 0)
                    BY <1>10, <3>1
                <5>2. 0 \in Nat
                    OBVIOUS
                <5>3. LET n == NewPage(tab, 0) IN
                      n.tab = tab /\ n.phase = "sent" /\ n.items = <<>>
                    BY <5>2, NewPageFacts
                <5> QED
                    BY <5>1, <5>3
            <4> QED
                BY <1>2, <4>1, EmptyElements DEF PageGood
        <3>2. CASE k \in DOMAIN pages
            BY <1>1, <1>2, <1>9, <1>10, <3>2 DEF ItemsInv, PageGood
        <3> QED
            BY <1>10, <3>1, <3>2
    <2> QED
        BY <2>1, <2>2 DEF ItemsInv
<1> QED
    BY <1>11, <1>12, <1>13, <1>14 DEF FeedInv

\* So does the screen that comes back.
LEMMA AppearFeed ==
    ASSUME FeedInv, NEW tab \in Tabs, Appear(tab)
    PROVE  FeedInv'
<1>0. ServerType /\ PagesType /\ ArraysType /\ TableType
    BY FeedParts
<1>1. ListIsSorted /\ ServerInv /\ EntriesInv /\ ItemsInv
    BY DEF FeedInv
<1>2. /\ UNCHANGED <<pages, opened, list, cursor, allLoaded, loadFailed,
                     reloading, crashed>>
      /\ Reloaded(tab) /\ asked' = {}
      /\ hazards' = [hazards EXCEPT ![tab] = hazards[tab] \ TableHazards]
    BY DEF Appear, tabVars
<1>3. SameServer
    BY DEF SameServer, Appear
<1>4. UNCHANGED <<feed, status, actionTime, clock, notices, TabOf, Tabs,
                  MaxTime, Page, ToSet(notices)>>
    BY <1>3, SameServerFacts
<1>5. TypeOK'
    <2>1. ServerType'
        BY <1>0, <1>3, SameServerFacts
    <2>2. PagesType' /\ ArraysType'
        BY <1>0, <1>2, <1>4 DEF PagesType, ArraysType
    <2>3. rows' \in [Tabs -> Nat \ {0}]
        BY <1>0, <1>2, <1>4, <2>2, ReloadedTyped
    <2>4. hazards' \in [Tabs -> SUBSET (ListHazards \cup TableHazards)]
        BY <1>0, <1>2 DEF TableType
    <2>5. TableType'
        BY <1>0, <1>2, <1>4, <2>3, <2>4 DEF TableType, ListHazards, TableHazards
    <2> QED
        BY <2>1, <2>2, <2>5, TypeJoin
<1>6. ServerInv'
    BY <1>1, <1>3, SameServerFacts
<1>7. ListIsSorted' /\ EntriesInv'
    BY <1>1, <1>2, <1>3, SameLists
<1>8. ItemsInv'
    BY <1>1, <1>2, <1>4 DEF ItemsInv, PageGood
<1> QED
    BY <1>5, <1>6, <1>7, <1>8 DEF FeedInv

\* A page p of which another request for the list makes q.
MarkedAs(tab, p, q) ==
    /\ q.tab = p.tab /\ q.cursor = p.cursor /\ q.phase = p.phase
    /\ q.items = p.items /\ q.lastTime = p.lastTime /\ q.cut = p.cut
    /\ q.crossed = p.crossed
    /\ q.stale = (p.stale \/ (cursor[tab] = 0 /\ p.tab = tab))

\* The pages after another one has been asked for.
LEMMA MorePages ==
    ASSUME PagesType, ArraysType, NEW tab \in Tabs, LoadMore(tab), Page' = Page
    PROVE  /\ PagesType' /\ DOMAIN pages' = (DOMAIN pages) \cup {Len(pages) + 1}
           /\ Len(pages) + 1 \notin DOMAIN pages
           /\ \A i \in DOMAIN pages : MarkedAs(tab, pages[i], pages'[i])
           /\ LET n == pages'[Len(pages) + 1] IN
              /\ n \in Page /\ n.tab = tab /\ n.cursor = cursor[tab]
              /\ n.phase = "sent" /\ n.items = <<>> /\ n.stale = FALSE
<1>1. PICK n : n = NewPage(tab, cursor[tab])
    OBVIOUS
<1>2. n \in Page /\ n.tab = tab /\ n.cursor = cursor[tab] /\ n.phase = "sent"
      /\ n.items = <<>> /\ n.stale = FALSE
    <2>1. cursor[tab] \in Nat
        BY DEF ArraysType
    <2> QED
        BY <1>1, <2>1, NewPageFacts
<1>3. PICK g : g = IF cursor[tab] = 0 THEN Stale(tab) ELSE pages
    OBVIOUS
<1>4. /\ g \in Seq(Page) /\ Len(g) = Len(pages)
      /\ \A i \in DOMAIN pages : MarkedAs(tab, pages[i], g[i])
    <2>1. CASE cursor[tab] = 0
        BY <1>3, <2>1, StaleFacts DEF MarkedAs
    <2>2. CASE cursor[tab] # 0
        <3>1. g = pages /\ pages \in Seq(Page)
            BY <1>3, <2>2 DEF PagesType
        <3>2. ASSUME NEW i \in DOMAIN pages
              PROVE  MarkedAs(tab, pages[i], g[i])
            <4>1. PICK b : b = pages[i].stale
                OBVIOUS
            <4>2. b \in BOOLEAN
                BY <4>1, PageFacts DEF Page
            <4>3. b = (b \/ (cursor[tab] = 0 /\ pages[i].tab = tab))
                BY <2>2, <4>2, Zenon
            <4> QED
                BY <3>1, <4>1, <4>3 DEF MarkedAs
        <3> QED
            BY <3>1, <3>2
    <2> QED
        BY <2>1, <2>2
<1>5. pages' = Append(g, n) /\ Len(pages) < MaxPages /\ pages \in Seq(Page)
    BY <1>1, <1>3 DEF LoadMore, PagesType
<1>6. /\ pages' \in Seq(Page) /\ Len(pages') = Len(pages) + 1
      /\ pages'[Len(pages) + 1] = n
      /\ \A i \in 1 .. Len(pages) : pages'[i] = g[i]
    BY <1>2, <1>4, <1>5
<1>7. /\ DOMAIN pages = 1 .. Len(pages) /\ Len(pages) \in Nat /\ MaxPages \in Nat
      /\ DOMAIN pages' = 1 .. Len(pages) + 1
    BY <1>5, <1>6, BoundsAssumption
<1>8. PagesType'
    BY <1>5, <1>6, <1>7 DEF PagesType
<1>9. DOMAIN pages' = (DOMAIN pages) \cup {Len(pages) + 1}
      /\ Len(pages) + 1 \notin DOMAIN pages
    BY <1>7
<1> QED
    BY <1>2, <1>4, <1>6, <1>7, <1>8, <1>9

\* Asking for more keeps the invariant.
LEMMA LoadMoreFeed ==
    ASSUME FeedInv, NEW tab \in Tabs, LoadMore(tab)
    PROVE  FeedInv'
<1>0. ServerType /\ PagesType /\ ArraysType /\ TableType
    BY FeedParts
<1>1. ListIsSorted /\ ServerInv /\ EntriesInv /\ ItemsInv
    BY DEF FeedInv
<1>2. /\ UNCHANGED <<opened, list, cursor, allLoaded, reloading, crashed>>
      /\ tab \in opened /\ asked' = {}
    BY DEF LoadMore
<1>3. SameServer
    BY DEF SameServer, LoadMore
<1>4. UNCHANGED <<feed, status, actionTime, clock, notices, TabOf, Tabs,
                  MaxTime, Page, ToSet(notices)>>
    BY <1>3, SameServerFacts
<1>5. /\ PagesType' /\ DOMAIN pages' = (DOMAIN pages) \cup {Len(pages) + 1}
      /\ \A i \in DOMAIN pages : MarkedAs(tab, pages[i], pages'[i])
      /\ LET n == pages'[Len(pages) + 1] IN
         /\ n \in Page /\ n.tab = tab /\ n.cursor = cursor[tab]
         /\ n.phase = "sent" /\ n.items = <<>> /\ n.stale = FALSE
    BY <1>0, <1>4, MorePages
<1>6. TypeOK'
    <2>1. ServerType'
        BY <1>0, <1>3, SameServerFacts
    <2>2. ArraysType'
        <3>1. loadFailed' \in [Tabs -> BOOLEAN]
            BY <1>0 DEF LoadMore, ArraysType
        <3> QED
            BY <1>0, <1>2, <1>4, <3>1 DEF ArraysType
    <2>3. rows' \in [Tabs -> Nat \ {0}]
        <3>1. CASE tab = "private"
            <4>1. Reloaded(tab)
                BY <3>1 DEF LoadMore
            <4> QED
                BY <1>0, <1>4, <2>2, <4>1, ReloadedTyped
        <3>2. CASE tab # "private"
            BY <1>0, <3>2 DEF LoadMore, TableType
        <3> QED
            BY <3>1, <3>2
    <2>4. hazards' \in [Tabs -> SUBSET (ListHazards \cup TableHazards)]
        <3>1. hazards \in [Tabs -> SUBSET (ListHazards \cup TableHazards)]
            BY <1>0 DEF TableType
        <3>2. CASE tab = "private"
            <4>1. hazards' = [hazards EXCEPT ![tab] = hazards[tab] \ TableHazards]
                BY <3>2 DEF LoadMore
            <4> QED
                BY <3>1, <4>1
        <3>3. CASE tab # "private"
            BY <3>1, <3>3 DEF LoadMore
        <3> QED
            BY <3>2, <3>3
    <2>5. TableType'
        BY <1>0, <1>2, <1>4, <2>3, <2>4 DEF TableType, ListHazards, TableHazards
    <2> QED
        BY <1>5, <2>1, <2>2, <2>5, TypeJoin
<1>7. ServerInv'
    BY <1>1, <1>3, SameServerFacts
<1>8. ListIsSorted' /\ EntriesInv'
    BY <1>1, <1>2, <1>3, SameLists
<1>9. ItemsInv'
    <2>2. ASSUME NEW k \in DOMAIN pages'
          PROVE  \/ \E m \in DOMAIN pages :
                       /\ pages'[k].tab = pages[m].tab
                       /\ pages'[k].phase = pages[m].phase
                       /\ pages'[k].items = pages[m].items
                       /\ pages'[k].lastTime = pages[m].lastTime
                 \/ /\ pages'[k].tab \in opened
                    /\ pages'[k].phase # "answered" => pages'[k].items = <<>>
                    /\ \A t \in ToSet(pages'[k].items) :
                          /\ TabOf[t] = pages'[k].tab /\ status[t] # "draft"
                          /\ pages'[k].lastTime <= actionTime[t]
                          /\ 0 < pages'[k].lastTime
        <3>1. CASE k = Len(pages) + 1
            BY <1>2, <1>5, <3>1, EmptyElements
        <3>2. CASE k \in DOMAIN pages
            BY <1>5, <3>2 DEF MarkedAs
        <3> QED
            BY <1>5, <3>1, <3>2
    <2> QED
        BY <1>1, <1>2, <1>3, <2>2, PagesKept
<1> QED
    BY <1>6, <1>7, <1>8, <1>9 DEF FeedInv

Kept(tab) == IF cursor[tab] = 0 THEN <<>> ELSE list[tab]

\* What is left of a list, and what a page makes of it.
LEMMA KeptSorted ==
    ASSUME ArraysType, ListIsSorted, NEW tab \in Tabs
    PROVE  /\ list[tab] \in Seq(Twysts) /\ Sorted(list[tab])
           /\ Kept(tab) \in Seq(Twysts) /\ Sorted(Kept(tab))
           /\ ToSet(Kept(tab)) \subseteq ToSet(list[tab])
<1>1. list[tab] \in Seq(Twysts) /\ Sorted(list[tab])
    BY DEF ArraysType, ListIsSorted, Sorted
<1>2. <<>> \in Seq(Twysts) /\ Sorted(<<>>) /\ ToSet(<<>>) = {}
    BY EmptyElements DEF Sorted
<1> QED
    BY <1>1, <1>2 DEF Kept

LoadedTo(tab, i, p, new) ==
    /\ p.tab = tab /\ p.phase = "answered" /\ tab \in opened
    /\ new \in Seq(Twysts) /\ Sorted(new)
    /\ ToSet(new) = ToSet(Kept(tab)) \cup ToSet(p.items)
    /\ Len(new) >= Len(Kept(tab))
    /\ list'[tab] = new
    /\ p.items \in Seq(Twysts) /\ ToSet(p.items) \subseteq Twysts
    /\ \A s \in Tabs : s # tab => /\ list'[s] = list[s]
                                  /\ cursor'[s] = cursor[s]
                                  /\ allLoaded'[s] = allLoaded[s]
                                  /\ loadFailed'[s] = loadFailed[s]
                                  /\ hazards'[s] = hazards[s]
                                  /\ rows'[s] = rows[s]
    /\ cursor'[tab] = IF tab = "private" THEN Len(new)
                      ELSE IF p.items = <<>> THEN cursor[tab]
                      ELSE p.lastTime
    /\ allLoaded'[tab] = (allLoaded[tab] \/ Len(p.items) < Bunch)
    /\ loadFailed'[tab] = FALSE
    /\ hazards'[tab] = Brought(p)
    /\ rows'[tab] = NumberOfRows(tab)'
    /\ ArraysType' /\ TableType' /\ PagesType'
    /\ asked' = IF tab = "twysted" THEN ToSet(p.items) ELSE {}
    /\ SameServer /\ opened' = opened /\ crashed' = crashed
    /\ \A k \in DOMAIN pages' : \E m \in DOMAIN pages :
          /\ m # i /\ pages'[k] = pages[m]
          /\ m = IF k < i THEN k ELSE k + 1

\* The state after a page has been loaded, by its parts.
LEMMA LoadedFacts ==
    ASSUME FeedInv, NEW tab \in Tabs, NEW i \in DOMAIN pages, PageLoaded(tab, i)
    PROVE  LoadedTo(tab, i, pages[i], Merged(Kept(tab), pages[i].items))
<1> DEFINE p == pages[i]
           new == Merged(Kept(tab), p.items)
<1>0. ServerType /\ PagesType /\ ArraysType /\ TableType
    BY FeedParts
<1>1. ListIsSorted /\ ServerInv /\ EntriesInv /\ ItemsInv
    BY DEF FeedInv
<1>2. p \in Page /\ p.items \in Seq(Twysts) /\ p.lastTime \in Nat
    BY <1>0, PageFacts
<1>3. /\ Kept(tab) \in Seq(Twysts) /\ Sorted(Kept(tab))
    BY <1>0, <1>1, KeptSorted
<1>4. p.tab = tab /\ p.phase = "answered" /\ tab \in opened
    BY <1>1 DEF PageLoaded, ItemsInv, PageGood
<1>5. /\ new \in Seq(Twysts) /\ Sorted(new)
      /\ ToSet(new) = ToSet(Kept(tab)) \cup ToSet(p.items)
      /\ Len(new) >= Len(Kept(tab))
    BY <1>2, <1>3, MergedAdds
<1>6. list' = [list EXCEPT ![tab] = new]
    BY DEF PageLoaded, Kept
<1>7. /\ cursor' = [cursor EXCEPT ![tab] =
                        IF tab = "private" THEN Len(list'[tab])
                        ELSE IF p.items = <<>> THEN cursor[tab]
                        ELSE p.lastTime]
      /\ allLoaded' = [allLoaded EXCEPT ![tab] =
                          allLoaded[tab] \/ Len(p.items) < Bunch]
      /\ loadFailed' = [loadFailed EXCEPT ![tab] = FALSE]
      /\ asked' = (IF tab = "twysted" THEN ToSet(p.items) ELSE {})
      /\ hazards' = [hazards EXCEPT ![tab] = Brought(p)]
      /\ Reloaded(tab) /\ pages' = RemoveAt(pages, i) /\ reloading' = FALSE
      /\ opened' = opened /\ crashed' = crashed
    BY DEF PageLoaded
<1>8. SameServer
    BY DEF PageLoaded, SameServer
<1>9. UNCHANGED <<feed, status, actionTime, clock, notices, TabOf, Tabs,
                  MaxTime, Page, ToSet(notices)>>
    BY <1>8, SameServerFacts
<1>10. ToSet(p.items) \subseteq Twysts
    BY <1>2, Elements
<1>11. Brought(p) \in SUBSET (ListHazards \cup TableHazards)
    <2>1. {"cut", "crossed", "stale"} \subseteq ListHazards
        BY DEF ListHazards
    <2> QED
        BY <2>1 DEF Brought
<1> HIDE DEF new, p
<1>12. list'[tab] = new /\ list' \in [Tabs -> Seq(Twysts)]
       /\ \A s \in Tabs : s # tab => list'[s] = list[s]
    BY <1>0, <1>5, <1>6 DEF ArraysType
<1>13. Len(new) \in Nat
    BY <1>5, Elements
<1>14. /\ cursor' \in [Tabs -> Nat] /\ \A s \in Tabs : s # tab => cursor'[s] = cursor[s]
       /\ cursor'[tab] = IF tab = "private" THEN Len(new)
                         ELSE IF p.items = <<>> THEN cursor[tab]
                         ELSE p.lastTime
    <2> DEFINE c == IF tab = "private" THEN Len(new)
                    ELSE IF p.items = <<>> THEN cursor[tab]
                    ELSE p.lastTime
    <2>1. cursor \in [Tabs -> Nat] /\ cursor[tab] \in Nat
        BY <1>0 DEF ArraysType
    <2>2. c \in Nat
        BY <1>2, <1>13, <2>1
    <2>3. cursor' = [cursor EXCEPT ![tab] = c]
        BY <1>7, <1>12
    <2> HIDE DEF c
    <2>4. /\ cursor' \in [Tabs -> Nat] /\ cursor'[tab] = c
          /\ \A s \in Tabs : s # tab => cursor'[s] = cursor[s]
        BY <2>1, <2>2, <2>3
    <2> QED
        BY <2>4 DEF c
<1>15. /\ allLoaded' \in [Tabs -> BOOLEAN]
       /\ \A s \in Tabs : s # tab => allLoaded'[s] = allLoaded[s]
       /\ allLoaded'[tab] = (allLoaded[tab] \/ Len(p.items) < Bunch)
    <2> DEFINE a == allLoaded[tab] \/ Len(p.items) < Bunch
    <2>1. a \in BOOLEAN
        OBVIOUS
    <2>2. allLoaded' = [allLoaded EXCEPT ![tab] = a]
        BY <1>7
    <2> HIDE DEF a
    <2>3. /\ allLoaded' \in [Tabs -> BOOLEAN] /\ allLoaded'[tab] = a
          /\ \A s \in Tabs : s # tab => allLoaded'[s] = allLoaded[s]
        BY <1>0, <2>1, <2>2 DEF ArraysType
    <2> QED
        BY <2>3 DEF a
<1>16. /\ loadFailed' \in [Tabs -> BOOLEAN] /\ loadFailed'[tab] = FALSE
       /\ \A s \in Tabs : s # tab => loadFailed'[s] = loadFailed[s]
    BY <1>0, <1>7 DEF ArraysType
<1>17. /\ hazards' \in [Tabs -> SUBSET (ListHazards \cup TableHazards)]
       /\ hazards'[tab] = Brought(p)
       /\ \A s \in Tabs : s # tab => hazards'[s] = hazards[s]
    BY <1>0, <1>7, <1>11 DEF TableType
<1>18. ArraysType'
    BY <1>0, <1>4, <1>7, <1>9, <1>12, <1>14, <1>15, <1>16 DEF ArraysType
<1>19. /\ rows' \in [Tabs -> Nat \ {0}] /\ rows'[tab] = NumberOfRows(tab)'
       /\ \A s \in Tabs : s # tab => rows'[s] = rows[s]
    BY <1>0, <1>7, <1>9, <1>18, ReloadedTyped
<1>20. TableType'
    <2>1. asked' \in SUBSET Twysts
        BY <1>7, <1>10
    <2> QED
        BY <1>0, <1>7, <1>9, <1>17, <1>19, <2>1
        DEF TableType, ListHazards, TableHazards
<1>21. /\ PagesType'
       /\ \A k \in DOMAIN pages' : \E m \in DOMAIN pages :
             m # i /\ pages'[k] = pages[m] /\ m = IF k < i THEN k ELSE k + 1
    BY <1>0, <1>7, <1>9, PageGone
<1>22. asked' = (IF tab = "twysted" THEN ToSet(p.items) ELSE {})
       /\ opened' = opened /\ crashed' = crashed
    BY <1>7
<1>23. LoadedTo(tab, i, p, new)
    BY <1>2, <1>4, <1>5, <1>8, <1>10, <1>12, <1>14, <1>15, <1>16, <1>17,
       <1>18, <1>19, <1>20, <1>21, <1>22
    DEF LoadedTo
<1> QED
    BY <1>23 DEF p, new

\* A loaded page keeps the invariant.
LEMMA LoadedFeed ==
    ASSUME FeedInv, NEW tab \in Tabs, NEW i \in DOMAIN pages, PageLoaded(tab, i)
    PROVE  FeedInv'
<1>0. ServerType /\ PagesType /\ ArraysType /\ TableType
    BY FeedParts
<1>1. ListIsSorted /\ ServerInv /\ EntriesInv /\ ItemsInv
    BY DEF FeedInv
<1> DEFINE p == pages[i]
           new == Merged(Kept(tab), p.items)
<1>20. LoadedTo(tab, i, p, new)
    BY LoadedFacts
<1> HIDE DEF p, new
<1>2. /\ p.tab = tab /\ tab \in opened /\ SameServer /\ opened' = opened
      /\ new \in Seq(Twysts) /\ Sorted(new)
      /\ ToSet(new) = ToSet(Kept(tab)) \cup ToSet(p.items)
      /\ list'[tab] = new /\ \A s \in Tabs : s # tab => list'[s] = list[s]
      /\ ArraysType' /\ TableType' /\ PagesType'
      /\ \A s \in Tabs : s # tab => cursor'[s] = cursor[s]
                                    /\ allLoaded'[s] = allLoaded[s]
    BY <1>20 DEF LoadedTo
<1>10. ASSUME NEW k \in DOMAIN pages'
       PROVE  \E m \in DOMAIN pages : pages'[k] = pages[m]
    BY <1>20 DEF LoadedTo
<1>3. UNCHANGED <<feed, status, actionTime, clock, notices, TabOf, Tabs,
                  MaxTime, Page, ToSet(notices)>>
    BY <1>2, SameServerFacts
<1>4. TypeOK'
    <2>1. ServerType'
        BY <1>0, <1>2, SameServerFacts
    <2> QED
        BY <1>2, <2>1, TypeJoin
<1>5. ServerInv'
    BY <1>1, <1>2, SameServerFacts
<1>6. ASSUME NEW t \in ToSet(new)
      PROVE  TabOf[t] = tab /\ status[t] # "draft"
    <2>1. CASE t \in ToSet(p.items)
        BY <1>1, <1>2, <2>1 DEF ItemsInv, PageGood, p
    <2>2. CASE t \in ToSet(Kept(tab))
        <3>1. t \in ToSet(list[tab])
            BY <1>0, <1>1, <2>2, KeptSorted
        <3> QED
            BY <1>1, <3>1 DEF EntriesInv
    <2> QED
        BY <1>2, <2>1, <2>2
<1>7. ListIsSorted'
    BY <1>1, <1>2, <1>3 DEF ListIsSorted, Sorted
<1>8. EntriesInv'
    <2>1. ASSUME NEW s \in Tabs, NEW t \in ToSet(list'[s])
          PROVE  TabOf[t] = s /\ status[t] # "draft"
        <3>1. CASE s = tab
            BY <1>2, <1>6, <3>1
        <3>2. CASE s # tab
            BY <1>1, <1>2, <3>2 DEF EntriesInv
        <3> QED
            BY <3>1, <3>2
    <2>2. \A s \in Tabs : ToSet(list[s])' = ToSet(list'[s])
        BY DEF ToSet
    <2> QED
        BY <1>3, <2>1, <2>2 DEF EntriesInv
<1>9. ItemsInv'
    <2>1. ASSUME NEW k \in DOMAIN pages'
          PROVE  PageGood(pages[k])'
        <3>1. PICK m \in DOMAIN pages : pages'[k] = pages[m]
            BY <1>10
        <3>2. PageGood(pages[m])
            BY <1>1 DEF ItemsInv
        <3> QED
            BY <1>2, <1>3, <3>1, <3>2 DEF PageGood
    <2>2. \A s \in Tabs \ opened : cursor'[s] = 0 /\ ~allLoaded'[s]
        BY <1>1, <1>2 DEF ItemsInv
    <2> QED
        BY <1>2, <1>3, <2>1, <2>2 DEF ItemsInv
<1> QED
    BY <1>4, <1>5, <1>7, <1>8, <1>9 DEF FeedInv

\* The state after a page has failed.
LEMMA PageFailedFacts ==
    ASSUME FeedInv, NEW tab \in Tabs, NEW i \in DOMAIN pages, PageFailed(tab, i)
    PROVE  /\ SameServer /\ UNCHANGED <<opened, cursor, allLoaded, crashed>>
           /\ pages[i].tab = tab /\ tab \in opened
           /\ ArraysType' /\ TableType' /\ PagesType'
           /\ list'[tab] = <<>> /\ "failed" \in hazards'[tab]
           /\ hazards'[tab] \cap TableHazards = {}
           /\ \A s \in Tabs : s # tab => /\ list'[s] = list[s]
                                         /\ loadFailed'[s] = loadFailed[s]
                                         /\ hazards'[s] = hazards[s]
                                         /\ rows'[s] = rows[s]
           /\ hazards[tab] \cap ListHazards \subseteq hazards'[tab]
           /\ rows'[tab] = NumberOfRows(tab)' /\ asked' = {}
           /\ \A k \in DOMAIN pages' : \E m \in DOMAIN pages :
                 m # i /\ pages'[k] = pages[m] /\ m = IF k < i THEN k ELSE k + 1
<1>0. ServerType /\ PagesType /\ ArraysType /\ TableType /\ ItemsInv
    BY FeedParts DEF FeedInv
<1>1. /\ pages[i].tab = tab
      /\ UNCHANGED <<opened, cursor, allLoaded, crashed>>
      /\ list' = [list EXCEPT ![tab] = <<>>]
      /\ loadFailed' = [loadFailed EXCEPT ![tab] = TRUE]
      /\ hazards' = [hazards EXCEPT ![tab] =
                        (hazards[tab] \ TableHazards) \cup {"failed"}]
      /\ Reloaded(tab) /\ pages' = RemoveAt(pages, i) /\ reloading' = FALSE
      /\ asked' = {}
    BY DEF PageFailed
<1>2. SameServer
    BY DEF PageFailed, SameServer
<1>3. UNCHANGED <<feed, status, actionTime, clock, notices, TabOf, Tabs,
                  MaxTime, Page, ToSet(notices)>>
    BY <1>2, SameServerFacts
<1>4. tab \in opened
    BY <1>0, <1>1 DEF ItemsInv, PageGood
<1>5. /\ list' \in [Tabs -> Seq(Twysts)] /\ list'[tab] = <<>>
      /\ \A s \in Tabs : s # tab => list'[s] = list[s]
    BY <1>0, <1>1 DEF ArraysType
<1>6. /\ loadFailed' \in [Tabs -> BOOLEAN]
      /\ \A s \in Tabs : s # tab => loadFailed'[s] = loadFailed[s]
    BY <1>0, <1>1 DEF ArraysType
<1>7. ArraysType'
    BY <1>0, <1>1, <1>3, <1>5, <1>6 DEF ArraysType
<1>8. /\ rows' \in [Tabs -> Nat \ {0}] /\ rows'[tab] = NumberOfRows(tab)'
      /\ \A s \in Tabs : s # tab => rows'[s] = rows[s]
    BY <1>0, <1>1, <1>3, <1>7, ReloadedTyped
<1>9. hazards \in [Tabs -> SUBSET (ListHazards \cup TableHazards)]
    BY <1>0 DEF TableType
<1>10. "failed" \in ListHazards /\ "failed" \notin TableHazards
       /\ ListHazards \cap TableHazards = {}
    BY DEF ListHazards, TableHazards
<1>11. /\ hazards' \in [Tabs -> SUBSET (ListHazards \cup TableHazards)]
       /\ hazards'[tab] = (hazards[tab] \ TableHazards) \cup {"failed"}
       /\ \A s \in Tabs : s # tab => hazards'[s] = hazards[s]
    BY <1>1, <1>9, <1>10
<1>12. TableType'
    BY <1>0, <1>1, <1>3, <1>8, <1>11 DEF TableType, ListHazards, TableHazards
<1>13. /\ PagesType'
       /\ \A k \in DOMAIN pages' : \E m \in DOMAIN pages :
             m # i /\ pages'[k] = pages[m] /\ m = IF k < i THEN k ELSE k + 1
    BY <1>0, <1>1, <1>3, PageGone
<1> QED
    BY <1>1, <1>2, <1>4, <1>5, <1>6, <1>7, <1>8, <1>10, <1>11, <1>12, <1>13

\* A failed page keeps the invariant.
LEMMA PageFailedFeed ==
    ASSUME FeedInv, NEW tab \in Tabs, NEW i \in DOMAIN pages, PageFailed(tab, i)
    PROVE  FeedInv'
<1>0. ServerType /\ PagesType /\ ArraysType /\ TableType
    BY FeedParts
<1>1. ListIsSorted /\ ServerInv /\ EntriesInv /\ ItemsInv
    BY DEF FeedInv
<1>2. /\ SameServer /\ UNCHANGED <<opened, cursor, allLoaded, crashed>>
      /\ ArraysType' /\ TableType' /\ PagesType' /\ list'[tab] = <<>>
      /\ \A s \in Tabs : s # tab => list'[s] = list[s]
    BY PageFailedFacts
<1>10. \A k \in DOMAIN pages' : \E m \in DOMAIN pages :
          m # i /\ pages'[k] = pages[m] /\ m = IF k < i THEN k ELSE k + 1
    BY PageFailedFacts
<1>3. UNCHANGED <<feed, status, actionTime, clock, notices, TabOf, Tabs,
                  MaxTime, Page, ToSet(notices)>>
    BY <1>2, SameServerFacts
<1>4. TypeOK'
    <2>1. ServerType'
        BY <1>0, <1>2, SameServerFacts
    <2> QED
        BY <1>2, <2>1, TypeJoin
<1>5. ServerInv'
    BY <1>1, <1>2, SameServerFacts
<1>7. ListIsSorted'
    BY <1>1, <1>2, <1>3 DEF ListIsSorted
<1>8. EntriesInv'
    <2>1. ASSUME NEW s \in Tabs, NEW t \in ToSet(list'[s])
          PROVE  TabOf[t] = s /\ status[t] # "draft"
        <3>1. CASE s = tab
            BY <1>2, <2>1, <3>1, EmptyElements
        <3>2. CASE s # tab
            BY <1>1, <1>2, <2>1, <3>2 DEF EntriesInv
        <3> QED
            BY <3>1, <3>2
    <2>2. \A s \in Tabs : ToSet(list[s])' = ToSet(list'[s])
        BY DEF ToSet
    <2> QED
        BY <1>3, <2>1, <2>2 DEF EntriesInv
<1>9. ItemsInv'
    <2>1. ASSUME NEW k \in DOMAIN pages'
          PROVE  PageGood(pages[k])'
        <3>1. PICK m \in DOMAIN pages : pages'[k] = pages[m]
            BY <1>10
        <3>2. PageGood(pages[m])
            BY <1>1 DEF ItemsInv
        <3> QED
            BY <1>2, <1>3, <3>1, <3>2 DEF PageGood
    <2> QED
        BY <1>1, <1>2, <1>3, <2>1 DEF ItemsInv
<1> QED
    BY <1>4, <1>5, <1>7, <1>8, <1>9 DEF FeedInv

Kinds == {"create", "reply", "didReply", "delete"}

\* A notification is taken, and the pages that are there are marked.
LEMMA TakeFacts ==
    ASSUME ServerType, PagesType, NEW t \in Twysts, NEW i \in DOMAIN notices,
           NEW kind \in Kinds, Take(i, kind, t)
    PROVE  /\ notices' \in Seq(Notice) /\ Len(notices') = Len(notices) - 1
           /\ \A j \in 1 .. Len(notices) - 1 :
                 notices'[j] = IF j < i THEN notices[j] ELSE notices[j + 1]
           /\ notices[i] \in ToSet(notices)
           /\ notices[i].kind = kind /\ notices[i].twyst = t
           /\ ToSet(notices') \subseteq ToSet(notices)
           /\ ToSet(notices) = ToSet(notices') \cup {notices[i]}
           /\ UNCHANGED <<feed, status, actionTime, clock, TabOf, Tabs, MaxTime,
                          Page, opened, cursor, allLoaded, loadFailed, reloading>>
           /\ ServerType' /\ (ServerInv => ServerInv')
           /\ PagesType' /\ pages' = Crossed(TabOf[t])
<1>1. /\ notices[i] = [kind |-> kind, twyst |-> t]
      /\ notices' = RemoveAt(notices, i) /\ pages' = Crossed(TabOf[t])
      /\ UNCHANGED <<feed, status, actionTime, clock, opened, cursor, allLoaded,
                     loadFailed, reloading>>
    BY DEF Take, serverVars
<1>2. notices \in Seq(Notice)
    BY DEF ServerType
<1>3. /\ notices' \in Seq(Notice) /\ Len(notices') = Len(notices) - 1
      /\ \A j \in 1 .. Len(notices) - 1 :
            notices'[j] = IF j < i THEN notices[j] ELSE notices[j + 1]
    BY <1>1, <1>2, RemoveAtValue
<1>4. /\ ToSet(notices') \subseteq ToSet(notices)
      /\ ToSet(notices) = ToSet(notices') \cup {notices[i]}
    BY <1>1, <1>2, RemoveAtElements
<1>5. UNCHANGED <<TabOf, Tabs, MaxTime>>
    BY <1>1 DEF TabOf, Tabs, MaxTime
<1>6. Page' = Page
    BY <1>5 DEF Page
<1>7. ServerType'
    BY <1>1, <1>3, <1>5 DEF ServerType
<1>8. ToSet(notices)' = ToSet(notices')
    BY DEF ToSet
<1>9. ServerInv => ServerInv'
    BY <1>1, <1>4, <1>8 DEF ServerInv
<1>10. PagesType'
    <2>1. /\ Crossed(TabOf[t]) \in Seq(Page)
          /\ Len(Crossed(TabOf[t])) = Len(pages)
        BY CrossedFacts
    <2> QED
        BY <1>1, <1>6, <2>1 DEF PagesType
<1>11. notices[i].kind = kind /\ notices[i].twyst = t
    BY <1>1
<1> QED
    BY <1>1, <1>3, <1>4, <1>5, <1>6, <1>7, <1>9, <1>10, <1>11

\* A notification that adds at most its own twyst keeps the invariant.
LEMMA NotifiedFeed ==
    ASSUME FeedInv, NEW t \in Twysts, NEW i \in DOMAIN notices,
           NEW kind \in Kinds, Take(i, kind, t),
           list' \in [Tabs -> Seq(Twysts)],
           \A s \in Tabs : s # TabOf[t] => list'[s] = list[s],
           Sorted(list'[TabOf[t]]),
           ToSet(list'[TabOf[t]]) \subseteq ToSet(list[TabOf[t]]) \cup {t},
           TabOf[t] \notin opened => list' = list,
           TableType'
    PROVE  FeedInv'
<1> DEFINE tab == TabOf[t]
<1>0. ServerType /\ PagesType /\ ArraysType /\ TableType
    BY FeedParts
<1>1. ListIsSorted /\ ServerInv /\ EntriesInv /\ ItemsInv
    BY DEF FeedInv
<1>2. /\ notices[i] \in ToSet(notices) /\ notices[i].twyst = t
      /\ UNCHANGED <<feed, status, actionTime, clock, TabOf, Tabs, MaxTime,
                     Page, opened, cursor, allLoaded, loadFailed, reloading>>
      /\ ServerType' /\ ServerInv' /\ PagesType' /\ pages' = Crossed(tab)
    BY <1>0, <1>1, TakeFacts
<1>3. tab \in Tabs /\ status[t] # "draft"
    BY <1>0, <1>1, <1>2, TabFacts DEF ServerType, ServerInv
<1> HIDE DEF tab
<1>4. ArraysType'
    <2>1. \A s \in Tabs \ opened : list'[s] = <<>>
        BY <1>0 DEF ArraysType, tab
    <2> QED
        BY <1>0, <1>2, <2>1 DEF ArraysType
<1>5. TypeOK'
    BY <1>2, <1>4, TypeJoin
<1>6. ListIsSorted'
    <2>1. ASSUME NEW s \in Tabs
          PROVE  Sorted(list'[s])
        <3>1. CASE s = tab
            BY <3>1 DEF tab
        <3>2. CASE s # tab
            BY <1>1, <3>2 DEF tab, ListIsSorted, Sorted
        <3> QED
            BY <3>1, <3>2
    <2> QED
        BY <1>2, <2>1 DEF ListIsSorted, Sorted
<1>7. EntriesInv'
    <2>1. ASSUME NEW s \in Tabs, NEW r \in ToSet(list'[s])
          PROVE  TabOf[r] = s /\ status[r] # "draft"
        <3>1. CASE s = tab
            <4>1. r \in ToSet(list[tab]) \/ r = t
                BY <2>1, <3>1 DEF tab
            <4>2. CASE r \in ToSet(list[tab])
                BY <1>1, <1>3, <3>1, <4>2 DEF EntriesInv
            <4>3. CASE r = t
                BY <1>3, <3>1, <4>3 DEF tab
            <4> QED
                BY <4>1, <4>2, <4>3
        <3>2. CASE s # tab
            BY <1>1, <2>1, <3>2 DEF tab, EntriesInv
        <3> QED
            BY <3>1, <3>2
    <2>2. \A s \in Tabs : ToSet(list[s])' = ToSet(list'[s])
        BY DEF ToSet
    <2> QED
        BY <1>2, <2>1, <2>2 DEF EntriesInv
<1>8. ItemsInv'
    <2>1. DOMAIN pages' = DOMAIN pages
        BY <1>0, <1>2, CrossedFacts
    <2>2. ASSUME NEW k \in DOMAIN pages
          PROVE  PageGood(pages[k])'
        <3>1. /\ pages'[k].tab = pages[k].tab /\ pages'[k].phase = pages[k].phase
              /\ pages'[k].items = pages[k].items
              /\ pages'[k].lastTime = pages[k].lastTime
            BY <1>0, <1>2, CrossedFacts
        <3>2. PageGood(pages[k])
            BY <1>1 DEF ItemsInv
        <3> QED
            BY <1>2, <3>1, <3>2 DEF PageGood
    <2> QED
        BY <1>1, <1>2, <2>1, <2>2 DEF ItemsInv
<1> QED
    BY <1>2, <1>5, <1>6, <1>7, <1>8 DEF FeedInv

\* What Insert makes of a list that exists, and of one that does not.
LEMMA InsertFacts ==
    ASSUME ArraysType, ListIsSorted, NEW t \in Twysts, TabOf[t] \in Tabs,
           Insert(TabOf[t], t)
    PROVE  LET tab == TabOf[t] IN
           /\ list' \in [Tabs -> Seq(Twysts)]
           /\ \A s \in Tabs : s # tab => list'[s] = list[s]
           /\ Sorted(list'[tab])
           /\ ToSet(list'[tab]) \subseteq ToSet(list[tab]) \cup {t}
           /\ ToSet(list[tab]) \subseteq ToSet(list'[tab])
           /\ tab \notin opened => list' = list
           /\ tab \in opened => t \in ToSet(list'[tab])
           /\ t \in ToSet(list[tab]) => list' = list
           /\ list' # list => Len(list'[tab]) = Len(list[tab]) + 1
           /\ Len(list'[tab]) >= Len(list[tab])
<1> DEFINE tab == TabOf[t]
           new == Ascending(list[tab], t)
<1>1. /\ list \in [Tabs -> Seq(Twysts)] /\ list[tab] \in Seq(Twysts)
      /\ Sorted(list[tab]) /\ Len(list[tab]) \in Nat
    BY KeptSorted, Elements DEF ArraysType
<1>2. Added(new, list[tab], t)
    BY <1>1, AscendingAdds
<1>3. list' = IF tab \in opened THEN [list EXCEPT ![tab] = new] ELSE list
    BY DEF Insert
<1> HIDE DEF tab, new
<1>4. tab \in Tabs
    BY DEF tab
<1>5. CASE tab \in opened
    <2>1. list' = [list EXCEPT ![tab] = new] /\ new \in Seq(Twysts)
        BY <1>2, <1>3, <1>5 DEF Added
    <2>2. /\ list' \in [Tabs -> Seq(Twysts)] /\ list'[tab] = new
          /\ \A s \in Tabs : s # tab => list'[s] = list[s]
        BY <1>1, <1>4, <2>1
    <2>3. new = list[tab] => list' = list
        BY <1>1, <1>4, <2>1
    <2>4. /\ Sorted(new) /\ ToSet(new) = ToSet(list[tab]) \cup {t}
          /\ t \in ToSet(list[tab]) => new = list[tab]
          /\ t \notin ToSet(list[tab]) => Len(new) = Len(list[tab]) + 1
        BY <1>2 DEF Added
    <2>5. Len(new) >= Len(list[tab])
        BY <1>1, <2>4
    <2> QED
        BY <1>5, <2>2, <2>3, <2>4, <2>5 DEF tab
<1>6. CASE tab \notin opened
    <2>1. list' = list /\ Len(list[tab]) >= Len(list[tab])
        BY <1>1, <1>3, <1>6
    <2> QED
        BY <1>1, <1>6, <2>1 DEF tab
<1> QED
    BY <1>5, <1>6

\* handleTwystDidReply: tells the table nothing.
Silent(tab, t) ==
    /\ Note(tab, t, hazards[tab] \cup (IF list' = list THEN {} ELSE {"silent"}))
    /\ UNCHANGED tableVars

\* What a notification may do to the hazards of the list of t.
HazardsKept(tab) ==
    /\ hazards' \in [Tabs -> SUBSET (ListHazards \cup TableHazards)]
    /\ \A s \in Tabs : s # tab => hazards'[s] = hazards[s]
    /\ hazards[tab] \cap ListHazards \subseteq hazards'[tab]
    /\ hazards'[tab] \cap ListHazards \subseteq hazards[tab] \cup {"shifted", "overtaken"}

\* The names of the hazards are different.
LEMMA HazardNames ==
    /\ ListHazards \cap TableHazards = {}
    /\ "shifted" \in ListHazards /\ "crossed" \in ListHazards
    /\ "failed" \in ListHazards /\ "stale" \in ListHazards
    /\ "cut" \in ListHazards /\ "overtaken" \in ListHazards
    /\ "shifted" # "crossed" /\ "overtaken" # "crossed"
    /\ "silent" \in TableHazards /\ "refreshed" \in TableHazards
BY DEF ListHazards, TableHazards

\* A list is inserted into, and the table is told, reloaded or neither.
LEMMA ShownFacts ==
    ASSUME ArraysType', TableType, NEW tab \in Tabs, NEW t \in Twysts, Tabs' = Tabs,
           ShowInserted(tab, t) \/ Silent(tab, t),
           asked' \in SUBSET Twysts
    PROVE  /\ TableType' /\ HazardsKept(tab)
           /\ \A s \in Tabs : s # tab => rows'[s] = rows[s]
           /\ OutOfTurn(tab, t) => "shifted" \in hazards'[tab]
           /\ Overtaken(t) => "overtaken" \in hazards'[tab]
<1>1. /\ rows \in [Tabs -> Nat \ {0}] /\ crashed \in BOOLEAN
      /\ hazards \in [Tabs -> SUBSET (ListHazards \cup TableHazards)]
    BY DEF TableType
<1>2. /\ Noted(tab, t) \subseteq {"shifted", "overtaken"}
      /\ OutOfTurn(tab, t) => "shifted" \in Noted(tab, t)
      /\ Overtaken(t) => "overtaken" \in Noted(tab, t)
    BY DEF Noted
<1> DEFINE noted == Noted(tab, t)
<1> HIDE DEF noted
<1>4. ASSUME NEW h \in SUBSET (ListHazards \cup TableHazards),
             h \cap ListHazards = hazards[tab] \cap ListHazards,
             hazards' = [hazards EXCEPT ![tab] = h \cup noted],
             rows' \in [Tabs -> Nat \ {0}], crashed' \in BOOLEAN,
             \A s \in Tabs : s # tab => rows'[s] = rows[s]
      PROVE  /\ TableType' /\ HazardsKept(tab)
             /\ \A s \in Tabs : s # tab => rows'[s] = rows[s]
             /\ OutOfTurn(tab, t) => "shifted" \in hazards'[tab]
             /\ Overtaken(t) => "overtaken" \in hazards'[tab]
    <2>1. /\ noted \subseteq {"shifted", "overtaken"}
          /\ OutOfTurn(tab, t) => "shifted" \in noted
          /\ Overtaken(t) => "overtaken" \in noted
        BY <1>2 DEF noted
    <2>2. /\ hazards'[tab] = h \cup noted
          /\ \A s \in Tabs : s # tab => hazards'[s] = hazards[s]
          /\ hazards' \in [Tabs -> SUBSET (ListHazards \cup TableHazards)]
        BY <1>1, <1>4, <2>1, HazardNames
    <2>3. HazardsKept(tab)
        BY <1>4, <2>1, <2>2 DEF HazardsKept
    <2>4. TableType'
        BY <1>4, <2>2 DEF TableType, ListHazards, TableHazards
    <2> QED
        BY <1>4, <2>1, <2>2, <2>3, <2>4
<1>5. CASE Silent(tab, t)
    <2>1. /\ hazards' = [hazards EXCEPT ![tab] =
                (hazards[tab] \cup (IF list' = list THEN {} ELSE {"silent"})) \cup noted]
          /\ rows' = rows /\ crashed' = crashed
        BY <1>5 DEF Silent, Note, tableVars, noted
    <2> DEFINE h == hazards[tab] \cup (IF list' = list THEN {} ELSE {"silent"})
    <2>2. h \in SUBSET (ListHazards \cup TableHazards)
          /\ h \cap ListHazards = hazards[tab] \cap ListHazards
        BY <1>1, HazardNames
    <2> HIDE DEF h
    <2>3. hazards' = [hazards EXCEPT ![tab] = h \cup noted]
        BY <2>1 DEF h
    <2> QED
        BY <1>1, <1>4, <2>1, <2>2, <2>3
<1>6. ASSUME hazards' = [hazards EXCEPT ![tab] = hazards[tab] \cup noted],
             rows' \in [Tabs -> Nat \ {0}], crashed' \in BOOLEAN,
             \A s \in Tabs : s # tab => rows'[s] = rows[s]
      PROVE  /\ TableType' /\ HazardsKept(tab)
             /\ \A s \in Tabs : s # tab => rows'[s] = rows[s]
             /\ OutOfTurn(tab, t) => "shifted" \in hazards'[tab]
             /\ Overtaken(t) => "overtaken" \in hazards'[tab]
    <2>1. hazards[tab] \in SUBSET (ListHazards \cup TableHazards)
        BY <1>1
    <2> QED
        BY <1>4, <1>6, <2>1
<1>7. CASE /\ UNCHANGED <<rows, crashed>>
           /\ hazards' = [hazards EXCEPT ![tab] = hazards[tab] \cup noted]
    BY <1>1, <1>6, <1>7
<1>8. CASE Told(tab, rows[tab] + 1)
           /\ hazards' = [hazards EXCEPT ![tab] = hazards[tab] \cup noted]
    <2>1. Reloaded(tab) /\ crashed' = (rows[tab] + 1 # rows'[tab])
        BY <1>8 DEF Told
    <2>2. /\ rows' \in [Tabs -> Nat \ {0}]
          /\ \A s \in Tabs : s # tab => rows'[s] = rows[s]
        BY <2>1, ReloadedTyped
    <2>3. crashed' \in BOOLEAN
        BY <2>1
    <2> QED
        BY <1>6, <1>8, <2>2, <2>3
<1>9. CASE /\ Reloaded(tab) /\ crashed' = crashed
           /\ hazards' = [hazards EXCEPT ![tab] =
                             (hazards[tab] \ TableHazards) \cup noted]
    <2>1. /\ rows' \in [Tabs -> Nat \ {0}]
          /\ \A s \in Tabs : s # tab => rows'[s] = rows[s]
        BY <1>9, ReloadedTyped
    <2> DEFINE h == hazards[tab] \ TableHazards
    <2>2. h \in SUBSET (ListHazards \cup TableHazards)
          /\ h \cap ListHazards = hazards[tab] \cap ListHazards
        BY <1>1, HazardNames
    <2> HIDE DEF h
    <2>3. hazards' = [hazards EXCEPT ![tab] = h \cup noted]
        BY <1>9 DEF h
    <2> QED
        BY <1>1, <1>4, <1>9, <2>1, <2>2, <2>3
<1>10. CASE ShowInserted(tab, t)
    BY <1>7, <1>8, <1>9, <1>10 DEF ShowInserted, Note, tableVars, noted
<1> QED
    BY <1>5, <1>10

\* What a create, a reply and a didReply notification have in common.
Inserting(i, t) ==
    /\ \E kind \in {"create", "reply", "didReply"} : Take(i, kind, t)
    /\ Insert(TabOf[t], t)
    /\ asked' \in {{}, {t}}
    /\ ShowInserted(TabOf[t], t) \/ Silent(TabOf[t], t)

\* The three notifications that insert are one kind of step.
LEMMA InsertingIs ==
    ASSUME NEW t \in Twysts, NEW i \in DOMAIN notices,
           TwystCreated(i, t) \/ TwystReplied(i, t) \/ TwystDidReply(i, t)
    PROVE  Inserting(i, t)
<1>1. CASE TwystCreated(i, t)
    BY <1>1 DEF TwystCreated, Inserting
<1>2. CASE TwystReplied(i, t)
    BY <1>2 DEF TwystReplied, Inserting
<1>3. CASE TwystDidReply(i, t)
    BY <1>3 DEF TwystDidReply, Inserting, Silent
<1> QED
    BY <1>1, <1>2, <1>3

\* The parts of the state after a notification that inserts.
InsertedTo(i, t, tab) ==
    /\ tab = TabOf[t] /\ tab \in Tabs /\ status[t] # "draft"
    /\ FeedInv' /\ HazardsKept(tab)
    /\ OutOfTurn(tab, t) => "shifted" \in hazards'[tab]
    /\ Overtaken(t) => "overtaken" \in hazards'[tab]
    /\ \A s \in Tabs : s # tab => rows'[s] = rows[s] /\ list'[s] = list[s]
    /\ ToSet(list'[tab]) \subseteq ToSet(list[tab]) \cup {t}
    /\ ToSet(list[tab]) \subseteq ToSet(list'[tab])
    /\ tab \notin opened => list' = list
    /\ tab \in opened => t \in ToSet(list'[tab])
    /\ list' # list => Len(list'[tab]) = Len(list[tab]) + 1
    /\ Len(list'[tab]) >= Len(list[tab])
    /\ asked' \subseteq {t}

\* The state after one of them.
LEMMA InsertingFacts ==
    ASSUME FeedInv, NEW t \in Twysts, NEW i \in DOMAIN notices, Inserting(i, t)
    PROVE  InsertedTo(i, t, TabOf[t])
<1> DEFINE tab == TabOf[t]
<1>0. ServerType /\ PagesType /\ ArraysType /\ TableType
    BY FeedParts
<1>1. ListIsSorted /\ ServerInv /\ EntriesInv /\ ItemsInv
    BY DEF FeedInv
<1>2. PICK kind \in {"create", "reply", "didReply"} : Take(i, kind, t)
    BY DEF Inserting
<1>3. kind \in Kinds
    BY DEF Kinds
<1>4. /\ notices[i] \in ToSet(notices) /\ notices[i].twyst = t
      /\ UNCHANGED <<feed, TabOf, Tabs, Page, opened, cursor, allLoaded,
                     loadFailed, reloading>>
    BY <1>0, <1>2, <1>3, TakeFacts
<1>5. tab \in Tabs /\ status[t] # "draft"
    BY <1>0, <1>1, <1>4, TabFacts DEF ServerType, ServerInv
<1>6. Insert(tab, t) /\ asked' \in {{}, {t}}
      /\ (ShowInserted(tab, t) \/ Silent(tab, t))
    BY DEF Inserting
<1>7. /\ list' \in [Tabs -> Seq(Twysts)]
      /\ \A s \in Tabs : s # tab => list'[s] = list[s]
      /\ Sorted(list'[tab])
      /\ ToSet(list'[tab]) \subseteq ToSet(list[tab]) \cup {t}
      /\ ToSet(list[tab]) \subseteq ToSet(list'[tab])
      /\ tab \notin opened => list' = list
      /\ tab \in opened => t \in ToSet(list'[tab])
      /\ list' # list => Len(list'[tab]) = Len(list[tab]) + 1
      /\ Len(list'[tab]) >= Len(list[tab])
    BY <1>0, <1>1, <1>5, <1>6, InsertFacts
<1> HIDE DEF tab
<1>8. ArraysType'
    <2>1. \A s \in Tabs \ opened : list'[s] = <<>>
        BY <1>0, <1>7 DEF ArraysType
    <2> QED
        BY <1>0, <1>4, <1>7, <2>1 DEF ArraysType
<1>9. asked' \in SUBSET Twysts /\ asked' \subseteq {t}
    BY <1>6
<1>10. /\ TableType' /\ HazardsKept(tab)
       /\ \A s \in Tabs : s # tab => rows'[s] = rows[s]
       /\ OutOfTurn(tab, t) => "shifted" \in hazards'[tab]
       /\ Overtaken(t) => "overtaken" \in hazards'[tab]
    BY <1>0, <1>4, <1>5, <1>6, <1>8, <1>9, ShownFacts
<1>11. FeedInv'
    BY <1>2, <1>3, <1>7, <1>10, NotifiedFeed DEF tab
<1> QED
    BY <1>5, <1>7, <1>9, <1>10, <1>11 DEF InsertedTo, tab

\* The parts of the state after a deletion.
DeletedFrom(t, tab) ==
    /\ tab = TabOf[t] /\ tab \in Tabs /\ status[t] = "deleted"
    /\ FeedInv' /\ HazardsKept(tab)
    /\ list' # list /\ tab = "private" => "shifted" \in hazards'[tab]
    /\ \A s \in Tabs : s # tab => rows'[s] = rows[s] /\ list'[s] = list[s]
    /\ ToSet(list'[tab]) = ToSet(list[tab]) \ {t}
    /\ t \notin ToSet(list[tab]) => list' = list
    /\ t \in ToSet(list[tab]) => Len(list'[tab]) = Len(list[tab]) - 1
    /\ asked' = {}

\* The state after a deletion has been handled.
LEMMA DeletedFacts ==
    ASSUME FeedInv, NEW t \in Twysts, NEW i \in DOMAIN notices, TwystDeleted(i, t)
    PROVE  DeletedFrom(t, TabOf[t])
<1> DEFINE tab == TabOf[t]
           new == Without(list[tab], t)
<1>0. ServerType /\ PagesType /\ ArraysType /\ TableType
    BY FeedParts
<1>1. ListIsSorted /\ ServerInv /\ EntriesInv /\ ItemsInv
    BY DEF FeedInv
<1>2. Take(i, "delete", t) /\ "delete" \in Kinds
    BY DEF TwystDeleted, Kinds
<1>4. /\ notices[i] \in ToSet(notices) /\ notices[i].twyst = t
      /\ notices[i].kind = "delete"
      /\ UNCHANGED <<feed, TabOf, Tabs, Page, opened, cursor, allLoaded,
                     loadFailed, reloading>>
    BY <1>0, <1>2, TakeFacts
<1>5. tab \in Tabs /\ status[t] = "deleted"
    BY <1>0, <1>1, <1>4, TabFacts DEF ServerType, ServerInv
<1>6. list[tab] \in Seq(Twysts) /\ Sorted(list[tab])
    BY <1>0, <1>1, <1>5, KeptSorted
<1>7. /\ hazards \in [Tabs -> SUBSET (ListHazards \cup TableHazards)]
      /\ rows \in [Tabs -> Nat \ {0}] /\ crashed \in BOOLEAN
    BY <1>0 DEF TableType
<1>8. CASE t \notin ToSet(list[tab])
    <2>1. UNCHANGED <<list, rows, crashed, hazards>> /\ asked' = {}
        BY <1>8 DEF TwystDeleted, tableVars
    <2>2. TableType'
        BY <1>0, <1>4, <2>1 DEF TableType, ListHazards, TableHazards
    <2> HIDE DEF tab
    <2>3. HazardsKept(tab)
        BY <1>7, <2>1 DEF HazardsKept
    <2>4. list \in [Tabs -> Seq(Twysts)]
        BY <1>0 DEF ArraysType
    <2>5. FeedInv'
        BY <1>2, <1>6, <2>1, <2>2, <2>4, NotifiedFeed DEF tab
    <2> QED
        BY <1>5, <1>8, <2>1, <2>3, <2>5 DEF DeletedFrom, tab
<1>9. CASE t \in ToSet(list[tab])
    <2>1. /\ list' = [list EXCEPT ![tab] = new] /\ asked' = {}
          /\ \/ /\ Told(tab, rows[tab] - 1)
                /\ hazards' = [hazards EXCEPT ![tab] = hazards[tab] \cup Shift(tab)]
             \/ /\ Reloaded(tab)
                /\ hazards' = [hazards EXCEPT ![tab] =
                                  (hazards[tab] \ TableHazards) \cup Shift(tab)]
                /\ UNCHANGED crashed
        BY <1>9 DEF TwystDeleted
    <2>2. /\ new \in Seq(Twysts) /\ Sorted(new)
          /\ ToSet(new) = ToSet(list[tab]) \ {t}
          /\ Len(new) = Len(list[tab]) - 1
        BY <1>6, <1>9, WithoutOne
    <2>3. tab \in opened
        BY <1>0, <1>5, <1>9, EmptyElements DEF ArraysType
    <2> HIDE DEF tab, new
    <2>4. /\ list' \in [Tabs -> Seq(Twysts)] /\ list'[tab] = new
          /\ \A s \in Tabs : s # tab => list'[s] = list[s]
        BY <1>0, <1>5, <2>1, <2>2 DEF ArraysType
    <2>5. ArraysType'
        <3>1. \A s \in Tabs \ opened : list'[s] = <<>>
            BY <1>0, <2>3, <2>4 DEF ArraysType
        <3> QED
            BY <1>0, <1>4, <2>4, <3>1 DEF ArraysType
    <2>6. Reloaded(tab) /\ crashed' \in BOOLEAN
        BY <1>7, <2>1 DEF Told
    <2>7. /\ rows' \in [Tabs -> Nat \ {0}]
          /\ \A s \in Tabs : s # tab => rows'[s] = rows[s]
        BY <1>0, <1>4, <1>5, <2>5, <2>6, ReloadedTyped
    <2>8. Shift(tab) \subseteq {"shifted"}
          /\ (tab = "private" => Shift(tab) = {"shifted"})
        BY DEF Shift
    <2>9. PICK h \in {hazards[tab], hazards[tab] \ TableHazards} :
             hazards' = [hazards EXCEPT ![tab] = h \cup Shift(tab)]
        BY <2>1
    <2>10. /\ h \in SUBSET (ListHazards \cup TableHazards)
           /\ h \cap ListHazards = hazards[tab] \cap ListHazards
        <3>1. hazards[tab] \in SUBSET (ListHazards \cup TableHazards)
            BY <1>5, <1>7
        <3> QED
            BY <2>9, <3>1, HazardNames
    <2>11. /\ hazards' \in [Tabs -> SUBSET (ListHazards \cup TableHazards)]
           /\ hazards'[tab] = h \cup Shift(tab)
           /\ \A s \in Tabs : s # tab => hazards'[s] = hazards[s]
        BY <1>5, <1>7, <2>8, <2>9, <2>10, HazardNames
    <2>12. HazardsKept(tab)
        BY <2>8, <2>10, <2>11 DEF HazardsKept
    <2>13. TableType'
        BY <1>4, <2>1, <2>6, <2>7, <2>11 DEF TableType, ListHazards, TableHazards
    <2>14. FeedInv'
        BY <1>2, <2>2, <2>3, <2>4, <2>13, NotifiedFeed DEF tab
    <2> QED
        BY <1>5, <1>9, <2>1, <2>2, <2>4, <2>7, <2>8, <2>11, <2>12, <2>14
        DEF DeletedFrom, tab
<1> QED
    BY <1>8, <1>9

\* The invariant holds at the start ...
LEMMA InitFeed == Init => FeedInv
<1> SUFFICES ASSUME Init PROVE FeedInv
    OBVIOUS
<1>1. feed \in Feeds
    BY DEF Init
<1>2. /\ TabOf \in [Twysts -> {"twysted", "private"}]
      /\ Tabs \subseteq {"twysted", "private"}
      /\ \A t \in Twysts : TabOf[t] \in Tabs /\ t \in Nat /\ t # 0
      /\ MaxTime \in Nat /\ feed.drafts \subseteq Twysts
      /\ \A t \in Twysts \ feed.drafts : t <= MaxTime
    BY <1>1, TabFacts
<1>3. /\ status = [t \in Twysts |->
                      IF t \in feed.drafts THEN "draft" ELSE "complete"]
      /\ actionTime = [t \in Twysts |-> t] /\ notices = <<>>
      /\ opened = Tabs \ {"private"}
      /\ pages = IF opened = {} THEN <<>> ELSE <<NewPage("twysted", 0)>>
      /\ list = [tab \in Tabs |-> <<>>] /\ cursor = [tab \in Tabs |-> 0]
      /\ allLoaded = [tab \in Tabs |-> FALSE]
      /\ loadFailed = [tab \in Tabs |-> FALSE] /\ reloading = FALSE
      /\ rows = [tab \in Tabs |-> 1] /\ asked = {} /\ crashed = FALSE
      /\ hazards = [tab \in Tabs |-> {}]
    BY DEF Init
<1>4. clock \in 0 .. MaxTime /\ \A t \in Twysts \ feed.drafts : t <= clock
    <2> DEFINE S == (Twysts \ feed.drafts) \cup {0}
    <2>1. clock = Max(S)
        BY DEF Init
    <2>2. S \in SUBSET Nat /\ S # {} /\ \A y \in S : y <= MaxTime
        BY <1>2
    <2> HIDE DEF S
    <2>3. Max(S) \in S /\ \A y \in S : y <= Max(S)
        BY <1>2, <2>2, MaxOf
    <2>4. clock \in Nat /\ clock <= MaxTime
        BY <2>1, <2>2, <2>3
    <2> QED
        BY <1>2, <2>1, <2>3, <2>4 DEF S
<1>5. status \in [Twysts -> {"draft", "complete", "deleted"}]
      /\ \A t \in Twysts : status[t] # "draft" =>
            status[t] = "complete" /\ t \notin feed.drafts
    BY <1>3
<1>6. ServerType
    <2>1. actionTime \in [Twysts -> Nat]
        BY <1>2, <1>3
    <2>2. notices \in Seq(Notice)
        BY <1>3
    <2> QED
        BY <1>1, <1>4, <1>5, <2>1, <2>2 DEF ServerType
<1>7. opened # {} => "twysted" \in Tabs /\ "twysted" \in opened
    BY <1>2, <1>3
<1>8. /\ PagesType
      /\ \A i \in DOMAIN pages : /\ pages[i] = NewPage("twysted", 0)
                                 /\ "twysted" \in opened /\ i = 1
    <2>1. CASE opened = {}
        <3>1. pages = <<>> /\ pages \in Seq(Page) /\ Len(pages) = 0
              /\ DOMAIN pages = {}
            BY <1>3, <2>1
        <3> QED
            BY <3>1, BoundsAssumption DEF PagesType
    <2>2. CASE opened # {}
        <3> DEFINE n == NewPage("twysted", 0)
        <3>1. n \in Page
            BY <1>7, <2>2, NewPageFacts
        <3>2. pages = <<n>>
            BY <1>3, <2>2
        <3> HIDE DEF n
        <3>3. /\ pages \in Seq(Page) /\ Len(pages) = 1 /\ DOMAIN pages = {1}
              /\ pages[1] = n
            BY <3>1, <3>2
        <3>4. 1 <= MaxPages
            BY BoundsAssumption
        <3> QED
            BY <1>7, <2>2, <3>3, <3>4 DEF PagesType, n
    <2> QED
        BY <2>1, <2>2
<1>9. ArraysType
    <2>1. opened \in SUBSET Tabs /\ reloading \in BOOLEAN
        BY <1>3
    <2>2. <<>> \in Seq(Twysts)
        OBVIOUS
    <2>3. list \in [Tabs -> Seq(Twysts)] /\ \A tab \in Tabs : list[tab] = <<>>
        BY <1>3, <2>2
    <2>4. cursor \in [Tabs -> Nat]
        BY <1>3
    <2>5. allLoaded \in [Tabs -> BOOLEAN] /\ loadFailed \in [Tabs -> BOOLEAN]
        BY <1>3
    <2> QED
        BY <2>1, <2>3, <2>4, <2>5 DEF ArraysType
<1>10. TableType
    <2>1. rows \in [Tabs -> Nat \ {0}] /\ asked \in SUBSET Twysts
        BY <1>3
    <2>2. crashed \in BOOLEAN
        BY <1>3
    <2>3. hazards \in [Tabs -> SUBSET (ListHazards \cup TableHazards)]
        BY <1>3
    <2> QED
        BY <2>1, <2>2, <2>3 DEF TableType
<1>11. ListIsSorted
    BY <1>3 DEF ListIsSorted
<1>12. ServerInv
    <2>1. \A t \in Twysts : actionTime[t] = t
        BY <1>3
    <2>2. ToSet(notices) = {}
        BY <1>3, EmptyElements
    <2>3. ASSUME NEW t \in Twysts, status[t] = "complete"
          PROVE  0 < t /\ t <= clock
        BY <1>2, <1>4, <1>5, <2>3
    <2> QED
        BY <2>1, <2>2, <2>3 DEF ServerInv
<1>13. EntriesInv
    BY <1>3, EmptyElements DEF EntriesInv
<1>14. ItemsInv
    <2>1. ASSUME NEW i \in DOMAIN pages
          PROVE  PageGood(pages[i])
        <3>1. pages[i].tab = "twysted" /\ pages[i].items = <<>>
            BY <1>8 DEF NewPage
        <3> QED
            BY <1>8, <3>1, EmptyElements DEF PageGood
    <2> QED
        BY <1>3, <2>1 DEF ItemsInv
<1> QED
    BY <1>6, <1>8, <1>9, <1>10, <1>11, <1>12, <1>13, <1>14, TypeParts DEF FeedInv

\* The steps of the program, those with something in common taken together.
LEMMA Steps ==
    ASSUME FeedInv, Next
    PROVE  \/ \E t \in Twysts : Acted(t) \/ ServerDeletes(t)
           \/ \E i \in DOMAIN pages : ServerAnswers(i) \/ RequestFails(i)
           \/ \E tab \in Tabs : /\ Refresh(tab) /\ reloading' \in BOOLEAN
           \/ \E tab \in Tabs : LoadMore(tab) \/ Appear(tab)
           \/ \E tab \in Tabs : \E i \in DOMAIN pages :
                 PageLoaded(tab, i) \/ PageFailed(tab, i)
           \/ \E t \in Twysts : \E i \in DOMAIN notices :
                 Inserting(i, t) \/ TwystDeleted(i, t)
<1>0. ServerType /\ ArraysType
    BY FeedParts
<1>1. CASE Server
    BY <1>0, <1>1, ActedFacts DEF Server
<1>2. CASE OpenPrivate
    <2>1. Refresh("private") /\ "private" \in Tabs /\ reloading' = reloading
        BY <1>2 DEF OpenPrivate
    <2>2. reloading' \in BOOLEAN
        BY <1>0, <2>1 DEF ArraysType
    <2> QED
        BY <2>1, <2>2
<1>3. CASE Pages
    <2>1. \A tab \in Tabs : Pull(tab) => Refresh(tab) /\ reloading' \in BOOLEAN
        BY DEF Pull
    <2> QED
        BY <1>3, <2>1 DEF Pages
<1>4. CASE Notifications
    BY <1>4, InsertingIs DEF Notifications
<1> QED
    BY <1>1, <1>2, <1>3, <1>4 DEF Next

\* ... and every step keeps it.
LEMMA FeedStep == FeedInv /\ [Next]_vars => FeedInv'
<1> SUFFICES ASSUME FeedInv, [Next]_vars PROVE FeedInv'
    OBVIOUS
<1>1. CASE Next
    <2>1. ASSUME NEW t \in Twysts, Acted(t) \/ ServerDeletes(t)
          PROVE  FeedInv'
        BY <2>1, ActedFeed, DeletesFeed
    <2>2. ASSUME NEW i \in DOMAIN pages, ServerAnswers(i) \/ RequestFails(i)
          PROVE  FeedInv'
        BY <2>2, AnswersFeed, FailsFeed
    <2>3. ASSUME NEW tab \in Tabs, Refresh(tab), reloading' \in BOOLEAN
          PROVE  FeedInv'
        BY <2>3, RefreshFeed
    <2>4. ASSUME NEW tab \in Tabs, LoadMore(tab) \/ Appear(tab)
          PROVE  FeedInv'
        BY <2>4, LoadMoreFeed, AppearFeed
    <2>5. ASSUME NEW tab \in Tabs, NEW i \in DOMAIN pages,
                 PageLoaded(tab, i) \/ PageFailed(tab, i)
          PROVE  FeedInv'
        BY <2>5, LoadedFeed, PageFailedFeed
    <2>6. ASSUME NEW t \in Twysts, NEW i \in DOMAIN notices,
                 Inserting(i, t) \/ TwystDeleted(i, t)
          PROVE  FeedInv'
        BY <2>6, InsertingFacts, DeletedFacts DEF InsertedTo, DeletedFrom
    <2> QED
        BY <1>1, <2>1, <2>2, <2>3, <2>4, <2>5, <2>6, Steps
<1>2. CASE UNCHANGED vars
    <2>1. UNCHANGED <<feed, status, actionTime, clock, notices, pages, opened,
                      list, cursor, allLoaded, loadFailed, reloading, rows,
                      crashed, asked, hazards>>
        BY <1>2 DEF vars, serverVars, tabVars, tableVars
    <2>2. UNCHANGED <<TabOf, Tabs, MaxTime, Page, ToSet(notices)>>
        BY <2>1 DEF TabOf, Tabs, MaxTime, Page, ToSet
    <2>3. TypeOK'
        BY <2>1, <2>2 DEF FeedInv, TypeOK, ListHazards, TableHazards
    <2>4. ListIsSorted' /\ ServerInv' /\ EntriesInv' /\ ItemsInv'
        BY <2>1, <2>2 DEF FeedInv, ListIsSorted, ServerInv, EntriesInv,
                          ItemsInv, PageGood
    <2> QED
        BY <2>3, <2>4 DEF FeedInv
<1> QED
    BY <1>1, <1>2

\* Every variable keeps its type: with MaxPages requests at most under way,
\* and with a list for each tab that exists.
THEOREM FeedTyped == Spec => []TypeOK
<1>1. FeedInv => TypeOK
    BY DEF FeedInv
<1> QED
    BY InitFeed, FeedStep, <1>1, PTL DEF Spec

\* Whatever pages and notifications come, and in any order, a list holds no
\* twyst twice and is sorted by the time of finalisation, newest first.
THEOREM ListsStaySorted == Spec => []ListIsSorted
<1>1. FeedInv => ListIsSorted
    BY DEF FeedInv
<1> QED
    BY InitFeed, FeedStep, <1>1, PTL DEF Spec

-----------------------------------------------------------------------------
(* What a table is told                                                    *)

Quiet(tab) == hazards[tab] \cap TableHazards = {}

\* A table has the rows that its array asks for, unless that was changed
\* behind its back.
TableInv == \A tab \in Tabs : Quiet(tab) => rows[tab] = NumberOfRows(tab)

\* A tab that a step leaves alone.
LEMMA SameRows ==
    ASSUME NEW s \in Tabs, list'[s] = list[s], allLoaded'[s] = allLoaded[s],
           loadFailed'[s] = loadFailed[s], rows'[s] = rows[s],
           hazards'[s] = hazards[s], Quiet(s) => rows[s] = NumberOfRows(s)
    PROVE  (hazards'[s] \cap TableHazards = {}) => rows'[s] = NumberOfRows(s)'
BY DEF NumberOfRows, Quiet

\* A step that concerns one tab.
LEMMA OneTable ==
    ASSUME TableInv, Tabs' = Tabs, NEW tab \in Tabs, ~crashed,
           \A s \in Tabs : s # tab => /\ list'[s] = list[s]
                                      /\ allLoaded'[s] = allLoaded[s]
                                      /\ loadFailed'[s] = loadFailed[s]
                                      /\ rows'[s] = rows[s]
                                      /\ hazards'[s] = hazards[s],
           hazards'[tab] \cap TableHazards = {} =>
               rows'[tab] = NumberOfRows(tab)' /\ ~crashed'
    PROVE  TableInv' /\ NoBadUpdate'
<1>1. ASSUME NEW s \in Tabs, hazards'[s] \cap TableHazards = {}
      PROVE  rows'[s] = NumberOfRows(s)'
    <2>1. CASE s = tab
        BY <1>1, <2>1
    <2>2. CASE s # tab
        BY <1>1, <2>2, SameRows DEF TableInv
    <2> QED
        BY <2>1, <2>2
<1>2. TableInv'
    BY <1>1 DEF TableInv, Quiet, TableHazards
<1>3. NoBadUpdate'
    BY DEF NoBadUpdate, TableHazards
<1> QED
    BY <1>2, <1>3

\* A step that concerns no table.
LEMMA NoTable ==
    ASSUME TableInv, Tabs' = Tabs, ~crashed,
           UNCHANGED <<list, allLoaded, loadFailed, rows, crashed, hazards>>
    PROVE  TableInv' /\ NoBadUpdate'
<1>1. \A s \in Tabs : NumberOfRows(s)' = NumberOfRows(s)
    BY DEF NumberOfRows
<1>2. TableInv'
    BY <1>1 DEF TableInv, Quiet, TableHazards
<1>3. NoBadUpdate'
    BY DEF NoBadUpdate
<1> QED
    BY <1>2, <1>3

\* The steps of the server concern none.
LEMMA ServerTable ==
    ASSUME FeedInv, TableInv, ~crashed,
           \/ \E t \in Twysts : Acted(t) \/ ServerDeletes(t)
           \/ \E i \in DOMAIN pages : ServerAnswers(i) \/ RequestFails(i)
    PROVE  TableInv' /\ NoBadUpdate'
<1>1. UNCHANGED <<feed, list, allLoaded, loadFailed, rows, crashed, hazards>>
    BY DEF Acted, ServerDeletes, ServerAnswers, RequestFails, RestUnchanged,
           serverVars, tabVars, tableVars
<1>2. Tabs' = Tabs
    BY <1>1 DEF Tabs, TabOf
<1> QED
    BY <1>1, <1>2, NoTable

\* A pulled list changes its flag, and is reloaded only if it is private.
LEMMA RefreshTable ==
    ASSUME FeedInv, TableInv, ~crashed, NEW tab \in Tabs, Refresh(tab),
           reloading' \in BOOLEAN
    PROVE  TableInv' /\ NoBadUpdate'
<1>0. ServerType /\ ArraysType /\ TableType /\ PagesType
    BY FeedParts
<1>1. /\ allLoaded' = [allLoaded EXCEPT ![tab] = FALSE]
      /\ list' = list /\ crashed' = crashed
    BY DEF Refresh
<1>2. SameServer
    BY DEF SameServer, Refresh
<1>3. Tabs' = Tabs
    BY <1>2, SameServerFacts
<1>4. FeedInv'
    BY RefreshFeed
<1>5. ArraysType' /\ TableType'
    BY <1>4 DEF FeedInv, TypeOK, ArraysType, TableType
<1>6. /\ allLoaded'[tab] = FALSE
      /\ \A s \in Tabs : s # tab => allLoaded'[s] = allLoaded[s]
    BY <1>0, <1>1 DEF ArraysType
<1>7. hazards \in [Tabs -> SUBSET (ListHazards \cup TableHazards)]
    BY <1>0 DEF TableType
<1>8. CASE tab = "private"
    <2>1. /\ loadFailed' = [loadFailed EXCEPT ![tab] = FALSE] /\ Reloaded(tab)
          /\ hazards' = [hazards EXCEPT ![tab] = hazards[tab] \ TableHazards]
        BY <1>8 DEF Refresh
    <2>2. /\ \A s \in Tabs : s # tab => loadFailed'[s] = loadFailed[s]
          /\ \A s \in Tabs : s # tab => hazards'[s] = hazards[s]
        BY <1>0, <1>7, <2>1 DEF ArraysType
    <2>3. /\ rows'[tab] = NumberOfRows(tab)'
          /\ \A s \in Tabs : s # tab => rows'[s] = rows[s]
        BY <1>0, <1>3, <1>5, <2>1, ReloadedTyped
    <2> QED
        BY <1>1, <1>3, <1>6, <2>2, <2>3, OneTable
<1>9. CASE tab # "private"
    <2>1. /\ hazards' = [hazards EXCEPT ![tab] = hazards[tab] \cup
                            (IF allLoaded[tab] THEN {"refreshed"} ELSE {})]
          /\ loadFailed' = loadFailed /\ rows' = rows
        BY <1>9 DEF Refresh
    <2>2. /\ \A s \in Tabs : s # tab => hazards'[s] = hazards[s]
          /\ hazards'[tab] = hazards[tab] \cup
                                (IF allLoaded[tab] THEN {"refreshed"} ELSE {})
        BY <1>7, <2>1
    <2>3. ASSUME hazards'[tab] \cap TableHazards = {}
          PROVE  rows'[tab] = NumberOfRows(tab)'
        <3>1. ~allLoaded[tab] /\ Quiet(tab)
            BY <2>2, <2>3, HazardNames DEF Quiet
        <3>2. allLoaded[tab] = FALSE
            BY <1>0, <3>1 DEF ArraysType
        <3>3. NumberOfRows(tab)' = NumberOfRows(tab)
            BY <1>1, <1>6, <2>1, <3>2 DEF NumberOfRows
        <3> QED
            BY <2>1, <3>1, <3>3 DEF TableInv
    <2> QED
        BY <1>1, <1>3, <1>6, <2>1, <2>2, <2>3, OneTable
<1> QED
    BY <1>8, <1>9

\* Asking for more, and the screen that comes back.
LEMMA MoreTable ==
    ASSUME FeedInv, TableInv, ~crashed, NEW tab \in Tabs,
           LoadMore(tab) \/ Appear(tab)
    PROVE  TableInv' /\ NoBadUpdate'
<1>0. ServerType /\ ArraysType /\ TableType /\ PagesType
    BY FeedParts
<1>1. UNCHANGED <<feed, opened, list, cursor, allLoaded, reloading, crashed>>
    BY DEF LoadMore, Appear, serverVars, tabVars
<1>2. Tabs' = Tabs
    BY <1>1 DEF Tabs, TabOf
<1>f. \/ loadFailed' = loadFailed
      \/ loadFailed' = [loadFailed EXCEPT ![tab] = FALSE] /\ Reloaded(tab)
         /\ hazards' = [hazards EXCEPT ![tab] = hazards[tab] \ TableHazards]
    BY DEF LoadMore, Appear, tabVars
<1>g. /\ loadFailed' \in [Tabs -> BOOLEAN]
      /\ \A s \in Tabs : s # tab => loadFailed'[s] = loadFailed[s]
    BY <1>0, <1>f DEF ArraysType
<1>3. ArraysType'
    BY <1>0, <1>1, <1>2, <1>g DEF ArraysType
<1>4. hazards \in [Tabs -> SUBSET (ListHazards \cup TableHazards)]
    BY <1>0 DEF TableType
<1>5. CASE Reloaded(tab)
           /\ hazards' = [hazards EXCEPT ![tab] = hazards[tab] \ TableHazards]
    <2>1. \A s \in Tabs : s # tab => hazards'[s] = hazards[s]
        BY <1>4, <1>5
    <2>2. /\ rows'[tab] = NumberOfRows(tab)'
          /\ \A s \in Tabs : s # tab => rows'[s] = rows[s]
        BY <1>0, <1>2, <1>3, <1>5, ReloadedTyped
    <2> QED
        BY <1>1, <1>2, <1>g, <2>1, <2>2, OneTable
<1>6. CASE UNCHANGED <<loadFailed, rows, hazards>>
    BY <1>1, <1>2, <1>6, NoTable
<1> QED
    BY <1>5, <1>6 DEF LoadMore, Appear

\* A table is reloaded after a page, whether it came or failed.
LEMMA LoadedTable ==
    ASSUME FeedInv, TableInv, ~crashed, NEW tab \in Tabs, NEW i \in DOMAIN pages,
           PageLoaded(tab, i) \/ PageFailed(tab, i)
    PROVE  TableInv' /\ NoBadUpdate'
<1>1. CASE PageLoaded(tab, i)
    <2> DEFINE p == pages[i]
               new == Merged(Kept(tab), p.items)
    <2>1. LoadedTo(tab, i, p, new)
        BY <1>1, LoadedFacts
    <2> HIDE DEF p, new
    <2>2. SameServer /\ crashed' = crashed /\ rows'[tab] = NumberOfRows(tab)'
          /\ \A s \in Tabs : s # tab => /\ list'[s] = list[s]
                                        /\ allLoaded'[s] = allLoaded[s]
                                        /\ loadFailed'[s] = loadFailed[s]
                                        /\ rows'[s] = rows[s]
                                        /\ hazards'[s] = hazards[s]
        BY <2>1 DEF LoadedTo
    <2>3. Tabs' = Tabs
        BY <2>2, SameServerFacts
    <2> QED
        BY <2>2, <2>3, OneTable
<1>2. CASE PageFailed(tab, i)
    <2>2. SameServer /\ crashed' = crashed /\ rows'[tab] = NumberOfRows(tab)'
          /\ allLoaded' = allLoaded
          /\ \A s \in Tabs : s # tab => /\ list'[s] = list[s]
                                        /\ loadFailed'[s] = loadFailed[s]
                                        /\ rows'[s] = rows[s]
                                        /\ hazards'[s] = hazards[s]
        BY <1>2, PageFailedFacts
    <2>3. Tabs' = Tabs
        BY <2>2, SameServerFacts
    <2> QED
        BY <2>2, <2>3, OneTable
<1> QED
    BY <1>1, <1>2

\* A table that is told of a row more has one entry more.
LEMMA InsertingTable ==
    ASSUME FeedInv, TableInv, ~crashed, NEW t \in Twysts, NEW i \in DOMAIN notices,
           Inserting(i, t)
    PROVE  TableInv' /\ NoBadUpdate'
<1>t. PICK tab : tab = TabOf[t]
    OBVIOUS
<1>0. ServerType /\ ArraysType /\ TableType /\ PagesType
    BY FeedParts
<1>1. InsertedTo(i, t, tab)
    BY <1>t, InsertingFacts DEF InsertedTo
<1>2. PICK kind \in Kinds : Take(i, kind, t)
    BY DEF Inserting, Kinds
<1>3. /\ Tabs' = Tabs /\ opened' = opened
      /\ allLoaded' = allLoaded /\ loadFailed' = loadFailed
      /\ TabOf' = TabOf /\ feed' = feed
    BY <1>0, <1>2, TakeFacts
<1>4. ShowInserted(tab, t) \/ Silent(tab, t)
    BY <1>3, <1>t DEF Inserting, ShowInserted, Silent, Told, Reloaded,
                      NumberOfRows, Note, Noted, OutOfTurn, Overtaken
<1>5. /\ tab \in Tabs /\ HazardsKept(tab)
      /\ \A s \in Tabs : s # tab => rows'[s] = rows[s] /\ list'[s] = list[s]
      /\ tab \notin opened => list' = list
      /\ list' # list => Len(list'[tab]) = Len(list[tab]) + 1
      /\ FeedInv'
    BY <1>1 DEF InsertedTo
<1>6. \A s \in Tabs : s # tab => hazards'[s] = hazards[s]
    BY <1>5 DEF HazardsKept
<1>7. /\ hazards \in [Tabs -> SUBSET (ListHazards \cup TableHazards)]
      /\ rows \in [Tabs -> Nat \ {0}]
    BY <1>0 DEF TableType
<1>8. ArraysType'
    BY <1>5 DEF FeedInv, TypeOK, ArraysType
<1>9. CASE /\ UNCHANGED <<list, rows, crashed>>
           /\ hazards[tab] \subseteq hazards'[tab]
    <2>1. ASSUME hazards'[tab] \cap TableHazards = {}
          PROVE  rows'[tab] = NumberOfRows(tab)' /\ ~crashed'
        <3>1. Quiet(tab)
            BY <1>9, <2>1 DEF Quiet
        <3>2. rows[tab] = NumberOfRows(tab)
            BY <1>5, <3>1 DEF TableInv
        <3> QED
            BY <1>3, <1>9, <3>2 DEF NumberOfRows
    <2> QED
        BY <1>3, <1>5, <1>6, <2>1, OneTable
<1>10. CASE Silent(tab, t) /\ list' # list
    <2>1. hazards' = [hazards EXCEPT ![tab] =
                         (hazards[tab] \cup {"silent"}) \cup Noted(tab, t)]
        BY <1>10 DEF Silent, Note
    <2>2. "silent" \in hazards'[tab]
        BY <1>5, <1>7, <2>1
    <2>3. hazards'[tab] \cap TableHazards # {}
        BY <2>2, HazardNames
    <2> QED
        BY <1>3, <1>5, <1>6, <2>3, OneTable
<1>11. CASE Reloaded(tab) /\ crashed' = crashed
    <2>1. rows'[tab] = NumberOfRows(tab)'
        BY <1>0, <1>3, <1>5, <1>8, <1>11, ReloadedTyped
    <2> QED
        BY <1>3, <1>5, <1>6, <1>11, <2>1, OneTable
<1>12. CASE /\ Len(list'[tab]) > 1 /\ Told(tab, rows[tab] + 1)
            /\ ~(list' = list /\ tab \in opened)
            /\ hazards' = [hazards EXCEPT ![tab] = hazards[tab] \cup Noted(tab, t)]
    <2>1. Reloaded(tab) /\ crashed' = (rows[tab] + 1 # rows'[tab])
        BY <1>12 DEF Told
    <2>2. rows'[tab] = NumberOfRows(tab)'
        BY <1>0, <1>3, <1>5, <1>8, <2>1, ReloadedTyped
    <2>3. list' # list
        <3> SUFFICES ASSUME list' = list PROVE FALSE
            OBVIOUS
        <3>1. tab \notin opened
            BY <1>12
        <3>2. list[tab] = <<>>
            BY <1>0, <1>5, <3>1 DEF ArraysType
        <3>3. Len(list'[tab]) = 0
            BY <3>2
        <3> QED
            BY <1>12, <3>3
    <2>4. list[tab] \in Seq(Twysts) /\ list'[tab] \in Seq(Twysts)
        BY <1>0, <1>3, <1>5, <1>8 DEF ArraysType
    <2>5. /\ Len(list[tab]) \in Nat /\ (Len(list[tab]) = 0 <=> list[tab] = <<>>)
          /\ (Len(list'[tab]) = 0 <=> list'[tab] = <<>>)
        BY <2>4, Elements
    <2>6. Len(list'[tab]) = Len(list[tab]) + 1
        BY <1>5, <2>3
    <2>7. list[tab] # <<>> /\ list'[tab] # <<>>
        BY <1>12, <2>5, <2>6
    <2>8. NumberOfRows(tab)' = NumberOfRows(tab) + 1
        BY <1>3, <2>5, <2>6, <2>7 DEF NumberOfRows
    <2>9. ASSUME hazards'[tab] \cap TableHazards = {}
          PROVE  ~crashed'
        <3>1. hazards'[tab] = hazards[tab] \cup Noted(tab, t)
            BY <1>5, <1>7, <1>12
        <3>2. Quiet(tab)
            BY <2>9, <3>1 DEF Quiet
        <3>3. rows[tab] = NumberOfRows(tab)
            BY <1>5, <3>2 DEF TableInv
        <3> QED
            BY <2>1, <2>2, <2>8, <3>3
    <2> QED
        BY <1>3, <1>5, <1>6, <2>2, <2>9, OneTable
<1>13. CASE ShowInserted(tab, t)
    <2>1. CASE list' = list /\ tab \in opened
        <3>1. /\ UNCHANGED <<list, rows, crashed>>
              /\ hazards' = [hazards EXCEPT ![tab] = hazards[tab] \cup Noted(tab, t)]
            BY <1>13, <2>1 DEF ShowInserted, Note, tableVars
        <3>2. hazards[tab] \subseteq hazards'[tab]
            BY <1>5, <1>7, <3>1
        <3> QED
            BY <1>9, <3>1, <3>2
    <2>2. CASE ~(list' = list /\ tab \in opened)
        BY <1>11, <1>12, <1>13, <2>2 DEF ShowInserted, Note
    <2> QED
        BY <2>1, <2>2
<1>14. CASE Silent(tab, t) /\ list' = list
    <2>1. /\ UNCHANGED <<list, rows, crashed>>
          /\ hazards' = [hazards EXCEPT ![tab] = (hazards[tab] \cup {}) \cup Noted(tab, t)]
        BY <1>14 DEF Silent, Note, tableVars
    <2>2. hazards[tab] \subseteq hazards'[tab]
        BY <1>5, <1>7, <2>1
    <2> QED
        BY <1>9, <2>1, <2>2
<1> QED
    BY <1>4, <1>10, <1>13, <1>14

\* A table that is told of a row less has one entry less, and not the
\* last one is gone.
LEMMA DeletedTable ==
    ASSUME FeedInv, TableInv, ~crashed, NEW t \in Twysts, NEW i \in DOMAIN notices,
           TwystDeleted(i, t)
    PROVE  TableInv' /\ NoBadUpdate'
<1>t. PICK tab : tab = TabOf[t]
    OBVIOUS
<1>0. ServerType /\ ArraysType /\ TableType /\ PagesType
    BY FeedParts
<1>1. DeletedFrom(t, tab)
    BY <1>t, DeletedFacts DEF DeletedFrom
<1>2. Take(i, "delete", t) /\ "delete" \in Kinds
    BY DEF TwystDeleted, Kinds
<1>3. /\ Tabs' = Tabs /\ opened' = opened
      /\ allLoaded' = allLoaded /\ loadFailed' = loadFailed
      /\ TabOf' = TabOf /\ feed' = feed
    BY <1>0, <1>2, TakeFacts
<1>4. CASE t \notin ToSet(list[tab])
    <2>1. UNCHANGED <<list, rows, crashed, hazards>>
        BY <1>t, <1>4 DEF TwystDeleted, tableVars
    <2> QED
        BY <1>3, <2>1, NoTable
<1>5. CASE t \in ToSet(list[tab])
    <2>1. \/ /\ list'[tab] # <<>> /\ Told(tab, rows[tab] - 1)
             /\ hazards' = [hazards EXCEPT ![tab] = hazards[tab] \cup Shift(tab)]
          \/ Reloaded(tab) /\ UNCHANGED crashed
        BY <1>3, <1>t, <1>5 DEF TwystDeleted, Told, Reloaded, NumberOfRows, Shift
    <2>2. /\ tab \in Tabs /\ HazardsKept(tab) /\ FeedInv'
          /\ \A s \in Tabs : s # tab => rows'[s] = rows[s] /\ list'[s] = list[s]
          /\ Len(list'[tab]) = Len(list[tab]) - 1
        BY <1>1, <1>5 DEF DeletedFrom
    <2>3. \A s \in Tabs : s # tab => hazards'[s] = hazards[s]
        BY <2>2 DEF HazardsKept
    <2>4. /\ hazards \in [Tabs -> SUBSET (ListHazards \cup TableHazards)]
          /\ rows \in [Tabs -> Nat \ {0}]
        BY <1>0 DEF TableType
    <2>5. ArraysType'
        BY <2>2 DEF FeedInv, TypeOK, ArraysType
    <2>6. CASE Reloaded(tab) /\ UNCHANGED crashed
        <3>1. rows'[tab] = NumberOfRows(tab)'
            BY <1>0, <1>3, <2>2, <2>5, <2>6, ReloadedTyped
        <3> QED
            BY <1>3, <2>2, <2>3, <2>6, <3>1, OneTable
    <2>7. CASE /\ list'[tab] # <<>> /\ Told(tab, rows[tab] - 1)
               /\ hazards' = [hazards EXCEPT ![tab] = hazards[tab] \cup Shift(tab)]
        <3>1. Reloaded(tab) /\ crashed' = (rows[tab] - 1 # rows'[tab])
            BY <2>7 DEF Told
        <3>2. rows'[tab] = NumberOfRows(tab)'
            BY <1>0, <1>3, <2>2, <2>5, <3>1, ReloadedTyped
        <3>4. list[tab] \in Seq(Twysts) /\ list'[tab] \in Seq(Twysts)
            BY <1>0, <1>3, <2>2, <2>5 DEF ArraysType
        <3>5. /\ Len(list[tab]) \in Nat /\ Len(list'[tab]) \in Nat
              /\ (Len(list[tab]) = 0 <=> list[tab] = <<>>)
              /\ (Len(list'[tab]) = 0 <=> list'[tab] = <<>>)
            BY <3>4, Elements
        <3>6. list[tab] # <<>> /\ Len(list[tab]) = Len(list'[tab]) + 1
            BY <2>2, <3>5
        <3>7. NumberOfRows(tab) = NumberOfRows(tab)' + 1
            BY <1>3, <2>7, <3>5, <3>6 DEF NumberOfRows
        <3>8. NumberOfRows(tab)' \in Nat
            BY <1>3, <2>2, <2>5, RowsTyped
        <3>9. ASSUME hazards'[tab] \cap TableHazards = {}
              PROVE  ~crashed'
            <4>1. hazards'[tab] = hazards[tab] \cup Shift(tab)
                BY <2>2, <2>4, <2>7
            <4>2. Quiet(tab)
                BY <3>9, <4>1 DEF Quiet
            <4>3. rows[tab] = NumberOfRows(tab)
                BY <2>2, <4>2 DEF TableInv
            <4>4. NumberOfRows(tab) - 1 = NumberOfRows(tab)'
                BY <3>7, <3>8
            <4> QED
                BY <3>1, <3>2, <4>3, <4>4
        <3> QED
            BY <1>3, <2>2, <2>3, <3>2, <3>9, OneTable
    <2> QED
        BY <2>1, <2>6, <2>7
<1> QED
    BY <1>4, <1>5

\* Every step keeps the tables in agreement.
LEMMA TableStep ==
    FeedInv /\ TableInv /\ NoBadUpdate /\ [Next]_vars => TableInv' /\ NoBadUpdate'
<1> SUFFICES ASSUME FeedInv, TableInv, NoBadUpdate, [Next]_vars
             PROVE  TableInv' /\ NoBadUpdate'
    OBVIOUS
<1>1. CASE Next
    <2>0. ~crashed
        BY <1>1 DEF Next
    <2>3. ASSUME NEW tab \in Tabs, Refresh(tab), reloading' \in BOOLEAN
          PROVE  TableInv' /\ NoBadUpdate'
        BY <2>0, <2>3, RefreshTable
    <2>4. ASSUME NEW tab \in Tabs, LoadMore(tab) \/ Appear(tab)
          PROVE  TableInv' /\ NoBadUpdate'
        BY <2>0, <2>4, MoreTable
    <2>5. ASSUME NEW tab \in Tabs, NEW i \in DOMAIN pages,
                 PageLoaded(tab, i) \/ PageFailed(tab, i)
          PROVE  TableInv' /\ NoBadUpdate'
        BY <2>0, <2>5, LoadedTable
    <2>6. ASSUME NEW t \in Twysts, NEW i \in DOMAIN notices,
                 Inserting(i, t) \/ TwystDeleted(i, t)
          PROVE  TableInv' /\ NoBadUpdate'
        BY <2>0, <2>6, InsertingTable, DeletedTable
    <2> QED
        BY <1>1, <2>0, <2>3, <2>4, <2>5, <2>6, Steps, ServerTable
<1>2. CASE UNCHANGED vars
    <2>1. UNCHANGED <<feed, list, allLoaded, loadFailed, rows, crashed, hazards>>
        BY <1>2 DEF vars, serverVars, tabVars, tableVars
    <2>2. Tabs' = Tabs
        BY <2>1 DEF Tabs, TabOf
    <2>3. \A s \in Tabs : NumberOfRows(s)' = NumberOfRows(s)
        BY <2>1 DEF NumberOfRows
    <2> QED
        BY <2>1, <2>2, <2>3 DEF TableInv, NoBadUpdate, Quiet, TableHazards
<1> QED
    BY <1>1, <1>2

\* A table view finds its rows inconsistent, which ends the app, only if the
\* array or the flag of the loading row was changed behind its back.
THEOREM TablesAgree == Spec => []NoBadUpdate
<1>1. Init => TableInv /\ NoBadUpdate
    BY DEF Init, TableInv, NoBadUpdate, NumberOfRows
<1> QED
    BY InitFeed, FeedStep, TableStep, <1>1, PTL DEF Spec

-----------------------------------------------------------------------------
(* What was deleted does not come back                                     *)

\* The deletion of t has been handled, and nothing is to be told of t.
Untold(t) ==
    /\ status[t] = "deleted"
    /\ \A j \in DOMAIN notices : notices[j].twyst # t

\* What may bring it back.
Revivals == {"crossed", "overtaken"}

\* A twyst whose deletion was handled is at most in a list that a page made
\* before, or a notification after it, has reached, and on such pages.
GhostInv ==
    \A t \in Twysts : Untold(t) =>
        /\ \/ hazards[TabOf[t]] \cap Revivals # {}
           \/ t \notin ToSet(list[TabOf[t]]) \cup asked
        /\ \A i \in DOMAIN pages :
              t \in ToSet(pages[i].items) => pages[i].crossed

\* What happens on the server is told.
LEMMA ActedGhost ==
    ASSUME FeedInv, GhostInv, NEW t \in Twysts, Acted(t) \/ ServerDeletes(t)
    PROVE  GhostInv'
<1>0. ServerType /\ ServerInv
    BY FeedParts DEF FeedInv
<1>1. PICK kind \in {"create", "reply", "didReply", "delete"} :
          Tell(kind, t) /\ (kind = "delete" <=> ServerDeletes(t))
    <2>1. CASE Acted(t)
        <3>1. ~ServerDeletes(t)
            <4>1. actionTime'[t] = clock + 1 /\ clock \in Nat /\ status'[t] = "complete"
                BY <1>0, <2>1, ActedTime
            <4>2. status \in [Twysts -> {"draft", "complete", "deleted"}]
                BY <1>0 DEF ServerType
            <4>3. ServerDeletes(t) => status'[t] = "deleted"
                BY <4>2 DEF ServerDeletes
            <4> QED
                BY <4>1, <4>3
        <3> QED
            BY <2>1, <3>1 DEF Acted
    <2>2. CASE ServerDeletes(t)
        BY <2>2 DEF ServerDeletes
    <2> QED
        BY <2>1, <2>2
<1>2. /\ notices' \in Seq(Notice) /\ Len(notices') = Len(notices) + 1
      /\ notices'[Len(notices) + 1] = [kind |-> kind, twyst |-> t]
      /\ \A i \in 1 .. Len(notices) : notices'[i] = notices[i]
    BY <1>0, <1>1, TellFacts
<1>3. /\ DOMAIN notices = 1 .. Len(notices) /\ Len(notices) \in Nat
      /\ \A i \in 1 .. Len(notices) : notices[i].twyst \in Twysts
    BY <1>0, NoticeFacts
<1>4. DOMAIN notices' = 1 .. Len(notices) + 1
    BY <1>2, <1>3
<1>5. UNCHANGED <<feed, list, pages, asked, hazards, TabOf>>
    BY DEF Acted, ServerDeletes, RestUnchanged, tabVars, tableVars, TabOf
<1>6. \A s \in Twysts : status'[s] = "deleted" =>
          status[s] = "deleted" \/ (s = t /\ kind = "delete")
    <2>1. CASE Acted(t)
        BY <1>0, <2>1, ActedTime
    <2>2. CASE ServerDeletes(t)
        <3>1. status \in [Twysts -> {"draft", "complete", "deleted"}]
            BY <1>0 DEF ServerType
        <3> QED
            BY <1>1, <2>2, <3>1 DEF ServerDeletes
    <2> QED
        BY <2>1, <2>2
<1>9. ASSUME NEW s \in Twysts, Untold(s)'
      PROVE  Untold(s)
    <2>1. status'[s] = "deleted" /\ \A j \in 1 .. Len(notices) + 1 : notices'[j].twyst # s
        BY <1>4, <1>9 DEF Untold
    <2>2. Len(notices) + 1 \in 1 .. Len(notices) + 1
          /\ \A j \in 1 .. Len(notices) : j \in 1 .. Len(notices) + 1
        BY <1>3
    <2>3. s # t
        BY <1>2, <2>1, <2>2
    <2>4. status[s] = "deleted"
        BY <1>6, <2>1, <2>3
    <2>5. \A j \in 1 .. Len(notices) : notices[j].twyst # s
        BY <1>2, <2>1, <2>2
    <2> QED
        BY <1>3, <2>4, <2>5 DEF Untold
<1> QED
    BY <1>5, <1>9 DEF GhostInv

\* The steps that hand on pages and lists.
LEMMA HandedOn ==
    ASSUME GhostInv, SameServer,
           \A t \in Twysts : Untold(t) =>
              /\ \/ hazards'[TabOf[t]] \cap Revivals # {}
                 \/ t \notin ToSet(list'[TabOf[t]]) \cup asked'
              /\ \A k \in DOMAIN pages' :
                    t \in ToSet(pages'[k].items) => pages'[k].crossed
    PROVE  GhostInv'
<1>1. TabOf' = TabOf
    BY SameServerFacts
<1>2. \A t \in Twysts : Untold(t)' = Untold(t)
    BY DEF SameServer, serverVars, Untold
<1> QED
    BY <1>1, <1>2 DEF GhostInv

\* The server lists nothing that it has deleted.
LEMMA AnswersGhost ==
    ASSUME FeedInv, GhostInv, NEW i \in DOMAIN pages,
           ServerAnswers(i) \/ RequestFails(i)
    PROVE  GhostInv'
<1>0. ServerType /\ PagesType /\ ServerInv
    BY FeedParts DEF FeedInv
<1>1. SameServer /\ UNCHANGED <<list, asked, hazards>>
    BY DEF SameServer, ServerAnswers, RequestFails, serverVars, tabVars
<1>2. Page' = Page
    BY <1>1, SameServerFacts
<1>3. PICK q \in Page :
          /\ pages' = [pages EXCEPT ![i] = q]
          /\ q.crossed = pages[i].crossed
          /\ ToSet(q.items) \subseteq
                Complete(pages[i].tab) \cup ToSet(pages[i].items)
    <2>1. CASE ServerAnswers(i)
        <3> DEFINE p == pages[i]
        <3>1. p \in Page
            BY <1>0, PageFacts
        <3>2. PICK listed \in SUBSET Twysts :
                  LET raw == Following(p, listed)
                      items == Latest(ToSet(raw) \cap Complete(p.tab), Bunch)
                  IN  pages' = [pages EXCEPT ![i] = Answered(p, raw, items)]
            BY <1>0, <2>1, AnswerIs
        <3> HIDE DEF p
        <3> DEFINE raw == Following(p, listed)
                   S == ToSet(raw) \cap Complete(p.tab)
                   items == Latest(S, Bunch)
                   q == Answered(p, raw, items)
        <3>3. raw \in Seq(Twysts)
            BY <1>0, <3>1, FollowingFacts
        <3>4. pages' = [pages EXCEPT ![i] = q]
            BY <3>2
        <3> HIDE DEF raw
        <3>5. /\ q \in Page /\ q.crossed = p.crossed /\ q.items = items
              /\ ToSet(items) \subseteq S
            BY <1>0, <3>1, <3>3, AnsweredFacts
        <3> HIDE DEF items, q
        <3> QED
            BY <3>4, <3>5 DEF p
    <2>2. CASE RequestFails(i)
        BY <1>0, <2>2, FailsIs DEF FailedAs
    <2> QED
        BY <2>1, <2>2
<1>4. /\ DOMAIN pages' = DOMAIN pages
      /\ \A k \in DOMAIN pages : pages'[k] = IF k = i THEN q ELSE pages[k]
    BY <1>0, <1>2, <1>3, PageReplaced
<1>5. ASSUME NEW t \in Twysts, Untold(t)
      PROVE  /\ \/ hazards'[TabOf[t]] \cap Revivals # {}
                \/ t \notin ToSet(list'[TabOf[t]]) \cup asked'
             /\ \A k \in DOMAIN pages' :
                   t \in ToSet(pages'[k].items) => pages'[k].crossed
    <2>1. t \notin Complete(pages[i].tab)
        BY <1>5 DEF Untold, Complete
    <2> QED
        BY <1>0, <1>1, <1>3, <1>4, <1>5, <2>1 DEF GhostInv
<1> QED
    BY <1>1, <1>5, HandedOn

\* The steps that bring no entries.
LEMMA RefreshGhost ==
    ASSUME FeedInv, GhostInv, NEW tab \in Tabs,
           Refresh(tab) \/ LoadMore(tab) \/ Appear(tab)
    PROVE  GhostInv'
<1>0. PagesType /\ ArraysType /\ TableType
    BY FeedParts
<1>1. SameServer /\ list' = list /\ asked' = {}
    BY DEF SameServer, Refresh, LoadMore, Appear, serverVars, tabVars
<1>2. Page' = Page
    BY <1>1, SameServerFacts
<1>3. hazards \in [Tabs -> SUBSET (ListHazards \cup TableHazards)]
    BY <1>0 DEF TableType
<1>4. \A s \in Tabs : hazards[s] \cap Revivals \subseteq hazards'[s]
    <2>1. Revivals \cap TableHazards = {}
        BY HazardNames DEF Revivals
    <2>2. \/ hazards' = [hazards EXCEPT ![tab] = hazards[tab] \ TableHazards]
          \/ hazards' = hazards
          \/ hazards' = [hazards EXCEPT ![tab] = hazards[tab] \cup
                            (IF allLoaded[tab] THEN {"refreshed"} ELSE {})]
        BY DEF Refresh, LoadMore, Appear
    <2> QED
        BY <1>3, <2>1, <2>2
<1>5. \A k \in DOMAIN pages' :
          \/ pages'[k].items = <<>>
          \/ \E m \in DOMAIN pages : /\ pages'[k].items = pages[m].items
                                     /\ pages'[k].crossed = pages[m].crossed
    <2>1. CASE Refresh(tab)
        <3>1. NewPage(tab, 0).items = <<>>
            BY DEF NewPage
        <3> QED
            BY <1>0, <1>2, <2>1, <3>1, RefreshPages
    <2>2. CASE LoadMore(tab)
        <3>1. /\ DOMAIN pages' = (DOMAIN pages) \cup {Len(pages) + 1}
              /\ \A k \in DOMAIN pages : MarkedAs(tab, pages[k], pages'[k])
              /\ pages'[Len(pages) + 1].items = <<>>
            BY <1>0, <1>2, <2>2, MorePages
        <3> QED
            BY <3>1 DEF MarkedAs
    <2>3. CASE Appear(tab)
        BY <2>3 DEF Appear
    <2> QED
        BY <2>1, <2>2, <2>3
<1>6. ASSUME NEW t \in Twysts, Untold(t)
      PROVE  /\ \/ hazards'[TabOf[t]] \cap Revivals # {}
                \/ t \notin ToSet(list'[TabOf[t]]) \cup asked'
             /\ \A k \in DOMAIN pages' :
                   t \in ToSet(pages'[k].items) => pages'[k].crossed
    <2>1. TabOf[t] \in Tabs
        BY TabFacts, FeedParts DEF ServerType
    <2>2. t \notin ToSet(<<>>)
        BY EmptyElements
    <2> QED
        BY <1>0, <1>1, <1>4, <1>5, <1>6, <2>1, <2>2 DEF GhostInv
<1> QED
    BY <1>1, <1>6, HandedOn

\* A page with a twyst whose deletion was handled is marked, and marks
\* its list.
LEMMA LoadedGhost ==
    ASSUME FeedInv, GhostInv, NEW tab \in Tabs, NEW i \in DOMAIN pages,
           PageLoaded(tab, i) \/ PageFailed(tab, i)
    PROVE  GhostInv'
<1>0. PagesType /\ ArraysType /\ ItemsInv
    BY FeedParts DEF FeedInv
<1>1. CASE PageLoaded(tab, i)
    <2> DEFINE p == pages[i]
               new == Merged(Kept(tab), p.items)
    <2>1. LoadedTo(tab, i, p, new)
        BY <1>1, LoadedFacts
    <2>2. PageGood(p)
        BY <1>0 DEF ItemsInv
    <2>3. \A t \in Twysts : Untold(t) /\ t \in ToSet(p.items) => p.crossed
        BY <1>0 DEF GhostInv
    <2> HIDE DEF p, new
    <2>4. /\ SameServer /\ list'[tab] = new /\ hazards'[tab] = Brought(p)
          /\ p.tab = tab
          /\ ToSet(new) = ToSet(Kept(tab)) \cup ToSet(p.items)
          /\ \A s \in Tabs : s # tab => list'[s] = list[s] /\ hazards'[s] = hazards[s]
          /\ asked' \subseteq ToSet(p.items)
          /\ \A k \in DOMAIN pages' : \E m \in DOMAIN pages : pages'[k] = pages[m]
        BY <2>1 DEF LoadedTo
    <2>5. ASSUME NEW t \in Twysts, Untold(t)
          PROVE  /\ \/ hazards'[TabOf[t]] \cap Revivals # {}
                    \/ t \notin ToSet(list'[TabOf[t]]) \cup asked'
                 /\ \A k \in DOMAIN pages' :
                       t \in ToSet(pages'[k].items) => pages'[k].crossed
        <3>1. TabOf[t] \in Tabs
            BY TabFacts, FeedParts DEF ServerType
        <3>2. /\ \/ hazards[TabOf[t]] \cap Revivals # {}
                 \/ t \notin ToSet(list[TabOf[t]]) \cup asked
              /\ \A m \in DOMAIN pages : t \in ToSet(pages[m].items) => pages[m].crossed
            BY <1>0, <2>5 DEF GhostInv
        <3>3. CASE TabOf[t] # tab
            <4>1. t \notin ToSet(p.items)
                BY <2>2, <2>4, <3>3 DEF PageGood
            <4>2. t \notin asked'
                BY <2>4, <4>1
            <4> QED
                BY <2>4, <3>1, <3>2, <3>3, <4>2
        <3>4. CASE TabOf[t] = tab /\ t \in ToSet(p.items)
            <4>1. p.crossed
                BY <2>3, <2>5, <3>4
            <4>2. Brought(p) \cap Revivals # {}
                BY <4>1 DEF Brought, Revivals
            <4> QED
                BY <2>4, <3>2, <3>4, <4>2
        <3>5. CASE TabOf[t] = tab /\ t \notin ToSet(p.items) /\ t \in ToSet(Kept(tab))
            <4>1. cursor[tab] # 0 /\ t \in ToSet(list[tab])
                BY <3>5, EmptyElements DEF Kept
            <4>2. PICK h \in Revivals : h \in hazards[tab]
                BY <3>2, <3>5, <4>1
            <4>3. h \in ListHazards
                BY HazardNames DEF Revivals
            <4>4. h \in Brought(p)
                BY <2>4, <4>1, <4>2, <4>3 DEF Brought
            <4> QED
                BY <2>4, <3>2, <3>5, <4>2, <4>4
        <3>6. CASE TabOf[t] = tab /\ t \notin ToSet(p.items) /\ t \notin ToSet(Kept(tab))
            BY <2>4, <3>2, <3>6
        <3> QED
            BY <3>3, <3>4, <3>5, <3>6
    <2> QED
        BY <2>4, <2>5, HandedOn
<1>2. CASE PageFailed(tab, i)
    <2>1. /\ SameServer /\ list'[tab] = <<>> /\ asked' = {}
          /\ \A s \in Tabs : s # tab => list'[s] = list[s] /\ hazards'[s] = hazards[s]
          /\ \A k \in DOMAIN pages' : \E m \in DOMAIN pages : pages'[k] = pages[m]
        BY <1>2, PageFailedFacts
    <2>2. ASSUME NEW t \in Twysts, Untold(t)
          PROVE  /\ \/ hazards'[TabOf[t]] \cap Revivals # {}
                    \/ t \notin ToSet(list'[TabOf[t]]) \cup asked'
                 /\ \A k \in DOMAIN pages' :
                       t \in ToSet(pages'[k].items) => pages'[k].crossed
        <3>1. TabOf[t] \in Tabs
            BY TabFacts, FeedParts DEF ServerType
        <3>2. t \notin ToSet(<<>>)
            BY EmptyElements
        <3> QED
            BY <1>0, <2>1, <2>2, <3>1, <3>2 DEF GhostInv
    <2> QED
        BY <2>1, <2>2, HandedOn
<1> QED
    BY <1>1, <1>2

\* What a notification leaves to be told.
LEMMA TakeTold ==
    ASSUME FeedInv, NEW t \in Twysts, NEW i \in DOMAIN notices,
           NEW kind \in Kinds, Take(i, kind, t)
    PROVE  \A s \in Twysts : Untold(s)' =>
              /\ s # t => Untold(s)
              /\ s = t => Overtaken(t)
<1>1. /\ status' = status /\ notices[i].twyst = t
      /\ ToSet(notices) = ToSet(notices') \cup {notices[i]}
    BY FeedParts, TakeFacts
<1> SUFFICES ASSUME NEW s \in Twysts, Untold(s)'
             PROVE  /\ s # t => Untold(s)
                    /\ s = t => Overtaken(t)
    OBVIOUS
<1>2. status[s] = "deleted" /\ \A n \in ToSet(notices') : n.twyst # s
    BY <1>1 DEF Untold, ToSet
<1>3. CASE s # t
    <2>1. \A j \in DOMAIN notices : notices[j].twyst # s
        <3>1. \A j \in DOMAIN notices : notices[j] \in ToSet(notices)
            BY DEF ToSet
        <3> QED
            BY <1>1, <1>2, <1>3, <3>1
    <2> QED
        BY <1>2, <1>3, <2>1 DEF Untold
<1>4. CASE s = t
    <2>1. [kind |-> "delete", twyst |-> t].twyst = t
        OBVIOUS
    <2> QED
        BY <1>2, <1>4, <2>1 DEF Overtaken
<1> QED
    BY <1>3, <1>4

\* A deletion that is handled takes the twyst out of its list, and what comes
\* after it is noted.
LEMMA TakenGhost ==
    ASSUME FeedInv, GhostInv, NEW t \in Twysts, NEW i \in DOMAIN notices,
           Inserting(i, t) \/ TwystDeleted(i, t)
    PROVE  GhostInv'
<1>0. ServerType /\ PagesType /\ ItemsInv
    BY FeedParts DEF FeedInv
<1>t. PICK tab : tab = TabOf[t]
    OBVIOUS
<1>1. PICK kind \in Kinds : /\ Take(i, kind, t)
                            /\ kind = "delete" => TwystDeleted(i, t)
                            /\ kind # "delete" => Inserting(i, t)
    BY DEF Inserting, TwystDeleted, Kinds
<1>2. \A s \in Twysts : Untold(s)' =>
          /\ s # t => Untold(s)
          /\ s = t => Overtaken(t)
    BY <1>1, TakeTold
<1>3. pages' = Crossed(tab) /\ TabOf' = TabOf
    BY <1>0, <1>1, <1>t, TakeFacts
<1>4. /\ DOMAIN pages' = DOMAIN pages
      /\ \A k \in DOMAIN pages :
            /\ pages'[k].items = pages[k].items
            /\ pages'[k].crossed =
                  (pages[k].crossed \/ (pages[k].tab = tab /\ pages[k].phase = "answered"))
    BY <1>0, <1>3, CrossedFacts
<1>5. /\ HazardsKept(tab) /\ tab \in Tabs
      /\ \A s \in Tabs : s # tab => list'[s] = list[s]
      /\ ToSet(list'[tab]) \subseteq ToSet(list[tab]) \cup {t}
      /\ asked' \subseteq {t}
      /\ kind = "delete" => t \notin ToSet(list'[tab]) /\ asked' = {}
      /\ kind # "delete" /\ Overtaken(t) => "overtaken" \in hazards'[tab]
    <2>1. CASE kind # "delete"
        BY <1>1, <1>t, <2>1, InsertingFacts DEF InsertedTo, HazardsKept
    <2>2. CASE kind = "delete"
        BY <1>1, <1>t, <2>2, DeletedFacts DEF DeletedFrom, HazardsKept
    <2> QED
        BY <2>1, <2>2
<1>6. \A s \in Tabs : hazards[s] \cap Revivals \subseteq hazards'[s]
    <2>1. Revivals \subseteq ListHazards
        BY HazardNames DEF Revivals
    <2> QED
        BY <1>5, <2>1 DEF HazardsKept
<1>7. ASSUME NEW s \in Twysts, Untold(s)'
      PROVE  /\ \/ hazards'[TabOf[s]] \cap Revivals # {}
                \/ s \notin ToSet(list'[TabOf[s]]) \cup asked'
             /\ \A k \in DOMAIN pages' :
                   s \in ToSet(pages'[k].items) => pages'[k].crossed
    <2>1. TabOf[s] \in Tabs
        BY <1>0, TabFacts DEF ServerType
    <2>2. CASE s # t
        <3>0. Untold(s)
            BY <1>2, <1>7, <2>2
        <3>1. /\ \/ hazards[TabOf[s]] \cap Revivals # {}
                 \/ s \notin ToSet(list[TabOf[s]])
              /\ \A m \in DOMAIN pages : s \in ToSet(pages[m].items) => pages[m].crossed
            BY <3>0 DEF GhostInv
        <3>2. s \notin asked'
            BY <1>5, <2>2
        <3>3. s \in ToSet(list'[TabOf[s]]) => s \in ToSet(list[TabOf[s]])
            BY <1>5, <2>1, <2>2
        <3> QED
            BY <1>4, <1>6, <2>1, <3>1, <3>2, <3>3
    <2>3. CASE s = t
        <3>0. Overtaken(t)
            BY <1>2, <1>7, <2>3
        <3>1. \/ hazards'[TabOf[s]] \cap Revivals # {}
              \/ s \notin ToSet(list'[TabOf[s]]) \cup asked'
            BY <1>t, <1>5, <2>3, <3>0 DEF Revivals
        <3>2. ASSUME NEW k \in DOMAIN pages, s \in ToSet(pages[k].items)
              PROVE  pages[k].tab = tab /\ pages[k].phase = "answered"
            BY <1>0, <1>t, <2>3, <3>2, EmptyElements DEF ItemsInv, PageGood
        <3> QED
            BY <1>4, <3>1, <3>2
    <2> QED
        BY <2>2, <2>3
<1> QED
    BY <1>3, <1>7 DEF GhostInv

\* Every step keeps GhostInv ...
LEMMA GhostStep ==
    FeedInv /\ GhostInv /\ [Next]_vars => GhostInv'
<1> SUFFICES ASSUME FeedInv, GhostInv, [Next]_vars PROVE GhostInv'
    OBVIOUS
<1>1. CASE Next
    BY <1>1, Steps, ActedGhost, AnswersGhost, RefreshGhost, LoadedGhost,
       TakenGhost
<1>2. CASE UNCHANGED vars
    <2>1. /\ SameServer
          /\ UNCHANGED <<list, asked, hazards, pages>>
        BY <1>2 DEF vars, serverVars, tabVars, SameServer
    <2> QED
        BY <2>1, HandedOn DEF GhostInv
<1> QED
    BY <1>1, <1>2

\* ... which holds at the start.
LEMMA InitGhost == Init => GhostInv
<1> SUFFICES ASSUME Init PROVE GhostInv
    OBVIOUS
<1>1. /\ \A t \in Twysts : status[t] # "deleted"
      /\ notices = <<>>
    BY DEF Init
<1> QED
    BY <1>1 DEF GhostInv, Untold

\* A twyst whose deletion was handled is neither in its list nor downloaded
\* again, unless a page that was made before came after a notification, or
\* another notification of it after the deletion.
THEOREM GhostsStayAway == Spec => []NoGhost
<1>1. FeedInv /\ GhostInv => NoGhost
    BY DEF GhostInv, Revivals, Untold, NoGhost
<1> QED
    BY InitFeed, FeedStep, InitGhost, GhostStep, <1>1, PTL DEF Spec

-----------------------------------------------------------------------------
(* No gap: what the cursors and the pages under way cover                  *)

\* None of the ways to lose an entry has been met, and the entries of the
\* private list, which its cursor counts, are all on the server.
Unhurt(tab) == hazards[tab] \cap ListHazards = {}

Sane(tab) ==
    /\ Unhurt(tab)
    /\ tab = "private" => \A t \in ToSet(list[tab]) : status[t] # "deleted"

\* The twysts that only a page can bring, and those that none has brought.
Unheard(tab) == Complete(tab) \ Awaited

Missing(tab) == Unheard(tab) \ ToSet(list[tab])

\* A list that has to start anew gets its first page ...
CursorInv ==
    \A i \in DOMAIN pages :
        LET p == pages[i] IN
        ~p.stale /\ cursor[p.tab] = 0 /\ (Unhurt(p.tab) \/ ~allLoaded[p.tab])
        => p.cursor = 0

\* ... only once.
Fresh(p) == ~p.stale /\ p.cursor = 0

FreshInv ==
    /\ \A i \in DOMAIN pages : Fresh(pages[i]) =>
          \/ cursor[pages[i].tab] = 0 /\ ~allLoaded[pages[i].tab]
          \/ ~Unhurt(pages[i].tab)
    /\ \A i, j \in DOMAIN pages :
          Fresh(pages[i]) /\ Fresh(pages[j]) /\ pages[i].tab = pages[j].tab
          => i = j

\* What is missing when a page has come is in the list, or after the page,
\* which is full then.
PageFollows(p) ==
    /\ p.phase = "answered" /\ ~p.stale /\ ~p.crossed /\ ~p.cut
    /\ p.cursor = 0 \/ Sane(p.tab)
    => \A t \in Unheard(p.tab) \ ToSet(p.items) :
          \/ p.cursor # 0 /\ t \in ToSet(list[p.tab])
          \/ Len(p.items) = Bunch /\ actionTime[t] < p.lastTime

PageInv == \A i \in DOMAIN pages : PageFollows(pages[i])

\* Nothing is missing before a cursor: the time of an action for one list,
\* a number of entries, all before what is missing, for the other.
Follows(tab, c) ==
    IF tab = "twysted"
    THEN c # 0 => \A t \in Missing(tab) : actionTime[t] < c
    ELSE c <= Len(list[tab])

Covered(tab) ==
    Sane(tab) =>
        /\ allLoaded[tab] => Missing(tab) = {}
        /\ Follows(tab, cursor[tab])
        /\ \A i \in DOMAIN pages :
              pages[i].tab = tab /\ ~pages[i].stale => Follows(tab, pages[i].cursor)
        /\ tab = "private" =>
              \A t \in Missing(tab), s \in ToSet(list[tab]) :
                  actionTime[t] < actionTime[s]

CoverInv == \A tab \in Tabs : Covered(tab)

GapInv == CursorInv /\ FreshInv /\ PageInv /\ CoverInv

\* The twysts that notifications will bring: one more when one is told, ...
LEMMA TellAwaited ==
    ASSUME ServerType, NEW kind \in {"create", "reply", "didReply", "delete"},
           NEW t \in Twysts, Tell(kind, t)
    PROVE  Awaited' = Awaited \cup (IF kind = "delete" THEN {} ELSE {t})
<1>1. ToSet(notices') = ToSet(notices) \cup {[kind |-> kind, twyst |-> t]}
    BY TellFacts
<1> DEFINE r == [kind |-> kind, twyst |-> t]
<1>2. r.kind = kind /\ r.twyst = t
    OBVIOUS
<1> HIDE DEF r
<1>3. ToSet(notices)' = ToSet(notices) \cup {r}
    BY <1>1 DEF ToSet, r
<1> QED
    BY <1>2, <1>3 DEF Awaited

\* ... and one less, perhaps, when one is handled.
LEMMA TakeAwaited ==
    ASSUME ServerType, PagesType, NEW t \in Twysts, NEW i \in DOMAIN notices,
           NEW kind \in Kinds, Take(i, kind, t)
    PROVE  Awaited = Awaited' \cup (IF kind = "delete" THEN {} ELSE {t})
<1>1. /\ ToSet(notices) = ToSet(notices') \cup {notices[i]}
      /\ notices[i].kind = kind /\ notices[i].twyst = t
    BY TakeFacts
<1> QED
    BY <1>1 DEF Awaited

\* The steps of the app alone change neither.
LEMMA SameUnheard ==
    ASSUME SameServer
    PROVE  /\ Awaited' = Awaited
           /\ \A tab : Complete(tab)' = Complete(tab) /\ Unheard(tab)' = Unheard(tab)
<1>1. UNCHANGED <<feed, status, notices, TabOf, ToSet(notices)>>
    BY SameServerFacts
<1>2. Awaited' = Awaited
    BY <1>1 DEF Awaited
<1> QED
    BY <1>1, <1>2 DEF Complete, Unheard

\* What a step does to the twysts that only a page can bring.
HeardOf(tab) ==
    /\ Unheard(tab)' \subseteq Unheard(tab)
    /\ \A t \in Unheard(tab)' : actionTime'[t] = actionTime[t]

\* Nothing of the server changes in a step of the app.
LEMMA SameHeard ==
    ASSUME SameServer, NEW tab
    PROVE  HeardOf(tab)
<1>1. actionTime' = actionTime
    BY SameServerFacts
<1> QED
    BY <1>1, SameUnheard DEF HeardOf

\* A twyst that acts will be told, and one that is deleted is not awaited.
LEMMA ServerHeard ==
    ASSUME FeedInv, NEW t \in Twysts, Acted(t) \/ ServerDeletes(t), NEW tab
    PROVE  HeardOf(tab) /\ TabOf' = TabOf
<1>0. ServerType /\ ServerInv
    BY FeedParts DEF FeedInv
<1>1. CASE Acted(t)
    <2>1. PICK kind \in {"create", "reply", "didReply"} : Tell(kind, t)
        BY <1>1 DEF Acted
    <2>2. Awaited' = Awaited \cup {t}
        BY <1>0, <2>1, TellAwaited
    <2>3. /\ \A s \in Twysts : s # t => /\ status'[s] = status[s]
                                        /\ actionTime'[s] = actionTime[s]
          /\ TabOf' = TabOf
        BY <1>0, <1>1, ActedTime
    <2> QED
        BY <2>2, <2>3 DEF HeardOf, Unheard, Complete
<1>2. CASE ServerDeletes(t)
    <2>1. Tell("delete", t) /\ status' = [status EXCEPT ![t] = "deleted"]
          /\ feed' = feed /\ actionTime' = actionTime
        BY <1>2 DEF ServerDeletes
    <2>2. Awaited' = Awaited
        BY <1>0, <2>1, TellAwaited
    <2>3. TabOf' = TabOf
        BY <2>1 DEF TabOf
    <2>4. \A s \in Twysts : status'[s] = "complete" => status[s] = "complete"
        BY <1>0, <2>1 DEF ServerType
    <2> QED
        BY <2>1, <2>2, <2>3, <2>4 DEF HeardOf, Unheard, Complete
<1> QED
    BY <1>1, <1>2

\* A page q that was the page p, and what is said of pages one by one.
SamePage(p, q) ==
    /\ q.tab = p.tab /\ q.cursor = p.cursor /\ q.phase = p.phase
    /\ q.items = p.items /\ q.lastTime = p.lastTime /\ q.cut = p.cut
    /\ p.crossed => q.crossed
    /\ p.stale => q.stale

\* PageInv holds if it holds for each page.
LEMMA PageInvJoin ==
    ASSUME \A k \in DOMAIN pages' : \E q : q = pages'[k] /\ PageFollows(q)'
    PROVE  PageInv'
BY DEF PageInv, PageFollows, Unheard, Complete, Sane, Unhurt

\* A step that keeps what there is in a list of what only a page can bring.
LEMMA PageKept ==
    ASSUME NEW p, NEW q, SamePage(p, q), PageFollows(p), HeardOf(p.tab),
           Sane(p.tab)' => Sane(p.tab),
           Sane(p.tab)' /\ p.cursor # 0 =>
              ToSet(list[p.tab]) \cap Unheard(p.tab)' \subseteq ToSet(list'[p.tab])
    PROVE  PageFollows(q)'
<1> SUFFICES ASSUME q.phase = "answered" /\ ~q.stale /\ ~q.crossed /\ ~q.cut,
                    q.cursor = 0 \/ Sane(q.tab)',
                    NEW t \in Unheard(q.tab)' \ ToSet(q.items)
             PROVE  \/ q.cursor # 0 /\ t \in ToSet(list'[q.tab])
                    \/ Len(q.items) = Bunch /\ actionTime'[t] < q.lastTime
    BY DEF PageFollows
<1>1. /\ q.tab = p.tab /\ q.cursor = p.cursor /\ p.phase = "answered"
      /\ q.items = p.items /\ q.lastTime = p.lastTime
      /\ ~p.stale /\ ~p.crossed /\ ~p.cut
    BY DEF SamePage
<1>2. p.cursor = 0 \/ Sane(p.tab)
    BY <1>1
<1>3. /\ t \in Unheard(p.tab) \ ToSet(p.items) /\ t \in Unheard(p.tab)'
      /\ actionTime'[t] = actionTime[t]
    BY <1>1 DEF HeardOf
<1>4. \/ p.cursor # 0 /\ t \in ToSet(list[p.tab])
      \/ Len(p.items) = Bunch /\ actionTime[t] < p.lastTime
    BY <1>1, <1>2, <1>3 DEF PageFollows
<1> QED
    BY <1>1, <1>3, <1>4

\* A step that keeps the cursor of a list.
LEMMA CoverKept ==
    ASSUME NEW tab \in Tabs, Covered(tab), Sane(tab)' => Sane(tab),
           cursor'[tab] = cursor[tab], allLoaded'[tab] = allLoaded[tab],
           Sane(tab)' => /\ Missing(tab)' \subseteq Missing(tab)
                         /\ tab # "twysted" => Len(list'[tab]) >= Len(list[tab])
                         /\ list[tab] \in Seq(Twysts) /\ list'[tab] \in Seq(Twysts)
                         /\ \A t \in Missing(tab)' : actionTime'[t] = actionTime[t],
           cursor \in [Tabs -> Nat], PagesType,
           \A k \in DOMAIN pages' :
              pages'[k].tab = tab /\ ~pages'[k].stale =>
                 \/ pages'[k].cursor = cursor[tab]
                 \/ \E m \in DOMAIN pages : /\ pages[m].tab = tab /\ ~pages[m].stale
                                            /\ pages'[k].cursor = pages[m].cursor,
           Sane(tab)' /\ tab = "private" =>
              \A t \in Missing(tab)', s \in ToSet(list'[tab]) :
                  actionTime'[t] < actionTime'[s]
    PROVE  Covered(tab)'
<1> SUFFICES ASSUME Sane(tab)'
             PROVE  /\ allLoaded'[tab] => Missing(tab)' = {}
                    /\ Follows(tab, cursor[tab])'
                    /\ \A k \in DOMAIN pages' :
                          pages'[k].tab = tab /\ ~pages'[k].stale =>
                              Follows(tab, pages[k].cursor)'
                    /\ tab = "private" =>
                          \A t \in Missing(tab)', s \in ToSet(list'[tab]) :
                              actionTime'[t] < actionTime'[s]
    BY DEF Covered
<1>1. /\ allLoaded[tab] => Missing(tab) = {}
      /\ Follows(tab, cursor[tab])
      /\ \A i \in DOMAIN pages :
            pages[i].tab = tab /\ ~pages[i].stale => Follows(tab, pages[i].cursor)
    BY DEF Covered
<1>2. /\ Missing(tab)' \subseteq Missing(tab)
      /\ \A t \in Missing(tab)' : actionTime'[t] = actionTime[t]
    OBVIOUS
<1>3. /\ Len(list[tab]) \in Nat /\ Len(list'[tab]) \in Nat
      /\ tab # "twysted" => Len(list'[tab]) >= Len(list[tab])
    BY Elements
<1>4. ASSUME NEW c \in Nat, Follows(tab, c)
      PROVE  /\ tab = "twysted" /\ c # 0 => \A t \in Missing(tab)' : actionTime'[t] < c
             /\ tab # "twysted" => c <= Len(list'[tab])
    BY <1>2, <1>3, <1>4 DEF Follows
<1>5. Follows(tab, cursor[tab])'
    <2>1. cursor[tab] \in Nat
        OBVIOUS
    <2> QED
        BY <1>1, <1>4, <2>1 DEF Follows
<1>6. ASSUME NEW k \in DOMAIN pages', pages'[k].tab = tab, ~pages'[k].stale
      PROVE  Follows(tab, pages[k].cursor)'
    <2>1. \/ pages'[k].cursor = cursor[tab]
          \/ \E m \in DOMAIN pages : /\ pages[m].tab = tab /\ ~pages[m].stale
                                     /\ pages'[k].cursor = pages[m].cursor
        BY <1>6
    <2>2. \A m \in DOMAIN pages : pages[m].cursor \in Nat
        BY PageFacts
    <2>3. \E c \in Nat : pages'[k].cursor = c /\ Follows(tab, c)
        BY <1>1, <2>1, <2>2
    <2> QED
        BY <1>4, <2>3 DEF Follows
<1> QED
    BY <1>1, <1>2, <1>5, <1>6

\* A step that keeps the cursors: a page that is left was there before.
LEMMA FlagsKept ==
    ASSUME CursorInv, FreshInv, PagesType, cursor' = cursor, allLoaded' = allLoaded,
           NEW g, \A k \in DOMAIN pages' :
                     /\ g[k] \in DOMAIN pages
                     /\ pages'[k].tab = pages[g[k]].tab
                     /\ pages'[k].cursor = pages[g[k]].cursor
                     /\ pages'[k].stale = pages[g[k]].stale,
           \A k, l \in DOMAIN pages' : g[k] = g[l] => k = l,
           \A s \in Tabs : Unhurt(s)' => Unhurt(s)
    PROVE  CursorInv' /\ FreshInv'
<1>1. \A m \in DOMAIN pages : pages[m].tab \in Tabs
    BY PageFacts
<1>2. CursorInv'
    <2> SUFFICES ASSUME NEW k \in DOMAIN pages', ~pages'[k].stale,
                        cursor'[pages'[k].tab] = 0,
                        Unhurt(pages[k].tab)' \/ ~allLoaded'[pages'[k].tab]
                 PROVE  pages'[k].cursor = 0
        BY DEF CursorInv
    <2>1. PICK m : m = g[k]
        OBVIOUS
    <2>2. /\ m \in DOMAIN pages /\ pages'[k].tab = pages[m].tab
          /\ pages'[k].cursor = pages[m].cursor /\ ~pages[m].stale
        BY <2>1
    <2>3. Unhurt(pages[k].tab)' => Unhurt(pages[m].tab)
        BY <1>1, <2>2 DEF Unhurt
    <2> QED
        BY <2>2, <2>3 DEF CursorInv
<1>3. ASSUME NEW k \in DOMAIN pages', Fresh(pages[k])'
      PROVE  Fresh(pages[g[k]])
    BY <1>3 DEF Fresh
<1>4. \A k \in DOMAIN pages' : Fresh(pages[k])' =>
          \/ cursor'[pages'[k].tab] = 0 /\ ~allLoaded'[pages'[k].tab]
          \/ ~Unhurt(pages[k].tab)'
    <2> SUFFICES ASSUME NEW k \in DOMAIN pages', Fresh(pages[k])',
                        Unhurt(pages[k].tab)'
                 PROVE  cursor'[pages'[k].tab] = 0 /\ ~allLoaded'[pages'[k].tab]
        OBVIOUS
    <2>1. PICK m : m = g[k]
        OBVIOUS
    <2>2. m \in DOMAIN pages /\ pages'[k].tab = pages[m].tab /\ Fresh(pages[m])
        BY <1>3, <2>1
    <2>3. Unhurt(pages[m].tab)
        BY <1>1, <2>2 DEF Unhurt
    <2> QED
        BY <2>2, <2>3 DEF FreshInv
<1>5. \A k, l \in DOMAIN pages' :
          Fresh(pages[k])' /\ Fresh(pages[l])' /\ pages'[k].tab = pages'[l].tab
          => k = l
    BY <1>3 DEF FreshInv
<1>6. FreshInv'
    BY <1>4, <1>5 DEF FreshInv
<1> QED
    BY <1>2, <1>6

\* A step of the app that leaves a list as it is.
LEMMA SameSane ==
    ASSUME SameServer, NEW tab, list'[tab] = list[tab],
           hazards'[tab] \cap ListHazards = hazards[tab] \cap ListHazards
    PROVE  /\ Unhurt(tab)' <=> Unhurt(tab)
           /\ Sane(tab)' <=> Sane(tab)
           /\ Missing(tab)' = Missing(tab)
           /\ ToSet(list'[tab]) = ToSet(list[tab])
<1>1. status' = status /\ Unheard(tab)' = Unheard(tab)
    BY SameServerFacts, SameUnheard
<1>2. Unhurt(tab)' <=> Unhurt(tab)
    BY DEF Unhurt, ListHazards
<1> QED
    BY <1>1, <1>2 DEF Sane, Missing

\* A list that is left as it is stays covered.
LEMMA QuietCover ==
    ASSUME FeedInv, SameServer, NEW tab \in Tabs, Covered(tab),
           list'[tab] = list[tab], cursor'[tab] = cursor[tab],
           allLoaded'[tab] = allLoaded[tab],
           hazards'[tab] \cap ListHazards = hazards[tab] \cap ListHazards,
           \A k \in DOMAIN pages' :
              pages'[k].tab = tab /\ ~pages'[k].stale =>
                 \/ pages'[k].cursor = cursor[tab]
                 \/ \E m \in DOMAIN pages : /\ pages[m].tab = tab /\ ~pages[m].stale
                                            /\ pages'[k].cursor = pages[m].cursor
    PROVE  Covered(tab)'
<1>1. /\ Sane(tab)' <=> Sane(tab)
      /\ Missing(tab)' = Missing(tab)
      /\ ToSet(list'[tab]) = ToSet(list[tab])
    BY SameSane
<1>2. actionTime' = actionTime
    BY SameServerFacts
<1>3. /\ list[tab] \in Seq(Twysts) /\ cursor \in [Tabs -> Nat] /\ PagesType
    BY FeedParts DEF ArraysType
<1>4. Len(list'[tab]) >= Len(list[tab])
    BY <1>3, Elements
<1>5. Sane(tab)' /\ tab = "private" =>
          \A t \in Missing(tab)', s \in ToSet(list'[tab]) :
              actionTime'[t] < actionTime'[s]
    BY <1>1, <1>2 DEF Covered
<1> QED
    BY <1>1, <1>2, <1>3, <1>4, <1>5, CoverKept

\* The steps of the server leave no gap: what acts will be told.
LEMMA ServerGap ==
    ASSUME FeedInv, GapInv, NEW t \in Twysts, Acted(t) \/ ServerDeletes(t)
    PROVE  GapInv'
<1>0. /\ ServerType /\ ServerInv /\ EntriesInv /\ PagesType /\ ArraysType
      /\ CursorInv /\ FreshInv /\ PageInv /\ CoverInv
    BY FeedParts DEF FeedInv, GapInv
<1>1. UNCHANGED <<feed, pages, opened, list, cursor, allLoaded, hazards>>
    BY DEF Acted, ServerDeletes, RestUnchanged, tabVars, tableVars
<1>2. Tabs' = Tabs /\ TabOf' = TabOf
    BY <1>1 DEF Tabs, TabOf
<1>3. \A s \in Twysts : /\ status[s] = "deleted" => status'[s] = "deleted"
                        /\ status[s] # "draft" => actionTime[s] <= actionTime'[s]
                        /\ actionTime[s] \in Nat /\ actionTime'[s] \in Nat
    <2>1. CASE Acted(t)
        <3>1. /\ actionTime \in [Twysts -> Nat]
              /\ actionTime' \in [Twysts -> Nat]
            BY <1>0, <2>1, ActedTime DEF ServerType
        <3> QED
            BY <1>0, <2>1, <3>1, ActedTime
    <2>2. CASE ServerDeletes(t)
        <3>1. actionTime' = actionTime /\ actionTime \in [Twysts -> Nat]
              /\ status' = [status EXCEPT ![t] = "deleted"]
            BY <1>0, <2>2 DEF ServerDeletes, ServerType
        <3> QED
            BY <1>0, <3>1 DEF ServerType
    <2> QED
        BY <2>1, <2>2
<1>4. ASSUME NEW tab \in Tabs
      PROVE  /\ HeardOf(tab) /\ Unhurt(tab)' = Unhurt(tab)
             /\ Sane(tab)' => Sane(tab)
             /\ Missing(tab)' \subseteq Missing(tab)
             /\ list[tab] \in Seq(Twysts) /\ ToSet(list[tab]) \subseteq Twysts
    <2>1. HeardOf(tab)
        BY ServerHeard
    <2>2. Unhurt(tab)' = Unhurt(tab)
        BY <1>1 DEF Unhurt
    <2>3. list[tab] \in Seq(Twysts) /\ ToSet(list[tab]) \subseteq Twysts
        <3>1. list[tab] \in Seq(Twysts)
            BY <1>0 DEF ArraysType
        <3> QED
            BY <3>1, Elements
    <2>4. Sane(tab)' => Sane(tab)
        BY <1>1, <1>3, <2>2, <2>3 DEF Sane
    <2>5. Missing(tab)' \subseteq Missing(tab)
        BY <1>1, <2>1 DEF Missing, HeardOf
    <2> QED
        BY <2>1, <2>2, <2>3, <2>4, <2>5
<1>5. CursorInv' /\ FreshInv'
    <2> DEFINE g == [k \in DOMAIN pages |-> k]
    <2>1. /\ \A k \in DOMAIN pages' : /\ g[k] \in DOMAIN pages
                                      /\ pages'[k].tab = pages[g[k]].tab
                                      /\ pages'[k].cursor = pages[g[k]].cursor
                                      /\ pages'[k].stale = pages[g[k]].stale
          /\ \A k, l \in DOMAIN pages' : g[k] = g[l] => k = l
        BY <1>1
    <2> HIDE DEF g
    <2> QED
        BY <1>0, <1>1, <1>4, <2>1, FlagsKept
<1>6. PageInv'
    <2> SUFFICES ASSUME NEW k \in DOMAIN pages'
                 PROVE  \E q : q = pages'[k] /\ PageFollows(q)'
        BY PageInvJoin
    <2>1. PICK q : q = pages[k]
        OBVIOUS
    <2>2. PageFollows(q) /\ q.tab \in Tabs
        BY <1>0, <1>1, <2>1, PageFacts DEF PageInv
    <2>3. SamePage(q, q)
        BY DEF SamePage
    <2>4. PageFollows(q)'
        BY <1>1, <1>4, <2>2, <2>3, PageKept
    <2> QED
        BY <1>1, <2>1, <2>4
<1>7. ASSUME NEW tab \in Tabs
      PROVE  Covered(tab)'
    <2>1. Covered(tab)
        BY <1>0 DEF CoverInv
    <2>2. \A s \in Missing(tab)' : actionTime'[s] = actionTime[s]
        BY <1>4 DEF Missing, HeardOf
    <2>3. cursor \in [Tabs -> Nat] /\ Len(list'[tab]) >= Len(list[tab])
        <3>1. Len(list[tab]) \in Nat
            BY <1>4, Elements
        <3> QED
            BY <1>0, <1>1, <3>1 DEF ArraysType
    <2>4. ASSUME Sane(tab)', tab = "private",
                 NEW m \in Missing(tab)', NEW s \in ToSet(list'[tab])
          PROVE  actionTime'[m] < actionTime'[s]
        <3>1. m \in Missing(tab) /\ s \in ToSet(list[tab]) /\ s \in Twysts /\ m \in Twysts
            BY <1>1, <1>4 DEF Missing, Unheard, Complete
        <3>2. actionTime[m] < actionTime[s]
            BY <1>4, <2>1, <2>4, <3>1 DEF Covered
        <3>3. actionTime[s] <= actionTime'[s]
            BY <1>0, <1>3, <3>1 DEF EntriesInv
        <3>4. actionTime'[m] = actionTime[m]
            BY <2>2
        <3>5. actionTime[m] \in Nat /\ actionTime[s] \in Nat /\ actionTime'[s] \in Nat
            BY <1>3, <3>1
        <3> QED
            BY <3>2, <3>3, <3>4, <3>5
    <2> QED
        BY <1>0, <1>1, <1>4, <2>1, <2>2, <2>3, <2>4, CoverKept
<1>8. CoverInv'
    BY <1>2, <1>7 DEF CoverInv
<1> QED
    BY <1>5, <1>6, <1>8 DEF GapInv

\* A page that is handed on as it is follows what it followed.
LEMMA QuietPage ==
    ASSUME SameServer, NEW p, NEW q, SamePage(p, q), PageFollows(p),
           list'[p.tab] = list[p.tab],
           hazards'[p.tab] \cap ListHazards = hazards[p.tab] \cap ListHazards
    PROVE  PageFollows(q)'
<1>1. HeardOf(p.tab)
    BY SameHeard
<1>2. Sane(p.tab)' => Sane(p.tab)
    BY SameSane
<1> QED
    BY <1>1, <1>2, PageKept

\* The steps that leave lists and cursors and replace a page.
LEMMA ReplacedGap ==
    ASSUME FeedInv, GapInv, SameServer, NEW i \in DOMAIN pages, NEW r \in Page,
           pages' = [pages EXCEPT ![i] = r],
           r.tab = pages[i].tab, r.cursor = pages[i].cursor,
           r.stale = pages[i].stale, PageFollows(r)',
           UNCHANGED <<list, cursor, allLoaded, hazards>>
    PROVE  GapInv'
<1>0. PagesType /\ CursorInv /\ FreshInv /\ PageInv /\ CoverInv
    BY FeedParts DEF GapInv
<1>1. Page' = Page /\ Tabs' = Tabs
    BY SameServerFacts
<1>2. /\ DOMAIN pages' = DOMAIN pages
      /\ \A k \in DOMAIN pages : pages'[k] = IF k = i THEN r ELSE pages[k]
    BY <1>0, <1>1, PageReplaced
<1>3. \A k \in DOMAIN pages : /\ pages'[k].tab = pages[k].tab
                              /\ pages'[k].cursor = pages[k].cursor
                              /\ pages'[k].stale = pages[k].stale
    BY <1>2
<1>4. \A s \in Tabs : Unhurt(s)' => Unhurt(s)
    BY DEF Unhurt
<1>5. CursorInv' /\ FreshInv'
    <2> DEFINE g == [k \in DOMAIN pages |-> k]
    <2>1. /\ \A k \in DOMAIN pages' : /\ g[k] \in DOMAIN pages
                                      /\ pages'[k].tab = pages[g[k]].tab
                                      /\ pages'[k].cursor = pages[g[k]].cursor
                                      /\ pages'[k].stale = pages[g[k]].stale
          /\ \A k, l \in DOMAIN pages' : g[k] = g[l] => k = l
        BY <1>2, <1>3
    <2> HIDE DEF g
    <2> QED
        BY <1>0, <1>4, <2>1, FlagsKept
<1>6. PageInv'
    <2> SUFFICES ASSUME NEW k \in DOMAIN pages'
                 PROVE  \E q : q = pages'[k] /\ PageFollows(q)'
        BY PageInvJoin
    <2>1. CASE k = i
        BY <1>2, <2>1
    <2>2. CASE k # i
        <3>1. PICK q : q = pages[k]
            OBVIOUS
        <3>2. pages'[k] = q /\ PageFollows(q)
            BY <1>0, <1>2, <2>2, <3>1 DEF PageInv
        <3>3. SamePage(q, q)
            BY DEF SamePage
        <3>4. PageFollows(q)'
            BY <3>2, <3>3, QuietPage
        <3> QED
            BY <3>2, <3>4
    <2> QED
        BY <2>1, <2>2
<1>7. ASSUME NEW tab \in Tabs
      PROVE  Covered(tab)'
    <2>1. Covered(tab)
        BY <1>0 DEF CoverInv
    <2> QED
        BY <1>2, <1>3, <2>1, QuietCover
<1>8. CoverInv'
    BY <1>1, <1>7 DEF CoverInv
<1> QED
    BY <1>5, <1>6, <1>8 DEF GapInv

\* A request that fails will bring nothing.
LEMMA FailsGap ==
    ASSUME FeedInv, GapInv, NEW i \in DOMAIN pages, RequestFails(i)
    PROVE  GapInv'
<1>0. PagesType
    BY FeedParts
<1>1. PICK r \in Page :
         /\ r.tab = pages[i].tab /\ r.cursor = pages[i].cursor
         /\ r.stale = pages[i].stale /\ (r.phase = "failed" \/ r.cut = TRUE)
         /\ pages' = [pages EXCEPT ![i] = r]
         /\ UNCHANGED <<serverVars, notices, tabVars, hazards>>
    BY <1>0, FailsIs DEF FailedAs
<1>2. SameServer /\ UNCHANGED <<list, cursor, allLoaded, hazards>>
    BY <1>1 DEF SameServer, tabVars
<1>3. PageFollows(r)'
    BY <1>1 DEF PageFollows
<1> QED
    BY <1>1, <1>2, <1>3, ReplacedGap

\* The screen that comes back changes the tables only.
LEMMA AppearGap ==
    ASSUME FeedInv, GapInv, NEW tab \in Tabs, Appear(tab)
    PROVE  GapInv'
<1>0. PagesType /\ TableType /\ CursorInv /\ FreshInv /\ PageInv /\ CoverInv
    BY FeedParts DEF GapInv
<1>1. SameServer /\ UNCHANGED <<list, cursor, allLoaded, pages>>
      /\ hazards' = [hazards EXCEPT ![tab] = hazards[tab] \ TableHazards]
    BY DEF Appear, SameServer, tabVars
<1>2. Tabs' = Tabs
    BY <1>1, SameServerFacts
<1>3. \A s \in Tabs : hazards'[s] \cap ListHazards = hazards[s] \cap ListHazards
    BY <1>0, <1>1, HazardNames DEF TableType
<1>4. \A s \in Tabs : Unhurt(s)' => Unhurt(s)
    BY <1>3 DEF Unhurt, ListHazards
<1>5. CursorInv' /\ FreshInv'
    <2> DEFINE g == [k \in DOMAIN pages |-> k]
    <2>1. /\ \A k \in DOMAIN pages' : /\ g[k] \in DOMAIN pages
                                      /\ pages'[k].tab = pages[g[k]].tab
                                      /\ pages'[k].cursor = pages[g[k]].cursor
                                      /\ pages'[k].stale = pages[g[k]].stale
          /\ \A k, l \in DOMAIN pages' : g[k] = g[l] => k = l
        BY <1>1
    <2> HIDE DEF g
    <2> QED
        BY <1>0, <1>1, <1>4, <2>1, FlagsKept
<1>6. PageInv'
    <2> SUFFICES ASSUME NEW k \in DOMAIN pages'
                 PROVE  \E q : q = pages'[k] /\ PageFollows(q)'
        BY PageInvJoin
    <2>1. PICK q : q = pages[k]
        OBVIOUS
    <2>2. pages'[k] = q /\ PageFollows(q) /\ q.tab \in Tabs
        BY <1>0, <1>1, <2>1, PageFacts DEF PageInv
    <2>3. SamePage(q, q)
        BY DEF SamePage
    <2>4. PageFollows(q)'
        BY <1>1, <1>3, <2>2, <2>3, QuietPage
    <2> QED
        BY <2>2, <2>4
<1>7. ASSUME NEW s \in Tabs
      PROVE  Covered(s)'
    <2>1. Covered(s)
        BY <1>0 DEF CoverInv
    <2> QED
        BY <1>1, <1>3, <2>1, QuietCover
<1>8. CoverInv'
    BY <1>2, <1>7 DEF CoverInv
<1> QED
    BY <1>5, <1>6, <1>8 DEF GapInv

\* A list starts anew, and what was under way for it is stale.
LEMMA AnewGap ==
    ASSUME FeedInv, GapInv, SameServer, list' = list, NEW tab \in Tabs,
           \A s \in Tabs : hazards'[s] \cap ListHazards = hazards[s] \cap ListHazards,
           cursor'[tab] = 0, allLoaded'[tab] = FALSE,
           \A s \in Tabs : s # tab =>
              cursor'[s] = cursor[s] /\ allLoaded'[s] = allLoaded[s],
           NEW n, n \notin DOMAIN pages,
           DOMAIN pages' = (DOMAIN pages) \cup {n},
           pages'[n].tab = tab, pages'[n].cursor = 0,
           pages'[n].phase = "sent", pages'[n].stale = FALSE,
           \A k \in DOMAIN pages :
              /\ SamePage(pages[k], pages'[k])
              /\ pages'[k].stale = (pages[k].stale \/ pages[k].tab = tab)
    PROVE  GapInv'
<1>0. PagesType /\ TableType /\ ArraysType /\ CursorInv /\ FreshInv /\ PageInv /\ CoverInv
    BY FeedParts DEF GapInv
<1>1. SameServer /\ list' = list
    OBVIOUS
<1>2. Tabs' = Tabs
    BY SameServerFacts
<1>3. \A s \in Tabs : hazards'[s] \cap ListHazards = hazards[s] \cap ListHazards
    OBVIOUS
<1>4. \A s \in Tabs : Unhurt(s)' <=> Unhurt(s)
    BY <1>3 DEF Unhurt, ListHazards
<1>5. /\ cursor'[tab] = 0 /\ allLoaded'[tab] = FALSE
      /\ \A s \in Tabs : s # tab => cursor'[s] = cursor[s] /\ allLoaded'[s] = allLoaded[s]
    OBVIOUS
<1>8. /\ DOMAIN pages' = (DOMAIN pages) \cup {n} /\ n \notin DOMAIN pages
      /\ pages'[n].tab = tab /\ pages'[n].cursor = 0
      /\ pages'[n].phase = "sent" /\ pages'[n].stale = FALSE
      /\ \A k \in DOMAIN pages : /\ SamePage(pages[k], pages'[k])
                                 /\ pages'[k].stale = (pages[k].stale \/ pages[k].tab = tab)
    OBVIOUS
<1>9. ASSUME NEW k \in DOMAIN pages', ~pages'[k].stale, k # n
      PROVE  /\ k \in DOMAIN pages /\ ~pages[k].stale /\ pages[k].tab # tab
             /\ pages'[k].tab = pages[k].tab /\ pages'[k].cursor = pages[k].cursor
             /\ pages[k].tab \in Tabs
    BY <1>0, <1>8, <1>9, PageFacts DEF SamePage
<1>10. CursorInv'
    <2> SUFFICES ASSUME NEW k \in DOMAIN pages', ~pages'[k].stale,
                        cursor'[pages'[k].tab] = 0,
                        Unhurt(pages[k].tab)' \/ ~allLoaded'[pages'[k].tab]
                 PROVE  pages'[k].cursor = 0
        BY DEF CursorInv
    <2>1. CASE k = n
        BY <1>8, <2>1
    <2>2. CASE k # n
        <3>1. PICK p : p = pages[k]
            OBVIOUS
        <3>2. /\ k \in DOMAIN pages /\ ~p.stale /\ p.tab # tab /\ p.tab \in Tabs
              /\ pages'[k].tab = p.tab /\ pages'[k].cursor = p.cursor
            BY <1>9, <2>2, <3>1
        <3>3. Unhurt(p.tab) \/ ~allLoaded[p.tab]
            BY <1>4, <1>5, <3>2 DEF Unhurt
        <3> QED
            BY <1>0, <1>5, <3>1, <3>2, <3>3 DEF CursorInv
    <2> QED
        BY <2>1, <2>2
<1>11. FreshInv'
    <2>1. ASSUME NEW k \in DOMAIN pages', Fresh(pages[k])'
          PROVE  \/ cursor'[pages'[k].tab] = 0 /\ ~allLoaded'[pages'[k].tab]
                 \/ ~Unhurt(pages[k].tab)'
        <3>1. CASE k = n
            BY <1>5, <1>8, <3>1
        <3>2. CASE k # n
            <4>1. PICK p : p = pages[k]
                OBVIOUS
            <4>2. /\ k \in DOMAIN pages /\ Fresh(p) /\ p.tab # tab /\ p.tab \in Tabs
                  /\ pages'[k].tab = p.tab
                BY <1>9, <2>1, <3>2, <4>1 DEF Fresh
            <4>3. (cursor[p.tab] = 0 /\ ~allLoaded[p.tab]) \/ ~Unhurt(p.tab)
                BY <1>0, <4>1, <4>2 DEF FreshInv
            <4> QED
                BY <1>4, <1>5, <4>2, <4>3 DEF Unhurt
        <3> QED
            BY <3>1, <3>2
    <2>2. ASSUME NEW k \in DOMAIN pages', NEW l \in DOMAIN pages',
                 Fresh(pages[k])', Fresh(pages[l])', pages'[k].tab = pages'[l].tab
          PROVE  k = l
        <3>0. ~pages'[k].stale /\ ~pages'[l].stale
            BY <2>2 DEF Fresh
        <3>1. CASE k = n \/ l = n
            BY <1>8, <1>9, <2>2, <3>0, <3>1
        <3>2. CASE k # n /\ l # n
            <4>1. Fresh(pages[k]) /\ Fresh(pages[l]) /\ pages[k].tab = pages[l].tab
                  /\ k \in DOMAIN pages /\ l \in DOMAIN pages
                BY <1>9, <2>2, <3>0, <3>2 DEF Fresh
            <4> QED
                BY <1>0, <4>1 DEF FreshInv
        <3> QED
            BY <3>1, <3>2
    <2> QED
        BY <2>1, <2>2 DEF FreshInv
<1>12. PageInv'
    <2> SUFFICES ASSUME NEW k \in DOMAIN pages'
                 PROVE  \E q : q = pages'[k] /\ PageFollows(q)'
        BY PageInvJoin
    <2>1. PICK q : q = pages'[k]
        OBVIOUS
    <2>2. CASE k = n
        <3>1. q.phase = "sent"
            BY <1>8, <2>1, <2>2
        <3>2. PageFollows(q)'
            BY <3>1 DEF PageFollows
        <3> QED
            BY <2>1, <3>2
    <2>3. CASE k # n
        <3>1. PICK p : p = pages[k]
            OBVIOUS
        <3>2. SamePage(p, q) /\ PageFollows(p) /\ p.tab \in Tabs
            BY <1>0, <1>8, <2>1, <2>3, <3>1, PageFacts DEF PageInv
        <3>3. PageFollows(q)'
            BY <1>1, <1>3, <3>2, QuietPage
        <3> QED
            BY <2>1, <3>3
    <2> QED
        BY <2>2, <2>3
<1>13. ASSUME NEW s \in Tabs, s # tab
       PROVE  Covered(s)'
    <2>1. Covered(s)
        BY <1>0 DEF CoverInv
    <2>2. \A k \in DOMAIN pages' :
              pages'[k].tab = s /\ ~pages'[k].stale =>
                 \E m \in DOMAIN pages : /\ pages[m].tab = s /\ ~pages[m].stale
                                         /\ pages'[k].cursor = pages[m].cursor
        BY <1>8, <1>9, <1>13
    <2> QED
        BY <1>1, <1>3, <1>5, <1>13, <2>1, <2>2, QuietCover
<1>14. Covered(tab)'
    <2> SUFFICES ASSUME Sane(tab)'
                 PROVE  /\ allLoaded'[tab] => Missing(tab)' = {}
                        /\ Follows(tab, cursor[tab])'
                        /\ \A k \in DOMAIN pages' :
                              pages'[k].tab = tab /\ ~pages'[k].stale =>
                                  Follows(tab, pages[k].cursor)'
                        /\ tab = "private" =>
                              \A t \in Missing(tab)', s \in ToSet(list'[tab]) :
                                  actionTime'[t] < actionTime'[s]
        BY DEF Covered
    <2>1. Sane(tab) /\ Missing(tab)' = Missing(tab) /\ actionTime' = actionTime
        BY <1>1, <1>3, SameSane, SameServerFacts
    <2>2. Len(list'[tab]) \in Nat
        BY <1>0, <1>1, Elements DEF ArraysType
    <2>3. Follows(tab, cursor[tab])'
        BY <1>5, <2>2 DEF Follows
    <2>4. ASSUME NEW k \in DOMAIN pages', pages'[k].tab = tab, ~pages'[k].stale
          PROVE  Follows(tab, pages[k].cursor)'
        <3>1. pages'[k].cursor = 0
            BY <1>8, <1>9, <2>4
        <3> QED
            BY <2>2, <3>1 DEF Follows
    <2>5. tab = "private" =>
              \A t \in Missing(tab)', s \in ToSet(list'[tab]) :
                  actionTime'[t] < actionTime'[s]
        <3>1. Covered(tab)
            BY <1>0 DEF CoverInv
        <3> QED
            BY <1>1, <2>1, <3>1 DEF Covered
    <2> QED
        BY <1>5, <2>3, <2>4, <2>5
<1>15. CoverInv'
    BY <1>2, <1>13, <1>14 DEF CoverInv
<1> QED
    BY <1>10, <1>11, <1>12, <1>15 DEF GapInv

\* A pulled list starts anew ...
LEMMA RefreshGap ==
    ASSUME FeedInv, GapInv, NEW tab \in Tabs, Refresh(tab)
    PROVE  GapInv'
<1>0. PagesType /\ TableType /\ ArraysType
    BY FeedParts
<1>1. SameServer /\ list' = list
    BY DEF Refresh, SameServer
<1>2. Tabs' = Tabs /\ Page' = Page
    BY <1>1, SameServerFacts
<1>3. \A s \in Tabs : hazards'[s] \cap ListHazards = hazards[s] \cap ListHazards
    <2>1. \/ hazards' = [hazards EXCEPT ![tab] = hazards[tab] \ TableHazards]
          \/ hazards' = [hazards EXCEPT ![tab] = hazards[tab] \cup
                            (IF allLoaded[tab] THEN {"refreshed"} ELSE {})]
        BY DEF Refresh
    <2> QED
        BY <1>0, <2>1, HazardNames DEF TableType
<1>5. /\ cursor'[tab] = 0 /\ allLoaded'[tab] = FALSE
      /\ \A s \in Tabs : s # tab => cursor'[s] = cursor[s] /\ allLoaded'[s] = allLoaded[s]
    BY <1>0 DEF Refresh, ArraysType
<1>6. PICK n : n = Len(pages) + 1
    OBVIOUS
<1>7. /\ NewPage(tab, 0).tab = tab /\ NewPage(tab, 0).cursor = 0
      /\ NewPage(tab, 0).phase = "sent" /\ NewPage(tab, 0).stale = FALSE
    BY DEF NewPage
<1>8. /\ DOMAIN pages' = (DOMAIN pages) \cup {n} /\ n \notin DOMAIN pages
      /\ pages'[n].tab = tab /\ pages'[n].cursor = 0
      /\ pages'[n].phase = "sent" /\ pages'[n].stale = FALSE
      /\ \A k \in DOMAIN pages : /\ SamePage(pages[k], pages'[k])
                                 /\ pages'[k].stale = (pages[k].stale \/ pages[k].tab = tab)
    BY <1>0, <1>2, <1>6, <1>7, RefreshPages DEF SamePage
<1> QED
    BY <1>1, <1>3, <1>5, <1>8, AnewGap

\* Another page is asked for from the cursor on, or the first one again: the
\* list starts anew then as if it was pulled.
LEMMA LoadMoreGap ==
    ASSUME FeedInv, GapInv, NEW tab \in Tabs, LoadMore(tab)
    PROVE  GapInv'
<1>0. PagesType /\ TableType /\ ArraysType /\ CursorInv /\ FreshInv /\ PageInv /\ CoverInv
    BY FeedParts DEF GapInv
<1>1. SameServer /\ UNCHANGED <<list, cursor, allLoaded>>
      /\ allLoaded[tab] = FALSE
      /\ \/ hazards' = [hazards EXCEPT ![tab] = hazards[tab] \ TableHazards]
         \/ hazards' = hazards
    BY <1>0 DEF LoadMore, SameServer, ArraysType
<1>2. Tabs' = Tabs /\ Page' = Page
    BY <1>1, SameServerFacts
<1>3. \A s \in Tabs : hazards'[s] \cap ListHazards = hazards[s] \cap ListHazards
    BY <1>0, <1>1, HazardNames DEF TableType
<1>4. \A s \in Tabs : Unhurt(s)' <=> Unhurt(s)
    BY <1>3 DEF Unhurt, ListHazards
<1>5. PICK n : n = Len(pages) + 1
    OBVIOUS
<1>6. /\ DOMAIN pages' = (DOMAIN pages) \cup {n} /\ n \notin DOMAIN pages
      /\ \A k \in DOMAIN pages : MarkedAs(tab, pages[k], pages'[k])
      /\ pages'[n].tab = tab /\ pages'[n].cursor = cursor[tab]
      /\ pages'[n].phase = "sent" /\ pages'[n].stale = FALSE
    BY <1>0, <1>2, <1>5, MorePages
<1>a. CASE cursor[tab] = 0
    <2>1. \A k \in DOMAIN pages :
              /\ SamePage(pages[k], pages'[k])
              /\ pages'[k].stale = (pages[k].stale \/ pages[k].tab = tab)
        BY <1>6, <1>a DEF SamePage, MarkedAs
    <2> QED
        BY <1>1, <1>3, <1>6, <1>a, <2>1, AnewGap
<1>b. CASE cursor[tab] # 0
    <2>7. \A k \in DOMAIN pages :
              /\ SamePage(pages[k], pages'[k]) /\ pages'[k].stale = pages[k].stale
              /\ pages[k].tab \in Tabs
        BY <1>0, <1>6, <1>b, PageFacts DEF MarkedAs, SamePage
    <2>8. CursorInv'
        <3> SUFFICES ASSUME NEW k \in DOMAIN pages', ~pages'[k].stale,
                            cursor'[pages'[k].tab] = 0,
                            Unhurt(pages[k].tab)' \/ ~allLoaded'[pages'[k].tab]
                     PROVE  pages'[k].cursor = 0
            BY DEF CursorInv
        <3>1. k # n
            BY <1>1, <1>6, <1>b
        <3>2. PICK p : p = pages[k]
            OBVIOUS
        <3>3. /\ k \in DOMAIN pages /\ p.tab \in Tabs /\ ~p.stale
              /\ pages'[k].tab = p.tab /\ pages'[k].cursor = p.cursor
            BY <1>6, <2>7, <3>1, <3>2 DEF SamePage
        <3>4. Unhurt(p.tab) \/ ~allLoaded[p.tab]
            BY <1>1, <1>4, <3>3 DEF Unhurt
        <3> QED
            BY <1>0, <1>1, <3>2, <3>3, <3>4 DEF CursorInv
    <2>9. FreshInv'
        <3>1. ASSUME NEW k \in DOMAIN pages', Fresh(pages[k])'
              PROVE  k \in DOMAIN pages /\ pages'[k].tab = pages[k].tab /\ Fresh(pages[k])
            <4>1. k # n
                BY <1>1, <1>6, <1>b, <3>1 DEF Fresh
            <4> QED
                BY <1>6, <2>7, <3>1, <4>1 DEF Fresh, SamePage
        <3>2. ASSUME NEW k \in DOMAIN pages', Fresh(pages[k])'
              PROVE  \/ cursor'[pages'[k].tab] = 0 /\ ~allLoaded'[pages'[k].tab]
                     \/ ~Unhurt(pages[k].tab)'
            <4>1. PICK p : p = pages[k]
                OBVIOUS
            <4>2. k \in DOMAIN pages /\ pages'[k].tab = p.tab /\ Fresh(p) /\ p.tab \in Tabs
                BY <2>7, <3>1, <3>2, <4>1
            <4>3. (cursor[p.tab] = 0 /\ ~allLoaded[p.tab]) \/ ~Unhurt(p.tab)
                BY <1>0, <4>1, <4>2 DEF FreshInv
            <4> QED
                BY <1>1, <1>4, <4>2, <4>3 DEF Unhurt
        <3>3. \A k, l \in DOMAIN pages' :
                  Fresh(pages[k])' /\ Fresh(pages[l])' /\ pages'[k].tab = pages'[l].tab
                  => k = l
            BY <1>0, <3>1 DEF FreshInv
        <3> QED
            BY <3>2, <3>3 DEF FreshInv
    <2>10. PageInv'
        <3> SUFFICES ASSUME NEW k \in DOMAIN pages'
                     PROVE  \E q : q = pages'[k] /\ PageFollows(q)'
            BY PageInvJoin
        <3>1. CASE k = n
            <4>1. PICK q : q = pages'[k]
                OBVIOUS
            <4>2. q.phase = "sent"
                BY <1>6, <3>1, <4>1
            <4>3. PageFollows(q)'
                BY <4>2 DEF PageFollows
            <4> QED
                BY <4>1, <4>3
        <3>2. CASE k # n
            <4>1. PICK p : p = pages[k]
                OBVIOUS
            <4>2. PICK q : q = pages'[k]
                OBVIOUS
            <4>3. SamePage(p, q) /\ PageFollows(p) /\ p.tab \in Tabs
                BY <1>0, <1>6, <2>7, <3>2, <4>1, <4>2 DEF PageInv
            <4>4. PageFollows(q)'
                BY <1>1, <1>3, <4>3, QuietPage
            <4> QED
                BY <4>2, <4>4
        <3> QED
            BY <3>1, <3>2
    <2>11. ASSUME NEW s \in Tabs
           PROVE  Covered(s)'
        <3>1. Covered(s)
            BY <1>0 DEF CoverInv
        <3>2. \A k \in DOMAIN pages' :
                  pages'[k].tab = s /\ ~pages'[k].stale =>
                     \/ pages'[k].cursor = cursor[s]
                     \/ \E m \in DOMAIN pages : /\ pages[m].tab = s /\ ~pages[m].stale
                                                /\ pages'[k].cursor = pages[m].cursor
            BY <1>6, <2>7 DEF SamePage
        <3> QED
            BY <1>1, <1>3, <3>1, <3>2, QuietCover
    <2>12. CoverInv'
        BY <1>2, <2>11 DEF CoverInv
    <2> QED
        BY <2>8, <2>9, <2>10, <2>12 DEF GapInv
<1> QED
    BY <1>a, <1>b

\* A list has no room for its entries before the place k of another one if
\* it has k or more.
LEMMA NoRoom ==
    ASSUME NEW l \in Seq(Twysts), Sorted(l), NEW newest, NEW k \in Nat,
           0 < k, k <= Len(l),
           \A x \in ToSet(l) : \E j \in 1 .. k - 1 : newest[j] = x
    PROVE  FALSE
<1>1. /\ DOMAIN l = 1 .. Len(l) /\ Len(l) \in Nat
      /\ \A i \in 1 .. Len(l) : l[i] \in ToSet(l)
    BY Elements
<1> DEFINE f == [i \in 1 .. Len(l) |-> CHOOSE j \in 1 .. k - 1 : newest[j] = l[i]]
<1>2. \A i \in 1 .. Len(l) : f[i] \in 1 .. k - 1 /\ newest[f[i]] = l[i]
    BY <1>1
<1>3. f \in [1 .. Len(l) -> 1 .. k - 1]
    BY <1>2
<1> HIDE DEF f
<1>4. /\ IsFiniteSet(1 .. Len(l)) /\ Cardinality(1 .. Len(l)) = Len(l)
      /\ IsFiniteSet(1 .. k - 1) /\ Cardinality(1 .. k - 1) = k - 1
    <2>1. \A n \in Nat : IsFiniteSet(1 .. n) /\ Cardinality(1 .. n) = n
        <3> TAKE n \in Nat
        <3>1. 1 .. n = {} \/ n >= 1
            OBVIOUS
        <3>2. /\ IsFiniteSet(1 .. n)
              /\ Cardinality(1 .. n) = IF 1 > n THEN 0 ELSE n - 1 + 1
            BY FS_Interval
        <3> QED
            BY <3>2
    <2>2. k - 1 \in Nat
        OBVIOUS
    <2> QED
        BY <1>1, <2>1, <2>2
<1>5. Cardinality(1 .. k - 1) < Cardinality(1 .. Len(l))
    BY <1>1, <1>4
<1>6. PICK x, y \in 1 .. Len(l) : x # y /\ f[x] = f[y]
    BY <1>3, <1>4, <1>5, FS_PigeonHole
<1>7. l[x] = l[y]
    BY <1>2, <1>6
<1> QED
    BY <1>6, <1>7, SortedPlaces

\* What is missing is not before the cursor of a page that was asked for.
LEMMA NotBefore ==
    ASSUME FeedInv, CoverInv, NEW i \in DOMAIN pages, ~pages[i].stale,
           Sane(pages[i].tab), NEW t \in Missing(pages[i].tab),
           NEW listed \in SUBSET Twysts, Complete(pages[i].tab) \subseteq listed
    PROVE  ~Before(pages[i], listed, t)
<1> SUFFICES ASSUME Before(pages[i], listed, t) PROVE FALSE
    OBVIOUS
<1>0. ServerType /\ PagesType /\ ArraysType /\ EntriesInv /\ ListIsSorted
    BY FeedParts DEF FeedInv
<1>1. PICK p, tab : p = pages[i] /\ tab = p.tab
    OBVIOUS
<1>2. p \in Page /\ tab \in Tabs /\ p.cursor \in Nat
    BY <1>0, <1>1, PageFacts
<1>3. tab \in {"twysted", "private"}
    BY <1>0, <1>2, TabFacts DEF ServerType
<1>4. /\ Sane(tab) /\ Follows(tab, p.cursor) /\ t \in Missing(tab)
      /\ tab = "private" =>
            \A m \in Missing(tab), s \in ToSet(list[tab]) : actionTime[m] < actionTime[s]
    BY <1>1, <1>2 DEF CoverInv, Covered
<1>5. actionTime \in [Twysts -> Nat] /\ t \in Twysts
    BY <1>0, <1>4 DEF ServerType, Missing, Unheard, Complete
<1>6. CASE tab = "twysted"
    BY <1>1, <1>2, <1>4, <1>5, <1>6 DEF Before, Follows
<1>7. CASE tab = "private"
    <2>1. PICK newest, k : /\ InOrder(newest, listed)
                           /\ k \in DOMAIN newest /\ k <= p.cursor
                           /\ newest[k] = t
        BY <1>1, <1>7 DEF Before
    <2>2. newest \in Seq(listed)
        BY <2>1 DEF InOrder
    <2>3. /\ k \in Nat /\ 0 < k /\ DOMAIN newest \subseteq Nat
          /\ DOMAIN newest = 1 .. Len(newest) /\ Len(newest) \in Nat
        BY <2>1, <2>2, Elements
    <2>4. list[tab] \in Seq(Twysts) /\ Sorted(list[tab]) /\ ToSet(list[tab]) \subseteq Twysts
        <3>1. list[tab] \in Seq(Twysts) /\ Sorted(list[tab])
            BY <1>0, <1>2, KeptSorted
        <3> QED
            BY <3>1, Elements
    <2>5. p.cursor <= Len(list[tab]) /\ Len(list[tab]) \in Nat
        BY <1>4, <1>7, <2>4, Elements DEF Follows
    <2>6. k <= Len(list[tab])
        BY <1>2, <2>1, <2>3, <2>5
    <2>7. ASSUME NEW x \in ToSet(list[tab])
          PROVE  \E j \in 1 .. k - 1 : newest[j] = x
        <3>1. x \in Twysts /\ status[x] # "draft" /\ status[x] # "deleted" /\ TabOf[x] = tab
            BY <1>0, <1>2, <1>4, <1>7, <2>4, <2>7 DEF EntriesInv, Sane
        <3>2. status[x] = "complete"
            BY <1>0, <3>1 DEF ServerType
        <3>3. x \in listed
            BY <1>1, <3>1, <3>2 DEF Complete
        <3>4. actionTime[t] < actionTime[x] /\ actionTime[t] \in Nat /\ actionTime[x] \in Nat
            BY <1>4, <1>5, <1>7, <2>7, <3>1
        <3>5. x \in ToSet(newest)
            <4> SUFFICES ASSUME x \notin ToSet(newest) PROVE FALSE
                OBVIOUS
            <4>1. actionTime[x] <= actionTime[newest[k]]
                BY <2>1, <3>3 DEF InOrder
            <4> QED
                BY <2>1, <3>4, <4>1
        <3>6. PICK j \in 1 .. Len(newest) : newest[j] = x
            BY <2>2, <3>5, Elements
        <3>7. j < k
            <4> SUFFICES ASSUME ~(j < k) PROVE FALSE
                OBVIOUS
            <4>1. j # k
                BY <2>1, <3>4, <3>6
            <4>2. k < j
                BY <2>3, <3>6, <4>1
            <4>3. actionTime[newest[j]] <= actionTime[newest[k]]
                BY <2>1, <2>3, <3>6, <4>2 DEF InOrder
            <4> QED
                BY <2>1, <3>4, <3>6, <4>3
        <3>8. j \in 1 .. k - 1
            BY <2>3, <3>6, <3>7
        <3> QED
            BY <3>6, <3>8
    <2> QED
        BY <2>3, <2>4, <2>6, <2>7, NoRoom
<1> QED
    BY <1>3, <1>6, <1>7

\* A page that has just been made leaves nothing out between its cursor and
\* its last entry.
LEMMA AnswerFollows ==
    ASSUME FeedInv, CoverInv, NEW i \in DOMAIN pages,
           NEW listed \in SUBSET Twysts, Complete(pages[i].tab) \subseteq listed,
           NEW raw, raw = Following(pages[i], listed),
           NEW items, items = Latest(ToSet(raw) \cap Complete(pages[i].tab), Bunch),
           NEW q, q = Answered(pages[i], raw, items)
    PROVE  PageFollows(q)
<1>0. ServerType /\ PagesType /\ ServerInv
    BY FeedParts DEF FeedInv
<1>1. PICK p : p = pages[i]
    OBVIOUS
<1>2. p \in Page
    BY <1>0, <1>1, PageFacts
<1>3. /\ raw \in Seq(Twysts) /\ Len(raw) <= Bunch
      /\ ToSet(raw) \subseteq listed
      /\ \A t \in listed \ ToSet(raw) :
            \/ Before(p, listed, t)
            \/ /\ Len(raw) = Bunch
               /\ \A r \in ToSet(raw) : actionTime[t] <= actionTime[r]
    BY <1>0, <1>1, <1>2, FollowingFacts
<1> DEFINE S == ToSet(raw) \cap Complete(p.tab)
<1>4. /\ q.tab = p.tab
      /\ q.items = items /\ q.cursor = p.cursor /\ q.stale = p.stale
      /\ q.cut = (Len(items) < Bunch /\ Len(raw) = Bunch)
      /\ ToSet(items) \subseteq S
      /\ Len(items) <= Bunch /\ Len(items) \in Nat
      /\ Len(items) < Bunch => ToSet(items) = S
      /\ \A t \in S \ ToSet(items) : actionTime[t] <= q.lastTime
      /\ items # <<>> => \E t \in ToSet(items) : q.lastTime = actionTime[t]
    BY <1>0, <1>1, <1>2, <1>3, AnsweredFacts
<1>5. Len(items) = 0 <=> items = <<>>
    <2>1. items \in Seq(Twysts)
        BY <1>0, <1>1, <1>2, <1>3, AnsweredFacts
    <2> QED
        BY <2>1, Elements
<1> HIDE DEF S
<1> SUFFICES ASSUME ~q.stale, ~q.cut, q.cursor = 0 \/ Sane(q.tab),
                    NEW t \in Unheard(q.tab) \ ToSet(q.items)
             PROVE  \/ q.cursor # 0 /\ t \in ToSet(list[q.tab])
                    \/ Len(q.items) = Bunch /\ actionTime[t] < q.lastTime
    BY DEF PageFollows
<1>6. /\ t \in Unheard(p.tab) /\ t \notin ToSet(items) /\ t \in Complete(p.tab)
      /\ t \in listed /\ t \in Twysts /\ status[t] = "complete"
    BY <1>1, <1>4 DEF Unheard, Complete
\* No two twysts acted at once.
<1>7. ASSUME Len(items) = Bunch, actionTime[t] <= q.lastTime
      PROVE  actionTime[t] < q.lastTime
    <2>1. PICK u \in ToSet(items) : q.lastTime = actionTime[u]
        BY <1>4, <1>5, <1>7, BoundsAssumption
    <2>2. u \in Twysts /\ status[u] = "complete" /\ u # t
        BY <1>4, <1>6, <2>1 DEF S, Complete
    <2>3. actionTime[u] # actionTime[t]
        BY <1>0, <1>6, <2>2 DEF ServerInv
    <2>4. actionTime[u] \in Nat /\ actionTime[t] \in Nat
        BY <1>0, <1>6, <2>2 DEF ServerType
    <2> QED
        BY <1>7, <2>1, <2>3, <2>4
<1>8. CASE t \in ToSet(raw)
    <2>1. t \in S \ ToSet(items)
        BY <1>6, <1>8 DEF S
    <2>2. Len(items) = Bunch
        BY <1>4, <2>1, BoundsAssumption
    <2> QED
        BY <1>4, <1>7, <2>1, <2>2
<1>9. CASE t \notin ToSet(raw) /\ Before(p, listed, t)
    <2>1. p.cursor # 0
        <3>1. CASE p.tab = "twysted"
            BY <1>9, <3>1 DEF Before
        <3>2. CASE p.tab # "twysted"
            <4>1. PICK newest, k : /\ InOrder(newest, listed)
                                   /\ k \in DOMAIN newest /\ k <= p.cursor
                BY <1>9, <3>2 DEF Before
            <4>2. newest \in Seq(listed)
                BY <4>1 DEF InOrder
            <4>3. k \in 1 .. Len(newest) /\ Len(newest) \in Nat
                BY <4>1, <4>2, Elements
            <4>4. k > 0 /\ k \in Nat
                BY <4>3
            <4>5. p.cursor \in Nat
                BY <1>0, <1>1, PageFacts
            <4> QED
                BY <4>1, <4>4, <4>5
        <3> QED
            BY <3>1, <3>2
    <2>2. Sane(p.tab) /\ ~p.stale
        BY <1>4, <2>1
    <2>3. t \notin Missing(p.tab)
        BY <1>1, <1>9, <2>2, NotBefore
    <2>4. t \in ToSet(list[p.tab])
        BY <1>6, <2>3 DEF Missing
    <2> QED
        BY <1>4, <2>1, <2>4
<1>10. CASE /\ t \notin ToSet(raw) /\ Len(raw) = Bunch
            /\ \A r \in ToSet(raw) : actionTime[t] <= actionTime[r]
    <2>0. ~(Len(items) < Bunch /\ Len(raw) = Bunch)
        BY <1>4, Zenon
    <2>1. Len(items) = Bunch
        BY <1>4, <1>10, <2>0, BoundsAssumption
    <2>2. PICK u \in ToSet(items) : q.lastTime = actionTime[u]
        BY <1>4, <1>5, <2>1, BoundsAssumption
    <2>3. u \in ToSet(raw)
        BY <1>4, <2>2 DEF S
    <2> QED
        BY <1>4, <1>7, <1>10, <2>1, <2>2, <2>3
<1> QED
    BY <1>3, <1>6, <1>8, <1>9, <1>10

\* The server makes a page.
LEMMA AnswersGap ==
    ASSUME FeedInv, GapInv, NEW i \in DOMAIN pages, ServerAnswers(i)
    PROVE  GapInv'
<1>0. ServerType /\ PagesType /\ ServerInv /\ CoverInv
    BY FeedParts DEF FeedInv, GapInv
<1>1. PICK listed \in SUBSET Twysts :
          LET p == pages[i]
              raw == Following(p, listed)
              items == Latest(ToSet(raw) \cap Complete(p.tab), Bunch)
          IN  /\ Complete(p.tab) \subseteq listed
              /\ pages' = [pages EXCEPT ![i] = Answered(p, raw, items)]
              /\ UNCHANGED <<serverVars, notices, tabVars, hazards>>
    BY <1>0, AnswerIs
<1>2. PICK raw : raw = Following(pages[i], listed)
    OBVIOUS
<1>3. PICK items : items = Latest(ToSet(raw) \cap Complete(pages[i].tab), Bunch)
    OBVIOUS
<1>4. PICK q : q = Answered(pages[i], raw, items)
    OBVIOUS
<1>5. /\ pages' = [pages EXCEPT ![i] = q]
      /\ SameServer /\ UNCHANGED <<list, cursor, allLoaded, hazards>>
      /\ Complete(pages[i].tab) \subseteq listed
    BY <1>1, <1>2, <1>3, <1>4 DEF SameServer, tabVars
<1>6. pages[i] \in Page
    BY <1>0, PageFacts
<1>7. raw \in Seq(Twysts)
    BY <1>0, <1>2, <1>6, FollowingFacts
<1>8. /\ q \in Page /\ q.tab = pages[i].tab /\ q.cursor = pages[i].cursor
      /\ q.stale = pages[i].stale
    BY <1>0, <1>3, <1>4, <1>6, <1>7, AnsweredFacts
<1>9. PageFollows(q)
    BY <1>0, <1>2, <1>3, <1>4, <1>5, AnswerFollows
<1>10. PageFollows(q)'
    <2>1. SamePage(q, q)
        BY DEF SamePage
    <2> QED
        BY <1>5, <1>9, <2>1, QuietPage
<1> QED
    BY <1>5, <1>8, <1>10, ReplacedGap

\* The places that the pages had that are left.
LEMMA PlacesLeft ==
    ASSUME PagesType, PagesType', NEW i \in DOMAIN pages,
           \A k \in DOMAIN pages' : \E m \in DOMAIN pages :
               m # i /\ pages'[k] = pages[m] /\ m = IF k < i THEN k ELSE k + 1
    PROVE  \E g : /\ \A k \in DOMAIN pages' :
                        g[k] \in DOMAIN pages /\ g[k] # i /\ pages'[k] = pages[g[k]]
                  /\ \A k, l \in DOMAIN pages' : g[k] = g[l] => k = l
<1> DEFINE g == [k \in DOMAIN pages' |-> IF k < i THEN k ELSE k + 1]
<1>1. \A k \in DOMAIN pages' :
          g[k] \in DOMAIN pages /\ g[k] # i /\ pages'[k] = pages[g[k]]
    OBVIOUS
<1>2. \A k \in DOMAIN pages' : g[k] = IF k < i THEN k ELSE k + 1
    OBVIOUS
<1>3. i \in Nat
    BY PageFacts
<1>4. DOMAIN pages' \subseteq Nat
    <2>1. pages' \in Seq(Page')
        BY DEF PagesType
    <2>2. DOMAIN pages' = 1 .. Len(pages')
        BY <2>1, Elements
    <2> QED
        BY <2>2
<1> HIDE DEF g
<1>5. ASSUME NEW k \in DOMAIN pages', NEW l \in DOMAIN pages', g[k] = g[l]
      PROVE  k = l
    <2>1. k \in Nat /\ l \in Nat
        BY <1>4
    <2>2. (IF k < i THEN k ELSE k + 1) = (IF l < i THEN l ELSE l + 1)
        BY <1>2, <1>5
    <2> QED
        BY <1>3, <2>1, <2>2
<1> QED
    BY <1>1, <1>5

\* A failed page empties the list, which is noted.
LEMMA FailedGap ==
    ASSUME FeedInv, GapInv, NEW tab \in Tabs, NEW i \in DOMAIN pages,
           PageFailed(tab, i)
    PROVE  GapInv'
<1>0. PagesType /\ ArraysType /\ CursorInv /\ FreshInv /\ PageInv /\ CoverInv
    BY FeedParts DEF GapInv
<1>1. /\ SameServer /\ cursor' = cursor /\ allLoaded' = allLoaded
      /\ "failed" \in hazards'[tab] /\ PagesType'
      /\ \A s \in Tabs : s # tab => list'[s] = list[s] /\ hazards'[s] = hazards[s]
      /\ \A k \in DOMAIN pages' : \E m \in DOMAIN pages :
            m # i /\ pages'[k] = pages[m] /\ m = IF k < i THEN k ELSE k + 1
    BY PageFailedFacts
<1>2. Tabs' = Tabs
    BY <1>1, SameServerFacts
<1>3. ~Unhurt(tab)' /\ ~Sane(tab)'
    BY <1>1, HazardNames DEF Unhurt, Sane, ListHazards
<1>4. \A s \in Tabs : Unhurt(s)' => Unhurt(s)
    BY <1>1, <1>3 DEF Unhurt, ListHazards
<1>5. PICK g : /\ \A k \in DOMAIN pages' :
                     g[k] \in DOMAIN pages /\ g[k] # i /\ pages'[k] = pages[g[k]]
               /\ \A k, l \in DOMAIN pages' : g[k] = g[l] => k = l
    BY <1>0, <1>1, PlacesLeft
<1>6. CursorInv' /\ FreshInv'
    BY <1>0, <1>1, <1>4, <1>5, FlagsKept
<1>7. PageInv'
    <2> SUFFICES ASSUME NEW k \in DOMAIN pages'
                 PROVE  \E q : q = pages'[k] /\ PageFollows(q)'
        BY PageInvJoin
    <2>1. PICK q : q = pages'[k]
        OBVIOUS
    <2>2. PageFollows(q) /\ q.tab \in Tabs
        BY <1>0, <1>5, <2>1, PageFacts DEF PageInv
    <2>3. SamePage(q, q)
        BY DEF SamePage
    <2>4. CASE q.tab = tab
        <3>1. ~Sane(q.tab)'
            BY <1>3, <2>4
        <3>2. PageFollows(q)'
            BY <1>1, <2>2, <2>3, <3>1, SameHeard, PageKept
        <3> QED
            BY <2>1, <3>2
    <2>5. CASE q.tab # tab
        <3>1. PageFollows(q)'
            BY <1>1, <2>2, <2>3, <2>5, QuietPage
        <3> QED
            BY <2>1, <3>1
    <2> QED
        BY <2>4, <2>5
<1>8. ASSUME NEW s \in Tabs
      PROVE  Covered(s)'
    <2>1. CASE s = tab
        BY <1>3, <2>1 DEF Covered, Sane, Unhurt
    <2>2. CASE s # tab
        <3>1. Covered(s)
            BY <1>0 DEF CoverInv
        <3> QED
            BY <1>1, <1>5, <2>2, <3>1, QuietCover
    <2> QED
        BY <2>1, <2>2
<1>9. CoverInv'
    BY <1>2, <1>8 DEF CoverInv
<1> QED
    BY <1>6, <1>7, <1>9 DEF GapInv

\* What a page that is loaded says of its list, if none of the hazards has
\* been met after it.
LoadedWell(tab, i, p, new) ==
    /\ Missing(tab)' = Unheard(tab) \ ToSet(new)
    /\ Unhurt(tab)' => ~p.cut /\ ~p.crossed /\ ~p.stale
    /\ Unhurt(tab)' /\ cursor[tab] = 0 => p.cursor = 0 /\ ~allLoaded[tab]
    /\ Unhurt(tab)' /\ cursor[tab] # 0 => Unhurt(tab) /\ p.cursor # 0
    /\ Sane(tab)' /\ cursor[tab] # 0 => Sane(tab) /\ Missing(tab)' \subseteq Missing(tab)
    /\ Sane(tab)' => \A t \in Missing(tab)' :
                        Len(p.items) = Bunch /\ actionTime[t] < p.lastTime
    /\ Unhurt(tab)' => \A m \in DOMAIN pages :
          m # i /\ pages[m].tab = tab /\ ~pages[m].stale =>
              cursor[tab] # 0 /\ pages[m].cursor # 0

\* That is what a loaded page says.
LEMMA LoadedWellFacts ==
    ASSUME FeedInv, GapInv, NEW tab \in Tabs, NEW i \in DOMAIN pages,
           NEW p, p = pages[i], NEW new, LoadedTo(tab, i, p, new)
    PROVE  LoadedWell(tab, i, p, new)
<1>0. /\ PagesType /\ ArraysType /\ CursorInv /\ FreshInv /\ PageInv /\ CoverInv
    BY FeedParts DEF GapInv
<1>1. /\ SameServer /\ list'[tab] = new /\ hazards'[tab] = Brought(p)
      /\ p.tab = tab /\ p.phase = "answered"
      /\ ToSet(new) = ToSet(Kept(tab)) \cup ToSet(p.items)
    BY DEF LoadedTo
<1>2. PageFollows(p)
    BY <1>0 DEF PageInv
<1>3. /\ Unheard(tab)' = Unheard(tab) /\ status' = status
      /\ Missing(tab)' = Unheard(tab) \ ToSet(new)
    <2>1. Unheard(tab)' = Unheard(tab) /\ status' = status
        BY <1>1, SameUnheard, SameServerFacts
    <2>2. ToSet(list[tab])' = ToSet(new)
        BY <1>1 DEF ToSet
    <2> QED
        BY <2>1, <2>2 DEF Missing
<1>4. ASSUME Unhurt(tab)'
      PROVE  /\ ~p.cut /\ ~p.crossed /\ ~p.stale
             /\ (cursor[tab] = 0 /\ ~allLoaded[tab]) \/ Unhurt(tab)
    <2>1. Brought(p) \cap ListHazards = {}
        BY <1>1, <1>4 DEF Unhurt, ListHazards
    <2>2. ~p.cut /\ ~p.crossed /\ ~p.stale
        BY <2>1, HazardNames DEF Brought
    <2>3. (cursor[tab] = 0 /\ ~allLoaded[tab]) \/ Unhurt(tab)
        BY <1>1, <2>1 DEF Brought, Unhurt
    <2> QED
        BY <2>2, <2>3
<1>5. ASSUME Unhurt(tab)', cursor[tab] = 0
      PROVE  p.cursor = 0 /\ ~allLoaded[tab]
    <2>1. p.cursor = 0
        BY <1>0, <1>1, <1>4, <1>5 DEF CursorInv
    <2>2. Fresh(pages[i])
        BY <1>4, <1>5, <2>1 DEF Fresh
    <2>3. ~allLoaded[tab] \/ ~Unhurt(tab)
        BY <1>0, <1>1, <2>2 DEF FreshInv
    <2> QED
        BY <1>4, <1>5, <2>1, <2>3
<1>6. ASSUME Unhurt(tab)', cursor[tab] # 0
      PROVE  Unhurt(tab) /\ p.cursor # 0
    <2>1. Unhurt(tab)
        BY <1>4, <1>6
    <2>2. ~Fresh(pages[i])
        BY <1>0, <1>1, <1>6, <2>1 DEF FreshInv
    <2> QED
        BY <1>4, <1>6, <2>1, <2>2 DEF Fresh
<1>7. ASSUME Sane(tab)', cursor[tab] # 0
      PROVE  Sane(tab) /\ Missing(tab)' \subseteq Missing(tab)
    <2>1. Unhurt(tab)' /\ (tab = "private" => \A t \in ToSet(new) : status[t] # "deleted")
        BY <1>1, <1>3, <1>7 DEF Sane
    <2>2. Unhurt(tab)
        BY <1>6, <1>7, <2>1
    <2>3. ToSet(list[tab]) \subseteq ToSet(new)
        BY <1>1, <1>7 DEF Kept
    <2> QED
        BY <1>3, <2>1, <2>2, <2>3 DEF Sane, Missing
<1>8. ASSUME Sane(tab)', NEW t \in Missing(tab)'
      PROVE  Len(p.items) = Bunch /\ actionTime[t] < p.lastTime
    <2>1. Unhurt(tab)'
        BY <1>8 DEF Sane
    <2>2. ~p.cut /\ ~p.crossed /\ ~p.stale
        BY <1>4, <2>1
    <2>3. p.cursor = 0 \/ Sane(tab)
        BY <1>5, <1>7, <1>8, <2>1
    <2>4. t \in Unheard(tab) \ ToSet(p.items)
        BY <1>1, <1>3, <1>8
    <2>5. \/ p.cursor # 0 /\ t \in ToSet(list[tab])
          \/ Len(p.items) = Bunch /\ actionTime[t] < p.lastTime
        BY <1>1, <1>2, <2>2, <2>3, <2>4 DEF PageFollows
    <2>6. ~(p.cursor # 0 /\ t \in ToSet(list[tab]))
        BY <1>1, <1>3, <1>5, <1>8, <2>1 DEF Kept
    <2> QED
        BY <2>5, <2>6
<1>9. ASSUME Unhurt(tab)', NEW m \in DOMAIN pages, m # i,
             pages[m].tab = tab, ~pages[m].stale
      PROVE  cursor[tab] # 0 /\ pages[m].cursor # 0
    <2>1. CASE cursor[tab] = 0
        <3>1. Fresh(pages[i])
            BY <1>4, <1>5, <1>9, <2>1 DEF Fresh
        <3>2. ~allLoaded[tab]
            BY <1>5, <1>9, <2>1
        <3>3. pages[m].cursor = 0
            BY <1>0, <1>9, <2>1, <3>2 DEF CursorInv
        <3>4. Fresh(pages[m])
            BY <1>9, <3>3 DEF Fresh
        <3> QED
            BY <1>0, <1>1, <1>9, <3>1, <3>4 DEF FreshInv
    <2>2. CASE cursor[tab] # 0
        <3>1. Unhurt(tab)
            BY <1>6, <1>9, <2>2
        <3>2. ~Fresh(pages[m])
            BY <1>0, <1>9, <2>2, <3>1 DEF FreshInv
        <3> QED
            BY <1>9, <2>2, <3>2 DEF Fresh
    <2> QED
        BY <2>1, <2>2
<1> QED
    BY <1>3, <1>4, <1>5, <1>6, <1>7, <1>8, <1>9 DEF LoadedWell

\* The list that the page goes to is covered then.
LEMMA LoadedCover ==
    ASSUME FeedInv, GapInv, NEW tab \in Tabs, NEW i \in DOMAIN pages,
           NEW p, p = pages[i], NEW new, LoadedTo(tab, i, p, new)
    PROVE  Covered(tab)'
<1>0. /\ ServerType /\ PagesType /\ ArraysType /\ CoverInv /\ ItemsInv
    BY FeedParts DEF GapInv, FeedInv
<1>1. /\ SameServer /\ list'[tab] = new /\ new \in Seq(Twysts)
      /\ p.tab = tab
      /\ ToSet(new) = ToSet(Kept(tab)) \cup ToSet(p.items)
      /\ Len(new) >= Len(Kept(tab))
      /\ cursor'[tab] = IF tab = "private" THEN Len(new)
                        ELSE IF p.items = <<>> THEN cursor[tab]
                        ELSE p.lastTime
      /\ allLoaded'[tab] = (allLoaded[tab] \/ Len(p.items) < Bunch)
      /\ p.items \in Seq(Twysts) /\ ToSet(p.items) \subseteq Twysts
      /\ \A k \in DOMAIN pages' : \E m \in DOMAIN pages :
            /\ m # i /\ pages'[k] = pages[m]
            /\ m = IF k < i THEN k ELSE k + 1
    BY DEF LoadedTo
<1>2. LoadedWell(tab, i, p, new)
    BY LoadedWellFacts
<1>3. tab \in {"twysted", "private"} /\ actionTime' = actionTime
    BY <1>0, <1>1, TabFacts, SameServerFacts DEF ServerType
<1>4. /\ Len(new) \in Nat /\ Len(list[tab]) \in Nat /\ Len(p.items) \in Nat
      /\ p.lastTime \in Nat /\ actionTime \in [Twysts -> Nat]
      /\ (Len(p.items) = 0 <=> p.items = <<>>)
    BY <1>0, <1>1, Elements, PageFacts DEF ArraysType, ServerType
<1> SUFFICES ASSUME Sane(tab)'
             PROVE  /\ allLoaded'[tab] => Missing(tab)' = {}
                    /\ Follows(tab, cursor[tab])'
                    /\ \A k \in DOMAIN pages' :
                          pages'[k].tab = tab /\ ~pages'[k].stale =>
                              Follows(tab, pages[k].cursor)'
                    /\ tab = "private" =>
                          \A t \in Missing(tab)', s \in ToSet(list'[tab]) :
                              actionTime'[t] < actionTime'[s]
    BY DEF Covered
<1>5. Unhurt(tab)'
    BY DEF Sane
<1>6. \A t \in Missing(tab)' : Len(p.items) = Bunch /\ actionTime[t] < p.lastTime
    BY <1>2 DEF LoadedWell
<1>7. cursor[tab] = 0 => ~allLoaded[tab]
    BY <1>2, <1>5 DEF LoadedWell
<1>8. ASSUME cursor[tab] # 0
      PROVE  /\ Missing(tab)' \subseteq Missing(tab) /\ Kept(tab) = list[tab]
             /\ allLoaded[tab] => Missing(tab) = {}
             /\ \A m \in DOMAIN pages :
                   pages[m].tab = tab /\ ~pages[m].stale => Follows(tab, pages[m].cursor)
             /\ tab = "private" =>
                   \A t \in Missing(tab), s \in ToSet(list[tab]) :
                       actionTime[t] < actionTime[s]
    <2>1. Sane(tab) /\ Missing(tab)' \subseteq Missing(tab)
        BY <1>2, <1>8 DEF LoadedWell
    <2>2. Covered(tab)
        BY <1>0 DEF CoverInv
    <2> QED
        BY <1>8, <2>1, <2>2 DEF Covered, Kept
<1>9. allLoaded'[tab] => Missing(tab)' = {}
    <2> SUFFICES ASSUME allLoaded'[tab], NEW t \in Missing(tab)' PROVE FALSE
        OBVIOUS
    <2>1. allLoaded[tab] \/ Len(p.items) < Bunch
        BY <1>1, Zenon
    <2>2. ~(Len(p.items) < Bunch)
        BY <1>4, <1>6, BoundsAssumption
    <2>3. allLoaded[tab] /\ cursor[tab] # 0
        BY <1>7, <2>1, <2>2
    <2> QED
        BY <1>8, <2>3
<1>10. Follows(tab, cursor[tab])'
    <2>1. CASE tab = "private"
        <3>1. cursor'[tab] = Len(list'[tab])
            BY <1>1, <2>1
        <3>2. Len(list'[tab]) <= Len(list'[tab])
            BY <1>1, <1>4
        <3> QED
            BY <2>1, <3>1, <3>2 DEF Follows
    <2>2. CASE tab = "twysted"
        <3>1. ASSUME NEW t \in Missing(tab)'
              PROVE  actionTime'[t] < cursor'[tab]
            <4>1. p.items # <<>>
                BY <1>4, <1>6, BoundsAssumption
            <4>2. cursor'[tab] = p.lastTime
                BY <1>1, <2>2, <4>1
            <4> QED
                BY <1>3, <1>6, <4>2
        <3> QED
            BY <2>2, <3>1 DEF Follows
    <2> QED
        BY <1>3, <2>1, <2>2
<1>11. ASSUME NEW k \in DOMAIN pages', pages'[k].tab = tab, ~pages'[k].stale
       PROVE  Follows(tab, pages[k].cursor)'
    <2>1. PICK m \in DOMAIN pages : m # i /\ pages'[k] = pages[m]
        BY <1>1
    <2>2. cursor[tab] # 0
        BY <1>2, <1>5, <1>11, <2>1 DEF LoadedWell
    <2>3. PICK c \in Nat : c = pages[m].cursor
        BY <1>0, PageFacts
    <2>4. Follows(tab, c) /\ pages'[k].cursor = c
        BY <1>8, <1>11, <2>1, <2>2, <2>3
    <2>5. CASE tab = "private"
        <3>1. c <= Len(list[tab]) /\ Len(list[tab]) <= Len(list'[tab])
            BY <1>1, <1>8, <2>2, <2>4, <2>5 DEF Follows
        <3>2. c <= Len(list'[tab])
            BY <1>1, <1>4, <2>3, <3>1
        <3> QED
            BY <2>4, <2>5, <3>2 DEF Follows
    <2>6. CASE tab = "twysted"
        BY <1>3, <1>8, <2>2, <2>4, <2>6 DEF Follows
    <2> QED
        BY <1>3, <2>5, <2>6
<1>12. ASSUME tab = "private", NEW t \in Missing(tab)', NEW s \in ToSet(list'[tab])
       PROVE  actionTime'[t] < actionTime'[s]
    <2>1. CASE s \in ToSet(p.items)
        <3>1. p.lastTime <= actionTime[s] /\ s \in Twysts
            BY <1>0, <1>1, <2>1 DEF ItemsInv, PageGood
        <3>2. actionTime[t] < p.lastTime /\ t \in Twysts
            <4>1. t \in Unheard(tab)
                BY <1>2, <1>12 DEF LoadedWell
            <4> QED
                BY <1>6, <1>12, <4>1 DEF Unheard, Complete
        <3>3. actionTime[t] \in Nat /\ actionTime[s] \in Nat
            BY <1>4, <3>1, <3>2
        <3> QED
            BY <1>3, <1>4, <3>1, <3>2, <3>3
    <2>2. CASE s \notin ToSet(p.items)
        <3>1. s \in ToSet(Kept(tab))
            BY <1>1, <1>12, <2>2
        <3>2. cursor[tab] # 0
            BY <3>1, EmptyElements DEF Kept
        <3> QED
            BY <1>3, <1>8, <1>12, <3>1, <3>2
    <2> QED
        BY <2>1, <2>2
<1> QED
    BY <1>9, <1>10, <1>11, <1>12

\* A cursor is still there, or no page will come after this one.
LEMMA LoadedCursor ==
    ASSUME FeedInv, GapInv, NEW tab \in Tabs, NEW i \in DOMAIN pages,
           NEW p, p = pages[i], NEW new, LoadedTo(tab, i, p, new),
           cursor'[tab] = 0, Unhurt(tab)' \/ ~allLoaded'[tab],
           NEW m \in DOMAIN pages, m # i, pages[m].tab = tab, ~pages[m].stale
    PROVE  FALSE
<1>0. /\ ServerType /\ PagesType /\ ArraysType /\ CoverInv /\ ItemsInv
    BY FeedParts DEF GapInv, FeedInv
<1>1. /\ new \in Seq(Twysts) /\ p.tab = tab
      /\ ToSet(new) = ToSet(Kept(tab)) \cup ToSet(p.items)
      /\ Len(new) >= Len(Kept(tab))
      /\ cursor'[tab] = IF tab = "private" THEN Len(new)
                        ELSE IF p.items = <<>> THEN cursor[tab]
                        ELSE p.lastTime
      /\ allLoaded'[tab] = (allLoaded[tab] \/ Len(p.items) < Bunch)
      /\ p.items \in Seq(Twysts)
    BY DEF LoadedTo
<1>2. LoadedWell(tab, i, p, new)
    BY LoadedWellFacts
<1>3. p.items = <<>>
    <2> SUFFICES ASSUME p.items # <<>> PROVE FALSE
        OBVIOUS
    <2>1. PICK x : x \in ToSet(p.items)
        <3>1. /\ \A n \in 1 .. Len(p.items) : p.items[n] \in ToSet(p.items)
              /\ Len(p.items) \in Nat /\ Len(p.items) # 0
            BY <1>1, Elements
        <3>2. 1 \in 1 .. Len(p.items)
            BY <3>1
        <3> QED
            BY <3>1, <3>2
    <2>2. CASE tab = "private"
        <3>1. Len(new) = 0
            BY <1>1, <2>2
        <3> QED
            BY <1>1, <2>1, <3>1, Elements
    <2>3. CASE tab # "private"
        <3>1. p.lastTime = 0
            BY <1>1, <2>3
        <3>2. 0 < p.lastTime
            BY <1>0, <2>1 DEF ItemsInv, PageGood
        <3> QED
            BY <3>1, <3>2
    <2> QED
        BY <2>2, <2>3
<1>4. Len(p.items) < Bunch
    BY <1>1, <1>3, Elements, BoundsAssumption
<1>5. Unhurt(tab)'
    BY <1>1, <1>4
<1>6. cursor[tab] # 0 /\ Unhurt(tab)
    BY <1>2, <1>5 DEF LoadedWell
<1>7. tab = "private" /\ Len(new) = 0
    BY <1>1, <1>3, <1>6
<1>8. Kept(tab) = list[tab] /\ list[tab] \in Seq(Twysts) /\ cursor[tab] \in Nat
    BY <1>0, <1>6 DEF Kept, ArraysType
<1>9. Len(list[tab]) = 0 /\ ToSet(list[tab]) = {}
    BY <1>1, <1>7, <1>8, Elements
<1>10. Sane(tab)
    BY <1>6, <1>9 DEF Sane
<1>11. cursor[tab] <= Len(list[tab])
    BY <1>0, <1>7, <1>10 DEF CoverInv, Covered, Follows
<1> QED
    BY <1>6, <1>8, <1>9, <1>11

\* A page that is loaded leaves no gap.
LEMMA LoadedGap ==
    ASSUME FeedInv, GapInv, NEW tab \in Tabs, NEW i \in DOMAIN pages,
           PageLoaded(tab, i)
    PROVE  GapInv'
<1>0. PagesType /\ ArraysType /\ CursorInv /\ FreshInv /\ PageInv /\ CoverInv
    BY FeedParts DEF GapInv
<1>1. PICK p : p = pages[i]
    OBVIOUS
<1>2. PICK new : new = Merged(Kept(tab), pages[i].items)
    OBVIOUS
<1>3. LoadedTo(tab, i, p, new)
    <2>1. LoadedTo(tab, i, pages[i], Merged(Kept(tab), pages[i].items))
        BY LoadedFacts
    <2> QED
        BY <1>1, <1>2, <2>1
<1>4. LoadedWell(tab, i, p, new) /\ Covered(tab)'
    BY <1>1, <1>3, LoadedWellFacts, LoadedCover
<1>5. /\ SameServer /\ PagesType' /\ list'[tab] = new
      /\ ToSet(new) = ToSet(Kept(tab)) \cup ToSet(p.items)
      /\ \A s \in Tabs : s # tab => /\ list'[s] = list[s]
                                    /\ cursor'[s] = cursor[s]
                                    /\ allLoaded'[s] = allLoaded[s]
                                    /\ hazards'[s] = hazards[s]
      /\ \A k \in DOMAIN pages' : \E m \in DOMAIN pages :
            /\ m # i /\ pages'[k] = pages[m]
            /\ m = IF k < i THEN k ELSE k + 1
    BY <1>3 DEF LoadedTo
<1>6. Tabs' = Tabs
    BY <1>5, SameServerFacts
<1>7. PICK g : /\ \A k \in DOMAIN pages' :
                     g[k] \in DOMAIN pages /\ g[k] # i /\ pages'[k] = pages[g[k]]
               /\ \A k, l \in DOMAIN pages' : g[k] = g[l] => k = l
    BY <1>0, <1>5, PlacesLeft
<1>8. \A m \in DOMAIN pages : pages[m].tab \in Tabs
    BY <1>0, PageFacts
<1>9. CursorInv'
    <2> SUFFICES ASSUME NEW k \in DOMAIN pages', ~pages'[k].stale,
                        cursor'[pages'[k].tab] = 0,
                        Unhurt(pages[k].tab)' \/ ~allLoaded'[pages'[k].tab]
                 PROVE  pages'[k].cursor = 0
        BY DEF CursorInv
    <2>1. PICK m \in DOMAIN pages : m # i /\ pages'[k] = pages[m]
        BY <1>7
    <2>2. PICK q : q = pages[m]
        OBVIOUS
    <2>3. CASE q.tab = tab
        <3>1. Unhurt(tab)' \/ ~allLoaded'[tab]
            BY <2>1, <2>2, <2>3 DEF Unhurt
        <3> QED
            BY <1>1, <1>3, <2>1, <2>2, <2>3, <3>1, LoadedCursor
    <2>4. CASE q.tab # tab
        <3>1. Unhurt(q.tab) \/ ~allLoaded[q.tab]
            BY <1>5, <1>8, <2>1, <2>2, <2>4 DEF Unhurt, ListHazards
        <3> QED
            BY <1>0, <1>5, <1>8, <2>1, <2>2, <2>4, <3>1 DEF CursorInv
    <2> QED
        BY <2>3, <2>4
<1>10. FreshInv'
    <2>1. ASSUME NEW k \in DOMAIN pages', Fresh(pages[k])'
          PROVE  \/ cursor'[pages'[k].tab] = 0 /\ ~allLoaded'[pages'[k].tab]
                 \/ ~Unhurt(pages[k].tab)'
        <3>1. PICK m \in DOMAIN pages : m # i /\ pages'[k] = pages[m]
            BY <1>7
        <3>2. PICK q : q = pages[m]
            OBVIOUS
        <3>3. Fresh(q) /\ pages'[k].tab = q.tab /\ q.tab \in Tabs
            BY <1>8, <2>1, <3>1, <3>2 DEF Fresh
        <3>4. CASE q.tab = tab
            <4>1. ~Unhurt(tab)'
                BY <1>4, <3>1, <3>2, <3>3, <3>4 DEF LoadedWell, Fresh
            <4> QED
                BY <3>3, <3>4, <4>1 DEF Unhurt
        <3>5. CASE q.tab # tab
            <4>1. (cursor[q.tab] = 0 /\ ~allLoaded[q.tab]) \/ ~Unhurt(q.tab)
                BY <1>0, <3>2, <3>3 DEF FreshInv
            <4> QED
                BY <1>5, <3>3, <3>5, <4>1 DEF Unhurt, ListHazards
        <3> QED
            BY <3>4, <3>5
    <2>2. \A k \in DOMAIN pages' : Fresh(pages[k])' => Fresh(pages[g[k]])
        BY <1>7 DEF Fresh
    <2>3. \A k, l \in DOMAIN pages' :
              Fresh(pages[k])' /\ Fresh(pages[l])' /\ pages'[k].tab = pages'[l].tab
              => k = l
        BY <1>0, <1>7, <2>2 DEF FreshInv
    <2> QED
        BY <2>1, <2>3 DEF FreshInv
<1>11. PageInv'
    <2> SUFFICES ASSUME NEW k \in DOMAIN pages'
                 PROVE  \E q : q = pages'[k] /\ PageFollows(q)'
        BY PageInvJoin
    <2>1. PICK m \in DOMAIN pages : m # i /\ pages'[k] = pages[m]
        BY <1>7
    <2>2. PICK q : q = pages[m]
        OBVIOUS
    <2>3. PageFollows(q) /\ q.tab \in Tabs /\ SamePage(q, q)
        BY <1>0, <1>8, <2>2 DEF PageInv, SamePage
    <2>4. CASE q.tab # tab
        <3>1. PageFollows(q)'
            BY <1>5, <2>3, <2>4, QuietPage
        <3> QED
            BY <2>1, <2>2, <3>1
    <2>5. CASE q.tab = tab /\ q.stale
        <3>1. PageFollows(q)'
            BY <2>5 DEF PageFollows
        <3> QED
            BY <2>1, <2>2, <3>1
    <2>6. CASE q.tab = tab /\ ~q.stale
        <3>1. Sane(tab)' => Unhurt(tab)'
            BY DEF Sane
        <3>2. Sane(tab)' => cursor[tab] # 0
            BY <1>4, <2>1, <2>2, <2>6, <3>1 DEF LoadedWell
        <3>3. Sane(tab)' => Sane(tab)
            BY <1>4, <3>2 DEF LoadedWell
        <3>4. Sane(tab)' => ToSet(list[tab]) \subseteq ToSet(list'[tab])
            BY <1>5, <3>2 DEF Kept
        <3>5. HeardOf(tab)
            BY <1>5, SameHeard
        <3>6. PageFollows(q)'
            BY <2>3, <2>6, <3>3, <3>4, <3>5, PageKept
        <3> QED
            BY <2>1, <2>2, <3>6
    <2> QED
        BY <2>4, <2>5, <2>6
<1>12. ASSUME NEW s \in Tabs, s # tab
       PROVE  Covered(s)'
    <2>1. Covered(s)
        BY <1>0 DEF CoverInv
    <2> QED
        BY <1>5, <1>7, <1>12, <2>1, QuietCover
<1>13. CoverInv'
    BY <1>4, <1>6, <1>12 DEF CoverInv
<1> QED
    BY <1>9, <1>10, <1>11, <1>13 DEF GapInv

\* What any notification leaves of what is covered.
Taken(t, tab, inserted) ==
    /\ tab = TabOf[t] /\ tab \in Tabs /\ tab \in {"twysted", "private"}
    /\ UNCHANGED <<status, actionTime, opened, cursor, allLoaded, TabOf, Tabs>>
    /\ PagesType' /\ DOMAIN pages' = DOMAIN pages
    /\ \A k \in DOMAIN pages :
          /\ SamePage(pages[k], pages'[k]) /\ pages'[k].stale = pages[k].stale
          /\ pages[k].tab = tab /\ pages[k].phase = "answered" => pages'[k].crossed
    /\ \A s \in Tabs : /\ Unhurt(s)' => Unhurt(s)
                       /\ list[s] \in Seq(Twysts) /\ list'[s] \in Seq(Twysts)
    /\ \A s \in Tabs : s # tab => /\ list'[s] = list[s] /\ HeardOf(s)
                                  /\ hazards'[s] = hazards[s]
    /\ Unheard(tab)' \subseteq Unheard(tab) \cup (IF inserted THEN {t} ELSE {})
    /\ Unhurt(tab)' /\ tab = "private" => ToSet(list[tab]) \subseteq ToSet(list'[tab])

\* That is what a notification leaves.
LEMMA TakenFacts ==
    ASSUME FeedInv, NEW t \in Twysts, NEW i \in DOMAIN notices,
           NEW tab, tab = TabOf[t], NEW inserted \in BOOLEAN,
           inserted => Inserting(i, t), ~inserted => TwystDeleted(i, t)
    PROVE  Taken(t, tab, inserted)
<1>0. ServerType /\ PagesType /\ ArraysType
    BY FeedParts
<1>1. PICK kind \in Kinds : Take(i, kind, t) /\ (kind = "delete" <=> ~inserted)
    BY DEF Inserting, TwystDeleted, Kinds
<1>2. /\ UNCHANGED <<status, actionTime, opened, cursor, allLoaded, TabOf, Tabs>>
      /\ PagesType' /\ pages' = Crossed(tab)
    BY <1>0, <1>1, TakeFacts
<1>3. /\ DOMAIN pages' = DOMAIN pages
      /\ \A k \in DOMAIN pages :
            /\ SamePage(pages[k], pages'[k]) /\ pages'[k].stale = pages[k].stale
            /\ pages[k].tab = tab /\ pages[k].phase = "answered" => pages'[k].crossed
    BY <1>0, <1>2, CrossedFacts DEF SamePage
<1>4. tab \in Tabs /\ tab \in {"twysted", "private"}
    BY <1>0, TabFacts DEF ServerType
<1>5. /\ FeedInv' /\ HazardsKept(tab)
      /\ \A s \in Tabs : s # tab => list'[s] = list[s]
      /\ Unhurt(tab)' /\ tab = "private" => ToSet(list[tab]) \subseteq ToSet(list'[tab])
    <2>1. CASE inserted
        BY <2>1, InsertingFacts DEF InsertedTo
    <2>2. CASE ~inserted
        <3>1. /\ FeedInv' /\ HazardsKept(tab)
              /\ \A s \in Tabs : s # tab => list'[s] = list[s]
              /\ list' # list /\ tab = "private" => "shifted" \in hazards'[tab]
            BY <2>2, DeletedFacts DEF DeletedFrom
        <3>2. ASSUME Unhurt(tab)', tab = "private" PROVE list' = list
            BY <3>1, <3>2, HazardNames DEF Unhurt, ListHazards
        <3> QED
            BY <3>1, <3>2
    <2> QED
        BY <2>1, <2>2
<1>6. \A s \in Tabs : /\ Unhurt(s)' => Unhurt(s)
                      /\ list[s] \in Seq(Twysts) /\ list'[s] \in Seq(Twysts)
    <2>1. ArraysType'
        BY <1>5 DEF FeedInv, TypeOK, ArraysType
    <2>2. \A s \in Tabs : Unhurt(s)' => Unhurt(s)
        BY <1>5 DEF HazardsKept, Unhurt, ListHazards
    <2> QED
        BY <1>0, <1>2, <2>1, <2>2 DEF ArraysType
<1>7. Awaited = Awaited' \cup (IF kind = "delete" THEN {} ELSE {t})
    BY <1>0, <1>1, TakeAwaited
<1>8. \A s : Complete(s)' = Complete(s)
    BY <1>2 DEF Complete
<1>9. ASSUME NEW s \in Tabs, s # tab
      PROVE  HeardOf(s)
    <2>1. t \notin Complete(s)
        BY <1>9 DEF Complete
    <2> QED
        BY <1>2, <1>7, <1>8, <2>1 DEF HeardOf, Unheard
<1>10. Unheard(tab)' \subseteq Unheard(tab) \cup (IF inserted THEN {t} ELSE {})
    BY <1>1, <1>7, <1>8 DEF Unheard
<1>11. \A s \in Tabs : s # tab => hazards'[s] = hazards[s]
    BY <1>5 DEF HazardsKept
<1> QED
    BY <1>2, <1>3, <1>4, <1>5, <1>6, <1>9, <1>10, <1>11 DEF Taken

\* All but the list that the notification is for.
LEMMA TakenGap ==
    ASSUME FeedInv, GapInv, NEW t \in Twysts, NEW tab, NEW inserted,
           Taken(t, tab, inserted), Covered(tab)'
    PROVE  GapInv'
<1>0. PagesType /\ ArraysType /\ CursorInv /\ FreshInv /\ PageInv /\ CoverInv
    BY FeedParts DEF GapInv
<1>1. /\ tab \in Tabs
      /\ status' = status /\ cursor' = cursor /\ allLoaded' = allLoaded /\ Tabs' = Tabs
      /\ DOMAIN pages' = DOMAIN pages
      /\ \A k \in DOMAIN pages :
            /\ SamePage(pages[k], pages'[k]) /\ pages'[k].stale = pages[k].stale
            /\ pages[k].tab = tab /\ pages[k].phase = "answered" => pages'[k].crossed
      /\ \A s \in Tabs : /\ Unhurt(s)' => Unhurt(s)
                         /\ list[s] \in Seq(Twysts) /\ list'[s] \in Seq(Twysts)
      /\ \A s \in Tabs : s # tab => /\ list'[s] = list[s] /\ HeardOf(s)
                                    /\ hazards'[s] = hazards[s]
    BY DEF Taken
<1>2. CursorInv' /\ FreshInv'
    <2> DEFINE g == [k \in DOMAIN pages |-> k]
    <2>1. /\ \A k \in DOMAIN pages' : /\ g[k] \in DOMAIN pages
                                      /\ pages'[k].tab = pages[g[k]].tab
                                      /\ pages'[k].cursor = pages[g[k]].cursor
                                      /\ pages'[k].stale = pages[g[k]].stale
          /\ \A k, l \in DOMAIN pages' : g[k] = g[l] => k = l
        BY <1>1 DEF SamePage
    <2> HIDE DEF g
    <2> QED
        BY <1>0, <1>1, <2>1, FlagsKept
<1>3. ASSUME NEW s \in Tabs, s # tab
      PROVE  Sane(s)' => Sane(s)
    BY <1>1, <1>3 DEF Sane
<1>4. PageInv'
    <2> SUFFICES ASSUME NEW k \in DOMAIN pages'
                 PROVE  \E q : q = pages'[k] /\ PageFollows(q)'
        BY PageInvJoin
    <2>1. PICK q : q = pages'[k]
        OBVIOUS
    <2>2. PICK p : p = pages[k]
        OBVIOUS
    <2>3. PageFollows(p) /\ SamePage(p, q) /\ p.tab \in Tabs
        BY <1>0, <1>1, <2>1, <2>2, PageFacts DEF PageInv
    <2>4. CASE p.tab = tab
        <3>1. q.phase # "answered" \/ q.crossed
            BY <1>1, <2>1, <2>2, <2>3, <2>4 DEF SamePage
        <3>2. PageFollows(q)'
            BY <3>1 DEF PageFollows
        <3> QED
            BY <2>1, <3>2
    <2>5. CASE p.tab # tab
        <3>1. PageFollows(q)'
            BY <1>1, <1>3, <2>3, <2>5, PageKept
        <3> QED
            BY <2>1, <3>1
    <2> QED
        BY <2>4, <2>5
<1>5. ASSUME NEW s \in Tabs, s # tab
      PROVE  Covered(s)'
    <2>1. Covered(s) /\ (Sane(s)' => Sane(s))
        BY <1>0, <1>3, <1>5 DEF CoverInv
    <2>2. list'[s] = list[s] /\ HeardOf(s) /\ list[s] \in Seq(Twysts)
        BY <1>1, <1>5
    <2>3. /\ Missing(s)' \subseteq Missing(s)
          /\ \A m \in Missing(s)' : actionTime'[m] = actionTime[m]
        BY <2>2 DEF HeardOf, Missing
    <2>4. Len(list'[s]) >= Len(list[s])
        BY <2>2, Elements
    <2>5. \A k \in DOMAIN pages' :
              pages'[k].tab = s /\ ~pages'[k].stale =>
                 \E m \in DOMAIN pages : /\ pages[m].tab = s /\ ~pages[m].stale
                                         /\ pages'[k].cursor = pages[m].cursor
        BY <1>1 DEF SamePage
    <2>6. actionTime' = actionTime
        BY DEF Taken
    <2>7. Sane(s)' /\ s = "private" =>
              \A m \in Missing(s)', x \in ToSet(list'[s]) : actionTime'[m] < actionTime'[x]
        BY <2>1, <2>2, <2>3, <2>6 DEF Covered
    <2>8. cursor \in [Tabs -> Nat]
        BY <1>0 DEF ArraysType
    <2> QED
        BY <1>0, <1>1, <2>1, <2>2, <2>3, <2>4, <2>5, <2>7, <2>8, CoverKept
<1>6. CoverInv'
    BY <1>1, <1>5 DEF CoverInv
<1> QED
    BY <1>2, <1>4, <1>6 DEF GapInv

\* The list that a notification is for stays covered if nothing is missing
\* that was not before.
LEMMA TakenCover ==
    ASSUME FeedInv, GapInv, NEW t \in Twysts, NEW tab, NEW inserted,
           Taken(t, tab, inserted),
           Sane(tab)' => Missing(tab)' \subseteq Missing(tab),
           Sane(tab)' /\ tab = "private" =>
              /\ Len(list'[tab]) >= Len(list[tab])
              /\ \A m \in Missing(tab)', s \in ToSet(list'[tab]) :
                    s \notin ToSet(list[tab]) => actionTime[m] < actionTime[s]
    PROVE  Covered(tab)'
<1>0. PagesType /\ ArraysType /\ CoverInv
    BY FeedParts DEF GapInv
<1>1. /\ tab \in Tabs /\ tab \in {"twysted", "private"}
      /\ status' = status /\ actionTime' = actionTime
      /\ cursor' = cursor /\ allLoaded' = allLoaded
      /\ DOMAIN pages' = DOMAIN pages
      /\ \A k \in DOMAIN pages :
            SamePage(pages[k], pages'[k]) /\ pages'[k].stale = pages[k].stale
      /\ Unhurt(tab)' => Unhurt(tab)
      /\ list[tab] \in Seq(Twysts) /\ list'[tab] \in Seq(Twysts)
      /\ Unhurt(tab)' /\ tab = "private" => ToSet(list[tab]) \subseteq ToSet(list'[tab])
    BY DEF Taken
<1>2. Sane(tab)' => Sane(tab)
    BY <1>1 DEF Sane
<1>3. Covered(tab) /\ cursor \in [Tabs -> Nat]
    BY <1>0, <1>1 DEF CoverInv, ArraysType
<1>4. \A k \in DOMAIN pages' :
          pages'[k].tab = tab /\ ~pages'[k].stale =>
             \E m \in DOMAIN pages : /\ pages[m].tab = tab /\ ~pages[m].stale
                                     /\ pages'[k].cursor = pages[m].cursor
    BY <1>1 DEF SamePage
<1>5. ASSUME Sane(tab)', tab = "private",
             NEW m \in Missing(tab)', NEW s \in ToSet(list'[tab])
      PROVE  actionTime'[m] < actionTime'[s]
    <2>1. CASE s \in ToSet(list[tab])
        BY <1>1, <1>2, <1>3, <1>5, <2>1 DEF Covered
    <2>2. CASE s \notin ToSet(list[tab])
        BY <1>1, <1>5, <2>2
    <2> QED
        BY <2>1, <2>2
<1> QED
    BY <1>0, <1>1, <1>2, <1>3, <1>4, <1>5, CoverKept

\* A deletion takes an entry out that the server does not list.
LEMMA DeletedGap ==
    ASSUME FeedInv, GapInv, NEW t \in Twysts, NEW i \in DOMAIN notices,
           TwystDeleted(i, t)
    PROVE  GapInv'
<1>0. ArraysType
    BY FeedParts
<1>t. PICK tab : tab = TabOf[t]
    OBVIOUS
<1>1. Taken(t, tab, FALSE)
    BY <1>t, TakenFacts
<1>2. DeletedFrom(t, tab)
    <2>1. DeletedFrom(t, TabOf[t])
        BY DeletedFacts
    <2> QED
        BY <1>t, <2>1
<1>3. /\ status[t] = "deleted"
      /\ list' # list /\ tab = "private" => "shifted" \in hazards'[tab]
      /\ ToSet(list'[tab]) = ToSet(list[tab]) \ {t}
    BY <1>2 DEF DeletedFrom
<1>4. /\ Unheard(tab)' \subseteq Unheard(tab) /\ list[tab] \in Seq(Twysts)
      /\ tab \in Tabs
    BY <1>1 DEF Taken
<1>5. t \notin Unheard(tab)
    BY <1>3 DEF Unheard, Complete
<1>6. Missing(tab)' \subseteq Missing(tab)
    BY <1>3, <1>4, <1>5 DEF Missing
<1>7. ASSUME Sane(tab)', tab = "private" PROVE list' = list
    BY <1>3, <1>7, HazardNames DEF Sane, Unhurt, ListHazards
<1>8. Len(list[tab]) >= Len(list[tab])
    BY <1>4, Elements
<1>9. Covered(tab)'
    BY <1>1, <1>6, <1>7, <1>8, TakenCover
<1> QED
    BY <1>1, <1>9, TakenGap

\* An insertion brings what is awaited, in its turn or noted.
LEMMA InsertingGap ==
    ASSUME FeedInv, GapInv, NEW t \in Twysts, NEW i \in DOMAIN notices,
           Inserting(i, t)
    PROVE  GapInv'
<1>0. /\ ServerType /\ PagesType /\ ArraysType /\ ServerInv /\ ItemsInv
    BY FeedParts DEF FeedInv
<1>t. PICK tab : tab = TabOf[t]
    OBVIOUS
<1>1. Taken(t, tab, TRUE)
    BY <1>t, TakenFacts
<1>2. InsertedTo(i, t, tab)
    <2>1. InsertedTo(i, t, TabOf[t])
        BY InsertingFacts
    <2> QED
        BY <1>t, <2>1
<1>3. /\ status[t] # "draft"
      /\ OutOfTurn(tab, t) => "shifted" \in hazards'[tab]
      /\ ToSet(list'[tab]) \subseteq ToSet(list[tab]) \cup {t}
      /\ ToSet(list[tab]) \subseteq ToSet(list'[tab])
      /\ tab \notin opened => list' = list
      /\ tab \in opened => t \in ToSet(list'[tab])
      /\ Len(list'[tab]) >= Len(list[tab])
    BY <1>2 DEF InsertedTo
<1>4. /\ Unheard(tab)' \subseteq Unheard(tab) \cup {t} /\ list[tab] \in Seq(Twysts)
      /\ tab \in Tabs /\ tab \in {"twysted", "private"}
      /\ UNCHANGED <<status, actionTime, opened, cursor, allLoaded, TabOf>>
      /\ DOMAIN pages' = DOMAIN pages
      /\ \A k \in DOMAIN pages : SamePage(pages[k], pages'[k])
    BY <1>1 DEF Taken
<1>5. CASE tab \in opened
    <2>1. Missing(tab)' \subseteq Missing(tab)
        BY <1>3, <1>4, <1>5 DEF Missing
    <2>2. ASSUME Sane(tab)', tab = "private", NEW m \in Missing(tab)',
                 NEW s \in ToSet(list'[tab]), s \notin ToSet(list[tab])
          PROVE  actionTime[m] < actionTime[s]
        <3>1. s = t /\ list' # list
            BY <1>3, <2>2
        <3>2. ~OutOfTurn(tab, t)
            BY <1>3, <2>2, HazardNames DEF Sane, Unhurt, ListHazards
        <3>3. /\ m \in Twysts /\ m \notin ToSet(list'[tab]) /\ m \notin Awaited'
              /\ TabOf[m] = tab /\ status[m] = "complete"
            BY <1>4, <2>2 DEF Missing, Unheard, Complete
        <3>4. ~(actionTime[m] > actionTime[t])
            BY <2>2, <3>1, <3>2, <3>3 DEF OutOfTurn
        <3>5. status[t] = "complete"
            <4>1. status[t] # "deleted"
                BY <1>4, <2>2, <3>1 DEF Sane
            <4> QED
                BY <1>0, <1>3, <4>1 DEF ServerType
        <3>6. m # t
            BY <2>2, <3>1, <3>3
        <3>7. actionTime[m] # actionTime[t]
            BY <1>0, <3>3, <3>5, <3>6 DEF ServerInv
        <3>8. actionTime[m] \in Nat /\ actionTime[t] \in Nat
            BY <1>0, <3>3 DEF ServerType
        <3> QED
            BY <3>1, <3>4, <3>7, <3>8
    <2>3. Covered(tab)'
        BY <1>1, <1>3, <2>1, <2>2, TakenCover
    <2> QED
        BY <1>1, <2>3, TakenGap
\* A list that does not exist yet.
<1>6. CASE tab \notin opened
    <2>1. cursor'[tab] = 0 /\ ~allLoaded'[tab] /\ list'[tab] = <<>>
        BY <1>0, <1>3, <1>4, <1>6 DEF ItemsInv, ArraysType
    <2>2. \A k \in DOMAIN pages' : pages'[k].tab # tab
        BY <1>0, <1>4, <1>6 DEF ItemsInv, PageGood, SamePage
    <2>3. Follows(tab, cursor[tab])'
        <3>1. Len(list'[tab]) = 0
            BY <2>1
        <3> QED
            BY <2>1, <3>1 DEF Follows
    <2>4. ToSet(list'[tab]) = {}
        BY <2>1, EmptyElements
    <2>5. Covered(tab)'
        BY <2>1, <2>2, <2>3, <2>4 DEF Covered
    <2> QED
        BY <1>1, <2>5, TakenGap
<1> QED
    BY <1>5, <1>6

\* A step that changes nothing.
LEMMA StutterGap ==
    ASSUME FeedInv, GapInv, UNCHANGED vars
    PROVE  GapInv'
<1>0. PagesType /\ CursorInv /\ FreshInv /\ PageInv /\ CoverInv
    BY FeedParts DEF GapInv
<1>1. SameServer /\ UNCHANGED <<list, cursor, allLoaded, hazards, pages>>
    BY DEF vars, serverVars, tabVars, SameServer
<1>2. Tabs' = Tabs
    BY <1>1, SameServerFacts
<1>3. CursorInv' /\ FreshInv'
    BY <1>0, <1>1 DEF CursorInv, FreshInv, Fresh, Unhurt
<1>4. PageInv'
    <2> SUFFICES ASSUME NEW k \in DOMAIN pages'
                 PROVE  \E q : q = pages'[k] /\ PageFollows(q)'
        BY PageInvJoin
    <2>1. PICK q : q = pages[k]
        OBVIOUS
    <2>2. pages'[k] = q /\ PageFollows(q) /\ SamePage(q, q)
        BY <1>0, <1>1, <2>1 DEF PageInv, SamePage
    <2>3. PageFollows(q)'
        BY <1>1, <2>2, QuietPage
    <2> QED
        BY <2>2, <2>3
<1>5. ASSUME NEW s \in Tabs
      PROVE  Covered(s)'
    <2>1. Covered(s)
        BY <1>0 DEF CoverInv
    <2> QED
        BY <1>1, <2>1, QuietCover
<1>6. CoverInv'
    BY <1>2, <1>5 DEF CoverInv
<1> QED
    BY <1>3, <1>4, <1>6 DEF GapInv

\* Every step keeps GapInv ...
LEMMA GapStep == FeedInv /\ GapInv /\ [Next]_vars => GapInv'
<1> SUFFICES ASSUME FeedInv, GapInv, [Next]_vars PROVE GapInv'
    OBVIOUS
<1>1. CASE Next
    <2>1. ASSUME NEW t \in Twysts, Acted(t) \/ ServerDeletes(t)
          PROVE  GapInv'
        BY <2>1, ServerGap
    <2>2. ASSUME NEW i \in DOMAIN pages, ServerAnswers(i) \/ RequestFails(i)
          PROVE  GapInv'
        BY <2>2, AnswersGap, FailsGap
    <2>3. ASSUME NEW tab \in Tabs, Refresh(tab)
          PROVE  GapInv'
        BY <2>3, RefreshGap
    <2>4. ASSUME NEW tab \in Tabs, LoadMore(tab) \/ Appear(tab)
          PROVE  GapInv'
        BY <2>4, LoadMoreGap, AppearGap
    <2>5. ASSUME NEW tab \in Tabs, NEW i \in DOMAIN pages,
                 PageLoaded(tab, i) \/ PageFailed(tab, i)
          PROVE  GapInv'
        BY <2>5, LoadedGap, FailedGap
    <2>6. ASSUME NEW t \in Twysts, NEW i \in DOMAIN notices,
                 Inserting(i, t) \/ TwystDeleted(i, t)
          PROVE  GapInv'
        BY <2>6, InsertingGap, DeletedGap
    <2> QED
        BY <1>1, <2>1, <2>2, <2>3, <2>4, <2>5, <2>6, Steps
<1>2. CASE UNCHANGED vars
    BY <1>2, StutterGap
<1> QED
    BY <1>1, <1>2

\* ... which holds at the start.
LEMMA InitGap == Init => GapInv
<1> SUFFICES ASSUME Init PROVE GapInv
    OBVIOUS
<1>1. /\ pages = IF opened = {} THEN <<>> ELSE <<NewPage("twysted", 0)>>
      /\ list = [tab \in Tabs |-> <<>>] /\ cursor = [tab \in Tabs |-> 0]
      /\ allLoaded = [tab \in Tabs |-> FALSE]
    BY DEF Init
<1>2. ASSUME NEW i \in DOMAIN pages
      PROVE  /\ i = 1 /\ pages[i].cursor = 0 /\ pages[i].phase = "sent"
             /\ pages[i].tab \in Tabs
    <2>1. i = 1 /\ pages[i] = NewPage("twysted", 0)
        BY <1>1, <1>2
    <2>2. PagesType
        BY InitFeed, FeedParts
    <2>3. pages[i].tab \in Tabs
        BY <2>2, PageFacts
    <2> QED
        BY <2>1, <2>3 DEF NewPage
<1>3. CursorInv /\ FreshInv
    BY <1>1, <1>2 DEF CursorInv, FreshInv
<1>4. PageInv
    BY <1>2 DEF PageInv, PageFollows
<1>5. ASSUME NEW tab \in Tabs
      PROVE  Covered(tab)
    <2>1. cursor[tab] = 0 /\ allLoaded[tab] = FALSE /\ list[tab] = <<>>
        BY <1>1
    <2>2. Len(list[tab]) = 0 /\ ToSet(list[tab]) = {}
        BY <2>1, EmptyElements
    <2>3. Follows(tab, 0)
        BY <2>2 DEF Follows
    <2> QED
        BY <1>2, <2>1, <2>2, <2>3 DEF Covered
<1> QED
    BY <1>3, <1>4, <1>5 DEF GapInv, CoverInv

\* A list that the app takes for complete has every twyst of the server,
\* when nothing is under way and none of the ways to lose some was met.
THEOREM NothingIsMissing == Spec => []NoGap
<1>1. FeedInv /\ GhostInv /\ GapInv => NoGap
    <2> SUFFICES ASSUME FeedInv, GhostInv, GapInv, NEW tab \in Tabs,
                        allLoaded[tab], notices = <<>>,
                        hazards[tab] \cap ListHazards = {},
                        NEW t \in Twysts, TabOf[t] = tab, status[t] = "complete"
                 PROVE  t \in ToSet(list[tab])
        BY DEF NoGap
    <2>1. Awaited = {}
        BY EmptyElements DEF Awaited
    <2>2. Unhurt(tab) /\ hazards[tab] \cap Revivals = {}
        BY HazardNames DEF Unhurt, Revivals
    <2>3. ASSUME NEW s \in ToSet(list[tab]), status[s] = "deleted"
          PROVE  FALSE
        <3>1. TabOf[s] = tab /\ s \in Twysts
            <4>1. list[tab] \in Seq(Twysts)
                BY FeedParts DEF ArraysType
            <4>2. s \in Twysts
                BY <4>1, Elements
            <4> QED
                BY <4>2 DEF FeedInv, EntriesInv
        <3>2. Untold(s)
            BY <2>3 DEF Untold
        <3> QED
            BY <2>2, <2>3, <3>1, <3>2 DEF GhostInv
    <2>4. Sane(tab)
        BY <2>2, <2>3 DEF Sane
    <2>5. Missing(tab) = {}
        BY <2>4 DEF GapInv, CoverInv, Covered
    <2> QED
        BY <2>1, <2>5 DEF Missing, Unheard, Complete
<1> QED
    BY InitFeed, FeedStep, InitGhost, GhostStep, InitGap, GapStep, <1>1, PTL DEF Spec
=============================================================================
