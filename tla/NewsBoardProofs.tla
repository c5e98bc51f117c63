-------------------------- MODULE NewsBoardProofs ---------------------------
(***************************************************************************)
(* Theorems about NewsBoard, for any twysts, friends and kinds of news and *)
(* any number of checks and events: the board agrees with the server when  *)
(* it is up to date, the timer goes on, nothing that was deleted comes     *)
(* back, what counts as read was tapped, and the badge misses nothing.     *)
(***************************************************************************)
EXTENDS NewsBoard, WellFoundedInduction, SequenceTheorems,
        FiniteSetTheorems, TLAPS

USE TypesAssumption, NewsBoundsAssumption, MeAssumption

-----------------------------------------------------------------------------
(* Induction, sequences and the loop over the news of a reply              *)

\* Induction over the natural numbers, for a set of them.
LEMMA SetInduction ==
    ASSUME NEW T \in SUBSET Nat, 0 \in T, \A n \in T : n + 1 \in T
    PROVE  T = Nat
<1> DEFINE less == {p \in Nat \X Nat : p[1] < p[2]}
<1> SUFFICES ASSUME Nat \ T # {}
             PROVE  FALSE
    OBVIOUS
<1>1. IsWellFoundedOn(less, Nat)
    BY NatLessThanWellFounded DEF OpToRel
<1>2. PICK x \in Nat \ T : \A y \in Nat \ T : <<y, x>> \notin less
    <2> HIDE DEF less
    <2> QED
        BY <1>1, WFMin
<1>3. x # 0 /\ x - 1 \in Nat /\ x - 1 < x /\ (x - 1) + 1 = x
    OBVIOUS
<1>4. <<x - 1, x>> \in less
    BY <1>3
<1>5. x - 1 \in T
    BY <1>2, <1>3, <1>4
<1> QED
    BY <1>3, <1>5

\* The greater of two numbers.
LEMMA MaxOfTwo ==
    ASSUME NEW a \in Nat, NEW b \in Nat
    PROVE  Max({a, b}) = IF a >= b THEN a ELSE b
<1> DEFINE m == IF a >= b THEN a ELSE b
<1>1. m \in {a, b} /\ \A y \in {a, b} : m >= y
    OBVIOUS
<1>2. \A x \in {a, b} : (\A y \in {a, b} : x >= y) => x = m
    OBVIOUS
<1> HIDE DEF m
<1> QED
    BY <1>1, <1>2 DEF Max, m

\* What a sequence holds: nothing when it is empty, ...
LEMMA EmptyElements == ToSet(<<>>) = {}
BY DEF ToSet

\* ... one more when one is added at its end, ...
LEMMA AppendElements ==
    ASSUME NEW S, NEW s \in Seq(S), NEW x \in S
    PROVE  /\ Append(s, x) \in Seq(S)
           /\ Len(Append(s, x)) = Len(s) + 1
           /\ ToSet(Append(s, x)) = ToSet(s) \cup {x}
<1>1. /\ Append(s, x) \in Seq(S) /\ Len(Append(s, x)) = Len(s) + 1
      /\ \A i \in 1 .. Len(s) : Append(s, x)[i] = s[i]
      /\ Append(s, x)[Len(s) + 1] = x
    OBVIOUS
<1>2. DOMAIN Append(s, x) = 1 .. Len(s) + 1 /\ DOMAIN s = 1 .. Len(s)
    BY <1>1
<1>3. 1 .. Len(s) + 1 = (1 .. Len(s)) \cup {Len(s) + 1}
    OBVIOUS
<1> QED
    BY <1>1, <1>2, <1>3 DEF ToSet

\* ... and one less when one is removed.
LEMMA RemoveAtElements ==
    ASSUME NEW S, NEW s \in Seq(S), NEW i \in DOMAIN s
    PROVE  /\ RemoveAt(s, i) \in Seq(S) /\ Len(RemoveAt(s, i)) = Len(s) - 1
           /\ s[i] \in ToSet(s)
           /\ ToSet(s) = ToSet(RemoveAt(s, i)) \cup {s[i]}
<1> DEFINE left == SubSeq(s, 1, i - 1)
           right == SubSeq(s, i + 1, Len(s))
<1>1. i \in 1 .. Len(s) /\ Len(s) \in Nat /\ DOMAIN s = 1 .. Len(s)
    OBVIOUS
<1>2. /\ left \in Seq(S) /\ Len(left) = i - 1
      /\ \A j \in 1 .. i - 1 : left[j] = s[j]
    BY <1>1
<1>3. /\ right \in Seq(S) /\ Len(right) = Len(s) - i
      /\ \A j \in 1 .. Len(s) - i : right[j] = s[j + i]
    BY <1>1
<1>4. RemoveAt(s, i) = left \o right
    BY DEF RemoveAt
<1> HIDE DEF left, right
<1>5. /\ left \o right \in Seq(S) /\ Len(left \o right) = Len(s) - 1
      /\ \A j \in 1 .. Len(s) - 1 :
            (left \o right)[j] = IF j < i THEN left[j] ELSE right[j - (i - 1)]
    <2>1. /\ left \o right \in Seq(S)
          /\ Len(left \o right) = Len(left) + Len(right)
          /\ \A j \in 1 .. Len(left) + Len(right) :
                (left \o right)[j] = IF j <= Len(left) THEN left[j]
                                     ELSE right[j - Len(left)]
        BY <1>2, <1>3, ConcatProperties
    <2> QED
        BY <1>1, <1>2, <1>3, <2>1
<1> DEFINE rest == RemoveAt(s, i)
<1>6. /\ rest \in Seq(S) /\ Len(rest) = Len(s) - 1
       /\ \A j \in 1 .. Len(s) - 1 :
            rest[j] = IF j < i THEN left[j] ELSE right[j - (i - 1)]
    BY <1>4, <1>5
<1> HIDE DEF rest
<1>7. ASSUME NEW j \in 1 .. Len(s) - 1
      PROVE  rest[j] \in ToSet(s)
    <2>1. CASE j < i
        <3>1. rest[j] = s[j] /\ j \in 1 .. Len(s)
            BY <1>1, <1>2, <1>6, <2>1
        <3> QED
            BY <1>1, <3>1 DEF ToSet
    <2>2. CASE ~(j < i)
        <3>1. /\ j - (i - 1) \in 1 .. Len(s) - i /\ (j - (i - 1)) + i = j + 1
              /\ j + 1 \in 1 .. Len(s)
            BY <1>1, <2>2
        <3>2. rest[j] = s[j + 1]
            BY <1>3, <1>6, <2>2, <3>1
        <3> QED
            BY <1>1, <3>1, <3>2 DEF ToSet
    <2> QED
        BY <2>1, <2>2
<1>8. ASSUME NEW k \in 1 .. Len(s), k # i
      PROVE  s[k] \in ToSet(rest)
    <2>1. CASE k < i
        <3>1. rest[k] = s[k] /\ k \in 1 .. Len(s) - 1
            BY <1>1, <1>2, <1>6, <2>1
        <3> QED
            BY <1>6, <3>1 DEF ToSet
    <2>2. CASE ~(k < i)
        <3>1. /\ k - 1 \in 1 .. Len(s) - 1 /\ ~(k - 1 < i)
              /\ (k - 1) - (i - 1) \in 1 .. Len(s) - i
              /\ ((k - 1) - (i - 1)) + i = k
            BY <1>1, <1>8, <2>2
        <3>2. rest[k - 1] = s[k]
            BY <1>3, <1>6, <3>1
        <3> QED
            BY <1>6, <3>1, <3>2 DEF ToSet
    <2> QED
        BY <2>1, <2>2
<1>9. DOMAIN rest = 1 .. Len(s) - 1
    BY <1>1, <1>6
<1>10. ToSet(rest) \subseteq ToSet(s)
    BY <1>7, <1>9 DEF ToSet
<1>11. \A x \in ToSet(s) : x = s[i] \/ x \in ToSet(rest)
    BY <1>1, <1>8 DEF ToSet
<1>12. s[i] \in ToSet(s)
    BY <1>1 DEF ToSet
<1> QED
    BY <1>6, <1>10, <1>11, <1>12 DEF rest

\* One turn of the loop over the news.
Turn(b, news, f, i) ==
    IF i = 0 THEN b
    ELSE IF \E n \in news : n.id = i
    THEN Handle(f[i - 1], CHOOSE n \in news : n.id = i)
    ELSE f[i - 1]

\* The loop ends: a function with a value for each of its turns exists.
LEMMA LoopExists ==
    ASSUME NEW b, NEW news, NEW n \in Nat
    PROVE  \E f : f = [i \in 0 .. n |-> Turn(b, news, f, i)]
<1> DEFINE IsLoop(f, k) == f = [i \in 0 .. k |-> Turn(b, news, f, i)]
           T == {k \in Nat : \E f : IsLoop(f, k)}
<1>1. 0 \in T
    <2> DEFINE f == [i \in 0 .. 0 |-> b]
    <2>1. \A i \in 0 .. 0 : Turn(b, news, f, i) = b
        BY DEF Turn
    <2> HIDE DEF f
    <2>2. IsLoop(f, 0)
        BY <2>1 DEF f
    <2> HIDE DEF IsLoop
    <2> QED
        BY <2>2
<1>2. ASSUME NEW k \in T
      PROVE  k + 1 \in T
    <2>1. PICK f : IsLoop(f, k)
        OBVIOUS
    <2> DEFINE g == [i \in 0 .. k + 1 |->
                        IF i = k + 1 THEN Turn(b, news, f, k + 1) ELSE f[i]]
    <2>2. ASSUME NEW i \in 0 .. k + 1
          PROVE  g[i] = Turn(b, news, g, i)
        <3>1. Turn(b, news, g, i) = Turn(b, news, f, i)
            <4>1. i # 0 => i - 1 \in 0 .. k + 1 /\ i - 1 # k + 1
                OBVIOUS
            <4>2. i # 0 => g[i - 1] = f[i - 1]
                BY <4>1
            <4> HIDE DEF g
            <4> QED
                BY <4>2 DEF Turn
        <3>2. i # k + 1 => i \in 0 .. k
            OBVIOUS
        <3>3. i # k + 1 => f[i] = Turn(b, news, f, i)
            BY <2>1, <3>2
        <3> QED
            BY <3>1, <3>3
    <2>3. IsLoop(g, k + 1)
        BY <2>2
    <2> HIDE DEF g, IsLoop
    <2> QED
        BY <2>3
<1>3. n \in T
    <2>1. T \in SUBSET Nat
        OBVIOUS
    <2> HIDE DEF T
    <2> QED
        BY <1>1, <1>2, <2>1, SetInduction
<1> QED
    BY <1>3

\* What each turn keeps holds when the loop is done.
LEMMA HandledInduction ==
    ASSUME NEW b, NEW news, NEW S, <<0, b>> \in S,
           \A i \in 1 .. MaxEvents : \A c :
              <<i - 1, c>> \in S =>
                 IF \E n \in news : n.id = i
                 THEN <<i, Handle(c, CHOOSE n \in news : n.id = i)>> \in S
                 ELSE <<i, c>> \in S
    PROVE  <<MaxEvents, Handled(b, news)>> \in S
<1> DEFINE after == CHOOSE f : f = [i \in 0 .. MaxEvents |-> Turn(b, news, f, i)]
           T == {k \in Nat : k <= MaxEvents => <<k, after[k]>> \in S}
<1>1. after = [i \in 0 .. MaxEvents |-> Turn(b, news, after, i)]
    BY LoopExists
<1>2. Handled(b, news) = after[MaxEvents]
    BY DEF Handled, Turn
<1> HIDE DEF after
<1>3. 0 \in T
    BY <1>1 DEF Turn
<1>4. ASSUME NEW k \in T
      PROVE  k + 1 \in T
    <2> SUFFICES ASSUME k + 1 <= MaxEvents
                 PROVE  <<k + 1, after[k + 1]>> \in S
        OBVIOUS
    <2>1. /\ k + 1 \in 1 .. MaxEvents /\ k + 1 \in 0 .. MaxEvents
          /\ k + 1 # 0 /\ (k + 1) - 1 = k /\ <<k, after[k]>> \in S
        OBVIOUS
    <2>2. after[k + 1] = Turn(b, news, after, k + 1)
        BY <1>1, <2>1
    <2>3. after[k + 1] = IF \E n \in news : n.id = k + 1
                         THEN Handle(after[k], CHOOSE n \in news : n.id = k + 1)
                         ELSE after[k]
        BY ONLY <2>1, <2>2 DEF Turn
    <2> QED
        BY <2>1, <2>3
<1>5. MaxEvents \in T
    <2>1. T \in SUBSET Nat
        OBVIOUS
    <2> HIDE DEF T
    <2> QED
        BY <1>3, <1>4, <2>1, SetInduction
<1> QED
    BY <1>2, <1>5

-----------------------------------------------------------------------------
(* What handling one item of news does to the rows                         *)

Ids == 1 .. MaxEvents

Boards == [rows : Tables, fresh : SUBSET Ids]

\* A table is a function from objects to rows.
LEMMA TableFacts ==
    ASSUME NEW rs \in Tables
    PROVE  /\ DOMAIN rs \subseteq Ids /\ rs = [o \in DOMAIN rs |-> rs[o]]
           /\ \A o \in DOMAIN rs :
                 /\ rs[o] \in Row
                 /\ rs[o].newsId \in Ids /\ rs[o].twyst \in Twysts
                 /\ rs[o].type \in Types /\ rs[o].sender \in Senders
                 /\ rs[o].unread \in BOOLEAN /\ rs[o].badge \in BOOLEAN
<1>1. PICK D \in SUBSET Ids : rs \in [D -> Row]
    BY DEF Tables, Ids
<1>2. \A o \in D : rs[o] \in Row
    BY <1>1
<1> QED
    BY <1>1, <1>2 DEF Row, Ids

\* A function from numbers to rows is a table.
LEMMA IsTable ==
    ASSUME NEW D \in SUBSET Ids, NEW f, f = [o \in D |-> f[o]],
           \A o \in D : f[o] \in Row
    PROVE  f \in Tables /\ DOMAIN f = D
<1>1. f \in [D -> Row]
    OBVIOUS
<1> QED
    BY <1>1 DEF Tables, Ids

\* News that a row is made for, or written over with.
Adds(n) ==
    \/ n.type = "Pass"
    \/ n.sender # Me /\ n.type \in {"Like", "comment", "Reply", "Follow"}

\* What a board holds after some rows were deleted, ...
LEMMA WithoutRows ==
    ASSUME NEW b \in Boards, NEW objs
    PROVE  LET d == Without(b, objs)
           IN  /\ d \in Boards
               /\ DOMAIN d.rows = DOMAIN b.rows \ objs
               /\ \A o \in DOMAIN d.rows : d.rows[o] = b.rows[o]
               /\ d.fresh = b.fresh \ objs
<1> DEFINE d == Without(b, objs)
           D == DOMAIN b.rows \ objs
<1>1. /\ b.rows \in Tables /\ b.fresh \in SUBSET Ids
      /\ b = [rows |-> b.rows, fresh |-> b.fresh]
    BY DEF Boards
<1>2. d = [rows |-> [o \in D |-> b.rows[o]], fresh |-> b.fresh \ objs]
    BY <1>1 DEF Without
<1>3. \A o \in D : b.rows[o] \in Row
    BY <1>1, TableFacts
<1>4. D \in SUBSET Ids
    BY <1>1, TableFacts
<1>5. [o \in D |-> b.rows[o]] \in Tables
    BY <1>3, <1>4, IsTable
<1> HIDE DEF D
<1>6. /\ d.rows = [o \in D |-> b.rows[o]] /\ d.fresh = b.fresh \ objs
      /\ d \in Boards
    BY <1>1, <1>2, <1>5 DEF Boards
<1> HIDE DEF d
<1>7. DOMAIN d.rows = D /\ \A o \in DOMAIN d.rows : d.rows[o] = b.rows[o]
    BY <1>6
<1> QED
    BY <1>6, <1>7 DEF d, D

\* ... after one was written, ...
LEMMA WithRow ==
    ASSUME NEW b \in Boards, NEW o \in Ids, NEW row \in Row
    PROVE  LET d == With(b, o, row)
           IN  /\ d \in Boards
               /\ DOMAIN d.rows = DOMAIN b.rows \cup {o}
               /\ \A p \in DOMAIN d.rows :
                     d.rows[p] = IF p = o THEN row ELSE b.rows[p]
               /\ d.fresh = b.fresh \cup {o}
<1> DEFINE d == With(b, o, row)
           D == DOMAIN b.rows \cup {o}
           f == [p \in D |-> IF p = o THEN row ELSE b.rows[p]]
<1>1. b.rows \in Tables /\ b.fresh \in SUBSET Ids
    BY DEF Boards
<1>2. d = [rows |-> f, fresh |-> b.fresh \cup {o}]
    BY DEF With
<1>3. \A p \in D : f[p] \in Row
    BY <1>1, TableFacts
<1>4. D \in SUBSET Ids
    BY <1>1, TableFacts
<1>5. DOMAIN f = D /\ \A p \in D : f[p] = IF p = o THEN row ELSE b.rows[p]
    OBVIOUS
<1>6. f = [p \in D |-> f[p]]
    OBVIOUS
<1> HIDE DEF D, f
<1>7. f \in Tables
    BY <1>3, <1>4, <1>6, IsTable
<1>8. d.rows = f /\ d.fresh = b.fresh \cup {o} /\ d \in Boards
    BY <1>1, <1>2, <1>7 DEF Boards
<1> HIDE DEF d
<1> QED
    BY <1>5, <1>8 DEF d, D

\* ... and after the sender of one was.
LEMMA SenderRow ==
    ASSUME NEW b \in Boards, NEW o \in DOMAIN b.rows, NEW s \in Senders
    PROVE  LET d == [b EXCEPT !.rows[o].sender = s]
           IN  /\ d \in Boards
               /\ DOMAIN d.rows = DOMAIN b.rows
               /\ \A p \in DOMAIN d.rows :
                     d.rows[p] = IF p = o THEN [b.rows[o] EXCEPT !.sender = s]
                                 ELSE b.rows[p]
               /\ d.fresh = b.fresh
<1> DEFINE d == [b EXCEPT !.rows[o].sender = s]
           f == [b.rows EXCEPT ![o].sender = s]
           row == [b.rows[o] EXCEPT !.sender = s]
<1>1. /\ b.rows \in Tables /\ b.fresh \in SUBSET Ids
      /\ b = [rows |-> b.rows, fresh |-> b.fresh]
    BY DEF Boards
<1>2. d = [rows |-> f, fresh |-> b.fresh]
    BY <1>1
<1>3. row \in Row
    BY <1>1, TableFacts DEF Row
<1>4. b.rows = [p \in DOMAIN b.rows |-> b.rows[p]]
    BY <1>1, TableFacts
<1>5. DOMAIN f = DOMAIN b.rows
    BY <1>4
<1>6. \A p \in DOMAIN b.rows : f[p] = IF p = o THEN row ELSE b.rows[p]
    BY <1>4
<1>7. f = [p \in DOMAIN b.rows |-> f[p]]
    BY <1>4
<1>8. DOMAIN b.rows \in SUBSET Ids /\ \A p \in DOMAIN b.rows : b.rows[p] \in Row
    BY <1>1, TableFacts
<1> HIDE DEF f, row
<1>9. f \in Tables
    BY <1>3, <1>6, <1>7, <1>8, IsTable
<1>10. d.rows = f /\ d.fresh = b.fresh /\ d \in Boards
    BY <1>1, <1>2, <1>9 DEF Boards
<1> HIDE DEF d
<1> QED
    BY <1>5, <1>6, <1>10 DEF d, row

\* A row that news n is written to: the comments' on its twyst, or the one it
\* already has, or else one of its own.
WrittenTo(b, n, p) ==
    IF n.type = "comment"
    THEN \/ p \in CommentRows(b, n.twyst)
         \/ CommentRows(b, n.twyst) = {} /\ p = n.id
    ELSE \/ p \in DOMAIN b.rows /\ b.rows[p].newsId = n.id
         \/ p = n.id /\ \A o \in DOMAIN b.rows : b.rows[o].newsId # n.id

\* The row that is written, which is unread.
FreshRow(n) == NewRow(n, TRUE)

\* News that writes a row.
Writes(n) == Adds(n) /\ (n.type = "comment" => n.count # 0)

\* News that ends the comments on its twyst.
Ends(n) ==
    /\ n.count = 0
    /\ \/ n.type = "deletecomment"
       \/ n.type = "comment" /\ n.sender # Me

\* How the board d after an item of news n comes from the board b before it.
Follows(b, n, d) ==
    /\ d \in Boards
    /\ \A p \in DOMAIN d.rows :
          \/ /\ p \in DOMAIN b.rows /\ d.rows[p] = b.rows[p]
             /\ p \in d.fresh => p \in b.fresh
          \/ /\ n.type = "deletecomment" /\ n.count # 0
             /\ p \in CommentRows(b, n.twyst)
             /\ d.rows[p] = [b.rows[p] EXCEPT !.sender = n.sender]
             /\ p \in d.fresh => p \in b.fresh
          \/ /\ Writes(n) /\ WrittenTo(b, n, p)
             /\ d.rows[p] = FreshRow(n)
    /\ \A p \in DOMAIN b.rows \ DOMAIN d.rows :
          \/ /\ n.type = "unlike" /\ b.rows[p].type = "Like"
             /\ b.rows[p].twyst = n.twyst /\ b.rows[p].sender = n.sender
          \/ Ends(n) /\ p \in CommentRows(b, n.twyst)
    /\ b.fresh \subseteq DOMAIN b.rows => d.fresh \subseteq DOMAIN d.rows
    /\ Writes(n) => \E p \in DOMAIN d.rows : d.rows[p] = FreshRow(n)
    /\ n.type = "unlike"
          => \A p \in DOMAIN d.rows :
                ~(/\ d.rows[p].type = "Like" /\ d.rows[p].twyst = n.twyst
                  /\ d.rows[p].sender = n.sender)
    /\ Ends(n) /\ CommentRows(b, n.twyst) # {}
          => \E p \in CommentRows(b, n.twyst) : p \notin DOMAIN d.rows

\* The parts of an item of news.
LEMMA NewsFacts ==
    ASSUME NEW n \in News
    PROVE  /\ n.id \in Ids /\ n.type \in Types /\ n.twyst \in Twysts
           /\ n.sender \in Senders /\ n.count \in Times
           /\ n.type \in {"Like", "unlike", "comment", "deletecomment", "Pass",
                          "Reply", "Follow"}
BY DEF News, Ids

\* One who likes a twyst, or passes it on, and the like.
LEMMA ConfirmNews ==
    ASSUME NEW b \in Boards, NEW n \in News, Adds(n), n.type # "comment"
    PROVE  Follows(b, n, confirmTwystNews(b, n))
<1> DEFINE d == confirmTwystNews(b, n)
           same == {o \in DOMAIN b.rows : b.rows[o].newsId = n.id}
           o == IF same = {} THEN n.id ELSE CHOOSE x \in same : TRUE
           row == FreshRow(n)
<1>1. row \in Row
    BY NewsFacts DEF FreshRow, NewRow, Row, Ids
<1>2. b.rows \in Tables /\ DOMAIN b.rows \subseteq Ids
    <2>1. b.rows \in Tables
        BY DEF Boards
    <2> QED
        BY <2>1, TableFacts
<1>3. same # {} => o \in same
    OBVIOUS
<1>4. o \in Ids
    BY <1>2, <1>3, NewsFacts
<1>5. d = With(b, o, row)
    BY DEF confirmTwystNews, FreshRow
<1>6. WrittenTo(b, n, o)
    <2>1. CASE same = {}
        <3>1. o = n.id
            BY <2>1
        <3> HIDE DEF o
        <3> QED
            BY <2>1, <3>1 DEF WrittenTo
    <2>2. CASE same # {}
        <3>1. o \in same
            BY <1>3, <2>2
        <3> HIDE DEF o
        <3> QED
            BY <3>1 DEF WrittenTo
    <2> QED
        BY <2>1, <2>2
<1>7. Writes(n) /\ ~Ends(n) /\ n.type # "unlike" /\ n.type # "deletecomment"
    BY DEF Writes, Ends, Adds
<1> HIDE DEF o, row, d, same
<1>8. /\ d \in Boards
      /\ DOMAIN d.rows = DOMAIN b.rows \cup {o}
      /\ \A p \in DOMAIN d.rows : d.rows[p] = IF p = o THEN row ELSE b.rows[p]
      /\ d.fresh = b.fresh \cup {o}
    BY <1>1, <1>4, <1>5, WithRow
<1> QED
    BY <1>6, <1>7, <1>8 DEF Follows, row, d

\* One who comments.
LEMMA ConfirmComment ==
    ASSUME NEW b \in Boards, NEW n \in News, n.type = "comment", n.sender # Me
    PROVE  Follows(b, n, confirmCommentTwyst(b, n))
<1> DEFINE d == confirmCommentTwyst(b, n)
           old == CommentRows(b, n.twyst)
           o == CHOOSE x \in old : TRUE
           row == FreshRow(n)
<1>1. row \in Row
    BY NewsFacts DEF FreshRow, NewRow, Row, Ids
<1>2. b.rows \in Tables /\ DOMAIN b.rows \subseteq Ids /\ old \subseteq DOMAIN b.rows
    <2>1. b.rows \in Tables
        BY DEF Boards
    <2> QED
        BY <2>1, TableFacts DEF CommentRows
<1>3. old # {} => o \in old
    OBVIOUS
<1>4. Adds(n) /\ (Writes(n) <=> n.count # 0) /\ (Ends(n) <=> n.count = 0)
    BY DEF Adds, Writes, Ends
<1>5. CASE n.count = 0
    <2> DEFINE objs == IF old = {} THEN {} ELSE {o}
    <2>1. d = Without(b, objs)
        BY <1>5 DEF confirmCommentTwyst
    <2>2. objs \subseteq old /\ (old # {} => objs # {})
        BY <1>3
    <2> HIDE DEF d, objs, o
    <2>3. /\ d \in Boards /\ DOMAIN d.rows = DOMAIN b.rows \ objs
          /\ \A p \in DOMAIN d.rows : d.rows[p] = b.rows[p]
          /\ d.fresh = b.fresh \ objs
        BY <2>1, WithoutRows
    <2> HIDE DEF old
    <2>4. Ends(n) /\ ~Writes(n)
        BY <1>4, <1>5
    <2> QED
        BY <1>2, <2>2, <2>3, <2>4 DEF Follows, d, old
<1>6. CASE n.count # 0
    <2> DEFINE x == IF old = {} THEN n.id ELSE o
    <2>1. d = With(b, x, row)
        BY <1>6 DEF confirmCommentTwyst, FreshRow
    <2>2. x \in Ids
        BY <1>2, <1>3, NewsFacts
    <2>3. WrittenTo(b, n, x)
        <3>1. IF old = {} THEN x = n.id ELSE x \in old
            BY <1>3
        <3> HIDE DEF x, o
        <3> QED
            BY <3>1 DEF WrittenTo
    <2> HIDE DEF x, o, old, d, row
    <2>4. /\ d \in Boards
          /\ DOMAIN d.rows = DOMAIN b.rows \cup {x}
          /\ \A p \in DOMAIN d.rows :
                d.rows[p] = IF p = x THEN row ELSE b.rows[p]
          /\ d.fresh = b.fresh \cup {x}
        BY <1>1, <2>1, <2>2, WithRow
    <2>5. ~Ends(n) /\ Writes(n)
        BY <1>4, <1>6
    <2> QED
        BY <2>3, <2>4, <2>5 DEF Follows, d, row
<1> QED
    BY <1>5, <1>6

\* A comment that is deleted.
LEMMA ConfirmDelete ==
    ASSUME NEW b \in Boards, NEW n \in News, n.type = "deletecomment"
    PROVE  Follows(b, n, confirmDeleteCommentTwyst(b, n))
<1> DEFINE d == confirmDeleteCommentTwyst(b, n)
           old == CommentRows(b, n.twyst)
           o == CHOOSE x \in old : TRUE
<1>1. old # {} => o \in old
    OBVIOUS
<1>2. /\ ~Adds(n) /\ ~Writes(n) /\ (Ends(n) <=> n.count = 0)
      /\ n.type # "unlike" /\ n.type # "comment"
    <2>1. ~Adds(n)
        BY DEF Adds
    <2> QED
        BY <2>1 DEF Writes, Ends
<1>3. old \subseteq DOMAIN b.rows
    BY DEF CommentRows
<1>4. CASE old = {}
    <2>1. d = b
        BY <1>4 DEF confirmDeleteCommentTwyst
    <2> QED
        BY <1>2, <1>4, <2>1 DEF Follows
<1>5. CASE old # {} /\ n.count = 0
    <2>1. d = Without(b, {o})
        BY <1>5 DEF confirmDeleteCommentTwyst
    <2> HIDE DEF d, o
    <2>2. /\ d \in Boards /\ DOMAIN d.rows = DOMAIN b.rows \ {o}
          /\ \A p \in DOMAIN d.rows : d.rows[p] = b.rows[p]
          /\ d.fresh = b.fresh \ {o}
        BY <2>1, WithoutRows
    <2> HIDE DEF old
    <2> QED
        BY <1>1, <1>2, <1>3, <1>5, <2>2 DEF Follows, d, old
<1>6. CASE old # {} /\ n.count # 0
    <2>1. d = [b EXCEPT !.rows[o].sender = n.sender]
        BY <1>6 DEF confirmDeleteCommentTwyst
    <2>2. o \in old /\ o \in DOMAIN b.rows /\ n.sender \in Senders
        BY <1>1, <1>3, <1>6, NewsFacts
    <2> HIDE DEF d, o, old
    <2>3. /\ d \in Boards /\ DOMAIN d.rows = DOMAIN b.rows
          /\ \A p \in DOMAIN d.rows :
                d.rows[p] = IF p = o THEN [b.rows[o] EXCEPT !.sender = n.sender]
                            ELSE b.rows[p]
          /\ d.fresh = b.fresh
        BY <2>1, <2>2, SenderRow
    <2>4. ASSUME NEW p \in DOMAIN d.rows
          PROVE  \/ d.rows[p] = b.rows[p]
                 \/ /\ p \in old
                    /\ d.rows[p] = [b.rows[p] EXCEPT !.sender = n.sender]
        BY <2>2, <2>3
    <2> QED
        BY <1>2, <1>6, <2>3, <2>4 DEF Follows, d, old
<1> QED
    BY <1>4, <1>5, <1>6

\* Whatever the news.
LEMMA HandleFollows ==
    ASSUME NEW b \in Boards, NEW n \in News
    PROVE  Follows(b, n, Handle(b, n))
<1> DEFINE d == Handle(b, n)
<1>1. CASE n.type = "unlike"
    <2> DEFINE objs == {o \in DOMAIN b.rows : /\ b.rows[o].type = "Like"
                                              /\ b.rows[o].twyst = n.twyst
                                              /\ b.rows[o].sender = n.sender}
    <2>1. d = Without(b, objs)
        BY <1>1 DEF Handle, confirmUnlikeTwyst
    <2> HIDE DEF d
    <2>2. /\ d \in Boards /\ DOMAIN d.rows = DOMAIN b.rows \ objs
          /\ \A p \in DOMAIN d.rows : d.rows[p] = b.rows[p]
          /\ d.fresh = b.fresh \ objs
        BY <2>1, WithoutRows
    <2>3. ~Writes(n) /\ ~Ends(n)
        BY <1>1 DEF Adds, Writes, Ends
    <2> QED
        BY <1>1, <2>2, <2>3 DEF Follows, d
<1>2. CASE n.type = "deletecomment"
    BY <1>2, ConfirmDelete DEF Handle
<1>3. CASE n.type = "Pass"
    <2>1. d = confirmTwystNews(b, n) /\ Adds(n) /\ n.type # "comment"
        BY <1>3 DEF Handle, Adds
    <2> QED
        BY <2>1, ConfirmNews
<1>4. CASE n.type \notin {"unlike", "deletecomment", "Pass"} /\ n.sender = Me
    <2>1. d = b /\ ~Writes(n) /\ ~Ends(n) /\ n.type # "unlike"
        BY <1>4 DEF Handle, Adds, Writes, Ends
    <2> QED
        BY <2>1 DEF Follows
<1>5. CASE n.type = "comment" /\ n.sender # Me
    <2>1. d = confirmCommentTwyst(b, n)
        BY <1>5 DEF Handle
    <2> QED
        BY <1>5, <2>1, ConfirmComment
<1>6. CASE n.type \in {"Like", "Reply", "Follow"} /\ n.sender # Me
    <2>1. d = confirmTwystNews(b, n) /\ Adds(n) /\ n.type # "comment"
        BY <1>6 DEF Handle, Adds
    <2> QED
        BY <2>1, ConfirmNews
<1> QED
    BY <1>1, <1>2, <1>3, <1>4, <1>5, <1>6, NewsFacts

-----------------------------------------------------------------------------
(* The main queue                                                          *)

Half(kind, r) == [kind |-> kind, reply |-> r]

\* The replies of the blocks, and of those that tell of deletions.
RepliesOf(q) == {q[i].reply : i \in DOMAIN q}
NotesOf(q) == {q[i].reply : i \in {j \in DOMAIN q : q[j].kind = "notes"}}

\* The two blocks of a reply follow each other.
Paired(q) ==
    \A i \in DOMAIN q :
        /\ q[i].kind = "news"
              => /\ q[i].reply.news # {}
                 /\ q[i].reply.notes # {} /\ i # 1
                       => q[i - 1] = Half("notes", q[i].reply)
        /\ q[i].kind = "notes"
              => /\ q[i].reply.notes # {}
                 /\ q[i].reply.news # {}
                       => /\ i + 1 \in DOMAIN q
                          /\ q[i + 1] = Half("news", q[i].reply)

Empty(r) == r.notes = {} /\ r.news = {}

\* The parts of a block,
LEMMA BlockFacts ==
    ASSUME NEW k \in Block
    PROVE  /\ k.kind \in {"notes", "news"} /\ k.reply \in Reply
           /\ k = Half(k.kind, k.reply)
BY DEF Block, Half

\* and of a reply.
LEMMA ReplyFacts ==
    ASSUME NEW r \in Reply
    PROVE  /\ r.notes \in SUBSET Twysts /\ r.news \in SUBSET News
           /\ r.made \in Times /\ r.made \in Nat /\ r.kept \in BOOLEAN
BY DEF Reply, Times

\* The first block is run.
LEMMA QueueTail ==
    ASSUME NEW q \in Seq(Block), q # <<>>, Paired(q)
    PROVE  LET h == Head(q)
               t == Tail(q)
           IN  /\ h \in Block /\ t \in Seq(Block) /\ Len(t) = Len(q) - 1
               /\ Len(q) >= 1
               /\ Paired(t)
               /\ h.reply \in RepliesOf(q)
               /\ RepliesOf(q) = {h.reply} \cup RepliesOf(t)
               /\ h.kind = "news" => NotesOf(t) = NotesOf(q)
               /\ h.kind = "notes" => NotesOf(q) = {h.reply} \cup NotesOf(t)
               /\ h.kind = "news" => h.reply.news # {}
               /\ h.kind = "notes" => h.reply.notes # {}
               /\ h.kind = "notes" /\ h.reply.news # {}
                     => t # <<>> /\ Head(t) = Half("news", h.reply)
               /\ t # <<>> /\ Head(t).kind = "news" /\ Head(t).reply.notes # {}
                     => h = Half("notes", Head(t).reply)
<1> DEFINE h == Head(q)
           t == Tail(q)
<1>1. /\ h = q[1] /\ t \in Seq(Block) /\ Len(t) = Len(q) - 1
      /\ Len(q) \in Nat \ {0} /\ h \in Block
      /\ \A i \in 1 .. Len(q) - 1 : t[i] = q[i + 1]
      /\ t # <<>> => Head(t) = t[1] /\ Len(t) >= 1
    OBVIOUS
<1>2. DOMAIN q = 1 .. Len(q) /\ DOMAIN t = 1 .. Len(q) - 1
    BY <1>1
<1>3. \A i \in DOMAIN t : i + 1 \in DOMAIN q /\ t[i] = q[i + 1] /\ i + 1 # 1
    BY <1>1, <1>2
<1>4. \A i \in DOMAIN q : i # 1 => /\ i - 1 \in DOMAIN t
                                   /\ (i - 1) + 1 = i /\ t[i - 1] = q[i]
    BY <1>1, <1>2
<1>5. 1 \in DOMAIN q /\ (t # <<>> => 1 \in DOMAIN t /\ 2 \in DOMAIN q /\ t[1] = q[2])
    BY <1>1, <1>2
<1> HIDE DEF h, t
<1>6. Paired(t)
    <2> SUFFICES ASSUME NEW i \in DOMAIN t
                 PROVE  /\ t[i].kind = "news"
                              => /\ t[i].reply.news # {}
                                 /\ t[i].reply.notes # {} /\ i # 1
                                       => t[i - 1] = Half("notes", t[i].reply)
                        /\ t[i].kind = "notes"
                              => /\ t[i].reply.notes # {}
                                 /\ t[i].reply.news # {}
                                       => /\ i + 1 \in DOMAIN t
                                          /\ t[i + 1] = Half("news", t[i].reply)
        BY DEF Paired
    <2>1. i + 1 \in DOMAIN q /\ t[i] = q[i + 1] /\ i + 1 # 1 /\ i \in Nat
        BY <1>2, <1>3
    <2>2. (i + 1) - 1 = i
        BY <2>1
    <2>3. i # 1 => i - 1 \in DOMAIN t /\ t[i - 1] = q[i]
        BY <1>2, <1>3, <2>1
    <2>4. (i + 1) + 1 \in DOMAIN q => i + 1 \in DOMAIN t /\ t[i + 1] = q[(i + 1) + 1]
        BY <1>2, <1>3, <2>1
    <2> QED
        BY <2>1, <2>2, <2>3, <2>4 DEF Paired
<1>7. RepliesOf(q) = {h.reply} \cup RepliesOf(t)
    <2>1. ASSUME NEW i \in DOMAIN q
          PROVE  q[i].reply = h.reply \/ q[i].reply \in RepliesOf(t)
        <3>1. CASE i = 1
            BY <1>1, <3>1
        <3>2. CASE i # 1
            BY <1>4, <3>2 DEF RepliesOf
        <3> QED
            BY <3>1, <3>2
    <2>2. \A i \in DOMAIN t : t[i].reply \in RepliesOf(q)
        BY <1>3 DEF RepliesOf
    <2>3. h.reply \in RepliesOf(q)
        BY <1>1, <1>5 DEF RepliesOf
    <2>4. RepliesOf(q) \subseteq {h.reply} \cup RepliesOf(t)
        BY <2>1 DEF RepliesOf
    <2>5. RepliesOf(t) \subseteq RepliesOf(q)
        BY <2>2 DEF RepliesOf
    <2> QED
        BY <2>3, <2>4, <2>5
<1>8. /\ h.kind = "news" => NotesOf(t) = NotesOf(q)
      /\ h.kind = "notes" => NotesOf(q) = {h.reply} \cup NotesOf(t)
    <2>1. ASSUME NEW i \in DOMAIN q, q[i].kind = "notes"
          PROVE  \/ h.kind = "notes" /\ q[i].reply = h.reply
                 \/ q[i].reply \in NotesOf(t)
        <3>1. CASE i = 1
            BY <1>1, <2>1, <3>1
        <3>2. CASE i # 1
            BY <1>4, <2>1, <3>2 DEF NotesOf
        <3> QED
            BY <3>1, <3>2
    <2>2. \A i \in DOMAIN t : t[i].kind = "notes" => t[i].reply \in NotesOf(q)
        BY <1>3 DEF NotesOf
    <2>3. h.kind = "notes" => h.reply \in NotesOf(q)
        BY <1>1, <1>5 DEF NotesOf
    <2>4. /\ NotesOf(q) \subseteq {h.reply} \cup NotesOf(t)
          /\ h.kind # "notes" => NotesOf(q) \subseteq NotesOf(t)
        BY <2>1 DEF NotesOf
    <2>5. NotesOf(t) \subseteq NotesOf(q)
        BY <2>2 DEF NotesOf
    <2> QED
        BY <2>3, <2>4, <2>5
<1>9. h.reply \in RepliesOf(q)
    BY <1>7
<1>10. /\ h.kind = "news" => h.reply.news # {}
       /\ h.kind = "notes" => h.reply.notes # {}
    BY <1>1, <1>5 DEF Paired
<1>11. h.kind = "notes" /\ h.reply.news # {}
          => t # <<>> /\ Head(t) = Half("news", h.reply)
    <2> SUFFICES ASSUME h.kind = "notes", h.reply.news # {}
                 PROVE  t # <<>> /\ Head(t) = Half("news", h.reply)
        OBVIOUS
    <2>1. 1 + 1 \in DOMAIN q /\ q[1 + 1] = Half("news", h.reply)
        BY <1>1, <1>5 DEF Paired
    <2>2. t # <<>>
        BY <1>1, <1>2, <2>1
    <2> QED
        BY <1>1, <1>5, <2>1, <2>2
<1>12. t # <<>> /\ Head(t).kind = "news" /\ Head(t).reply.notes # {}
          => h = Half("notes", Head(t).reply)
    <2> SUFFICES ASSUME t # <<>>, Head(t).kind = "news", Head(t).reply.notes # {}
                 PROVE  h = Half("notes", Head(t).reply)
        OBVIOUS
    <2>1. Head(t) = q[2] /\ 2 \in DOMAIN q /\ 2 # 1 /\ 2 - 1 = 1
        BY <1>1, <1>5
    <2> QED
        BY <1>1, <2>1 DEF Paired
<1> QED
    BY <1>1, <1>6, <1>7, <1>8, <1>9, <1>10, <1>11, <1>12 DEF h, t

\* A block comes behind the others.
LEMMA QueueAppend ==
    ASSUME NEW q \in Seq(Block), NEW k \in Block
    PROVE  LET s == Append(q, k)
           IN  /\ s \in Seq(Block) /\ Len(s) = Len(q) + 1
               /\ RepliesOf(s) = RepliesOf(q) \cup {k.reply}
               /\ NotesOf(s) = IF k.kind = "notes" THEN NotesOf(q) \cup {k.reply}
                               ELSE NotesOf(q)
               /\ DOMAIN s = DOMAIN q \cup {Len(q) + 1}
               /\ s[Len(q) + 1] = k
               /\ \A i \in DOMAIN q : s[i] = q[i] /\ i # Len(q) + 1
               /\ s # <<>> /\ Head(s) = IF q = <<>> THEN k ELSE Head(q)
<1> DEFINE s == Append(q, k)
<1>1. /\ s \in Seq(Block) /\ Len(s) = Len(q) + 1 /\ Len(q) \in Nat
      /\ \A i \in 1 .. Len(q) : s[i] = q[i] /\ i # Len(q) + 1
      /\ s[Len(q) + 1] = k
      /\ q = <<>> <=> Len(q) = 0
      /\ q # <<>> => Head(q) = q[1]
      /\ Head(s) = s[1] /\ s # <<>>
    OBVIOUS
<1>2. DOMAIN s = 1 .. Len(q) + 1 /\ DOMAIN q = 1 .. Len(q)
    BY <1>1
<1>3. DOMAIN s = DOMAIN q \cup {Len(q) + 1}
    BY <1>1, <1>2
<1>4. Head(s) = IF q = <<>> THEN k ELSE Head(q)
    BY <1>1
<1> HIDE DEF s
<1>5. RepliesOf(s) = RepliesOf(q) \cup {k.reply}
    BY <1>1, <1>2, <1>3 DEF RepliesOf
<1>6. NotesOf(s) = IF k.kind = "notes" THEN NotesOf(q) \cup {k.reply}
                   ELSE NotesOf(q)
    <2>1. CASE k.kind = "notes"
        BY <1>1, <1>2, <1>3, <2>1 DEF NotesOf
    <2>2. CASE k.kind # "notes"
        BY <1>1, <1>2, <1>3, <2>2 DEF NotesOf
    <2> QED
        BY <2>1, <2>2
<1> QED
    BY <1>1, <1>2, <1>3, <1>4, <1>5, <1>6 DEF s

\* The queue with one block more,
LEMMA ConcatOne ==
    ASSUME NEW S, NEW q \in Seq(S), NEW a \in S
    PROVE  q \o <<a>> = Append(q, a)
OBVIOUS

\* with two,
LEMMA ConcatTwo ==
    ASSUME NEW S, NEW q \in Seq(S), NEW a \in S, NEW b \in S
    PROVE  q \o (<<a>> \o <<b>>) = Append(Append(q, a), b)
OBVIOUS

\* which are blocks of a reply.
LEMMA HalfFacts ==
    ASSUME NEW r \in Reply
    PROVE  /\ Half("notes", r) \in Block /\ Half("news", r) \in Block
           /\ Half("notes", r).kind = "notes" /\ Half("news", r).kind = "news"
           /\ Half("notes", r).reply = r /\ Half("news", r).reply = r
BY DEF Half, Block

\* The blocks of a reply come behind the others.
LEMMA QueueBlocks ==
    ASSUME NEW q \in Seq(Block), NEW r \in Reply, Paired(q)
    PROVE  LET s == q \o Blocks(r)
           IN  /\ s \in Seq(Block) /\ Paired(s)
               /\ RepliesOf(s) = IF Empty(r) THEN RepliesOf(q)
                                 ELSE RepliesOf(q) \cup {r}
               /\ NotesOf(s) = IF r.notes = {} THEN NotesOf(q)
                               ELSE NotesOf(q) \cup {r}
               /\ q # <<>> => s # <<>> /\ Head(s) = Head(q)
               /\ q = <<>> /\ s # <<>> /\ Head(s).kind = "news"
                     => Head(s).reply.notes = {}
<1> DEFINE s == q \o Blocks(r)
           a == Half("notes", r)
           b == Half("news", r)
           n == Len(q)
<1>1. /\ n \in Nat /\ DOMAIN q = 1 .. n
      /\ \A i \in DOMAIN q : i \in Nat /\ i - 1 # n + 1 /\ i # n + 1 /\ i # n + 2
      /\ n + 1 # 1 => n \in DOMAIN q /\ (n + 1) - 1 = n
      /\ n + 1 \notin DOMAIN q /\ n + 2 \notin DOMAIN q
    OBVIOUS
<1>2. /\ a \in Block /\ b \in Block /\ a.kind = "notes" /\ b.kind = "news"
      /\ a.reply = r /\ b.reply = r
    BY HalfFacts
<1>3. CASE r.notes = {} /\ r.news = {}
    <2>1. Blocks(r) = <<>> \o <<>>
        BY <1>3 DEF Blocks
    <2>2. s = q
        BY <2>1
    <2> QED
        BY <1>3, <2>2 DEF Empty
<1>4. CASE r.notes # {} /\ r.news = {}
    <2>1. Blocks(r) = <<a>> \o <<>>
        BY <1>4 DEF Blocks, Half
    <2>2. s = q \o <<a>>
        BY <1>2, <2>1
    <2>3. s = Append(q, a)
        BY <1>2, <2>2, ConcatOne
    <2> HIDE DEF s, a, b, n
    <2>4. /\ s \in Seq(Block)
          /\ RepliesOf(s) = RepliesOf(q) \cup {r} /\ NotesOf(s) = NotesOf(q) \cup {r}
          /\ DOMAIN s = DOMAIN q \cup {n + 1} /\ s[n + 1] = a
          /\ \A i \in DOMAIN q : s[i] = q[i]
          /\ s # <<>> /\ Head(s) = IF q = <<>> THEN a ELSE Head(q)
        BY <1>2, <2>3, QueueAppend DEF n
    <2>5. Paired(s)
        <3> SUFFICES ASSUME NEW i \in DOMAIN s
                     PROVE  /\ s[i].kind = "news"
                                  => /\ s[i].reply.news # {}
                                     /\ s[i].reply.notes # {} /\ i # 1
                                           => s[i - 1] = Half("notes", s[i].reply)
                            /\ s[i].kind = "notes"
                                  => /\ s[i].reply.notes # {}
                                     /\ s[i].reply.news # {}
                                           => /\ i + 1 \in DOMAIN s
                                              /\ s[i + 1] = Half("news", s[i].reply)
            BY DEF Paired
        <3>1. CASE i = n + 1
            BY <1>2, <1>4, <2>4, <3>1
        <3>2. CASE i \in DOMAIN q
            <4>1. i # 1 => i - 1 \in DOMAIN q
                BY <1>1, <3>2
            <4> QED
                BY <2>4, <3>2, <4>1 DEF Paired
        <3> QED
            BY <2>4, <3>1, <3>2
    <2> QED
        BY <1>2, <1>4, <2>4, <2>5 DEF s, Empty
<1>5. CASE r.notes = {} /\ r.news # {}
    <2>1. Blocks(r) = <<>> \o <<b>>
        BY <1>5 DEF Blocks, Half
    <2>2. s = q \o <<b>>
        BY <1>2, <2>1
    <2>3. s = Append(q, b)
        BY <1>2, <2>2, ConcatOne
    <2> HIDE DEF s, a, b, n
    <2>4. /\ s \in Seq(Block)
          /\ RepliesOf(s) = RepliesOf(q) \cup {r} /\ NotesOf(s) = NotesOf(q)
          /\ DOMAIN s = DOMAIN q \cup {n + 1} /\ s[n + 1] = b
          /\ \A i \in DOMAIN q : s[i] = q[i]
          /\ s # <<>> /\ Head(s) = IF q = <<>> THEN b ELSE Head(q)
        BY <1>2, <2>3, QueueAppend DEF n
    <2>5. Paired(s)
        <3> SUFFICES ASSUME NEW i \in DOMAIN s
                     PROVE  /\ s[i].kind = "news"
                                  => /\ s[i].reply.news # {}
                                     /\ s[i].reply.notes # {} /\ i # 1
                                           => s[i - 1] = Half("notes", s[i].reply)
                            /\ s[i].kind = "notes"
                                  => /\ s[i].reply.notes # {}
                                     /\ s[i].reply.news # {}
                                           => /\ i + 1 \in DOMAIN s
                                              /\ s[i + 1] = Half("news", s[i].reply)
            BY DEF Paired
        <3>1. CASE i = n + 1
            BY <1>2, <1>5, <2>4, <3>1
        <3>2. CASE i \in DOMAIN q
            <4>1. i # 1 => i - 1 \in DOMAIN q
                BY <1>1, <3>2
            <4> QED
                BY <2>4, <3>2, <4>1 DEF Paired
        <3> QED
            BY <2>4, <3>1, <3>2
    <2> QED
        BY <1>2, <1>5, <2>4, <2>5 DEF s, Empty
<1>6. CASE r.notes # {} /\ r.news # {}
    <2> DEFINE t == Append(q, a)
    <2>1. Blocks(r) = <<a>> \o <<b>>
        BY <1>6 DEF Blocks, Half
    <2>2. s = Append(t, b)
        <3>1. s = q \o (<<a>> \o <<b>>)
            BY <2>1
        <3> QED
            BY <1>2, <3>1, ConcatTwo
    <2> HIDE DEF s, a, b, t, n
    <2>3. /\ t \in Seq(Block) /\ Len(t) = n + 1
          /\ RepliesOf(t) = RepliesOf(q) \cup {r} /\ NotesOf(t) = NotesOf(q) \cup {r}
          /\ DOMAIN t = DOMAIN q \cup {n + 1} /\ t[n + 1] = a
          /\ \A i \in DOMAIN q : t[i] = q[i]
          /\ t # <<>> /\ Head(t) = IF q = <<>> THEN a ELSE Head(q)
        BY <1>2, QueueAppend DEF n, t
    <2>4. /\ s \in Seq(Block)
          /\ RepliesOf(s) = RepliesOf(t) \cup {r} /\ NotesOf(s) = NotesOf(t)
          /\ DOMAIN s = DOMAIN t \cup {Len(t) + 1} /\ s[Len(t) + 1] = b
          /\ \A i \in DOMAIN t : s[i] = t[i]
          /\ s # <<>> /\ Head(s) = Head(t)
        BY <1>2, <2>2, <2>3, QueueAppend
    <2>5. /\ DOMAIN s = DOMAIN q \cup {n + 1, n + 2}
          /\ s[n + 1] = a /\ s[n + 2] = b
          /\ \A i \in DOMAIN q : s[i] = q[i]
        <3>1. Len(t) + 1 = n + 2
            BY <1>1, <2>3
        <3> QED
            BY <2>3, <2>4, <3>1
    <2>6. Paired(s)
        <3> SUFFICES ASSUME NEW i \in DOMAIN s
                     PROVE  /\ s[i].kind = "news"
                                  => /\ s[i].reply.news # {}
                                     /\ s[i].reply.notes # {} /\ i # 1
                                           => s[i - 1] = Half("notes", s[i].reply)
                            /\ s[i].kind = "notes"
                                  => /\ s[i].reply.notes # {}
                                     /\ s[i].reply.news # {}
                                           => /\ i + 1 \in DOMAIN s
                                              /\ s[i + 1] = Half("news", s[i].reply)
            BY DEF Paired
        <3>1. CASE i = n + 1
            <4>1. i + 1 = n + 2
                BY <1>1, <3>1
            <4> QED
                BY <1>2, <1>6, <2>5, <3>1, <4>1 DEF a, b
        <3>2. CASE i = n + 2
            <4>1. i - 1 = n + 1
                BY <1>1, <3>2
            <4> QED
                BY <1>2, <1>6, <2>5, <3>2, <4>1 DEF a, b
        <3>3. CASE i \in DOMAIN q
            <4>1. i # 1 => i - 1 \in DOMAIN q
                BY <1>1, <3>3
            <4> QED
                BY <2>5, <3>3, <4>1 DEF Paired
        <3> QED
            BY <2>5, <3>1, <3>2, <3>3
    <2> QED
        BY <1>2, <1>6, <2>3, <2>4, <2>6 DEF s, Empty
<1> QED
    BY <1>3, <1>4, <1>5, <1>6, ReplyFacts

-----------------------------------------------------------------------------
(* Types                                                                   *)

\* No more was commented than happened.
CountInv == \A t \in Twysts : comments[t] <= clock

\* Numbers of news are finitely many.
LEMMA IdsFinite ==
    ASSUME NEW S \in SUBSET Ids
    PROVE  IsFiniteSet(S) /\ Cardinality(S) \in Nat
<1>1. IsFiniteSet(Ids)
    BY FS_Interval DEF Ids
<1>2. IsFiniteSet(S)
    BY <1>1, FS_Subset
<1> QED
    BY <1>2, FS_CardinalityType

\* Rows with different news: no more are fetched than were asked for.
LEMMA FetchedFew ==
    ASSUME NEW rs \in Tables,
           \A o, p \in DOMAIN rs : rs[o].newsId = rs[p].newsId => o = p
    PROVE  Cardinality(getAllNews(rs)) <= FetchLimit
<1> DEFINE L == getAllNews(rs)
           less == {x \in Nat \X Nat : x[1] < x[2]}
           used == {rs[o].newsId : o \in L}
<1>1. L \subseteq DOMAIN rs /\ DOMAIN rs \subseteq Ids
      /\ \A o \in DOMAIN rs : rs[o].newsId \in Nat
    BY TableFacts DEF getAllNews, Newest, Ids
<1>2. \A o \in L : Cardinality({p \in DOMAIN rs : rs[p].newsId > rs[o].newsId})
                       < FetchLimit
    BY DEF getAllNews, Newest
<1> HIDE DEF L
<1>3. CASE L = {}
    BY <1>3, FS_EmptySet DEF L
<1>4. CASE L # {}
    <2>1. IsWellFoundedOn(less, Nat)
        BY NatLessThanWellFounded DEF OpToRel
    <2>2. used \subseteq Nat /\ used # {}
        BY <1>1, <1>4
    <2> HIDE DEF used
    <2>3. PICK x \in used : \A y \in used : <<y, x>> \notin less
        <3> HIDE DEF less
        <3> QED
            BY <2>1, <2>2, WFMin
    <2>4. PICK o \in L : x = rs[o].newsId
        BY DEF used
    <2> DEFINE above == {p \in DOMAIN rs : rs[p].newsId > rs[o].newsId}
    <2>5. ASSUME NEW p \in L, p # o
          PROVE  p \in above
        <3>1. rs[p].newsId # rs[o].newsId /\ rs[p].newsId \in Nat
              /\ rs[o].newsId \in Nat /\ rs[p].newsId \in used
            BY <1>1, <2>5 DEF used
        <3>2. ~(rs[p].newsId < rs[o].newsId)
            BY <2>3, <2>4, <3>1
        <3> QED
            BY <1>1, <3>1, <3>2
    <2>6. above \subseteq Ids /\ o \notin above /\ o \in Ids
        BY <1>1
    <2>7. IsFiniteSet(above) /\ Cardinality(above) \in Nat
        BY <2>6, IdsFinite
    <2>8. Cardinality(above) < FetchLimit
        BY <1>2
    <2> HIDE DEF above
    <2>9. Cardinality(above \cup {o}) = Cardinality(above) + 1
          /\ IsFiniteSet(above \cup {o})
        BY <2>6, <2>7, FS_AddElement
    <2>10. L \subseteq above \cup {o}
        BY <2>5
    <2>11. Cardinality(L) <= Cardinality(above \cup {o}) /\ Cardinality(L) \in Nat
        BY <2>9, <2>10, FS_Subset, FS_CardinalityType
    <2> QED
        BY <2>7, <2>8, <2>9, <2>11 DEF L
<1> QED
    BY <1>3, <1>4

\* What the screen lists is in the store.
LEMMA FetchedRows ==
    ASSUME NEW rs \in Tables
    PROVE  getAllNews(rs) \subseteq DOMAIN rs /\ getAllNews(rs) \in SUBSET Ids
BY TableFacts DEF getAllNews, Newest

\* The badge is a number.
LEMMA BadgedCount ==
    ASSUME NEW rs \in Tables, NEW objs
    PROVE  Cardinality(Badged(rs, objs)) \in Nat /\ IsFiniteSet(Badged(rs, objs))
<1>1. Badged(rs, objs) \in SUBSET Ids
    BY TableFacts DEF Badged
<1> QED
    BY <1>1, IdsFinite

\* The item of some news that has this id is one of them.
LEMMA ChosenNews ==
    ASSUME NEW news, NEW i, \E n \in news : n.id = i
    PROVE  /\ (CHOOSE n \in news : n.id = i) \in news
           /\ (CHOOSE n \in news : n.id = i).id = i
OBVIOUS

\* What the news of a reply keep, one by one, holds when they are handled.
LEMMA HandledKeeps ==
    ASSUME NEW b \in Boards, NEW news \in SUBSET News, NEW S, <<0, b>> \in S,
           \A i \in 1 .. MaxEvents : \A c \in Boards :
              <<i - 1, c>> \in S
                 => /\ ~(\E n \in news : n.id = i) => <<i, c>> \in S
                    /\ \A n \in news : \A d :
                          n.id = i /\ Follows(c, n, d) => <<i, d>> \in S
    PROVE  <<MaxEvents, Handled(b, news)>> \in S /\ Handled(b, news) \in Boards
<1> DEFINE Both == {p \in (0 .. MaxEvents) \X Boards : p \in S}
<1>1. <<0, b>> \in Both
    OBVIOUS
<1>2. ASSUME NEW i \in 1 .. MaxEvents, NEW c, <<i - 1, c>> \in Both
      PROVE  IF \E n \in news : n.id = i
             THEN <<i, Handle(c, CHOOSE n \in news : n.id = i)>> \in Both
             ELSE <<i, c>> \in Both
    <2>1. c \in Boards /\ <<i - 1, c>> \in S /\ i \in 0 .. MaxEvents
        BY <1>2
    <2>2. CASE \E n \in news : n.id = i
        <3> DEFINE n == CHOOSE x \in news : x.id = i
                   d == Handle(c, n)
        <3>1. n \in News /\ n \in news /\ n.id = i
            BY <2>2, ChosenNews
        <3> HIDE DEF n, d
        <3>2. Follows(c, n, d)
            BY <2>1, <3>1, HandleFollows DEF d
        <3>3. d \in Boards
            BY <3>2 DEF Follows
        <3>4. <<i, d>> \in Both
            BY <2>1, <3>1, <3>2, <3>3
        <3> QED
            BY <2>2, <3>4 DEF d, n
    <2>3. CASE ~ \E n \in news : n.id = i
        BY <2>1, <2>3
    <2> QED
        BY <2>2, <2>3
<1> HIDE DEF Both
<1>3. <<MaxEvents, Handled(b, news)>> \in Both
    BY <1>1, <1>2, HandledInduction
<1> QED
    BY <1>3 DEF Both

\* The rows stay rows, and those that the news came for are badged.
LEMMA HandledBoard ==
    ASSUME NEW rs \in Tables, NEW news \in SUBSET News
    PROVE  LET d == Handled([rows |-> rs, fresh |-> {}], news)
           IN  /\ d \in Boards /\ d.rows \in Tables /\ d.fresh \in SUBSET Ids
               /\ d.fresh \subseteq DOMAIN d.rows
               /\ \A o \in d.fresh : d.rows[o].badge
<1> DEFINE b == [rows |-> rs, fresh |-> {}]
           Good(c) == /\ c.fresh \subseteq DOMAIN c.rows
                      /\ \A o \in c.fresh : c.rows[o].badge
           S == {p \in (0 .. MaxEvents) \X Boards : Good(p[2])}
<1>1. <<0, b>> \in S /\ b \in Boards
    BY DEF Boards
<1>2. ASSUME NEW i \in 1 .. MaxEvents, NEW c \in Boards, <<i - 1, c>> \in S
      PROVE  /\ <<i, c>> \in S
             /\ \A n \in news : \A d : n.id = i /\ Follows(c, n, d) => <<i, d>> \in S
    <2>1. Good(c) /\ i \in 0 .. MaxEvents
        BY <1>2
    <2>2. ASSUME NEW n \in news, NEW d, Follows(c, n, d)
          PROVE  <<i, d>> \in S
        <3>1. d \in Boards /\ d.fresh \subseteq DOMAIN d.rows
            BY <2>1, <2>2 DEF Follows
        <3>2. ASSUME NEW o \in d.fresh
              PROVE  d.rows[o].badge
            <4>1. o \in DOMAIN d.rows
                BY <3>1
            <4>2. CASE o \in DOMAIN c.rows /\ d.rows[o] = c.rows[o] /\ o \in c.fresh
                BY <2>1, <4>2
            <4>3. CASE /\ o \in CommentRows(c, n.twyst) /\ o \in c.fresh
                       /\ d.rows[o] = [c.rows[o] EXCEPT !.sender = n.sender]
                <5>1. c.rows \in Tables /\ o \in DOMAIN c.rows
                    BY <4>3 DEF Boards, CommentRows
                <5>2. c.rows[o] \in Row
                    BY <5>1, TableFacts
                <5>3. d.rows[o].badge = c.rows[o].badge
                    BY <4>3, <5>2 DEF Row
                <5> QED
                    BY <2>1, <4>3, <5>3
            <4>4. CASE d.rows[o] = FreshRow(n)
                BY <4>4 DEF FreshRow, NewRow
            <4> QED
                BY <2>2, <4>1, <4>2, <4>3, <4>4 DEF Follows
        <3> QED
            BY <2>1, <3>1, <3>2
    <2> QED
        BY <2>1, <2>2
<1> HIDE DEF S, b
<1>3. <<MaxEvents, Handled(b, news)>> \in S /\ Handled(b, news) \in Boards
    BY <1>1, <1>2, HandledKeeps
<1>4. Good(Handled(b, news))
    BY <1>3 DEF S
<1> QED
    BY <1>3, <1>4 DEF b, Boards

\* Numbers in the bounds.
LEMMA Numbers ==
    ASSUME Typed
    PROVE  /\ clock \in Nat /\ clock <= MaxEvents /\ applied \in Nat
           /\ due \in Nat /\ sent \in Nat /\ Len(replies) \in Nat
           /\ Len(mainQueue) \in Nat
           /\ due + sent + Len(replies) <= MaxChecks
           /\ (clock < MaxEvents => clock + 1 \in Times /\ clock + 1 \in Ids)
BY DEF Typed, Times, Ids

\* Rows that are left are a mishap.
LEMMA LeftoverTyped ==
    ASSUME NEW ts
    PROVE  Leftover(ts) \in SUBSET Mishaps /\ {} \in SUBSET Mishaps
BY DEF Leftover, Mishaps

\* A reply's block is run by one of two handlers.
LEMMA BlockTaken ==
    ASSUME twystNewsDidReceive \/ notificationDidReceive
    PROVE  \E kind \in {"notes", "news"}, met \in SUBSET Mishaps : Take(kind, met)
<1>1. CASE twystNewsDidReceive
    <2>1. Take("news", {})
        BY <1>1 DEF twystNewsDidReceive
    <2> QED
        BY <2>1
<1>2. CASE notificationDidReceive
    <2> DEFINE met == Leftover(Head(mainQueue).reply.notes)
    <2>1. Take("notes", met) /\ met \in SUBSET Mishaps
        BY <1>2, LeftoverTyped DEF notificationDidReceive
    <2> QED
        BY <2>1
<1> QED
    BY <1>1, <1>2

\* The first block is run.
LEMMA TakeFacts ==
    ASSUME Typed, NEW kind, NEW met \in SUBSET Mishaps, Take(kind, met)
    PROVE  LET h == Head(mainQueue)
           IN  /\ h \in Block /\ h.reply \in Reply /\ h.kind = kind
               /\ mainQueue' \in Seq(Block)
               /\ applied' \in Times
               /\ mishaps' \in SUBSET Mishaps
<1> DEFINE h == Head(mainQueue)
<1>1. mainQueue \in Seq(Block) /\ mainQueue # <<>> /\ mainQueue' = Tail(mainQueue)
      /\ h.kind = kind
    BY DEF Typed, Take
<1>2. h \in Block /\ mainQueue' \in Seq(Block)
    BY <1>1
<1>3. h.reply \in Reply
    BY <1>2, BlockFacts
<1>4. h.reply.made \in Nat /\ applied \in Nat /\ h.reply.made \in Times /\ applied \in Times
    BY <1>3, ReplyFacts DEF Typed, Times
<1>5. Max({applied, h.reply.made}) \in Times
    BY <1>4, MaxOfTwo
<1>6. applied' \in Times
    BY <1>4, <1>5 DEF Take
<1>7. mishaps' \in SUBSET Mishaps
    BY DEF Take, Mishaps, Typed
<1> QED
    BY <1>1, <1>2, <1>3, <1>6, <1>7

\* Types are kept by what happens at the server,
LEMMA NewsTyped ==
    ASSUME Typed, CountInv, NEW t \in Twysts, NEW type \in Types,
           NEW s \in Senders, ServerNews(type, t, s)
    PROVE  Typed' /\ CountInv'
<1> DEFINE item == [id |-> clock + 1, type |-> type, twyst |-> t, sender |-> s]
           new == [id |-> clock + 1, type |-> type, twyst |-> t, sender |-> s,
                   count |-> 0]
<1>1. clock < MaxEvents /\ clock' = clock + 1 /\ clock + 1 \in Times /\ clock + 1 \in Ids
    BY Numbers DEF ServerNews, ServerStep
<1>2. item \in Standing /\ new \in News
    BY <1>1 DEF Standing, News, Ids, Times
<1>3. feed' \in SUBSET Standing
    <2>1. feed \in SUBSET Standing
        BY DEF Typed
    <2> HIDE DEF item
    <2>2. feed' \subseteq feed \cup {item}
        BY DEF ServerNews, Happens, About, item
    <2> QED
        BY <1>2, <2>1, <2>2
<1>4. comments' \in [Twysts -> Times] /\ \A x \in Twysts : comments'[x] <= clock'
    <2>1. /\ comments \in [Twysts -> Times] /\ comments[t] \in Nat
          /\ \A x \in Twysts : comments[x] \in Nat /\ comments[x] <= clock
          /\ clock \in Nat
        BY Numbers DEF Typed, CountInv, Times
    <2>2. CASE comments' = comments
        BY <1>1, <2>1, <2>2
    <2>3. CASE comments' = [comments EXCEPT ![t] = @ + 1]
        <3>1. comments[t] + 1 \in Times
            BY <1>1, <2>1 DEF Times
        <3> QED
            BY <1>1, <2>1, <2>3, <3>1
    <2>4. CASE comments' = [comments EXCEPT ![t] = @ - 1] /\ comments[t] > 0
        <3>1. comments[t] - 1 \in Times /\ comments[t] - 1 <= clock
            BY <2>1, <2>4 DEF Times, Typed
        <3> QED
            BY <1>1, <2>1, <2>4, <3>1
    <2> QED
        BY <2>2, <2>3, <2>4 DEF ServerNews, Happens
<1>5. mailbox' \in [notes : SUBSET Twysts, news : SUBSET News]
    <2>1. mailbox \in [notes : SUBSET Twysts, news : SUBSET News]
        BY DEF Typed
    <2> HIDE DEF new
    <2>2. mailbox' = [mailbox EXCEPT !.news = @ \cup {new}]
        BY DEF ServerNews, new
    <2> QED
        BY <1>2, <2>1, <2>2
<1>6. mishaps' \in SUBSET Mishaps
    BY DEF Typed, ServerNews, Mishaps
<1> QED
    BY <1>1, <1>3, <1>4, <1>5, <1>6
    DEF Typed, CountInv, ServerNews, ServerStep, checkVars, boardVars, viewVars

\* by deletions there,
LEMMA DeletedTyped ==
    ASSUME Typed, CountInv, NEW t \in Twysts, FriendDeletes(t) \/ UserDeletes(t)
    PROVE  Typed' /\ CountInv'
<1>1. PICK notes \in SUBSET Twysts : Deleted(t, notes)
    BY DEF FriendDeletes, UserDeletes
<1>2. clock < MaxEvents /\ clock' = clock + 1 /\ clock + 1 \in Times /\ clock + 1 \in Ids
    BY <1>1, Numbers DEF Deleted, ServerStep
<1>3. feed' \in SUBSET Standing /\ gone' \in SUBSET Twysts /\ comments' = comments
    BY <1>1 DEF Typed, Deleted
<1>4. CountInv'
    <2>1. \A x \in Twysts : comments[x] \in Nat /\ comments[x] <= clock
        BY DEF Typed, CountInv, Times
    <2> QED
        BY <1>2, <1>3, <2>1, Numbers DEF CountInv
<1>5. mailbox' \in [notes : SUBSET Twysts, news : SUBSET News]
      /\ mishaps' \in SUBSET Mishaps
    <2>1. mailbox.notes \in SUBSET Twysts /\ mailbox.news \in SUBSET News
        BY DEF Typed
    <2> QED
        BY <1>1, <2>1 DEF Deleted, NewsOfOthers, Mishaps, Typed
<1>6. leaving' \in SUBSET (Twysts \X Times)
    BY <1>2 DEF Typed, FriendDeletes, UserDeletes
<1> QED
    BY <1>1, <1>2, <1>3, <1>4, <1>5, <1>6
    DEF Typed, Deleted, ServerStep, checkVars, boardVars, viewVars

\* by a check up to its request,
LEMMA CheckTyped ==
    ASSUME Typed, CountInv,
           Tick \/ CheckManually \/ Send \/ RequestFails
    PROVE  Typed' /\ CountInv'
<1>1. /\ due' \in 0 .. MaxChecks /\ sent' \in 0 .. MaxChecks
      /\ due' + sent' + Len(replies) <= MaxChecks
      /\ waiting' \in BOOLEAN
    <2>1. CASE Tick \/ CheckManually
        BY <2>1, Numbers
        DEF Tick, CheckManually, CheckNotification, Checks, Typed
    <2>2. CASE Send
        BY <2>2, Numbers DEF Send, Typed
    <2>3. CASE RequestFails
        <3>1. due' = due /\ sent' = sent - 1 /\ sent > 0 /\ waiting' = FALSE
            BY <2>3 DEF RequestFails
        <3>2. /\ due \in Nat /\ sent \in Nat /\ Len(replies) \in Nat
              /\ due + sent + Len(replies) <= MaxChecks
            BY Numbers
        <3>3. sent - 1 \in Nat
            BY <3>1, <3>2
        <3>4. due' \in 0 .. MaxChecks /\ sent' \in 0 .. MaxChecks
            BY <3>1, <3>2, <3>3
        <3>5. due' + sent' + Len(replies) <= MaxChecks
            BY <3>1, <3>2, <3>3
        <3> QED
            BY <3>1, <3>4, <3>5
    <2> QED
        BY <2>1, <2>2, <2>3
<1>2. /\ UNCHANGED <<clock, feed, comments, gone, leaving, boardVars, viewVars,
                     restarts, applied>>
      /\ UNCHANGED <<mailbox, replies, mainQueue, mishaps>>
    BY DEF Tick, CheckManually, CheckNotification, Send, RequestFails, CheckStep
<1> QED
    BY <1>1, <1>2 DEF Typed, CountInv, boardVars, viewVars

\* What a reply takes from the mailbox.
NewsNow(n) == [n EXCEPT !.count = comments[n.twyst]]
ReplyNow(kept) ==
    [notes |-> mailbox.notes, news |-> {NewsNow(n) : n \in mailbox.news},
     made |-> clock, kept |-> kept]

\* A reply as it is made is a reply.
LEMMA ReplyNowFacts ==
    ASSUME Typed, NEW kept \in BOOLEAN
    PROVE  ReplyNow(kept) \in Reply
<1>1. mailbox.notes \in SUBSET Twysts /\ mailbox.news \in SUBSET News
      /\ clock \in Times
    BY DEF Typed
<1>2. ASSUME NEW n \in mailbox.news
      PROVE  NewsNow(n) \in News
    <2>1. comments[n.twyst] \in Times /\ n \in News
        BY <1>1, NewsFacts DEF Typed
    <2> QED
        BY <2>1 DEF NewsNow, News
<1>3. {NewsNow(n) : n \in mailbox.news} \in SUBSET News
    BY <1>2
<1> QED
    BY <1>1, <1>3 DEF ReplyNow, Reply

\* The server answers.
LEMMA AnswerFacts ==
    ASSUME Typed, Answer
    PROVE  \E kept \in BOOLEAN :
              /\ replies' = Append(replies, ReplyNow(kept))
              /\ mailbox' = IF kept THEN mailbox ELSE [notes |-> {}, news |-> {}]
BY DEF Answer, ReplyNow, NewsNow

\* Types are kept by replies that are made, lost or arrive,
LEMMA RepliesTyped ==
    ASSUME Typed, CountInv,
           \/ Answer
           \/ \E i \in DOMAIN replies : ReplyLost(i) \/ ReplyArrives(i)
    PROVE  Typed' /\ CountInv'
<1>0. replies \in Seq(Reply) /\ mainQueue \in Seq(Block)
    BY DEF Typed
<1>1. CASE Answer
    <2>1. PICK kept \in BOOLEAN :
              /\ replies' = Append(replies, ReplyNow(kept))
              /\ mailbox' = IF kept THEN mailbox ELSE [notes |-> {}, news |-> {}]
        BY <1>1, AnswerFacts
    <2>2. replies' \in Seq(Reply) /\ Len(replies') = Len(replies) + 1
        BY <1>0, <2>1, ReplyNowFacts
    <2>3. mailbox' \in [notes : SUBSET Twysts, news : SUBSET News]
        BY <2>1 DEF Typed
    <2>4. sent' \in 0 .. MaxChecks /\ due' = due /\ due' + sent' + Len(replies') <= MaxChecks
        BY <1>1, <2>2, Numbers DEF Answer, Typed
    <2> QED
        BY <1>1, <2>2, <2>3, <2>4
        DEF Typed, CountInv, Answer, CheckStep, boardVars, viewVars
<1>2. ASSUME NEW i \in DOMAIN replies, ReplyLost(i) \/ ReplyArrives(i)
      PROVE  Typed' /\ CountInv'
    <2>1. replies' = RemoveAt(replies, i)
        BY <1>2 DEF ReplyLost, ReplyArrives
    <2>2. replies' \in Seq(Reply) /\ Len(replies') = Len(replies) - 1
        BY <1>0, <2>1, RemoveAtElements
    <2>3. due' + sent' + Len(replies') <= MaxChecks /\ due' = due /\ sent' = sent
          /\ waiting' = FALSE
        BY <1>2, <2>2, Numbers DEF ReplyLost, ReplyArrives
    <2>4. CASE ReplyLost(i)
        <3>1. mishaps' \in SUBSET Mishaps
            BY <2>4 DEF ReplyLost, Mishaps, Typed
        <3> QED
            BY <2>2, <2>3, <2>4, <3>1
            DEF Typed, CountInv, ReplyLost, CheckStep, boardVars, viewVars
    <2>5. CASE ReplyArrives(i)
        <3>1. replies[i] \in Reply
            BY <1>0
        <3>2. Blocks(replies[i]) \in Seq(Block)
            <4>1. Half("notes", replies[i]) \in Block /\ Half("news", replies[i]) \in Block
                BY <3>1, HalfFacts
            <4> QED
                BY <4>1 DEF Blocks, Half
        <3>3. mainQueue' \in Seq(Block)
            BY <1>0, <2>5, <3>2 DEF ReplyArrives
        <3> QED
            BY <2>2, <2>3, <2>5, <3>3
            DEF Typed, CountInv, ReplyArrives, CheckStep, boardVars, viewVars
    <2> QED
        BY <1>2, <2>4, <2>5
<1> QED
    BY <1>1, <1>2

\* What is left of the rows is a table.
LEMMA RestTyped ==
    ASSUME NEW D \in SUBSET Ids, NEW rs \in Tables, D \subseteq DOMAIN rs,
           rows' = [o \in D |-> rs[o]]
    PROVE  rows' \in Tables /\ DOMAIN rows' = D
<1>1. \A o \in D : rs[o] \in Row
    BY TableFacts
<1>2. rows' = [o \in D |-> rows'[o]] /\ \A o \in D : rows'[o] \in Row
    BY <1>1
<1> QED
    BY <1>2, IsTable

\* Types are kept by the blocks and by answers to deletions,
LEMMA BoardTyped ==
    ASSUME Typed, CountInv, Board
    PROVE  Typed' /\ CountInv'
<1>0. rows \in Tables /\ unseen \in SUBSET Ids /\ list \in SUBSET Ids
    BY DEF Typed, Ids
<1>1. CASE twystNewsDidReceive
    <2> DEFINE news == Head(mainQueue).reply.news
               b == Handled([rows |-> rows, fresh |-> {}], news)
    <2>1. Take("news", {})
        BY <1>1 DEF twystNewsDidReceive
    <2>2. /\ news \in SUBSET News /\ mainQueue' \in Seq(Block)
          /\ applied' \in Times /\ mishaps' \in SUBSET Mishaps
        BY <2>1, TakeFacts, ReplyFacts, LeftoverTyped
    <2>3. /\ rows' = b.rows /\ list' = getAllNews(rows')
          /\ badge' = IF screen = "top" THEN badge
                      ELSE Cardinality(Badged(rows', list'))
          /\ unseen' = IF screen = "top" THEN (unseen \cap DOMAIN rows') \ list'
                       ELSE (unseen \cap DOMAIN rows') \cup b.fresh
          /\ revived' = revived \cup (PreDownloads(news) \cap dropped)
          /\ UNCHANGED <<tapped, dropped, leaving>>
        BY <1>1 DEF twystNewsDidReceive
    <2> HIDE DEF news
    <2>4. b.rows \in Tables /\ b.fresh \in SUBSET Ids
        BY <1>0, <2>2, HandledBoard
    <2> HIDE DEF b
    <2>5. rows' \in Tables /\ list' \in SUBSET Ids
        BY <2>3, <2>4, FetchedRows
    <2>6. badge' \in Nat
        BY <2>3, <2>5, BadgedCount DEF Typed
    <2>7. unseen' \in SUBSET Ids
        BY <1>0, <2>3, <2>4
    <2>8. revived' \in SUBSET dropped'
        BY <2>3 DEF Typed
    <2> QED
        BY <2>1, <2>2, <2>3, <2>5, <2>6, <2>7, <2>8
        DEF Typed, CountInv, Take, serverVars, viewVars, Ids
<1>2. ASSUME NEW ts \in SUBSET Twysts, deleteNewsWithTwystId(ts)
      PROVE  /\ rows' \in Tables /\ unseen' \in SUBSET Ids
             /\ dropped' \in SUBSET Twysts /\ revived' \in SUBSET dropped'
             /\ list' = list /\ badge' = badge /\ tapped' = tapped
    <2> DEFINE D == DOMAIN rows \ Fetched(ts)
    <2>1. rows' = [o \in D |-> rows[o]]
        BY <1>2 DEF deleteNewsWithTwystId
    <2>2. D \subseteq DOMAIN rows /\ D \in SUBSET Ids
        BY <1>0, TableFacts
    <2> HIDE DEF D
    <2>3. rows' \in Tables
        BY <1>0, <2>1, <2>2, RestTyped
    <2> QED
        BY <1>0, <1>2, <2>3 DEF deleteNewsWithTwystId, Typed
<1>3. CASE notificationDidReceive
    <2>1. /\ Take("notes", Leftover(Head(mainQueue).reply.notes))
          /\ deleteNewsWithTwystId(Head(mainQueue).reply.notes) /\ leaving' = leaving
        BY <1>3 DEF notificationDidReceive
    <2>2. /\ Head(mainQueue).reply.notes \in SUBSET Twysts
          /\ mainQueue' \in Seq(Block)
          /\ applied' \in Times /\ mishaps' \in SUBSET Mishaps
        BY <2>1, TakeFacts, ReplyFacts, LeftoverTyped
    <2>3. UNCHANGED <<serverVars, waiting, due, sent, replies, viewVars, restarts>>
        BY <2>1 DEF Take
    <2> QED
        BY <1>2, <2>1, <2>2, <2>3 DEF Typed, CountInv, serverVars, viewVars, Ids
<1>4. ASSUME NEW t \in Twysts, NEW made \in Times, DeletionAnswered(t, made)
      PROVE  Typed' /\ CountInv'
    <2>1. deleteNewsWithTwystId({t})
        BY <1>4 DEF DeletionAnswered
    <2>2. leaving' \in SUBSET (Twysts \X Times)
        BY <1>4 DEF DeletionAnswered, Typed
    <2>3. mishaps' \in SUBSET Mishaps
        <3>1. Leftover({t}) \in SUBSET Mishaps /\ mishaps \in SUBSET Mishaps
            BY LeftoverTyped DEF Typed
        <3>2. mishaps' = mishaps \cup Leftover({t})
                           \cup (IF \E reply \in UnderWay : reply.made < made
                                 THEN {"crossed"} ELSE {})
            BY <1>4 DEF DeletionAnswered
        <3> QED
            BY <3>1, <3>2 DEF Mishaps
    <2> QED
        BY <1>2, <1>4, <2>1, <2>2, <2>3
        DEF Typed, CountInv, DeletionAnswered, serverVars, checkVars, viewVars, Ids
<1>5. ASSUME NEW t \in Twysts, NEW made \in Times, DeletionFails(t, made)
      PROVE  Typed' /\ CountInv'
    BY <1>5 DEF Typed, CountInv, DeletionFails, Mishaps, serverVars, checkVars,
                boardVars, viewVars
<1> QED
    BY <1>1, <1>3, <1>4, <1>5 DEF Board

\* Only the marks of the rows change.
Marked(f, rs) ==
    /\ f \in Tables /\ DOMAIN f = DOMAIN rs
    /\ \A o \in DOMAIN rs :
          /\ f[o].newsId = rs[o].newsId /\ f[o].type = rs[o].type
          /\ f[o].twyst = rs[o].twyst /\ f[o].sender = rs[o].sender

\* Marks that are taken from rows leave the rest of them.
LEMMA MarkedRows ==
    ASSUME NEW rs \in Tables, NEW f, f = [o \in DOMAIN rs |-> f[o]],
           \A o \in DOMAIN rs :
              \/ f[o] = rs[o]
              \/ f[o] = [rs[o] EXCEPT !.badge = FALSE]
              \/ f[o] = [rs[o] EXCEPT !.unread = FALSE]
    PROVE  Marked(f, rs)
<1>1. ASSUME NEW o \in DOMAIN rs
      PROVE  /\ f[o] \in Row
             /\ f[o].newsId = rs[o].newsId /\ f[o].type = rs[o].type
             /\ f[o].twyst = rs[o].twyst /\ f[o].sender = rs[o].sender
    <2>1. rs[o] \in Row
        BY TableFacts
    <2> QED
        BY <2>1 DEF Row
<1>2. DOMAIN rs \in SUBSET Ids
    BY TableFacts
<1>3. f \in Tables /\ DOMAIN f = DOMAIN rs
    BY <1>1, <1>2, IsTable
<1> QED
    BY <1>1, <1>3 DEF Marked

\* The screen changes no more than the marks of the rows.
LEMMA ViewRows ==
    ASSUME rows \in Tables, View
    PROVE  Marked(rows', rows)
<1>1. CASE rows' = rows
    <2>1. rows' = [o \in DOMAIN rows |-> rows'[o]]
        BY <1>1, TableFacts
    <2> QED
        BY <1>1, <2>1, MarkedRows
<1>2. CASE viewDidAppear
    <2>1. rows' = [o \in DOMAIN rows |-> IF o \in list THEN [rows[o] EXCEPT !.badge = FALSE]
                                         ELSE rows[o]]
        BY <1>2 DEF viewDidAppear
    <2>2. \A o \in DOMAIN rows : rows'[o] = rows[o] \/ rows'[o] = [rows[o] EXCEPT !.badge = FALSE]
        BY <2>1
    <2>3. rows' = [o \in DOMAIN rows |-> rows'[o]]
        BY <2>1
    <2> QED
        BY <2>2, <2>3, MarkedRows
<1>3. CASE readNotification
    <2>1. rows' = [o \in DOMAIN rows |->
                    IF o \in list /\ selected # 0 /\ rows[o].newsId = selected
                    THEN [rows[o] EXCEPT !.unread = FALSE] ELSE rows[o]]
        BY <1>3 DEF readNotification
    <2>2. \A o \in DOMAIN rows : rows'[o] = rows[o] \/ rows'[o] = [rows[o] EXCEPT !.unread = FALSE]
        BY <2>1
    <2>3. rows' = [o \in DOMAIN rows |-> rows'[o]]
        BY <2>1
    <2> QED
        BY <2>2, <2>3, MarkedRows
<1> QED
    BY <1>1, <1>2, <1>3 DEF View, viewWillAppear, viewWillDisappear, Tap

\* Types are kept by the screen,
LEMMA ViewTyped ==
    ASSUME Typed, CountInv, View
    PROVE  Typed' /\ CountInv'
<1>0. rows \in Tables /\ unseen \in SUBSET Ids /\ list \in SUBSET Ids
      /\ tapped \in SUBSET Ids
    BY DEF Typed, Ids
<1>1. rows' \in Tables
    BY <1>0, ViewRows DEF Marked
<1>2. list' \in SUBSET Ids
    <2>1. list' = list \/ list' = getAllNews(rows)
        BY DEF View, viewWillAppear, viewDidAppear, viewWillDisappear, Tap,
               readNotification
    <2> QED
        BY <1>0, <2>1, FetchedRows
<1>3. badge' \in Nat
    <2>1. badge' \in {badge, 0, Cardinality(Badged(rows, list'))}
        BY DEF View, viewWillAppear, viewDidAppear, viewWillDisappear, Tap,
               readNotification
    <2> QED
        BY <1>0, <2>1, BadgedCount DEF Typed
<1>4. unseen' \in SUBSET Ids
    BY <1>0 DEF View, viewWillAppear, viewDidAppear, viewWillDisappear, Tap,
                readNotification
<1>5. tapped' \in SUBSET Ids /\ selected' \in Times
    <2>1. ASSUME NEW o \in 1 .. MaxEvents, Tap(o)
          PROVE  tapped' \in SUBSET Ids /\ selected' \in Times
        <3>1. rows[o].newsId \in Ids
            BY <1>0, <2>1, TableFacts DEF Tap
        <3>2. selected' = rows[o].newsId /\ tapped' = tapped \cup {rows[o].newsId}
            BY <2>1 DEF Tap
        <3>3. selected' \in Times
            BY <3>1, <3>2 DEF Ids, Times
        <3>4. tapped' \in SUBSET Ids
            BY <1>0, <3>1, <3>2
        <3> QED
            BY <3>3, <3>4
    <2>2. CASE ~ \E o \in 1 .. MaxEvents : Tap(o)
        BY <1>0, <2>2 DEF View, viewWillAppear, viewDidAppear, viewWillDisappear,
                readNotification, Typed, Times
    <2> QED
        BY <2>1, <2>2
<1>6. /\ screen' \in {"away", "appearing", "top"} /\ loaded' \in BOOLEAN
      /\ reads' \in 0 .. MaxReads
    <2>1. reads \in Nat /\ reads <= MaxReads
        BY DEF Typed
    <2>2. \/ reads' = reads
          \/ reads < MaxReads /\ reads' = reads + 1
          \/ reads > 0 /\ reads' = reads - 1
        BY DEF View, viewWillAppear, viewDidAppear, viewWillDisappear, Tap,
               readNotification
    <2>3. reads' \in 0 .. MaxReads
        BY <2>1, <2>2
    <2>4. /\ screen' \in {screen, "away", "appearing", "top"}
          /\ loaded' \in {loaded, TRUE}
        BY DEF View, viewWillAppear, viewDidAppear, viewWillDisappear, Tap,
               readNotification
    <2> QED
        BY <2>3, <2>4 DEF Typed
<1>7. ViewStep
    BY DEF View, viewWillAppear, viewDidAppear, viewWillDisappear, Tap,
           readNotification
<1> QED
    BY <1>1, <1>2, <1>3, <1>4, <1>5, <1>6, <1>7
    DEF Typed, CountInv, ViewStep, serverVars, checkVars, Ids

\* by a restart,
LEMMA RestartTyped ==
    ASSUME Typed, CountInv, Restart
    PROVE  Typed' /\ CountInv'
<1>1. <<>> \in Seq(Reply) /\ <<>> \in Seq(Block) /\ Len(<<>>) = 0
    OBVIOUS
<1>2. mishaps' \in SUBSET Mishaps
    BY DEF Restart, Typed, Mishaps
<1>3. /\ due' = 1 /\ sent' = 0 /\ replies' = <<>> /\ mainQueue' = <<>>
      /\ waiting' = FALSE /\ leaving' = {} /\ list' = {} /\ badge' = 0
      /\ screen' = "away" /\ loaded' = FALSE /\ selected' = 0 /\ reads' = 0
      /\ unseen' = {}
      /\ UNCHANGED <<serverVars, rows, tapped, dropped, revived, applied>>
    BY DEF Restart
<1>4. restarts' \in 0 .. MaxRestarts
    BY DEF Restart, Typed
<1>5. /\ due' \in 0 .. MaxChecks /\ sent' \in 0 .. MaxChecks
      /\ due' + sent' + Len(replies') <= MaxChecks
    BY <1>1, <1>3
<1>6. /\ 0 \in Times /\ {} \in SUBSET (Twysts \X Times) /\ {} \in SUBSET (1 .. MaxEvents)
      /\ 0 \in Nat /\ 0 \in 0 .. MaxReads
    BY DEF Times
<1> QED
    BY <1>2, <1>3, <1>4, <1>5, <1>6, <1>1 DEF Typed, CountInv, serverVars

\* and so by every step.
LEMMA TypedStep ==
    ASSUME Typed, CountInv, [Next]_vars
    PROVE  Typed' /\ CountInv'
<1>1. CASE Server
    BY <1>1, NewsTyped, DeletedTyped DEF Server
<1>2. CASE Checking
    BY <1>2, CheckTyped, RepliesTyped DEF Checking
<1>3. CASE Board
    BY <1>3, BoardTyped
<1>4. CASE View
    BY <1>4, ViewTyped
<1>5. CASE Restart
    BY <1>5, RestartTyped
<1>6. CASE UNCHANGED vars
    BY <1>6 DEF vars, serverVars, checkVars, boardVars, viewVars, Typed, CountInv
<1> QED
    BY <1>1, <1>2, <1>3, <1>4, <1>5, <1>6 DEF Next

-----------------------------------------------------------------------------
(* The replies that are still to be handled                                *)

\* A reply under way is on its way, or has a block in the queue.
LEMMA UnderWayIs ==
    UnderWay = ToSet(replies) \cup RepliesOf(mainQueue)
BY DEF UnderWay, RepliesOf

\* The elements of a sequence.
LEMMA ElementsIn ==
    ASSUME NEW S, NEW s \in Seq(S)
    PROVE  ToSet(s) \subseteq S /\ (\A i \in DOMAIN s : s[i] \in ToSet(s))
BY DEF ToSet

\* Blocks hold replies.
LEMMA RepliesIn ==
    ASSUME NEW q \in Seq(Block)
    PROVE  RepliesOf(q) \subseteq Reply /\ NotesOf(q) \subseteq RepliesOf(q)
<1>1. \A i \in DOMAIN q : q[i].reply \in Reply
    BY BlockFacts
<1> QED
    BY <1>1 DEF RepliesOf, NotesOf

\* What is under way, and in the mailbox, has its types.
LEMMA UnderWayTyped ==
    ASSUME Typed
    PROVE  /\ UnderWay \subseteq Reply
           /\ \A r \in UnderWay : /\ r.notes \in SUBSET Twysts
                                  /\ r.news \in SUBSET News
                                  /\ r.made \in Nat /\ r.kept \in BOOLEAN
           /\ mailbox.notes \in SUBSET Twysts /\ mailbox.news \in SUBSET News
<1>1. replies \in Seq(Reply) /\ mainQueue \in Seq(Block)
    BY DEF Typed
<1>2. UnderWay \subseteq Reply
    BY <1>1, UnderWayIs, ElementsIn, RepliesIn
<1>3. mailbox.notes \in SUBSET Twysts /\ mailbox.news \in SUBSET News
    BY DEF Typed
<1> QED
    BY <1>2, <1>3, ReplyFacts

\* The replies that still tell the home screen of deletions.
NotesUnderWay == ToSet(replies) \cup NotesOf(mainQueue)

\* One more is made, ...
LEMMA WayAnswer ==
    ASSUME Typed, Answer
    PROVE  \E kept \in BOOLEAN :
              /\ mailbox' = IF kept THEN mailbox ELSE [notes |-> {}, news |-> {}]
              /\ ReplyNow(kept) \in Reply
              /\ UnderWay' = UnderWay \cup {ReplyNow(kept)}
              /\ NotesUnderWay' = NotesUnderWay \cup {ReplyNow(kept)}
<1>1. PICK kept \in BOOLEAN :
          /\ replies' = Append(replies, ReplyNow(kept))
          /\ mailbox' = IF kept THEN mailbox ELSE [notes |-> {}, news |-> {}]
    BY AnswerFacts
<1>2. ReplyNow(kept) \in Reply /\ replies \in Seq(Reply)
    BY ReplyNowFacts DEF Typed
<1> DEFINE r == ReplyNow(kept)
<1> HIDE DEF r
<1>3. ToSet(replies') = ToSet(replies) \cup {r}
    BY <1>1, <1>2, AppendElements DEF r
<1>4. mainQueue' = mainQueue
    BY DEF Answer
<1>5. UnderWay' = UnderWay \cup {r} /\ NotesUnderWay' = NotesUnderWay \cup {r}
    BY <1>3, <1>4, UnderWayIs DEF UnderWay, NotesUnderWay, RepliesOf
<1> QED
    BY <1>1, <1>2, <1>5 DEF r

\* ... one is lost, ...
LEMMA WayLost ==
    ASSUME Typed, NEW i \in DOMAIN replies, ReplyLost(i)
    PROVE  /\ replies[i] \in UnderWay /\ replies[i] \in NotesUnderWay
           /\ UnderWay = UnderWay' \cup {replies[i]}
           /\ NotesUnderWay = NotesUnderWay' \cup {replies[i]}
<1>1. replies \in Seq(Reply) /\ replies' = RemoveAt(replies, i) /\ mainQueue' = mainQueue
    BY DEF Typed, ReplyLost
<1>2. replies[i] \in ToSet(replies) /\ ToSet(replies) = ToSet(replies') \cup {replies[i]}
    BY <1>1, RemoveAtElements
<1> QED
    BY <1>1, <1>2 DEF UnderWay, NotesUnderWay

\* ... one arrives and stays under way, if there is anything in it, ...
LEMMA WayArrives ==
    ASSUME Typed, Paired(mainQueue), NEW i \in DOMAIN replies, ReplyArrives(i)
    PROVE  /\ Paired(mainQueue')
           /\ UnderWay' \subseteq UnderWay
           /\ \A r \in UnderWay : r \in UnderWay' \/ Empty(r)
           /\ NotesUnderWay' \subseteq NotesUnderWay
           /\ \A r \in NotesUnderWay : r \in NotesUnderWay' \/ r.notes = {}
           /\ mainQueue # <<>> => /\ mainQueue' # <<>>
                                  /\ Head(mainQueue') = Head(mainQueue)
           /\ /\ mainQueue = <<>> /\ mainQueue' # <<>>
              /\ Head(mainQueue').kind = "news"
              => Head(mainQueue').reply.notes = {}
<1> DEFINE r == replies[i]
<1>1. /\ replies \in Seq(Reply) /\ replies' = RemoveAt(replies, i)
      /\ mainQueue \in Seq(Block) /\ mainQueue' = mainQueue \o Blocks(r)
    BY DEF Typed, ReplyArrives
<1>2. r \in ToSet(replies) /\ ToSet(replies) = ToSet(replies') \cup {r} /\ r \in Reply
    BY <1>1, RemoveAtElements
<1> HIDE DEF r
<1> DEFINE s == mainQueue \o Blocks(r)
<1>5. /\ Paired(s)
      /\ RepliesOf(s) = IF Empty(r) THEN RepliesOf(mainQueue)
                        ELSE RepliesOf(mainQueue) \cup {r}
      /\ NotesOf(s) = IF r.notes = {} THEN NotesOf(mainQueue)
                      ELSE NotesOf(mainQueue) \cup {r}
      /\ mainQueue # <<>> => s # <<>> /\ Head(s) = Head(mainQueue)
      /\ mainQueue = <<>> /\ s # <<>> /\ Head(s).kind = "news"
            => Head(s).reply.notes = {}
    BY <1>1, <1>2, QueueBlocks
<1>6. mainQueue' = s
    BY <1>1
<1> HIDE DEF s
<1>3. /\ Paired(mainQueue')
      /\ RepliesOf(mainQueue') = IF Empty(r) THEN RepliesOf(mainQueue)
                                 ELSE RepliesOf(mainQueue) \cup {r}
      /\ NotesOf(mainQueue') = IF r.notes = {} THEN NotesOf(mainQueue)
                               ELSE NotesOf(mainQueue) \cup {r}
      /\ mainQueue # <<>> => mainQueue' # <<>> /\ Head(mainQueue') = Head(mainQueue)
      /\ /\ mainQueue = <<>> /\ mainQueue' # <<>>
         /\ Head(mainQueue').kind = "news"
         => Head(mainQueue').reply.notes = {}
    BY <1>5, <1>6
<1>4. /\ UnderWay = ToSet(replies) \cup RepliesOf(mainQueue)
      /\ UnderWay' = ToSet(replies') \cup RepliesOf(mainQueue')
    BY DEF UnderWay, RepliesOf
<1> QED
    BY <1>2, <1>3, <1>4 DEF NotesUnderWay

\* ... and a block is run.
LEMMA WayTake ==
    ASSUME Typed, Paired(mainQueue), NEW kind, NEW met \in SUBSET Mishaps, Take(kind, met)
    PROVE  LET r == Head(mainQueue).reply
           IN  /\ r \in Reply /\ r \in UnderWay /\ Head(mainQueue).kind = kind
               /\ Paired(mainQueue')
               /\ UnderWay = UnderWay' \cup {r}
               /\ kind = "news"
                     => r.news # {} /\ NotesUnderWay' = NotesUnderWay
               /\ kind = "notes"
                     => /\ r.notes # {}
                        /\ NotesUnderWay = NotesUnderWay' \cup {r}
                        /\ r.news # {} => /\ UnderWay' = UnderWay
                                          /\ mainQueue' # <<>>
                                          /\ Head(mainQueue') = Half("news", r)
               /\ /\ mainQueue' # <<>> /\ Head(mainQueue').kind = "news"
                  /\ Head(mainQueue').reply.notes # {}
                  => Head(mainQueue) = Half("notes", Head(mainQueue').reply)
<1> DEFINE h == Head(mainQueue)
           r == h.reply
<1>1. /\ mainQueue \in Seq(Block) /\ mainQueue # <<>> /\ mainQueue' = Tail(mainQueue)
      /\ h.kind = kind /\ replies' = replies
    BY DEF Typed, Take
<1>2. /\ h \in Block /\ Paired(mainQueue')
      /\ r \in RepliesOf(mainQueue)
      /\ RepliesOf(mainQueue) = {r} \cup RepliesOf(mainQueue')
      /\ h.kind = "news" => NotesOf(mainQueue') = NotesOf(mainQueue)
      /\ h.kind = "notes" => NotesOf(mainQueue) = {r} \cup NotesOf(mainQueue')
      /\ h.kind = "news" => r.news # {}
      /\ h.kind = "notes" => r.notes # {}
      /\ h.kind = "notes" /\ r.news # {}
            => mainQueue' # <<>> /\ Head(mainQueue') = Half("news", r)
      /\ /\ mainQueue' # <<>> /\ Head(mainQueue').kind = "news"
         /\ Head(mainQueue').reply.notes # {}
         => h = Half("notes", Head(mainQueue').reply)
    BY <1>1, QueueTail
<1>3. r \in Reply
    BY <1>2, BlockFacts
<1>4. kind = "notes" /\ r.news # {} => r \in RepliesOf(mainQueue')
    <2> SUFFICES ASSUME kind = "notes", r.news # {}
                 PROVE  r \in RepliesOf(mainQueue')
        OBVIOUS
    <2>1. mainQueue' # <<>> /\ Head(mainQueue') = Half("news", r) /\ mainQueue' \in Seq(Block)
        BY <1>1, <1>2
    <2>2. 1 \in DOMAIN mainQueue' /\ mainQueue'[1] = Half("news", r)
        BY <2>1
    <2>3. mainQueue'[1].reply = r
        BY <1>3, <2>2, HalfFacts
    <2> QED
        BY <2>2, <2>3 DEF RepliesOf
<1> HIDE DEF h, r
<1>5. /\ UnderWay = ToSet(replies) \cup RepliesOf(mainQueue)
      /\ UnderWay' = ToSet(replies') \cup RepliesOf(mainQueue')
    BY DEF UnderWay, RepliesOf
<1> QED
    BY <1>1, <1>2, <1>3, <1>4, <1>5 DEF NotesUnderWay, h, r

-----------------------------------------------------------------------------
(* What a number names                                                     *)

\* A row about comments shows the sender of one of them, and another when
\* that one is deleted; each other item is of one sender.
Who(x) == IF x.type = "comment" THEN Me ELSE x.sender

Item(n) == [id |-> n.id, type |-> n.type, twyst |-> n.twyst, who |-> Who(n)]
Items(S) == {Item(n) : n \in S}

\* The item that a row tells of, and the one that it was made for.
RowItem(row) == [id |-> row.newsId, type |-> row.type, twyst |-> row.twyst,
                 who |-> Who(row)]
ObjectItem(o, row) == [id |-> o, type |-> row.type, twyst |-> row.twyst,
                       who |-> Who(row)]
RowItems(rs) == {RowItem(rs[o]) : o \in DOMAIN rs}
                \cup {ObjectItem(o, rs[o]) : o \in DOMAIN rs}

\* The news that the app has not handled yet.
NewsIn == mailbox.news \cup UNION {r.news : r \in UnderWay}

Known == Items(NewsIn) \cup Items(feed) \cup RowItems(rows)

OneEach(K) == \A k, l \in K : k.id = l.id => k = l

OneRow(rs) ==
    \A o, p \in DOMAIN rs :
        /\ \/ rs[o].newsId = rs[p].newsId
           \/ /\ rs[o].type = "comment" /\ rs[p].type = "comment"
              /\ rs[o].twyst = rs[p].twyst
        => o = p

RowTypes == {"Like", "comment", "Pass", "Reply", "Follow"}

Sound(rs) ==
    /\ OneRow(rs)
    /\ \A o \in DOMAIN rs : /\ rs[o].type \in RowTypes
                            /\ rs[o].type # "comment" => rs[o].newsId = o

\* A number is that of one event, and no later one than the last; each reply
\* tells of what happened before it was made.
ItemsInv ==
    /\ OneEach(Known) /\ \A k \in Known : k.id <= clock
    /\ Sound(rows)
    /\ \A r \in UnderWay : r.made <= clock /\ \A n \in r.news : n.id <= r.made
    /\ applied <= clock
    /\ Paired(mainQueue)

\* The parts of the items.
LEMMA ItemFacts ==
    /\ \A n : /\ Item(n).id = n.id /\ Item(n).type = n.type
              /\ Item(n).twyst = n.twyst /\ Item(n).who = Who(n)
    /\ \A row : /\ RowItem(row).id = row.newsId /\ RowItem(row).type = row.type
                /\ RowItem(row).twyst = row.twyst /\ RowItem(row).who = Who(row)
    /\ \A o, row : /\ ObjectItem(o, row).id = o /\ ObjectItem(o, row).type = row.type
                   /\ ObjectItem(o, row).twyst = row.twyst
                   /\ ObjectItem(o, row).who = Who(row)
BY DEF Item, RowItem, ObjectItem

\* The items of rows, row by row.
LEMMA RowItemsIn ==
    ASSUME NEW rs, NEW K
    PROVE  RowItems(rs) \subseteq K <=>
              \A o \in DOMAIN rs : RowItem(rs[o]) \in K /\ ObjectItem(o, rs[o]) \in K
BY DEF RowItems

\* The row that news n is written to has its items.
LEMMA WrittenItems ==
    ASSUME NEW n \in News
    PROVE  LET row == FreshRow(n)
           IN  /\ row.newsId = n.id /\ row.type = n.type /\ row.twyst = n.twyst
               /\ row.sender = n.sender /\ row.unread = TRUE /\ row.badge = TRUE
               /\ RowItem(row) = Item(n) /\ ObjectItem(n.id, row) = Item(n)
BY DEF FreshRow, NewRow, RowItem, ObjectItem, Item, Who

\* What an item of news leaves of a row that it is not written to.
LEMMA KeptRow ==
    ASSUME NEW b \in Boards, NEW n \in News, NEW d, Follows(b, n, d),
           NEW p \in DOMAIN d.rows
    PROVE  \/ /\ p \in DOMAIN b.rows
              /\ d.rows[p].newsId = b.rows[p].newsId
              /\ d.rows[p].type = b.rows[p].type
              /\ d.rows[p].twyst = b.rows[p].twyst
              /\ d.rows[p].unread = b.rows[p].unread
              /\ d.rows[p].badge = b.rows[p].badge
              /\ b.rows[p].type # "comment" => d.rows[p].sender = b.rows[p].sender
              /\ RowItem(d.rows[p]) = RowItem(b.rows[p])
              /\ ObjectItem(p, d.rows[p]) = ObjectItem(p, b.rows[p])
           \/ Writes(n) /\ WrittenTo(b, n, p) /\ d.rows[p] = FreshRow(n)
<1>1. CASE p \in DOMAIN b.rows /\ d.rows[p] = b.rows[p]
    BY <1>1
<1>2. CASE /\ p \in CommentRows(b, n.twyst)
           /\ d.rows[p] = [b.rows[p] EXCEPT !.sender = n.sender]
    <2>1. b.rows \in Tables /\ p \in DOMAIN b.rows /\ b.rows[p].type = "comment"
        BY <1>2 DEF Boards, CommentRows
    <2>2. b.rows[p] \in Row
        BY <2>1, TableFacts
    <2> DEFINE x == b.rows[p]
               y == d.rows[p]
    <2>3. /\ y.newsId = x.newsId /\ y.type = x.type /\ y.twyst = x.twyst
          /\ y.unread = x.unread /\ y.badge = x.badge
        BY <1>2, <2>2 DEF Row
    <2> HIDE DEF x, y
    <2>4. Who(x) = Me /\ Who(y) = Me
        BY <2>1, <2>3 DEF Who, x
    <2>5. RowItem(y) = RowItem(x) /\ ObjectItem(p, y) = ObjectItem(p, x)
        BY <2>3, <2>4 DEF RowItem, ObjectItem
    <2> QED
        BY <2>1, <2>3, <2>5 DEF x, y
<1> QED
    BY <1>1, <1>2 DEF Follows

\* One item of news keeps the rows sound.
LEMMA HandleSound ==
    ASSUME NEW b \in Boards, NEW n \in News, NEW d, Follows(b, n, d),
           NEW K, OneEach(K), RowItems(b.rows) \subseteq K, Item(n) \in K,
           Sound(b.rows)
    PROVE  Sound(d.rows) /\ RowItems(d.rows) \subseteq K
<1>1. \A o \in DOMAIN b.rows : /\ RowItem(b.rows[o]) \in K
                               /\ ObjectItem(o, b.rows[o]) \in K
    BY RowItemsIn
<1>2. ASSUME NEW o \in DOMAIN b.rows, b.rows[o].newsId = n.id \/ o = n.id
      PROVE  b.rows[o].type = n.type /\ b.rows[o].twyst = n.twyst
    <2>1. Item(n).id = RowItem(b.rows[o]).id \/ Item(n).id = ObjectItem(o, b.rows[o]).id
        BY <1>2, ItemFacts
    <2>2. Item(n) = RowItem(b.rows[o]) \/ Item(n) = ObjectItem(o, b.rows[o])
        BY <1>1, <2>1 DEF OneEach
    <2> QED
        BY <2>2, ItemFacts
<1>3. \A o \in DOMAIN b.rows : /\ b.rows[o].type \in RowTypes
                               /\ b.rows[o].type # "comment" => b.rows[o].newsId = o
    BY DEF Sound
<1>4. \A o, p \in DOMAIN b.rows :
        /\ \/ b.rows[o].newsId = b.rows[p].newsId
           \/ /\ b.rows[o].type = "comment" /\ b.rows[p].type = "comment"
              /\ b.rows[o].twyst = b.rows[p].twyst
        => o = p
    BY DEF Sound, OneRow
<1> DEFINE Old(p) == /\ p \in DOMAIN b.rows
                     /\ d.rows[p].newsId = b.rows[p].newsId
                     /\ d.rows[p].type = b.rows[p].type
                     /\ d.rows[p].twyst = b.rows[p].twyst
                     /\ RowItem(d.rows[p]) = RowItem(b.rows[p])
                     /\ ObjectItem(p, d.rows[p]) = ObjectItem(p, b.rows[p])
           New(p) == /\ Writes(n) /\ WrittenTo(b, n, p)
                     /\ d.rows[p].newsId = n.id /\ d.rows[p].type = n.type
                     /\ d.rows[p].twyst = n.twyst
                     /\ d.rows[p] = FreshRow(n)
<1>5. ASSUME NEW p \in DOMAIN d.rows
      PROVE  Old(p) \/ New(p)
    <2>1. CASE Writes(n) /\ WrittenTo(b, n, p) /\ d.rows[p] = FreshRow(n)
        <3>1. /\ d.rows[p].newsId = n.id /\ d.rows[p].type = n.type
              /\ d.rows[p].twyst = n.twyst
            BY <2>1 DEF FreshRow, NewRow
        <3> QED
            BY <2>1, <3>1
    <2>2. CASE ~(Writes(n) /\ WrittenTo(b, n, p) /\ d.rows[p] = FreshRow(n))
        BY <2>2, KeptRow
    <2> QED
        BY <2>1, <2>2
<1>6. ASSUME NEW p, WrittenTo(b, n, p), n.type # "comment"
      PROVE  p = n.id
    <2>1. CASE p \in DOMAIN b.rows /\ b.rows[p].newsId = n.id
        BY <1>2, <1>3, <1>6, <2>1
    <2> QED
        BY <1>6, <2>1 DEF WrittenTo
<1>7. ASSUME NEW p, WrittenTo(b, n, p), n.type = "comment"
      PROVE  \/ /\ p \in DOMAIN b.rows /\ b.rows[p].type = "comment"
                /\ b.rows[p].twyst = n.twyst
             \/ /\ p = n.id
                /\ \A o \in DOMAIN b.rows :
                      ~(b.rows[o].type = "comment" /\ b.rows[o].twyst = n.twyst)
    BY <1>7 DEF WrittenTo, CommentRows
<1>8. ASSUME NEW p, NEW q, WrittenTo(b, n, p), WrittenTo(b, n, q)
      PROVE  p = q
    BY <1>4, <1>6, <1>7, <1>8
<1>9. Writes(n) => n.type \in RowTypes
    BY DEF Writes, Adds, RowTypes
<1>10. OneRow(d.rows)
    <2> SUFFICES ASSUME NEW o \in DOMAIN d.rows, NEW p \in DOMAIN d.rows,
                        \/ d.rows[o].newsId = d.rows[p].newsId
                        \/ /\ d.rows[o].type = "comment" /\ d.rows[p].type = "comment"
                           /\ d.rows[o].twyst = d.rows[p].twyst
                 PROVE  o = p
        BY DEF OneRow
    <2>1. ASSUME NEW x, NEW y, Old(x), New(y),
                 \/ d.rows[x].newsId = d.rows[y].newsId
                 \/ /\ d.rows[x].type = "comment" /\ d.rows[y].type = "comment"
                    /\ d.rows[x].twyst = d.rows[y].twyst
          PROVE  x = y
        <3>1. CASE n.type = "comment"
            <4>1. b.rows[x].type = "comment" /\ b.rows[x].twyst = n.twyst
                BY <1>2, <2>1, <3>1
            <4>2. y \in DOMAIN b.rows /\ b.rows[y].type = "comment"
                  /\ b.rows[y].twyst = n.twyst
                BY <1>7, <2>1, <3>1, <4>1
            <4> QED
                BY <1>4, <2>1, <4>1, <4>2
        <3>2. CASE n.type # "comment"
            <4>1. b.rows[x].newsId = n.id
                BY <2>1, <3>2
            <4>2. b.rows[x].type # "comment"
                BY <1>2, <2>1, <3>2, <4>1
            <4> QED
                BY <1>3, <1>6, <2>1, <3>2, <4>1, <4>2
        <3> QED
            BY <3>1, <3>2
    <2>2. CASE Old(o) /\ Old(p)
        BY <1>4, <2>2
    <2>3. CASE New(o) /\ New(p)
        BY <1>8, <2>3
    <2>4. CASE Old(o) /\ New(p)
        BY <2>1, <2>4
    <2>5. CASE New(o) /\ Old(p)
        BY <2>1, <2>5
    <2> QED
        BY <1>5, <2>2, <2>3, <2>4, <2>5
<1>11. ASSUME NEW p \in DOMAIN d.rows
       PROVE  /\ d.rows[p].type \in RowTypes
              /\ d.rows[p].type # "comment" => d.rows[p].newsId = p
              /\ RowItem(d.rows[p]) \in K /\ ObjectItem(p, d.rows[p]) \in K
    <2>1. CASE Old(p)
        BY <1>1, <1>3, <2>1
    <2>2. CASE New(p)
        <3>1. RowItem(d.rows[p]) = Item(n)
            BY <2>2, WrittenItems
        <3>2. CASE p = n.id
            <4>1. ObjectItem(p, d.rows[p]) = Item(n)
                BY <2>2, <3>2, WrittenItems
            <4> QED
                BY <1>9, <2>2, <3>1, <3>2, <4>1
        <3>3. CASE p # n.id
            <4>1. /\ n.type = "comment" /\ p \in DOMAIN b.rows
                  /\ b.rows[p].type = "comment" /\ b.rows[p].twyst = n.twyst
                BY <1>6, <1>7, <2>2, <3>3
            <4>2. Who(d.rows[p]) = Who(b.rows[p])
                BY <2>2, <4>1 DEF Who
            <4>3. ObjectItem(p, d.rows[p]) = ObjectItem(p, b.rows[p])
                BY <2>2, <4>1, <4>2 DEF ObjectItem
            <4> QED
                BY <1>1, <1>9, <2>2, <3>1, <4>1, <4>3
        <3> QED
            BY <3>2, <3>3
    <2> QED
        BY <1>5, <2>1, <2>2
<1> QED
    BY <1>10, <1>11, RowItemsIn DEF Sound

\* So does a reply.
LEMMA HandledSound ==
    ASSUME NEW rs \in Tables, NEW news \in SUBSET News,
           NEW K, OneEach(K), RowItems(rs) \subseteq K, Items(news) \subseteq K,
           Sound(rs)
    PROVE  LET d == Handled([rows |-> rs, fresh |-> {}], news)
           IN  Sound(d.rows) /\ RowItems(d.rows) \subseteq K
<1> DEFINE b == [rows |-> rs, fresh |-> {}]
           Good(c) == Sound(c.rows) /\ RowItems(c.rows) \subseteq K
           S == {p \in (0 .. MaxEvents) \X Boards : Good(p[2])}
<1>1. <<0, b>> \in S /\ b \in Boards
    BY DEF Boards
<1>2. ASSUME NEW i \in 1 .. MaxEvents, NEW c \in Boards, <<i - 1, c>> \in S
      PROVE  /\ <<i, c>> \in S
             /\ \A n \in news : \A d : n.id = i /\ Follows(c, n, d) => <<i, d>> \in S
    <2>1. Good(c) /\ i \in 0 .. MaxEvents
        BY <1>2
    <2>2. ASSUME NEW n \in news, NEW d, Follows(c, n, d)
          PROVE  <<i, d>> \in S
        <3>1. Item(n) \in K
            BY DEF Items
        <3>2. d \in Boards /\ Good(d)
            BY <2>1, <2>2, <3>1, HandleSound DEF Follows
        <3> QED
            BY <2>1, <3>2
    <2> QED
        BY <2>1, <2>2
<1> HIDE DEF S, b
<1>3. <<MaxEvents, Handled(b, news)>> \in S
    BY <1>1, <1>2, HandledKeeps
<1>4. Good(Handled(b, news))
    BY <1>3 DEF S
<1> QED
    BY <1>4 DEF b

\* A step that concerns neither the server nor the replies, nor what rows
\* there are.
Quiet ==
    /\ UNCHANGED <<clock, feed, comments, gone, mailbox, leaving, replies,
                   mainQueue, applied, dropped, revived, mishaps>>
    /\ Marked(rows', rows)

\* Rows that stay as they are only keep their marks.
LEMMA SameMarked ==
    ASSUME NEW rs \in Tables
    PROVE  Marked(rs, rs)
BY TableFacts DEF Marked

\* The steps, those that tell the properties below nothing taken together.
LEMMA Steps ==
    ASSUME Typed, [Next]_vars
    PROVE  \/ Quiet
           \/ \E t \in Twysts, type \in Types, s \in Senders : ServerNews(type, t, s)
           \/ \E t \in Twysts : FriendDeletes(t) \/ UserDeletes(t)
           \/ Answer
           \/ \E i \in DOMAIN replies : ReplyLost(i)
           \/ \E i \in DOMAIN replies : ReplyArrives(i)
           \/ twystNewsDidReceive
           \/ notificationDidReceive
           \/ \E t \in Twysts, made \in Times : DeletionAnswered(t, made)
           \/ \E t \in Twysts, made \in Times : DeletionFails(t, made)
           \/ Restart
<1>0. rows \in Tables
    BY DEF Typed
<1>1. CASE UNCHANGED vars
    BY <1>0, <1>1, SameMarked
    DEF vars, serverVars, checkVars, boardVars, viewVars, Quiet
<1>2. CASE View
    <2>1. Marked(rows', rows)
        BY <1>0, <1>2, ViewRows
    <2>2. ViewStep
        BY <1>2 DEF View, viewWillAppear, viewDidAppear, viewWillDisappear, Tap,
                    readNotification
    <2> QED
        BY <2>1, <2>2 DEF ViewStep, serverVars, checkVars, Quiet
<1>3. CASE Tick \/ CheckManually \/ Send \/ RequestFails
    <2>1. /\ UNCHANGED <<clock, feed, comments, gone, leaving, boardVars, applied>>
          /\ UNCHANGED <<mailbox, replies, mainQueue, mishaps>>
        BY <1>3 DEF Tick, CheckManually, CheckNotification, Send, RequestFails, CheckStep
    <2> QED
        BY <1>0, <2>1, SameMarked DEF boardVars, Quiet
<1> QED
    BY <1>1, <1>2, <1>3 DEF Next, Server, Checking, Board

\* Marks are no part of what a row tells.
LEMMA MarkedSound ==
    ASSUME NEW rs, NEW f, Marked(f, rs)
    PROVE  /\ RowItems(f) = RowItems(rs)
           /\ Sound(rs) => Sound(f)
<1>1. ASSUME NEW o \in DOMAIN rs
      PROVE  /\ RowItem(f[o]) = RowItem(rs[o])
             /\ ObjectItem(o, f[o]) = ObjectItem(o, rs[o])
    BY DEF Marked, RowItem, ObjectItem, Who
<1>2. DOMAIN f = DOMAIN rs
    BY DEF Marked
<1>3. RowItems(f) = RowItems(rs)
    BY <1>1, <1>2 DEF RowItems
<1>4. Sound(rs) => Sound(f)
    BY DEF Marked, Sound, OneRow
<1> QED
    BY <1>3, <1>4

\* Nor do rows that go change what is left.
Fewer(f, rs) ==
    DOMAIN f \subseteq DOMAIN rs /\ \A o \in DOMAIN f : f[o] = rs[o]

\* Fewer rows are as sound.
LEMMA FewerSound ==
    ASSUME NEW rs, NEW f, Fewer(f, rs)
    PROVE  /\ RowItems(f) \subseteq RowItems(rs)
           /\ Sound(rs) => Sound(f)
<1>1. RowItems(f) \subseteq RowItems(rs)
    BY DEF Fewer, RowItems
<1>2. Sound(rs) => Sound(f)
    BY DEF Fewer, Sound, OneRow
<1> QED
    BY <1>1, <1>2

\* deleteNewsWithTwystId: deletes rows of the twysts, and no others; it
\* deletes them all unless some are left over.
LEMMA DeleteFewer ==
    ASSUME NEW ts, deleteNewsWithTwystId(ts)
    PROVE  /\ Fewer(rows', rows)
           /\ \A o \in DOMAIN rows : rows[o].twyst \notin ts => o \in DOMAIN rows'
           /\ Leftover(ts) = {} =>
                \A o \in DOMAIN rows : o \in DOMAIN rows' <=> rows[o].twyst \notin ts
<1>1. /\ DOMAIN rows' = DOMAIN rows \ Fetched(ts)
      /\ \A o \in DOMAIN rows' : rows'[o] = rows[o]
    BY DEF deleteNewsWithTwystId
<1>2. \A o \in Fetched(ts) : rows[o].twyst \in ts
    BY DEF Fetched, Newest, RowsOf
<1>3. ASSUME Leftover(ts) = {}, NEW o \in DOMAIN rows, rows[o].twyst \in ts
      PROVE  o \in Fetched(ts)
    BY <1>3 DEF Leftover, RowsOf
<1> QED
    BY <1>1, <1>2, <1>3 DEF Fewer

\* The news under way, before and after a step that brings none.
LEMMA NewsInKept ==
    ASSUME UnderWay' \subseteq UnderWay, mailbox'.news \subseteq mailbox.news
    PROVE  NewsIn' \subseteq NewsIn
BY DEF NewsIn

\* What is known, part by part.
LEMMA KnownIn ==
    ASSUME NEW K
    PROVE  Known \subseteq K <=> /\ \A n \in NewsIn : Item(n) \in K
                                 /\ \A f \in feed : Item(f) \in K
                                 /\ RowItems(rows) \subseteq K
BY DEF Known, Items

\* The parts of what stands.
LEMMA FeedTyped ==
    ASSUME Typed, NEW f \in feed
    PROVE  /\ f \in Standing /\ f.id \in Ids /\ f.id \in Nat
           /\ f.type \in Types /\ f.twyst \in Twysts /\ f.sender \in Senders
<1>1. f \in Standing
    BY DEF Typed
<1> QED
    BY <1>1 DEF Standing, Ids

\* What is known has numbers.
LEMMA KnownIds ==
    ASSUME Typed, NEW k \in Known
    PROVE  k.id \in Nat
<1>1. \A n \in NewsIn : n.id \in Nat
    <2>1. NewsIn \subseteq News
        BY UnderWayTyped DEF NewsIn
    <2> QED
        BY <2>1, NewsFacts DEF Ids
<1>2. \A n \in NewsIn \cup feed : Item(n).id \in Nat
    BY <1>1, FeedTyped, ItemFacts
<1>3. rows \in Tables
    BY DEF Typed
<1>4. \A o \in DOMAIN rows : o \in Nat /\ rows[o].newsId \in Nat
    BY <1>3, TableFacts DEF Ids
<1>5. \A i \in RowItems(rows) : i.id \in Nat
    BY <1>4, ItemFacts DEF RowItems
<1> QED
    BY <1>2, <1>5 DEF Known, Items

\* What is asked of the replies.
MadeInv == \A r \in UnderWay : r.made <= clock /\ \A n \in r.news : n.id <= r.made

\* The items are kept by a step that brings none.
LEMMA ItemsKept ==
    ASSUME Typed, ItemsInv, Typed', clock <= clock',
           \A n \in NewsIn' : Item(n) \in Known, \A f \in feed' : Item(f) \in Known,
           RowItems(rows') \subseteq Known,
           Sound(rows'), MadeInv', applied' <= clock', Paired(mainQueue')
    PROVE  ItemsInv'
<1>1. Known' \subseteq Known
    BY DEF Known, Items
<1>2. \A k \in Known' : k.id <= clock'
    <2> SUFFICES ASSUME NEW k \in Known'
                 PROVE  k.id <= clock'
        OBVIOUS
    <2>1. k \in Known /\ k.id <= clock
        BY <1>1 DEF ItemsInv
    <2>2. k.id \in Nat
        BY <2>1, KnownIds
    <2>3. clock \in Nat /\ clock' \in Nat
        BY DEF Typed, Times
    <2> QED
        BY <2>1, <2>2, <2>3
<1>3. OneEach(Known')
    BY <1>1 DEF ItemsInv, OneEach
<1> QED
    BY <1>2, <1>3 DEF ItemsInv, MadeInv, OneEach

\* What the invariant says of each part.
LEMMA ItemsParts ==
    ASSUME Typed, ItemsInv
    PROVE  /\ \A n \in NewsIn : Item(n) \in Known /\ n.id <= clock /\ n \in News
           /\ \A f \in feed : Item(f) \in Known /\ f.id <= clock
           /\ RowItems(rows) \subseteq Known
           /\ Sound(rows) /\ MadeInv /\ applied <= clock /\ Paired(mainQueue)
           /\ \A r \in UnderWay : Items(r.news) \subseteq Known /\ r.news \subseteq NewsIn
           /\ clock \in Nat /\ applied \in Nat /\ clock <= MaxEvents
<1>1. \A n \in NewsIn : Item(n) \in Known /\ Item(n).id = n.id
    BY DEF Known, Items, Item
<1>2. \A f \in feed : Item(f) \in Known /\ Item(f).id = f.id
    BY DEF Known, Items, Item
<1>3. \A r \in UnderWay : r.news \subseteq NewsIn
    BY DEF NewsIn
<1>4. \A r \in UnderWay : Items(r.news) \subseteq Known
    BY <1>1, <1>3 DEF Items
<1>5. NewsIn \subseteq News
    BY UnderWayTyped DEF NewsIn
<1> QED
    BY <1>1, <1>2, <1>3, <1>4, <1>5, Numbers DEF ItemsInv, Known, MadeInv

\* What happens at the server, and the news that tell of it.
NewItem(type, t, s) == [id |-> clock + 1, type |-> type, twyst |-> t, sender |-> s]
NewNews(type, t, s) == [id |-> clock + 1, type |-> type, twyst |-> t, sender |-> s,
                        count |-> 0]

\* What something that happens changes.
LEMMA ServerNewsFacts ==
    ASSUME Typed, NEW t \in Twysts, NEW type \in Types, NEW s \in Senders,
           ServerNews(type, t, s)
    PROVE  /\ clock' = clock + 1 /\ clock \in Nat /\ clock + 1 \in Ids
           /\ UnderWay' = UnderWay /\ NotesUnderWay' = NotesUnderWay
           /\ mailbox'.notes = mailbox.notes
           /\ mailbox'.news = mailbox.news \cup {NewNews(type, t, s)}
           /\ NewsIn' = NewsIn \cup {NewNews(type, t, s)}
           /\ feed' \subseteq feed \cup {NewItem(type, t, s)}
           /\ Item(NewNews(type, t, s)) = Item(NewItem(type, t, s))
           /\ Item(NewItem(type, t, s)).id = clock + 1
           /\ NewNews(type, t, s) \in News /\ NewNews(type, t, s).id = clock + 1
           /\ UNCHANGED <<rows, applied, mainQueue, replies, gone, leaving,
                          dropped, revived>>
           /\ t \notin gone
<1> DEFINE n == NewNews(type, t, s)
           f == NewItem(type, t, s)
<1>1. /\ clock' = clock + 1 /\ clock \in Nat /\ clock + 1 \in Ids
      /\ UNCHANGED <<rows, applied, mainQueue, replies, gone, leaving, dropped,
                     revived>>
      /\ t \notin gone
    BY Numbers DEF ServerNews, ServerStep, boardVars, checkVars
<1>2. mailbox' = [mailbox EXCEPT !.news = @ \cup {n}]
    BY DEF ServerNews, NewNews
<1>3. Item(n) = Item(f) /\ Item(f).id = clock + 1 /\ n.id = clock + 1
    BY DEF Item, Who, NewNews, NewItem
<1>4. n \in News
    BY <1>1 DEF NewNews, News, Ids, Times
<1>5. feed' \subseteq feed \cup {f}
    BY DEF ServerNews, Happens, About, NewItem
<1> HIDE DEF n, f
<1>6. mailbox'.news = mailbox.news \cup {n} /\ mailbox'.notes = mailbox.notes
    BY <1>2 DEF Typed
<1>7. UnderWay' = UnderWay /\ NotesUnderWay' = NotesUnderWay
    BY <1>1 DEF UnderWay, NotesUnderWay, NotesOf
<1>8. NewsIn' = NewsIn \cup {n}
    BY <1>6, <1>7 DEF NewsIn
<1> QED
    BY <1>1, <1>3, <1>4, <1>5, <1>6, <1>7, <1>8 DEF n, f

\* A twyst is deleted at the server.
LEMMA DeletedFacts ==
    ASSUME Typed, NEW t \in Twysts, FriendDeletes(t) \/ UserDeletes(t)
    PROVE  /\ clock' = clock + 1 /\ clock \in Nat /\ clock + 1 \in Ids
           /\ UnderWay' = UnderWay /\ NotesUnderWay' = NotesUnderWay
           /\ t \notin gone /\ gone' = gone \cup {t}
           /\ feed' = {f \in feed : f.twyst # t} /\ comments' = comments
           /\ mailbox'.news \in {mailbox.news, NewsOfOthers(t)}
           /\ mailbox'.news \subseteq mailbox.news
           /\ mishaps' = {} => mailbox'.news = NewsOfOthers(t) /\ mishaps = {}
           /\ mailbox'.notes = IF FriendDeletes(t) THEN mailbox.notes \cup {t}
                               ELSE mailbox.notes
           /\ leaving' = IF FriendDeletes(t) THEN leaving
                         ELSE leaving \cup {<<t, clock + 1>>}
           /\ NewsIn' \subseteq NewsIn
           /\ UNCHANGED <<rows, applied, mainQueue, replies, dropped, revived>>
<1> DEFINE notes == IF FriendDeletes(t) THEN {t} ELSE {}
<1>1. Deleted(t, notes) /\ leaving' = IF FriendDeletes(t) THEN leaving
                                      ELSE leaving \cup {<<t, clock + 1>>}
    BY DEF FriendDeletes, UserDeletes
<1> HIDE DEF notes
<1>2. /\ clock' = clock + 1 /\ clock \in Nat /\ clock + 1 \in Ids
      /\ t \notin gone /\ gone' = gone \cup {t}
      /\ feed' = {f \in feed : f.twyst # t} /\ comments' = comments
      /\ UNCHANGED <<rows, applied, mainQueue, replies, dropped, revived>>
    BY <1>1, Numbers DEF Deleted, ServerStep, boardVars, checkVars
<1>3. PICK news \in {mailbox.news, NewsOfOthers(t)} :
          /\ mailbox' = [notes |-> mailbox.notes \cup notes, news |-> news]
          /\ mishaps' = IF news = NewsOfOthers(t) THEN mishaps
                        ELSE mishaps \cup {"outdated"}
    BY <1>1 DEF Deleted
<1>4. mailbox'.news = news /\ mailbox'.notes = mailbox.notes \cup notes
      /\ news \subseteq mailbox.news
    BY <1>3 DEF NewsOfOthers
<1>5. UnderWay' = UnderWay /\ NotesUnderWay' = NotesUnderWay
    BY <1>2 DEF UnderWay, NotesUnderWay, NotesOf
<1>6. NewsIn' \subseteq NewsIn
    BY <1>4, <1>5 DEF NewsIn
<1>7. mishaps' = {} => news = NewsOfOthers(t) /\ mishaps = {}
    BY <1>3
<1> QED
    BY <1>1, <1>2, <1>3, <1>4, <1>5, <1>6, <1>7 DEF notes

\* The news of a reply are those of the mailbox.
LEMMA ReplyNowNews ==
    ASSUME Typed, NEW kept \in BOOLEAN
    PROVE  /\ ReplyNow(kept).made = clock /\ ReplyNow(kept).kept = kept
           /\ ReplyNow(kept).notes = mailbox.notes
           /\ Items(ReplyNow(kept).news) = Items(mailbox.news)
           /\ \A m \in ReplyNow(kept).news :
                 \E n \in mailbox.news :
                    /\ m = NewsNow(n) /\ Item(m) = Item(n) /\ m.id = n.id
                    /\ m.type = n.type /\ m.twyst = n.twyst /\ m.sender = n.sender
                    /\ m.count = comments[m.twyst]
           /\ ReplyNow(kept).news = {} <=> mailbox.news = {}
<1> DEFINE r == ReplyNow(kept)
<1>1. r.made = clock /\ r.kept = kept /\ r.notes = mailbox.notes
      /\ r.news = {NewsNow(n) : n \in mailbox.news}
    BY DEF ReplyNow
<1>2. ASSUME NEW n \in mailbox.news
      PROVE  LET m == NewsNow(n)
             IN  /\ Item(m) = Item(n) /\ m.id = n.id
                 /\ m.type = n.type /\ m.twyst = n.twyst /\ m.sender = n.sender
                 /\ m.count = comments[m.twyst]
    <2>1. n \in News
        BY DEF Typed
    <2> DEFINE m == NewsNow(n)
    <2>2. /\ m.id = n.id /\ m.type = n.type /\ m.twyst = n.twyst
          /\ m.sender = n.sender /\ m.count = comments[n.twyst]
        BY <2>1 DEF NewsNow, News
    <2> HIDE DEF m
    <2>3. Item(m) = Item(n)
        BY <2>2 DEF Item, Who
    <2> QED
        BY <2>2, <2>3 DEF m
<1> HIDE DEF r
<1>3. Items(r.news) = Items(mailbox.news)
    <2>1. \A m \in r.news : \E n \in mailbox.news : Item(m) = Item(n)
        BY <1>1, <1>2
    <2>2. \A n \in mailbox.news : \E m \in r.news : Item(m) = Item(n)
        BY <1>1, <1>2
    <2> QED
        BY <2>1, <2>2 DEF Items
<1>4. \A m \in r.news :
         \E n \in mailbox.news :
            /\ m = NewsNow(n) /\ Item(m) = Item(n) /\ m.id = n.id
            /\ m.type = n.type /\ m.twyst = n.twyst /\ m.sender = n.sender
            /\ m.count = comments[m.twyst]
    BY <1>1, <1>2
<1>5. r.news = {} <=> mailbox.news = {}
    BY <1>1
<1> QED
    BY <1>1, <1>3, <1>4, <1>5 DEF r

\* How far the replies reach after a block.
LEMMA TakeApplied ==
    ASSUME Typed, NEW kind, NEW met \in SUBSET Mishaps, Take(kind, met)
    PROVE  LET r == Head(mainQueue).reply
           IN  /\ applied' = IF kind = "notes" /\ r.news # {} THEN applied
                             ELSE IF applied >= r.made THEN applied ELSE r.made
               /\ applied <= applied' /\ r.made \in Nat /\ applied \in Nat
               /\ mishaps' = {} => mishaps = {} /\ met = {} /\ r.made >= applied
               /\ UNCHANGED <<clock, feed, comments, gone, mailbox, replies>>
<1> DEFINE r == Head(mainQueue).reply
<1>1. r \in Reply
    BY TakeFacts
<1>2. r.made \in Nat /\ applied \in Nat
    BY <1>1, ReplyFacts, Numbers
<1>3. Max({applied, r.made}) = IF applied >= r.made THEN applied ELSE r.made
    BY <1>2, MaxOfTwo
<1>4. applied' = IF kind = "notes" /\ r.news # {} THEN applied
                 ELSE Max({applied, r.made})
    BY DEF Take
<1>5. mishaps' = IF r.made < applied THEN mishaps \cup met \cup {"overtaken"}
                 ELSE mishaps \cup met
    BY DEF Take
<1>6. UNCHANGED <<clock, feed, comments, gone, mailbox, replies>>
    BY DEF Take, serverVars
<1> HIDE DEF r
<1>7. mishaps' = {} => mishaps = {} /\ met = {} /\ r.made >= applied
    BY <1>2, <1>5
<1>8. applied <= applied'
    BY <1>2, <1>3, <1>4
<1> QED
    BY <1>2, <1>3, <1>4, <1>6, <1>7, <1>8 DEF r

\* Something that happens gets a number of its own.
LEMMA ItemsServerNews ==
    ASSUME Typed, ItemsInv, NEW t \in Twysts, NEW type \in Types,
           NEW s \in Senders, ServerNews(type, t, s)
    PROVE  ItemsInv'
<1> DEFINE n == NewNews(type, t, s)
           f == NewItem(type, t, s)
           k == Item(n)
<1>1. /\ clock' = clock + 1 /\ clock \in Nat /\ UnderWay' = UnderWay
      /\ NewsIn' = NewsIn \cup {n} /\ feed' \subseteq feed \cup {f}
      /\ Item(f) = k /\ k.id = clock + 1
      /\ UNCHANGED <<rows, applied, mainQueue>>
    BY ServerNewsFacts
<1> HIDE DEF n, f, k
<1>2. Known' \subseteq Known \cup {k}
    <2>1. \A x \in NewsIn' : Item(x) \in Known \cup {k}
        BY <1>1 DEF Known, Items, k
    <2>2. \A x \in feed' : Item(x) \in Known \cup {k}
        BY <1>1 DEF Known, Items
    <2>3. RowItems(rows') \subseteq Known
        BY <1>1 DEF Known
    <2> QED
        BY <2>1, <2>2, <2>3 DEF Known, Items
<1>3. \A x \in Known : x.id <= clock /\ x.id \in Nat
    BY KnownIds DEF ItemsInv
<1>4. \A x \in Known' : x.id <= clock'
    BY <1>1, <1>2, <1>3
<1>5. OneEach(Known')
    <2>1. \A x \in Known : x.id # k.id
        BY <1>1, <1>3
    <2> QED
        BY <1>2, <2>1 DEF OneEach, ItemsInv
<1>6. MadeInv'
    <2>1. \A r \in UnderWay : r.made \in Nat /\ r.made <= clock
        BY UnderWayTyped DEF ItemsInv
    <2> QED
        BY <1>1, <2>1 DEF MadeInv, ItemsInv
<1>7. applied' <= clock'
    BY <1>1, Numbers DEF ItemsInv
<1> QED
    BY <1>1, <1>4, <1>5, <1>6, <1>7 DEF ItemsInv, MadeInv

\* Numbers name one event each, in every step.
LEMMA ItemsStep ==
    ASSUME Typed, Typed', ItemsInv, [Next]_vars
    PROVE  ItemsInv'
<1>0. /\ \A n \in NewsIn : Item(n) \in Known
      /\ \A f \in feed : Item(f) \in Known
      /\ RowItems(rows) \subseteq Known
      /\ Sound(rows) /\ MadeInv /\ applied <= clock /\ Paired(mainQueue)
      /\ clock \in Nat /\ applied \in Nat
    BY ItemsParts
<1>90. /\ \A r \in UnderWay : Items(r.news) \subseteq Known /\ r.news \subseteq NewsIn
       /\ rows \in Tables
    BY ItemsParts DEF Typed
<1>91. \A r \in UnderWay : r.made \in Nat
    BY UnderWayTyped
<1>1. CASE Quiet
    <2>1. /\ UNCHANGED <<clock, feed, mailbox, replies, mainQueue, applied>>
          /\ Marked(rows', rows)
        BY <1>1 DEF Quiet
    <2>2. UnderWay' = UnderWay
        BY <2>1 DEF UnderWay
    <2>3. RowItems(rows') \subseteq Known /\ Sound(rows')
        BY <1>0, <2>1, MarkedSound
    <2>4. NewsIn' \subseteq NewsIn
        BY <2>1, <2>2, NewsInKept
    <2>5. MadeInv'
        BY <1>0, <2>1, <2>2 DEF MadeInv
    <2>6. clock <= clock' /\ applied' <= clock' /\ Paired(mainQueue')
        BY <1>0, <2>1
    <2> QED
        BY <1>0, <2>1, <2>3, <2>4, <2>5, <2>6, ItemsKept
<1>2. ASSUME NEW t \in Twysts, NEW type \in Types, NEW s \in Senders,
             ServerNews(type, t, s)
      PROVE  ItemsInv'
    BY <1>2, ItemsServerNews
<1>3. ASSUME NEW t \in Twysts, FriendDeletes(t) \/ UserDeletes(t)
      PROVE  ItemsInv'
    <2>1. /\ clock' = clock + 1 /\ UnderWay' = UnderWay
          /\ feed' \subseteq feed /\ NewsIn' \subseteq NewsIn
          /\ UNCHANGED <<rows, applied, mainQueue>>
        BY <1>3, DeletedFacts
    <2>2. clock <= clock' /\ applied' <= clock'
        BY <1>0, <2>1
    <2>3. MadeInv'
        BY <1>0, <1>91, <2>1 DEF MadeInv
    <2>4. RowItems(rows') \subseteq Known /\ Sound(rows') /\ Paired(mainQueue')
        BY <1>0, <2>1
    <2> QED
        BY <1>0, <2>1, <2>2, <2>3, <2>4, ItemsKept
<1>4. CASE Answer
    <2>1. PICK kept \in BOOLEAN :
              /\ mailbox' = IF kept THEN mailbox ELSE [notes |-> {}, news |-> {}]
              /\ ReplyNow(kept) \in Reply
              /\ UnderWay' = UnderWay \cup {ReplyNow(kept)}
        BY <1>4, WayAnswer
    <2> DEFINE r == ReplyNow(kept)
    <2>2. /\ r.made = clock
          /\ \A m \in r.news : \E n \in mailbox.news : Item(m) = Item(n) /\ m.id = n.id
        BY ReplyNowNews
    <2>3. UNCHANGED <<clock, feed, rows, applied, mainQueue>>
        BY <1>4 DEF Answer, CheckStep, boardVars
    <2> HIDE DEF r
    <2>4. \A n \in mailbox.news : Item(n) \in Known /\ n.id <= clock
        BY ItemsParts DEF NewsIn
    <2>5. \A m \in r.news : Item(m) \in Known /\ m.id <= clock
        BY <2>2, <2>4
    <2>6. NewsIn' \subseteq NewsIn \cup r.news
        BY <2>1 DEF NewsIn, r
    <2>7. MadeInv'
        BY <1>0, <2>1, <2>2, <2>3, <2>5 DEF MadeInv, r
    <2>8. \A n \in NewsIn' : Item(n) \in Known
        BY <1>0, <2>5, <2>6
    <2>9. clock <= clock' /\ applied' <= clock'
        BY <1>0, <2>3
    <2>10. RowItems(rows') \subseteq Known /\ Sound(rows') /\ Paired(mainQueue')
           /\ \A f \in feed' : Item(f) \in Known
        BY <1>0, <2>3
    <2> QED
        BY <2>7, <2>8, <2>9, <2>10, ItemsKept
<1>5. ASSUME UnderWay' \subseteq UnderWay, UNCHANGED <<clock, feed, mailbox>>,
             RowItems(rows') \subseteq Known, Sound(rows'), applied' <= clock,
             Paired(mainQueue')
      PROVE  ItemsInv'
    <2>1. NewsIn' \subseteq NewsIn
        BY <1>5, NewsInKept
    <2>2. MadeInv'
        BY <1>0, <1>5 DEF MadeInv
    <2>3. clock <= clock' /\ applied' <= clock'
        BY <1>0, <1>5
    <2> QED
        BY <1>0, <1>5, <2>1, <2>2, <2>3, ItemsKept
<1>6. ASSUME NEW i \in DOMAIN replies, ReplyLost(i)
      PROVE  ItemsInv'
    <2>1. UnderWay' \subseteq UnderWay
        BY <1>6, WayLost
    <2>2. UNCHANGED <<clock, feed, mailbox, rows, applied, mainQueue>>
        BY <1>6 DEF ReplyLost, CheckStep, boardVars
    <2> QED
        BY <1>0, <1>5, <2>1, <2>2
<1>7. ASSUME NEW i \in DOMAIN replies, ReplyArrives(i)
      PROVE  ItemsInv'
    <2>1. UnderWay' \subseteq UnderWay /\ Paired(mainQueue')
        BY <1>0, <1>7, WayArrives
    <2>2. UNCHANGED <<clock, feed, mailbox, rows, applied>>
        BY <1>7 DEF ReplyArrives, CheckStep, boardVars
    <2> QED
        BY <1>0, <1>5, <2>1, <2>2
<1>8. ASSUME NEW kind, NEW met \in SUBSET Mishaps, Take(kind, met)
      PROVE  /\ UnderWay' \subseteq UnderWay /\ Paired(mainQueue')
             /\ applied' <= clock /\ UNCHANGED <<clock, feed, mailbox>>
             /\ Items(Head(mainQueue).reply.news) \subseteq Known
             /\ Head(mainQueue).reply.news \in SUBSET News
    <2>1. /\ Head(mainQueue).reply \in UnderWay /\ Paired(mainQueue')
          /\ UnderWay' \subseteq UnderWay
        BY <1>0, <1>8, WayTake, LeftoverTyped
    <2>2. applied' <= clock /\ UNCHANGED <<clock, feed, mailbox>>
        <3>1. Head(mainQueue).reply.made <= clock
            BY <1>0, <2>1 DEF MadeInv
        <3>2. applied' = applied \/ applied' = Head(mainQueue).reply.made
            BY <1>8, TakeApplied, LeftoverTyped
        <3> QED
            BY <1>0, <1>8, <3>1, <3>2, TakeApplied, LeftoverTyped
    <2> QED
        BY <1>90, <2>1, <2>2, UnderWayTyped
<1>9. CASE twystNewsDidReceive
    <2> DEFINE news == Head(mainQueue).reply.news
    <2>1. Take("news", {}) /\ rows' = Handled([rows |-> rows, fresh |-> {}], news).rows
        BY <1>9 DEF twystNewsDidReceive
    <2>2. /\ Items(news) \subseteq Known /\ news \in SUBSET News
        BY <1>8, <2>1
    <2> HIDE DEF news
    <2>3. Sound(rows') /\ RowItems(rows') \subseteq Known
        BY <1>0, <1>90, <2>1, <2>2, HandledSound DEF ItemsInv
    <2> QED
        BY <1>5, <1>8, <2>1, <2>3
<1>10. ASSUME NEW ts, deleteNewsWithTwystId(ts)
       PROVE  Sound(rows') /\ RowItems(rows') \subseteq Known
    BY <1>0, <1>10, DeleteFewer, FewerSound
<1>11. CASE notificationDidReceive
    <2>1. /\ Take("notes", Leftover(Head(mainQueue).reply.notes))
          /\ deleteNewsWithTwystId(Head(mainQueue).reply.notes)
        BY <1>11 DEF notificationDidReceive
    <2> QED
        BY <1>5, <1>8, <1>10, <2>1, LeftoverTyped
<1>12. ASSUME UNCHANGED <<replies, mainQueue, clock, feed, mailbox, applied>>,
              Sound(rows'), RowItems(rows') \subseteq Known
       PROVE  ItemsInv'
    <2>1. UnderWay' \subseteq UnderWay
        BY <1>12 DEF UnderWay
    <2> QED
        BY <1>0, <1>5, <1>12, <2>1
<1>13. ASSUME NEW t, NEW made, DeletionAnswered(t, made)
       PROVE  ItemsInv'
    <2>1. /\ UNCHANGED <<replies, mainQueue, clock, feed, mailbox, applied>>
          /\ deleteNewsWithTwystId({t})
        BY <1>13 DEF DeletionAnswered, serverVars, checkVars
    <2> QED
        BY <1>10, <1>12, <2>1
<1>14. ASSUME NEW t, NEW made, DeletionFails(t, made)
       PROVE  ItemsInv'
    <2>1. UNCHANGED <<replies, mainQueue, clock, feed, mailbox, applied, rows>>
        BY <1>14 DEF DeletionFails, serverVars, checkVars, boardVars
    <2> QED
        BY <1>0, <1>12, <2>1
<1>15. CASE Restart
    <2>1. /\ replies' = <<>> /\ mainQueue' = <<>>
          /\ UNCHANGED <<clock, feed, mailbox, applied, rows>>
        BY <1>15 DEF Restart, serverVars
    <2>2. UnderWay' \subseteq UnderWay /\ Paired(mainQueue')
        <3>1. UnderWay' = {}
            BY <2>1, EmptyElements DEF UnderWay
        <3>2. Paired(mainQueue')
            BY <2>1 DEF Paired
        <3> QED
            BY <3>1, <3>2
    <2> QED
        BY <1>0, <1>5, <2>1, <2>2
<1> QED
    BY <1>1, <1>2, <1>3, <1>4, <1>6, <1>7, <1>9, <1>11, <1>13, <1>14, <1>15, Steps

-----------------------------------------------------------------------------
(* The timer, the marks and the badge                                      *)

\* Each step that takes the last request or reply away resets the flag.
LEMMA TimerStep ==
    ASSUME Typed, TimerGoesOn, [Next]_vars
    PROVE  TimerGoesOn'
<1>1. sent \in Nat /\ replies \in Seq(Reply)
    BY DEF Typed
<1>2. CASE Send
    BY <1>1, <1>2 DEF Send, TimerGoesOn
<1>3. CASE Answer
    <2>1. PICK r : replies' = Append(replies, r)
        BY <1>3 DEF Answer
    <2>2. replies' # <<>>
        BY <1>1, <2>1
    <2> QED
        BY <2>2 DEF TimerGoesOn
<1>4. CASE waiting' = FALSE
    BY <1>4 DEF TimerGoesOn
<1>5. CASE UNCHANGED <<waiting, sent, replies>>
    BY <1>5 DEF TimerGoesOn
<1>6. CASE Board
    BY <1>5, <1>6 DEF Board, twystNewsDidReceive, notificationDidReceive, Take,
                      DeletionAnswered, DeletionFails, checkVars
<1>7. CASE Server
    BY <1>5, <1>7 DEF Server, ServerNews, FriendDeletes, UserDeletes, Deleted,
                      ServerStep, checkVars
<1>8. CASE View
    <2>1. ViewStep
        BY <1>8 DEF View, viewWillAppear, viewDidAppear, viewWillDisappear, Tap,
                    readNotification
    <2> QED
        BY <1>5, <2>1 DEF ViewStep, checkVars
<1>9. CASE UNCHANGED vars
    BY <1>5, <1>9 DEF vars, checkVars
<1> QED
    BY <1>2, <1>3, <1>4, <1>5, <1>6, <1>7, <1>8, <1>9
    DEF Next, Checking, Tick, CheckManually, CheckNotification, RequestFails,
        ReplyLost, ReplyArrives, Restart

\* A row that was read is one that was tapped, and so is the selected one.
TapInv == ReadWasTapped /\ (selected # 0 => selected \in tapped)

\* Handling news leaves no row as read that was not so before.
LEMMA HandledUnread ==
    ASSUME NEW rs \in Tables, NEW news \in SUBSET News, NEW T,
           \A o \in DOMAIN rs : ~rs[o].unread => rs[o].newsId \in T
    PROVE  LET d == Handled([rows |-> rs, fresh |-> {}], news)
           IN  \A o \in DOMAIN d.rows : ~d.rows[o].unread => d.rows[o].newsId \in T
<1> DEFINE b == [rows |-> rs, fresh |-> {}]
           Good(c) == \A o \in DOMAIN c.rows : ~c.rows[o].unread => c.rows[o].newsId \in T
           S == {p \in (0 .. MaxEvents) \X Boards : Good(p[2])}
<1>1. <<0, b>> \in S /\ b \in Boards
    BY DEF Boards
<1>2. ASSUME NEW i \in 1 .. MaxEvents, NEW c \in Boards, <<i - 1, c>> \in S
      PROVE  /\ <<i, c>> \in S
             /\ \A n \in news : \A d : n.id = i /\ Follows(c, n, d) => <<i, d>> \in S
    <2>1. Good(c) /\ i \in 0 .. MaxEvents
        BY <1>2
    <2>2. ASSUME NEW n \in news, NEW d, Follows(c, n, d)
          PROVE  <<i, d>> \in S
        <3>1. FreshRow(n).unread = TRUE
            BY WrittenItems
        <3>2. Good(d)
            BY <2>1, <2>2, <3>1, KeptRow
        <3>3. d \in Boards
            BY <2>2 DEF Follows
        <3> QED
            BY <2>1, <3>2, <3>3
    <2> QED
        BY <2>1, <2>2
<1> HIDE DEF S, b
<1>3. <<MaxEvents, Handled(b, news)>> \in S
    BY <1>1, <1>2, HandledKeeps
<1>4. Good(Handled(b, news))
    BY <1>3 DEF S
<1> QED
    BY <1>4 DEF b

\* No step marks as read what was not tapped.
LEMMA TapStep ==
    ASSUME Typed, ItemsInv, TapInv, [Next]_vars
    PROVE  TapInv'
<1>0. rows \in Tables
    BY DEF Typed
<1>1. CASE twystNewsDidReceive
    <2> DEFINE news == Head(mainQueue).reply.news
    <2>1. /\ Take("news", {}) /\ rows' = Handled([rows |-> rows, fresh |-> {}], news).rows
          /\ tapped' = tapped
        BY <1>1 DEF twystNewsDidReceive
    <2>2. news \in SUBSET News /\ selected' = selected
        BY <2>1, TakeFacts, ReplyFacts, LeftoverTyped DEF Take, viewVars
    <2> HIDE DEF news
    <2>3. \A o \in DOMAIN rows' : ~rows'[o].unread => rows'[o].newsId \in tapped
        BY <1>0, <2>1, <2>2, HandledUnread DEF TapInv, ReadWasTapped
    <2> QED
        BY <2>1, <2>2, <2>3 DEF TapInv, ReadWasTapped
<1>2. ASSUME NEW ts, deleteNewsWithTwystId(ts), selected' = selected
      PROVE  TapInv'
    <2>1. Fewer(rows', rows) /\ tapped' = tapped
        BY <1>2, DeleteFewer DEF deleteNewsWithTwystId
    <2> QED
        BY <1>2, <2>1 DEF Fewer, TapInv, ReadWasTapped
<1>3. CASE Board
    BY <1>1, <1>2, <1>3
    DEF Board, notificationDidReceive, Take, DeletionAnswered, DeletionFails,
        viewVars, boardVars, TapInv, ReadWasTapped
<1>4. CASE UNCHANGED <<rows, selected, tapped>>
    BY <1>4 DEF TapInv, ReadWasTapped
<1>5. CASE UNCHANGED <<rows, tapped>> /\ selected' = 0
    BY <1>5 DEF TapInv, ReadWasTapped
<1>6. ASSUME NEW o \in 1 .. MaxEvents, Tap(o)
      PROVE  TapInv'
    BY <1>6 DEF Tap, TapInv, ReadWasTapped
<1>7. ASSUME UNCHANGED <<tapped, selected>>, DOMAIN rows' = DOMAIN rows,
             \A o \in DOMAIN rows :
                rows'[o].newsId = rows[o].newsId
                /\ (~rows'[o].unread => ~rows[o].unread \/ rows[o].newsId \in tapped)
      PROVE  TapInv'
    BY <1>7 DEF TapInv, ReadWasTapped
<1>8. CASE viewDidAppear
    <2>1. /\ rows' = [o \in DOMAIN rows |->
                        IF o \in list THEN [rows[o] EXCEPT !.badge = FALSE]
                        ELSE rows[o]]
          /\ UNCHANGED <<tapped, selected>>
        BY <1>8 DEF viewDidAppear
    <2>2. ASSUME NEW o \in DOMAIN rows
          PROVE  /\ rows'[o].newsId = rows[o].newsId
                 /\ rows'[o].unread = rows[o].unread
        <3>1. rows[o] \in Row
            BY <1>0, TableFacts
        <3> QED
            BY <2>1, <3>1 DEF Row
    <2> QED
        BY <1>7, <2>1, <2>2
<1>9. CASE readNotification
    <2>1. /\ rows' = [o \in DOMAIN rows |->
                        IF o \in list /\ selected # 0 /\ rows[o].newsId = selected
                        THEN [rows[o] EXCEPT !.unread = FALSE] ELSE rows[o]]
          /\ UNCHANGED <<tapped, selected>>
        BY <1>9 DEF readNotification
    <2>2. ASSUME NEW o \in DOMAIN rows
          PROVE  /\ rows'[o].newsId = rows[o].newsId
                 /\ rows'[o].unread = rows[o].unread \/ rows[o].newsId \in tapped
        <3>1. rows[o] \in Row
            BY <1>0, TableFacts
        <3>2. CASE selected # 0 /\ rows[o].newsId = selected
            BY <2>1, <3>1, <3>2 DEF Row, TapInv
        <3>3. CASE ~(selected # 0 /\ rows[o].newsId = selected)
            BY <2>1, <3>3
        <3> QED
            BY <3>2, <3>3
    <2> QED
        BY <1>7, <2>1, <2>2
<1>10. CASE View
    BY <1>4, <1>5, <1>6, <1>8, <1>9, <1>10 DEF View, viewWillAppear, viewWillDisappear
<1>11. CASE Server
    BY <1>4, <1>11 DEF Server, ServerNews, FriendDeletes, UserDeletes, Deleted,
                       ServerStep, boardVars, viewVars
<1>12. CASE Checking
    BY <1>4, <1>12 DEF Checking, Tick, CheckManually, CheckNotification, Send, Answer,
                       RequestFails, ReplyLost, ReplyArrives, CheckStep, boardVars, viewVars
<1>13. CASE Restart
    BY <1>5, <1>13 DEF Restart
<1>14. CASE UNCHANGED vars
    BY <1>4, <1>14 DEF vars, boardVars, viewVars
<1> QED
    BY <1>3, <1>10, <1>11, <1>12, <1>13, <1>14 DEF Next

\* The rows that news came for still have their mark, and the open screen
\* lists none of them.
BadgeInv ==
    /\ BadgeMissesNothing
    /\ \A o \in DOMAIN rows : o \in unseen => rows[o].badge
    /\ screen = "top" => unseen \cap list = {}

\* Handling news takes no mark from a row.
LEMMA HandledBadge ==
    ASSUME NEW rs \in Tables, NEW news \in SUBSET News, NEW U,
           \A o \in DOMAIN rs : o \in U => rs[o].badge
    PROVE  LET d == Handled([rows |-> rs, fresh |-> {}], news)
           IN  \A o \in DOMAIN d.rows : o \in U => d.rows[o].badge
<1> DEFINE b == [rows |-> rs, fresh |-> {}]
           Good(c) == \A o \in DOMAIN c.rows : o \in U => c.rows[o].badge
           S == {p \in (0 .. MaxEvents) \X Boards : Good(p[2])}
<1>1. <<0, b>> \in S /\ b \in Boards
    BY DEF Boards
<1>2. ASSUME NEW i \in 1 .. MaxEvents, NEW c \in Boards, <<i - 1, c>> \in S
      PROVE  /\ <<i, c>> \in S
             /\ \A n \in news : \A d : n.id = i /\ Follows(c, n, d) => <<i, d>> \in S
    <2>1. Good(c) /\ i \in 0 .. MaxEvents
        BY <1>2
    <2>2. ASSUME NEW n \in news, NEW d, Follows(c, n, d)
          PROVE  <<i, d>> \in S
        <3>1. FreshRow(n).badge = TRUE
            BY WrittenItems
        <3>2. Good(d)
            BY <2>1, <2>2, <3>1, KeptRow
        <3>3. d \in Boards
            BY <2>2 DEF Follows
        <3> QED
            BY <2>1, <3>2, <3>3
    <2> QED
        BY <2>1, <2>2
<1> HIDE DEF S, b
<1>3. <<MaxEvents, Handled(b, news)>> \in S
    BY <1>1, <1>2, HandledKeeps
<1>4. Good(Handled(b, news))
    BY <1>3 DEF S
<1> QED
    BY <1>4 DEF b

\* Fewer rows, fewer to count.
LEMMA CountFewer ==
    ASSUME NEW T \in SUBSET Ids, NEW S, S \subseteq T
    PROVE  Cardinality(S) <= Cardinality(T) /\ Cardinality(S) \in Nat
           /\ Cardinality(T) \in Nat
BY IdsFinite, FS_Subset

\* No step leaves a badge too small.
LEMMA BadgeStep ==
    ASSUME Typed, Typed', BadgeInv, [Next]_vars
    PROVE  BadgeInv'
<1>0. rows \in Tables /\ unseen \in SUBSET Ids /\ badge \in Nat /\ rows' \in Tables
    BY DEF Typed, Ids
<1> DEFINE Count == unseen \cap list \cap DOMAIN rows
<1>1. Count \in SUBSET Ids
    BY <1>0
<1>2. CASE UNCHANGED <<rows, list, unseen, badge, screen>>
    BY <1>2 DEF BadgeInv, BadgeMissesNothing
<1>3. CASE twystNewsDidReceive
    <2> DEFINE news == Head(mainQueue).reply.news
               b == Handled([rows |-> rows, fresh |-> {}], news)
    <2>1. Take("news", {})
        BY <1>3 DEF twystNewsDidReceive
    <2>2. news \in SUBSET News /\ screen' = screen
        BY <2>1, TakeFacts, ReplyFacts, LeftoverTyped DEF Take, viewVars
    <2>3. /\ rows' = b.rows
          /\ badge' = IF screen = "top" THEN badge
                      ELSE Cardinality(Badged(rows', list'))
          /\ unseen' = IF screen = "top" THEN (unseen \cap DOMAIN rows') \ list'
                       ELSE (unseen \cap DOMAIN rows') \cup b.fresh
        BY <1>3 DEF twystNewsDidReceive
    <2> HIDE DEF news
    <2>4. \A o \in DOMAIN b.rows : o \in unseen => b.rows[o].badge
        BY <1>0, <2>2, HandledBadge DEF BadgeInv
    <2>5. \A o \in b.fresh : b.rows[o].badge
        BY <1>0, <2>2, HandledBoard
    <2> HIDE DEF b
    <2>6. \A o \in DOMAIN rows' : o \in unseen' => rows'[o].badge
        BY <2>3, <2>4, <2>5
    <2>7. CASE screen = "top"
        BY <2>2, <2>3, <2>6, <2>7 DEF BadgeInv, BadgeMissesNothing
    <2>8. CASE screen # "top"
        <3>1. Badged(rows', list') \in SUBSET Ids
            BY <1>0, TableFacts DEF Badged
        <3>2. unseen' \cap list' \cap DOMAIN rows' \subseteq Badged(rows', list')
            BY <2>6 DEF Badged
        <3>3. badge' >= Cardinality(unseen' \cap list' \cap DOMAIN rows')
            BY <2>3, <2>8, <3>1, <3>2, CountFewer
        <3> QED
            BY <2>2, <2>6, <2>8, <3>3 DEF BadgeInv, BadgeMissesNothing
    <2> QED
        BY <2>7, <2>8
<1>4. ASSUME NEW ts, deleteNewsWithTwystId(ts), screen' = screen
      PROVE  BadgeInv'
    <2>1. Fewer(rows', rows) /\ unseen' = unseen \cap DOMAIN rows' /\ list' = list
          /\ badge' = badge
        BY <1>4, DeleteFewer DEF deleteNewsWithTwystId
    <2>2. unseen' \cap list' \cap DOMAIN rows' \subseteq Count
        BY <2>1 DEF Fewer
    <2> HIDE DEF Count
    <2>3. /\ Cardinality(unseen' \cap list' \cap DOMAIN rows') <= Cardinality(Count)
          /\ Cardinality(unseen' \cap list' \cap DOMAIN rows') \in Nat
          /\ Cardinality(Count) \in Nat
        BY <1>1, <2>2, CountFewer
    <2>4. screen = "away" => badge >= Cardinality(Count)
        BY DEF BadgeInv, BadgeMissesNothing, Count
    <2>5. screen' = "away"
             => badge' >= Cardinality(unseen' \cap list' \cap DOMAIN rows')
        BY <1>0, <1>4, <2>1, <2>3, <2>4
    <2>6. \A o \in DOMAIN rows' : o \in unseen' => rows'[o].badge
        BY <2>1 DEF Fewer, BadgeInv
    <2>7. screen' = "top" => unseen' \cap list' = {}
        BY <1>4, <2>1 DEF BadgeInv
    <2> QED
        BY <2>5, <2>6, <2>7 DEF BadgeInv, BadgeMissesNothing
<1>5. CASE Board
    <2>1. ASSUME NEW t \in Twysts, NEW made \in Times, DeletionAnswered(t, made)
          PROVE  BadgeInv'
        BY <1>4, <2>1 DEF DeletionAnswered, viewVars
    <2>2. ASSUME NEW t \in Twysts, NEW made \in Times, DeletionFails(t, made)
          PROVE  BadgeInv'
        BY <1>2, <2>2 DEF DeletionFails, boardVars, viewVars
    <2>3. CASE notificationDidReceive
        BY <1>4, <2>3 DEF notificationDidReceive, Take, viewVars
    <2> QED
        BY <1>3, <1>5, <2>1, <2>2, <2>3 DEF Board
<1>6. ASSUME screen' # "away",
             screen' = "top" => unseen' \cap list' = {},
             \A o \in DOMAIN rows' : o \in unseen' => rows'[o].badge
      PROVE  BadgeInv'
    BY <1>6 DEF BadgeInv, BadgeMissesNothing
<1>7. CASE viewWillAppear
    BY <1>6, <1>7 DEF viewWillAppear, BadgeInv
<1>8. CASE viewDidAppear
    <2>1. /\ rows' = [o \in DOMAIN rows |-> IF o \in list
                                            THEN [rows[o] EXCEPT !.badge = FALSE]
                                            ELSE rows[o]]
          /\ unseen' = unseen \ list /\ screen' = "top" /\ list' = list
        BY <1>8 DEF viewDidAppear
    <2>2. \A o \in DOMAIN rows' : o \in unseen' => rows'[o].badge
        BY <2>1 DEF BadgeInv
    <2> QED
        BY <1>6, <2>1, <2>2
<1>9. CASE viewWillDisappear
    <2>1. Count = {} /\ UNCHANGED <<rows, list, badge, unseen>> /\ screen' = "away"
        BY <1>9 DEF viewWillDisappear, BadgeInv
    <2>2. unseen' \cap list' \cap DOMAIN rows' = {}
        BY <2>1
    <2>3. badge' >= Cardinality(unseen' \cap list' \cap DOMAIN rows')
        BY <1>0, <2>1, <2>2, FS_EmptySet
    <2> QED
        BY <2>1, <2>3 DEF BadgeInv, BadgeMissesNothing
<1>10. CASE readNotification
    <2>1. /\ rows' = [o \in DOMAIN rows |->
                        IF o \in list /\ selected # 0 /\ rows[o].newsId = selected
                        THEN [rows[o] EXCEPT !.unread = FALSE] ELSE rows[o]]
          /\ UNCHANGED <<screen, list, badge, unseen>>
        BY <1>10 DEF readNotification
    <2>2. ASSUME NEW o \in DOMAIN rows
          PROVE  rows'[o].badge = rows[o].badge
        <3>1. rows[o] \in Row
            BY <1>0, TableFacts
        <3> QED
            BY <2>1, <3>1 DEF Row
    <2>3. DOMAIN rows' = DOMAIN rows
        BY <2>1
    <2> QED
        BY <2>1, <2>2, <2>3 DEF BadgeInv, BadgeMissesNothing
<1>11. CASE View
    BY <1>2, <1>7, <1>8, <1>9, <1>10, <1>11 DEF View, Tap
<1>12. CASE Server
    BY <1>2, <1>12 DEF Server, ServerNews, FriendDeletes, UserDeletes, Deleted,
                       ServerStep, boardVars, viewVars
<1>13. CASE Checking
    BY <1>2, <1>13 DEF Checking, Tick, CheckManually, CheckNotification, Send, Answer,
                       RequestFails, ReplyLost, ReplyArrives, CheckStep, boardVars, viewVars
<1>14. CASE Restart
    <2>1. unseen' = {} /\ list' = {} /\ badge' = 0 /\ screen' = "away"
        BY <1>14 DEF Restart
    <2>2. unseen' \cap list' \cap DOMAIN rows' = {} /\ Cardinality({}) = 0
        BY <2>1, FS_EmptySet
    <2>3. badge' >= Cardinality(unseen' \cap list' \cap DOMAIN rows')
        BY <2>1, <2>2
    <2> QED
        BY <2>1, <2>3 DEF BadgeInv, BadgeMissesNothing
<1>15. CASE UNCHANGED vars
    BY <1>2, <1>15 DEF vars, boardVars, viewVars
<1> QED
    BY <1>5, <1>11, <1>12, <1>13, <1>14, <1>15 DEF Next

\* What the other invariants rest on.
BasicInv == Typed /\ CountInv /\ ItemsInv

\* The app has just started.
LEMMA InitBasic ==
    ASSUME Init
    PROVE  /\ BasicInv /\ TypeOK /\ TimerGoesOn /\ TapInv /\ BadgeInv
           /\ UnderWay = {} /\ NotesUnderWay = {} /\ NewsIn = {}
<1>1. /\ <<>> \in Seq(Reply) /\ <<>> \in Seq(Block) /\ Len(<<>>) = 0
      /\ DOMAIN <<>> = {} /\ <<>> = [o \in {} |-> <<>>[o]]
    OBVIOUS
<1>2. rows \in Tables
    <2>1. rows = [o \in {} |-> rows[o]]
        BY <1>1 DEF Init
    <2> QED
        BY <2>1, IsTable
<1>3. Cardinality(list) <= FetchLimit
    <2>1. list = {}
        BY DEF Init
    <2>2. Cardinality(list) = 0
        BY <2>1, FS_EmptySet
    <2> QED
        BY <2>2
<1>4. Typed
    <2>1. /\ 0 \in Times /\ {} \in SUBSET (Twysts \X Times)
          /\ {} \in SUBSET (1 .. MaxEvents) /\ {} \in SUBSET News
          /\ 1 \in 0 .. MaxChecks /\ 0 \in 0 .. MaxChecks
          /\ 0 \in 0 .. MaxReads /\ 0 \in 0 .. MaxRestarts
        BY DEF Times
    <2>2. comments \in [Twysts -> Times]
        BY <2>1 DEF Init
    <2>3. due + sent + Len(replies) <= MaxChecks
        BY <1>1 DEF Init
    <2> QED
        BY <1>1, <1>2, <2>1, <2>2, <2>3 DEF Init, Typed
<1>5. TypeOK
    BY <1>3, <1>4 DEF TypeOK
<1>6. UnderWay = {} /\ NotesUnderWay = {}
    <2>1. replies = <<>> /\ mainQueue = <<>>
        BY DEF Init
    <2> QED
        BY <1>1, <2>1 DEF UnderWay, NotesUnderWay, NotesOf, ToSet
<1>7. NewsIn = {}
    BY <1>6 DEF NewsIn, Init
<1>8. Known = {} /\ Sound(rows)
    <2>1. DOMAIN rows = {} /\ feed = {}
        BY <1>1 DEF Init
    <2> QED
        BY <1>7, <2>1 DEF Known, Items, RowItems, Sound, OneRow
<1>9. Paired(mainQueue)
    BY <1>1 DEF Init, Paired
<1>10. ItemsInv
    BY <1>6, <1>8, <1>9 DEF ItemsInv, OneEach, Init
<1>11. CountInv
    BY DEF CountInv, Init
<1>12. TimerGoesOn /\ TapInv
    BY <1>1 DEF Init, TimerGoesOn, TapInv, ReadWasTapped
<1>13. BadgeInv
    <2>1. unseen \cap list \cap DOMAIN rows = {} /\ unseen \cap list = {}
          /\ badge = 0 /\ DOMAIN rows = {}
        BY <1>1 DEF Init
    <2> QED
        BY <2>1, FS_EmptySet DEF BadgeInv, BadgeMissesNothing
<1> QED
    BY <1>4, <1>5, <1>6, <1>7, <1>10, <1>11, <1>12, <1>13 DEF BasicInv

\* Types, counts and numbers, step by step.
LEMMA BasicStep ==
    ASSUME BasicInv, [Next]_vars
    PROVE  BasicInv'
<1>1. Typed' /\ CountInv'
    BY TypedStep DEF BasicInv
<1>2. ItemsInv'
    BY <1>1, ItemsStep DEF BasicInv
<1> QED
    BY <1>1, <1>2 DEF BasicInv

\* The list is what getAllNews fetched at some time.
LEMMA ListStep ==
    ASSUME BasicInv, BasicInv', TypeOK, [Next]_vars
    PROVE  TypeOK'
<1>1. Typed /\ Typed' /\ rows \in Tables /\ rows' \in Tables
    BY DEF BasicInv, Typed
<1>2. OneRow(rows) /\ OneRow(rows')
    BY DEF BasicInv, ItemsInv, Sound
<1>3. /\ Cardinality(getAllNews(rows)) <= FetchLimit
      /\ Cardinality(getAllNews(rows')) <= FetchLimit
    BY <1>1, <1>2, FetchedFew DEF OneRow
<1>4. list' \in {list, {}, getAllNews(rows), getAllNews(rows')}
    <2>1. CASE Board
        BY <2>1 DEF Board, twystNewsDidReceive, notificationDidReceive,
                    deleteNewsWithTwystId, DeletionAnswered, DeletionFails, boardVars
    <2>2. CASE View
        BY <2>2 DEF View, viewWillAppear, viewDidAppear, viewWillDisappear, Tap,
                    readNotification
    <2>3. CASE Server
        BY <2>3 DEF Server, ServerNews, FriendDeletes, UserDeletes, Deleted,
                    ServerStep, boardVars
    <2>4. CASE Checking
        BY <2>4 DEF Checking, Tick, CheckManually, CheckNotification, Send, Answer,
                    RequestFails, ReplyLost, ReplyArrives, CheckStep, boardVars
    <2>5. CASE Restart
        BY <2>5 DEF Restart
    <2>6. CASE UNCHANGED vars
        BY <2>6 DEF vars, boardVars
    <2> QED
        BY <2>1, <2>2, <2>3, <2>4, <2>5, <2>6 DEF Next
<1>5. Cardinality({}) <= FetchLimit
    BY FS_EmptySet
<1> QED
    BY <1>1, <1>3, <1>4, <1>5 DEF TypeOK

\* The variables have their types, and the screen lists no more rows than
\* setFetchLimit: allows, in every behaviour of the board.
THEOREM NewsBoardTyped == Spec => []TypeOK
<1>1. Init => BasicInv /\ TypeOK
    BY InitBasic
<1>2. BasicInv /\ TypeOK /\ [Next]_vars => BasicInv' /\ TypeOK'
    BY BasicStep, ListStep
<1> QED
    BY <1>1, <1>2, PTL DEF Spec

\* No row of the store is doubled, however often the server tells of the
\* same: each news has one row, and so have the comments of each twyst.
THEOREM NoRowTwice == Spec => []OneRowEach
<1>1. Init => BasicInv
    BY InitBasic
<1>2. BasicInv /\ [Next]_vars => BasicInv'
    BY BasicStep
<1>3. BasicInv => OneRowEach
    BY DEF BasicInv, ItemsInv, Sound, OneRow, OneRowEach
<1> QED
    BY <1>1, <1>2, <1>3, PTL DEF Spec

\* onTimer: is never held back for ever: while _isWaitingResponse is set, a
\* request or a reply is there whose completion resets it.
THEOREM TimerIsReleased == Spec => []TimerGoesOn
<1>1. Init => BasicInv /\ TimerGoesOn
    BY InitBasic
<1>2. BasicInv /\ TimerGoesOn /\ [Next]_vars => BasicInv' /\ TimerGoesOn'
    BY BasicStep, TimerStep DEF BasicInv
<1> QED
    BY <1>1, <1>2, PTL DEF Spec

\* readNotification, which runs half a second after the tap and looks for
\* the selected news among the rows of that time, marks no row that tells of
\* news the user has not tapped.
THEOREM ReadOnlyIfTapped == Spec => []ReadWasTapped
<1>1. Init => BasicInv /\ TapInv
    BY InitBasic
<1>2. BasicInv /\ TapInv /\ [Next]_vars => BasicInv' /\ TapInv'
    BY BasicStep, TapStep DEF BasicInv
<1>3. TapInv => ReadWasTapped
    BY DEF TapInv
<1> QED
    BY <1>1, <1>2, <1>3, PTL DEF Spec

\* The number on the tab bar of a closed screen leaves out no listed row that
\* news came for.
THEOREM BadgeIsEnough == Spec => []BadgeMissesNothing
<1>1. Init => BasicInv /\ BadgeInv
    BY InitBasic
<1>2. BasicInv /\ BadgeInv /\ [Next]_vars => BasicInv' /\ BadgeInv'
    BY BasicStep, BadgeStep DEF BasicInv
<1>3. BadgeInv => BadgeMissesNothing
    BY DEF BadgeInv
<1> QED
    BY <1>1, <1>2, <1>3, PTL DEF Spec

-----------------------------------------------------------------------------
(* Deleted twysts                                                          *)

Clean == mishaps = {}

\* The app hears of a deletion only when there was one.
GoneInv ==
    /\ mailbox.notes \subseteq gone /\ dropped \subseteq gone
    /\ \A r \in UnderWay : r.notes \subseteq gone
    /\ \A l \in leaving : l[1] \in gone /\ l[2] <= clock

\* The deletions of a reply are carried out before its news.
HalfDone ==
    /\ mainQueue # <<>>
    /\ Head(mainQueue).kind = "news" /\ Head(mainQueue).reply.notes # {}

\* The reply was overtaken.
Late(r) ==
    \/ r.made < applied
    \/ HalfDone /\ r.made < Head(mainQueue).reply.made

\* What is told of a deleted twyst was told before its deletion.
NewsOfGone ==
    /\ \A n \in mailbox.news : n.twyst \notin gone
    /\ \A r \in UnderWay : \A n \in r.news :
          /\ n.twyst \in gone => r.made < clock
          /\ \A q \in UnderWay : n.twyst \in q.notes => r.made < q.made
          /\ \A l \in leaving : n.twyst = l[1] => r.made < l[2]
          /\ n.twyst \in dropped => Late(r)

NoneBack ==
    revived = {} /\ \A o \in DOMAIN rows : rows[o].twyst \notin dropped

ReviveInv == GoneInv /\ (Clean => NewsOfGone /\ NoneBack)

\* Rows come from rows and from news.
LEMMA HandledTwysts ==
    ASSUME NEW rs \in Tables, NEW news \in SUBSET News, NEW T,
           \A o \in DOMAIN rs : rs[o].twyst \in T, \A n \in news : n.twyst \in T
    PROVE  LET d == Handled([rows |-> rs, fresh |-> {}], news)
           IN  \A o \in DOMAIN d.rows : d.rows[o].twyst \in T
<1> DEFINE b == [rows |-> rs, fresh |-> {}]
           Good(c) == \A o \in DOMAIN c.rows : c.rows[o].twyst \in T
           S == {p \in (0 .. MaxEvents) \X Boards : Good(p[2])}
<1>1. <<0, b>> \in S /\ b \in Boards
    BY DEF Boards
<1>2. ASSUME NEW i \in 1 .. MaxEvents, NEW c \in Boards, <<i - 1, c>> \in S
      PROVE  /\ <<i, c>> \in S
             /\ \A n \in news : \A d : n.id = i /\ Follows(c, n, d) => <<i, d>> \in S
    <2>1. Good(c) /\ i \in 0 .. MaxEvents
        BY <1>2
    <2>2. ASSUME NEW n \in news, NEW d, Follows(c, n, d)
          PROVE  <<i, d>> \in S
        <3>1. FreshRow(n).twyst = n.twyst
            BY WrittenItems
        <3>2. Good(d)
            BY <2>1, <2>2, <3>1, KeptRow
        <3>3. d \in Boards
            BY <2>2 DEF Follows
        <3> QED
            BY <2>1, <3>2, <3>3
    <2> QED
        BY <2>1, <2>2
<1> HIDE DEF S, b
<1>3. <<MaxEvents, Handled(b, news)>> \in S
    BY <1>1, <1>2, HandledKeeps
<1>4. Good(Handled(b, news))
    BY <1>3 DEF S
<1> QED
    BY <1>4 DEF b

\* A step that brings no reply and runs no block.
LEMMA ReviveKept ==
    ASSUME BasicInv, ReviveInv, clock \in Nat, clock' \in Nat, clock <= clock',
           UnderWay' \subseteq UnderWay, gone' = gone, leaving' \subseteq leaving,
           dropped' = dropped, revived' = revived, applied' = applied,
           mailbox' = mailbox, Clean' => Clean,
           \A r \in UnderWay' : Late(r) => Late(r)',
           \A o \in DOMAIN rows' : o \in DOMAIN rows /\ rows'[o].twyst = rows[o].twyst
    PROVE  ReviveInv'
<1>1. \A r \in UnderWay : r.made \in Nat
    BY UnderWayTyped DEF BasicInv
<1>2. \A l \in leaving : l[2] \in Nat
    BY DEF BasicInv, Typed, Times
<1>3. GoneInv'
    BY <1>2 DEF ReviveInv, GoneInv
<1>4. ASSUME Clean'
      PROVE  NewsOfGone' /\ NoneBack'
    <2>1. NewsOfGone /\ NoneBack
        BY <1>4 DEF ReviveInv
    <2>2. NoneBack'
        BY <2>1 DEF NoneBack
    <2>3. ASSUME NEW r \in UnderWay', NEW n \in r.news
          PROVE  /\ n.twyst \in gone' => r.made < clock'
                 /\ \A q \in UnderWay' : n.twyst \in q.notes => r.made < q.made
                 /\ \A l \in leaving' : n.twyst = l[1] => r.made < l[2]
                 /\ n.twyst \in dropped' => Late(r)'
        BY <1>1, <2>1, <2>3 DEF NewsOfGone
    <2> QED
        BY <2>1, <2>2, <2>3 DEF NewsOfGone
<1> QED
    BY <1>3, <1>4 DEF ReviveInv

\* A twyst is deleted: what is under way was told before.
LEMMA ReviveDeleted ==
    ASSUME BasicInv, ReviveInv, NEW t \in Twysts, FriendDeletes(t) \/ UserDeletes(t)
    PROVE  ReviveInv'
<1>1. /\ clock' = clock + 1 /\ clock \in Nat
      /\ UnderWay' = UnderWay
      /\ t \notin gone /\ gone' = gone \cup {t}
      /\ mailbox'.news \in {mailbox.news, NewsOfOthers(t)}
      /\ mishaps' = {} => mailbox'.news = NewsOfOthers(t) /\ mishaps = {}
      /\ mailbox'.notes = IF FriendDeletes(t) THEN mailbox.notes \cup {t}
                          ELSE mailbox.notes
      /\ leaving' = IF FriendDeletes(t) THEN leaving
                    ELSE leaving \cup {<<t, clock + 1>>}
      /\ UNCHANGED <<rows, applied, mainQueue, replies, dropped, revived>>
    BY DeletedFacts DEF BasicInv
<1>2. \A r \in UnderWay : r.made \in Nat /\ r.made <= clock
    BY UnderWayTyped, ItemsParts DEF BasicInv, MadeInv
<1>3. \A l \in leaving : l[2] \in Nat
    BY DEF BasicInv, Typed, Times
<1>4. GoneInv'
    BY <1>1, <1>3 DEF ReviveInv, GoneInv
<1>5. ASSUME Clean'
      PROVE  NewsOfGone' /\ NoneBack'
    <2>1. NewsOfGone /\ NoneBack /\ GoneInv /\ mailbox'.news = NewsOfOthers(t)
        BY <1>1, <1>5 DEF ReviveInv, Clean
    <2>2. NoneBack'
        BY <1>1, <2>1 DEF NoneBack
    <2>3. \A n \in mailbox'.news : n.twyst \notin gone'
        BY <1>1, <2>1 DEF NewsOfGone, NewsOfOthers
    <2>4. ASSUME NEW r \in UnderWay', NEW n \in r.news
          PROVE  /\ n.twyst \in gone' => r.made < clock'
                 /\ \A q \in UnderWay' : n.twyst \in q.notes => r.made < q.made
                 /\ n.twyst \in dropped' => Late(r)'
        BY <1>1, <1>2, <2>1 DEF NewsOfGone, Late, HalfDone
    <2>5. ASSUME NEW r \in UnderWay', NEW n \in r.news, NEW l \in leaving',
                 n.twyst = l[1]
          PROVE  r.made < l[2]
        <3>1. CASE l \in leaving
            BY <1>1, <2>1, <2>5, <3>1 DEF NewsOfGone
        <3>2. CASE l = <<t, clock + 1>>
            BY <1>1, <1>2, <3>2
        <3> QED
            BY <1>1, <3>1, <3>2
    <2> QED
        BY <2>2, <2>3, <2>4, <2>5 DEF NewsOfGone
<1> QED
    BY <1>4, <1>5 DEF ReviveInv

\* A reply tells of no deleted twyst.
LEMMA ReviveAnswer ==
    ASSUME BasicInv, ReviveInv, Answer
    PROVE  ReviveInv'
<1>1. PICK kept \in BOOLEAN :
          /\ mailbox' = IF kept THEN mailbox ELSE [notes |-> {}, news |-> {}]
          /\ UnderWay' = UnderWay \cup {ReplyNow(kept)}
    BY WayAnswer DEF BasicInv
<1> DEFINE r == ReplyNow(kept)
<1>2. /\ r.made = clock /\ r.notes = mailbox.notes
      /\ \A m \in r.news : \E n \in mailbox.news : m.twyst = n.twyst
    BY ReplyNowNews DEF BasicInv
<1>3. UnderWay' = UnderWay \cup {r}
    BY <1>1
<1> HIDE DEF r
<1>4. UNCHANGED <<clock, gone, leaving, rows, applied, mainQueue, dropped, revived,
                  mishaps>>
    BY DEF Answer, CheckStep, boardVars
<1>5. mailbox'.notes \subseteq mailbox.notes /\ mailbox'.news \subseteq mailbox.news
    BY <1>1
<1>6. GoneInv'
    BY <1>2, <1>3, <1>4, <1>5 DEF ReviveInv, GoneInv
<1>7. ASSUME Clean'
      PROVE  NewsOfGone' /\ NoneBack'
    <2>1. NewsOfGone /\ NoneBack /\ GoneInv
        BY <1>4, <1>7 DEF ReviveInv, Clean
    <2>2. NoneBack' /\ \A n \in mailbox'.news : n.twyst \notin gone'
        BY <1>4, <1>5, <2>1 DEF NoneBack, NewsOfGone
    <2>3. \A n \in r.news : n.twyst \notin gone
        BY <1>2, <2>1 DEF NewsOfGone
    <2>4. \A q \in UnderWay' : q.notes \subseteq gone
        BY <1>2, <1>3, <2>1 DEF GoneInv
    <2>5. \A q \in UnderWay : Late(q) => Late(q)'
        BY <1>4 DEF Late, HalfDone
    <2>6. ASSUME NEW q \in UnderWay', NEW n \in q.news
          PROVE  /\ n.twyst \in gone' => q.made < clock'
                 /\ \A p \in UnderWay' : n.twyst \in p.notes => q.made < p.made
                 /\ \A l \in leaving' : n.twyst = l[1] => q.made < l[2]
                 /\ n.twyst \in dropped' => Late(q)'
        <3>1. CASE n.twyst \notin gone
            BY <1>4, <2>1, <2>4, <3>1 DEF GoneInv
        <3>2. CASE n.twyst \in gone
            <4>1. q \in UnderWay
                BY <1>3, <2>3, <3>2
            <4> QED
                BY <1>2, <1>3, <1>4, <2>1, <2>5, <3>2, <4>1 DEF NewsOfGone
        <3> QED
            BY <3>1, <3>2
    <2> QED
        BY <2>2, <2>6 DEF NewsOfGone
<1> QED
    BY <1>6, <1>7 DEF ReviveInv

\* The deletions that a reply tells of are carried out.
LEMMA ReviveNotes ==
    ASSUME BasicInv, ReviveInv, notificationDidReceive
    PROVE  ReviveInv'
<1> DEFINE r == Head(mainQueue).reply
<1>1. /\ Take("notes", Leftover(r.notes)) /\ deleteNewsWithTwystId(r.notes) /\ leaving' = leaving
    BY DEF notificationDidReceive
<1>2. /\ r \in UnderWay /\ Head(mainQueue).kind = "notes" /\ mainQueue # <<>>
      /\ UnderWay = UnderWay' \cup {r} /\ r.notes # {}
      /\ r.news # {} => mainQueue' # <<>> /\ Head(mainQueue') = Half("news", r)
    BY <1>1, WayTake, LeftoverTyped DEF BasicInv, ItemsInv, Take
<1>3. /\ applied' = IF r.news # {} THEN applied
                    ELSE IF applied >= r.made THEN applied ELSE r.made
      /\ applied <= applied' /\ r.made \in Nat /\ applied \in Nat
      /\ mishaps' = {} => mishaps = {} /\ Leftover(r.notes) = {} /\ r.made >= applied
      /\ UNCHANGED <<clock, gone, mailbox>>
    BY <1>1, TakeApplied, LeftoverTyped DEF BasicInv, Take, serverVars
<1>4. /\ Fewer(rows', rows)
      /\ Leftover(r.notes) = {} =>
           \A o \in DOMAIN rows : o \in DOMAIN rows' <=> rows[o].twyst \notin r.notes
      /\ dropped' = dropped \cup r.notes /\ revived' = revived
    BY <1>1, DeleteFewer DEF deleteNewsWithTwystId
<1>5. \A q \in UnderWay : q.made \in Nat
    BY UnderWayTyped DEF BasicInv
<1>6. r.news # {} => /\ mainQueue' # <<>> /\ Head(mainQueue').kind = "news"
                     /\ Head(mainQueue').reply = r
    <2>1. Half("news", r).kind = "news" /\ Half("news", r).reply = r
        BY DEF Half
    <2> QED
        BY <1>2, <2>1
<1> HIDE DEF r
<1>7. GoneInv'
    BY <1>1, <1>2, <1>3, <1>4 DEF ReviveInv, GoneInv
<1>8. ASSUME Clean'
      PROVE  NewsOfGone' /\ NoneBack'
    <2>1. NewsOfGone /\ NoneBack
        BY <1>3, <1>8 DEF ReviveInv, Clean
    <2>2. NoneBack'
        BY <1>3, <1>4, <1>8, <2>1 DEF NoneBack, Fewer, Clean
    <2>3. ~HalfDone
        BY <1>2 DEF HalfDone
    <2>4. ASSUME NEW q \in UnderWay, q.made < applied
          PROVE  Late(q)'
        BY <1>3, <1>5, <2>4 DEF Late
    <2>5. ASSUME NEW q \in UnderWay, q.made < r.made
          PROVE  Late(q)'
        <3>1. CASE r.news # {}
            BY <1>2, <1>6, <2>5, <3>1 DEF Late, HalfDone
        <3>2. CASE r.news = {}
            <4>1. applied' >= r.made /\ applied' \in Nat
                BY <1>3, <3>2
            <4> QED
                BY <1>3, <1>5, <2>5, <4>1 DEF Late
        <3> QED
            BY <3>1, <3>2
    <2>6. ASSUME NEW q \in UnderWay', NEW n \in q.news
          PROVE  /\ n.twyst \in gone' => q.made < clock'
                 /\ \A p \in UnderWay' : n.twyst \in p.notes => q.made < p.made
                 /\ \A l \in leaving' : n.twyst = l[1] => q.made < l[2]
                 /\ n.twyst \in dropped' => Late(q)'
        <3>1. q \in UnderWay
            BY <1>2
        <3>2. n.twyst \in dropped => Late(q)'
            BY <2>1, <2>3, <2>4, <3>1 DEF NewsOfGone, Late
        <3>3. n.twyst \in r.notes => Late(q)'
            BY <1>2, <2>1, <2>5, <3>1 DEF NewsOfGone
        <3>4. /\ n.twyst \in gone => q.made < clock
              /\ \A p \in UnderWay : n.twyst \in p.notes => q.made < p.made
              /\ \A l \in leaving : n.twyst = l[1] => q.made < l[2]
            BY <2>1, <3>1 DEF NewsOfGone
        <3> QED
            BY <1>1, <1>2, <1>3, <1>4, <3>2, <3>3, <3>4
    <2>7. \A n \in mailbox'.news : n.twyst \notin gone'
        BY <1>3, <2>1 DEF NewsOfGone
    <2> QED
        BY <2>2, <2>6, <2>7 DEF NewsOfGone
<1> QED
    BY <1>7, <1>8 DEF ReviveInv

\* The news of a reply: those about a deleted twyst come too late.
LEMMA ReviveNews ==
    ASSUME BasicInv, ReviveInv, twystNewsDidReceive
    PROVE  ReviveInv'
<1> DEFINE r == Head(mainQueue).reply
           b == Handled([rows |-> rows, fresh |-> {}], r.news)
<1>1. /\ Take("news", {}) /\ rows' = b.rows
      /\ revived' = revived \cup (PreDownloads(r.news) \cap dropped)
      /\ UNCHANGED <<dropped, leaving>>
    BY DEF twystNewsDidReceive
<1>2. /\ r \in Reply /\ r \in UnderWay /\ Head(mainQueue).kind = "news"
      /\ mainQueue # <<>>
      /\ UnderWay = UnderWay' \cup {r}
      /\ /\ mainQueue' # <<>> /\ Head(mainQueue').kind = "news"
         /\ Head(mainQueue').reply.notes # {}
         => Head(mainQueue) = Half("notes", Head(mainQueue').reply)
    BY <1>1, WayTake, LeftoverTyped DEF BasicInv, ItemsInv, Take
<1>3. /\ applied' = IF applied >= r.made THEN applied ELSE r.made
      /\ r.made \in Nat /\ applied \in Nat
      /\ mishaps' = {} => mishaps = {} /\ r.made >= applied
      /\ UNCHANGED <<clock, gone, mailbox>>
    BY <1>1, TakeApplied, LeftoverTyped DEF BasicInv, Take, serverVars
<1>4. \A q \in UnderWay : q.made \in Nat
    BY UnderWayTyped DEF BasicInv
<1>5. rows \in Tables /\ r.news \in SUBSET News
    BY <1>2, ReplyFacts DEF BasicInv, Typed
<1>6. \A n \in PreDownloads(r.news) : \E m \in r.news : m.twyst = n
    BY DEF PreDownloads
<1> HIDE DEF r
<1>7. GoneInv'
    BY <1>1, <1>2, <1>3 DEF ReviveInv, GoneInv
<1>8. ASSUME Clean'
      PROVE  NewsOfGone' /\ NoneBack'
    <2>1. NewsOfGone /\ NoneBack /\ r.made >= applied
        BY <1>3, <1>8 DEF ReviveInv, Clean
    <2>2. \A q \in UnderWay : Late(q) => q.made < applied'
        <3>1. HalfDone => Head(mainQueue).reply.made = r.made
            BY DEF r
        <3> QED
            BY <1>3, <1>4, <3>1 DEF Late
    <2>3. ~Late(r)
        BY <1>2, <1>3, <2>1 DEF Late, r
    <2>4. \A n \in r.news : n.twyst \notin dropped
        BY <1>2, <2>1, <2>3 DEF NewsOfGone
    <2>5. \A o \in DOMAIN b.rows : b.rows[o].twyst \in Twysts \ dropped
        <3>1. \A o \in DOMAIN rows : rows[o].twyst \in Twysts \ dropped
            <4>1. \A o \in DOMAIN rows : rows[o].twyst \in Twysts
                BY <1>5, TableFacts DEF Row
            <4> QED
                BY <2>1, <4>1 DEF NoneBack
        <3>2. \A n \in r.news : n.twyst \in Twysts \ dropped
            BY <1>5, <2>4, NewsFacts
        <3> QED
            BY <1>5, <3>1, <3>2, HandledTwysts
    <2>6. NoneBack'
        BY <1>1, <1>6, <2>1, <2>4, <2>5 DEF NoneBack
    <2>7. ASSUME NEW q \in UnderWay', NEW n \in q.news
          PROVE  /\ n.twyst \in gone' => q.made < clock'
                 /\ \A p \in UnderWay' : n.twyst \in p.notes => q.made < p.made
                 /\ \A l \in leaving' : n.twyst = l[1] => q.made < l[2]
                 /\ n.twyst \in dropped' => Late(q)'
        <3>1. q \in UnderWay
            BY <1>2
        <3>2. /\ n.twyst \in gone => q.made < clock
              /\ \A p \in UnderWay : n.twyst \in p.notes => q.made < p.made
              /\ \A l \in leaving : n.twyst = l[1] => q.made < l[2]
              /\ n.twyst \in dropped => q.made < applied'
            BY <2>1, <2>2, <3>1 DEF NewsOfGone
        <3> QED
            BY <1>1, <1>2, <1>3, <3>2 DEF Late
    <2>8. \A n \in mailbox'.news : n.twyst \notin gone'
        BY <1>3, <2>1 DEF NewsOfGone
    <2> QED
        BY <2>6, <2>7, <2>8 DEF NewsOfGone
<1> QED
    BY <1>7, <1>8 DEF ReviveInv

\* The answer to a deletion of the user.
LEMMA ReviveAnswered ==
    ASSUME BasicInv, ReviveInv, NEW t \in Twysts, NEW made \in Times,
           DeletionAnswered(t, made)
    PROVE  ReviveInv'
<1>1. /\ <<t, made>> \in leaving /\ leaving' \subseteq leaving
      /\ deleteNewsWithTwystId({t})
      /\ mishaps' = mishaps \cup Leftover({t})
                       \cup (IF \E reply \in UnderWay : reply.made < made
                             THEN {"crossed"} ELSE {})
      /\ UNCHANGED <<clock, gone, mailbox, replies, mainQueue, applied>>
    BY DEF DeletionAnswered, serverVars, checkVars
<1>2. /\ Fewer(rows', rows)
      /\ Leftover({t}) = {} =>
           \A o \in DOMAIN rows : o \in DOMAIN rows' <=> rows[o].twyst \notin {t}
      /\ dropped' = dropped \cup {t} /\ revived' = revived
    BY <1>1, DeleteFewer DEF deleteNewsWithTwystId
<1>3. UnderWay' = UnderWay
    BY <1>1 DEF UnderWay
<1>4. GoneInv'
    BY <1>1, <1>2, <1>3 DEF ReviveInv, GoneInv
<1>5. ASSUME Clean'
      PROVE  NewsOfGone' /\ NoneBack'
    <2>1. /\ NewsOfGone /\ NoneBack /\ Leftover({t}) = {}
          /\ ~ \E reply \in UnderWay : reply.made < made
        BY <1>1, <1>5 DEF ReviveInv, Clean
    <2>2. NoneBack'
        BY <1>2, <2>1 DEF NoneBack, Fewer
    <2>3. \A q \in UnderWay : Late(q) => Late(q)'
        BY <1>1 DEF Late, HalfDone
    <2>4. \A q \in UnderWay : \A n \in q.news : n.twyst # t
        BY <1>1, <2>1 DEF NewsOfGone
    <2> QED
        BY <1>1, <1>2, <1>3, <2>1, <2>2, <2>3, <2>4 DEF NewsOfGone
<1> QED
    BY <1>4, <1>5 DEF ReviveInv

\* No step brings back what was deleted.
LEMMA ReviveStep ==
    ASSUME BasicInv, BasicInv', ReviveInv, [Next]_vars
    PROVE  ReviveInv'
<1>0. clock \in Nat /\ clock' \in Nat /\ Typed /\ rows \in Tables
      /\ Paired(mainQueue)
    <2>1. Typed /\ Typed'
        BY DEF BasicInv
    <2>2. Paired(mainQueue)
        BY DEF BasicInv, ItemsInv
    <2>3. clock \in Nat /\ clock' \in Nat /\ rows \in Tables
        BY <2>1 DEF Typed, Times
    <2> QED
        BY <2>1, <2>2, <2>3
<1>1. CASE Quiet
    <2>1. /\ UNCHANGED <<clock, gone, mailbox, leaving, replies, mainQueue, applied,
                         dropped, revived, mishaps>>
          /\ Marked(rows', rows)
        BY <1>1 DEF Quiet
    <2>2. UnderWay' = UnderWay /\ \A r \in UnderWay' : Late(r) => Late(r)'
        BY <2>1 DEF UnderWay, Late, HalfDone
    <2>3. Clean' => Clean
        BY <2>1 DEF Clean
    <2>4. \A o \in DOMAIN rows' : o \in DOMAIN rows /\ rows'[o].twyst = rows[o].twyst
        BY <2>1 DEF Marked
    <2> QED
        BY <1>0, <2>1, <2>2, <2>3, <2>4, ReviveKept
<1>2. ASSUME NEW t \in Twysts, NEW type \in Types, NEW s \in Senders,
             ServerNews(type, t, s)
      PROVE  ReviveInv'
    <2>1. /\ clock' = clock + 1 /\ UnderWay' = UnderWay
          /\ mailbox'.notes = mailbox.notes
          /\ mailbox'.news = mailbox.news \cup {NewNews(type, t, s)}
          /\ UNCHANGED <<rows, applied, mainQueue, gone, leaving, dropped, revived>>
          /\ t \notin gone
        BY <1>0, <1>2, ServerNewsFacts
    <2>2. Clean' => Clean
        BY <1>2 DEF ServerNews, Clean
    <2>3. NewNews(type, t, s).twyst = t
        BY DEF NewNews
    <2>4. \A r \in UnderWay : r.made \in Nat
        BY <1>0, UnderWayTyped
    <2>5. \A l \in leaving : l[2] \in Nat
        BY <1>0 DEF Typed, Times
    <2>6. GoneInv'
        BY <1>0, <2>1, <2>5 DEF ReviveInv, GoneInv
    <2>7. ASSUME Clean'
          PROVE  NewsOfGone' /\ NoneBack'
        <3>1. NewsOfGone /\ NoneBack
            BY <2>2, <2>7 DEF ReviveInv
        <3>2. \A r \in UnderWay : Late(r) => Late(r)'
            BY <2>1 DEF Late, HalfDone
        <3>3. NoneBack' /\ \A n \in mailbox'.news : n.twyst \notin gone'
            BY <2>1, <2>3, <3>1 DEF NoneBack, NewsOfGone
        <3>4. ASSUME NEW r \in UnderWay', NEW n \in r.news
              PROVE  /\ n.twyst \in gone' => r.made < clock'
                     /\ \A q \in UnderWay' : n.twyst \in q.notes => r.made < q.made
                     /\ \A l \in leaving' : n.twyst = l[1] => r.made < l[2]
                     /\ n.twyst \in dropped' => Late(r)'
            BY <1>0, <2>1, <2>4, <3>1, <3>2 DEF NewsOfGone
        <3> QED
            BY <3>3, <3>4 DEF NewsOfGone
    <2> QED
        BY <2>6, <2>7 DEF ReviveInv
<1>3. ASSUME NEW i \in DOMAIN replies, ReplyLost(i)
      PROVE  ReviveInv'
    <2>1. UnderWay' \subseteq UnderWay
        BY <1>0, <1>3, WayLost
    <2>2. UNCHANGED <<clock, gone, mailbox, leaving, mainQueue, applied, dropped,
                      revived, rows>>
        BY <1>3 DEF ReplyLost, CheckStep, boardVars
    <2>3. (Clean' => Clean) /\ \A r \in UnderWay' : Late(r) => Late(r)'
        BY <1>3, <2>2 DEF ReplyLost, Clean, Late, HalfDone
    <2> QED
        BY <1>0, <2>1, <2>2, <2>3, ReviveKept
<1>4. ASSUME NEW i \in DOMAIN replies, ReplyArrives(i)
      PROVE  ReviveInv'
    <2>1. /\ UnderWay' \subseteq UnderWay
          /\ mainQueue # <<>> => /\ mainQueue' # <<>>
                                 /\ Head(mainQueue') = Head(mainQueue)
        BY <1>0, <1>4, WayArrives
    <2>2. UNCHANGED <<clock, gone, mailbox, leaving, applied, dropped, revived, rows,
                      mishaps>>
        BY <1>4 DEF ReplyArrives, CheckStep, boardVars
    <2>3. \A r \in UnderWay' : Late(r) => Late(r)'
        BY <2>1, <2>2 DEF Late, HalfDone
    <2>4. Clean' => Clean
        BY <2>2 DEF Clean
    <2> QED
        BY <1>0, <2>1, <2>2, <2>3, <2>4, ReviveKept
<1>5. ASSUME NEW t \in Twysts, NEW made \in Times, DeletionFails(t, made)
      PROVE  ReviveInv'
    <2>1. /\ UNCHANGED <<clock, gone, mailbox, replies, mainQueue, applied, dropped,
                         revived, rows>>
          /\ leaving' \subseteq leaving
        BY <1>5 DEF DeletionFails, serverVars, checkVars, boardVars
    <2>2. UnderWay' = UnderWay /\ \A r \in UnderWay' : Late(r) => Late(r)'
        BY <2>1 DEF UnderWay, Late, HalfDone
    <2>3. Clean' => Clean
        BY <1>5 DEF DeletionFails, Clean
    <2> QED
        BY <1>0, <2>1, <2>2, <2>3, ReviveKept
<1>6. CASE Restart
    <2>1. /\ replies' = <<>> /\ mainQueue' = <<>> /\ leaving' = {}
          /\ UNCHANGED <<clock, gone, mailbox, applied, dropped, revived, rows>>
        BY <1>6 DEF Restart, serverVars
    <2>2. UnderWay' = {}
        BY <2>1 DEF UnderWay, ToSet
    <2>3. Clean' => Clean
        BY <1>6 DEF Restart, Clean
    <2> QED
        BY <1>0, <2>1, <2>2, <2>3, ReviveKept
<1> QED
    BY <1>0, <1>1, <1>2, <1>3, <1>4, <1>5, <1>6, Steps, ReviveDeleted, ReviveAnswer,
       ReviveNotes, ReviveNews, ReviveAnswered

\* A twyst whose deletion the app has carried out comes back neither as a
\* row nor as a download, unless the run of replies met a mishap.
THEOREM GoneStaysGone == Spec => []NoRevival
<1>1. Init => BasicInv /\ ReviveInv
    <2> SUFFICES ASSUME Init PROVE BasicInv /\ ReviveInv
        OBVIOUS
    <2>1. /\ mailbox.notes = {} /\ mailbox.news = {} /\ dropped = {} /\ revived = {}
          /\ leaving = {} /\ rows = <<>> /\ DOMAIN <<>> = {}
        BY DEF Init
    <2>2. BasicInv /\ UnderWay = {}
        BY InitBasic
    <2> QED
        BY <2>1, <2>2 DEF ReviveInv, GoneInv, NewsOfGone, NoneBack
<1>2. BasicInv /\ ReviveInv /\ [Next]_vars => BasicInv' /\ ReviveInv'
    BY BasicStep, ReviveStep
<1>3. ReviveInv => NoRevival
    BY DEF ReviveInv, NoneBack, NoRevival, Clean
<1> QED
    BY <1>1, <1>2, <1>3, PTL DEF Spec

-----------------------------------------------------------------------------
(* What stands, and what is told of it                                     *)

CommentTypes == {"comment", "deletecomment"}

\* A comment or a like stands until later news of its twyst undo it.
Kills(u, k) ==
    /\ u.twyst = k.twyst /\ u.id > k.id
    /\ \/ k.type = "Like" /\ u.type = "unlike" /\ u.who = k.who
       \/ k.type = "comment" /\ u.type \in CommentTypes

\* What the app will still be told.
Told == Items(mailbox.news \cup UNION {r.news : r \in {q \in UnderWay : ~q.kept}})

\* What stands is about no deleted twyst and has its time, and the row of the
\* comments on a twyst is no newer than what stands.
FeedInv ==
    /\ \A f \in feed : /\ f.twyst \notin gone /\ f.type \in RowTypes
                       /\ f.sender = Me => f.type = "Pass"
    /\ \A f \in feed, u \in NewsIn :
          u.twyst = f.twyst /\ u.id > f.id
             => /\ ~(f.type = "Like" /\ u.type = "unlike" /\ u.sender = f.sender)
                /\ ~(f.type = "comment" /\ u.type = "comment" /\ u.sender # Me)
    /\ \A f \in feed, o \in DOMAIN rows :
          /\ f.type = "comment" /\ rows[o].type = "comment"
          /\ rows[o].twyst = f.twyst
          => rows[o].newsId <= f.id
    /\ Clean => /\ \A n \in NewsIn : n.type = "comment" => n.sender # Me
                /\ \A t \in Twysts \ gone :
                      comments[t] > 0 <=> About(t, "comment") # {}

\* A reply tells of everything up to its time that the server had not told
\* for good.
TellInv ==
    /\ \A r \in UnderWay : \A n \in mailbox.news :
          ~Empty(r) /\ n.id <= r.made => Item(n) \in Items(r.news)
    /\ \A r, q \in UnderWay : \A n \in q.news :
          ~Empty(r) /\ r.made <= q.made /\ n.id <= r.made => Item(n) \in Items(r.news)
    /\ \A r \in UnderWay : ~Empty(r) /\ r.made = clock => mailbox.notes \subseteq r.notes
    /\ \A q \in UnderWay :
          q.made = clock /\ (mailbox.notes # {} \/ mailbox.news # {})
             => Items(q.news) \subseteq Items(mailbox.news)
    /\ \A n \in mailbox.news, f \in feed :
          n.twyst = f.twyst /\ n.id < f.id => Item(f) \in Items(mailbox.news)
    /\ \A r \in UnderWay : \A n \in r.news, f \in feed :
          n.twyst = f.twyst /\ n.id < f.id /\ f.id <= r.made
             => Item(f) \in Items(r.news)

\* What is told stands, or what undid it is told too.
MailInv ==
    /\ \A f \in feed : f.id <= applied \/ Item(f) \in Told
    /\ \A n \in mailbox.news :
          Adds(n) => \/ Item(n) \in Items(feed)
                     \/ \E u \in Items(mailbox.news) : Kills(u, Item(n))

\* The same of a reply, unless it comes too late to be handled.
ReplyInv(r) ==
    r.made < applied \/
    \A n \in r.news :
        n.twyst \in gone \/
        /\ Adds(n) => \/ Item(n) \in Items(feed)
                      \/ \E u \in Items(r.news) : Kills(u, Item(n))
                      \/ \E u \in Told : u.id > r.made /\ Kills(u, Item(n))
        /\ n.type \in CommentTypes
             => /\ \/ n.count = comments[n.twyst]
                   \/ \E u \in Told : /\ u.id > r.made /\ u.twyst = n.twyst
                                      /\ u.type \in CommentTypes
                /\ \/ n.count > 0
                   \/ \A f \in About(n.twyst, "comment") : f.id > r.made

\* A reply that will not be told again was overtaken.
Behind == \E r \in UnderWay : Matters(r) /\ r.made < applied

\* The rows are what stands, as far as it was told.
RowInv ==
    /\ \A f \in feed :
          f.id > applied \/ \E o \in DOMAIN rows : rows[o].newsId = f.id
    /\ \A o \in DOMAIN rows :
          \/ RowItem(rows[o]) \in Items(feed) \/ rows[o].twyst \in gone
          \/ \E u \in Told : u.id > applied /\ Kills(u, RowItem(rows[o]))

\* The app is told of every deletion, and before it is up to date.
NotesInv ==
    /\ HalfDone => Head(mainQueue).reply.notes \subseteq dropped
    /\ \A t \in mailbox.notes : t \in dropped \/ applied < clock
    /\ Clean => \A t \in gone :
                   \/ t \in dropped \/ t \in mailbox.notes
                   \/ \E l \in leaving : l[1] = t
                   \/ \E r \in NotesUnderWay : ~r.kept /\ t \in r.notes

AgreeInv ==
    /\ FeedInv /\ TellInv /\ NotesInv
    /\ Clean => /\ MailInv /\ \A r \in UnderWay : ReplyInv(r)
                /\ ~Behind => RowInv

\* The items of a set of news.
LEMMA ItemIn ==
    /\ \A S, n : n \in S => Item(n) \in Items(S)
    /\ \A S, k : k \in Items(S) => \E n \in S : k = Item(n)
    /\ \A S, T : S \subseteq T => Items(S) \subseteq Items(T)
    /\ \A S, T : Items(S \cup T) = Items(S) \cup Items(T)
BY DEF Items

\* What is told, part by part.
LEMMA ToldIn ==
    \A k : k \in Told <=> \/ k \in Items(mailbox.news)
                          \/ \E r \in UnderWay : ~r.kept /\ k \in Items(r.news)
BY DEF Told, Items

\* Nothing in the feed, or told, that has no number and name of its own.
LEMMA ToldKnown ==
    ASSUME BasicInv
    PROVE  /\ Told \subseteq Known /\ Items(feed) \subseteq Known
           /\ \A k \in Known : k.id \in Nat /\ k.id <= clock
           /\ \A r \in UnderWay : Items(r.news) \subseteq Known
           /\ \A k, l \in Known : k.id = l.id => k = l
<1>1. Typed /\ ItemsInv
    BY DEF BasicInv
<1>2. \A n \in mailbox.news : Item(n) \in Known
    BY <1>1, ItemsParts DEF NewsIn
<1>3. \A r \in UnderWay : Items(r.news) \subseteq Known
    BY <1>1, ItemsParts
<1>4. Told \subseteq Known
    BY <1>2, <1>3, ToldIn, ItemIn
<1>5. Items(feed) \subseteq Known
    BY DEF Known
<1> QED
    BY <1>1, <1>3, <1>4, <1>5, KnownIds DEF ItemsInv, OneEach

\* The comments' row comes from comments that are no newer than what stands.
LEMMA HandledComments ==
    ASSUME NEW rs \in Tables, NEW news \in SUBSET News, NEW t, NEW m \in Nat,
           \A o \in DOMAIN rs : rs[o].type = "comment" /\ rs[o].twyst = t
                                   => rs[o].newsId <= m,
           \A n \in news : n.type = "comment" /\ n.twyst = t /\ n.sender # Me
                                   => n.id <= m
    PROVE  LET d == Handled([rows |-> rs, fresh |-> {}], news)
           IN  \A o \in DOMAIN d.rows :
                  d.rows[o].type = "comment" /\ d.rows[o].twyst = t
                     => d.rows[o].newsId <= m
<1> DEFINE b == [rows |-> rs, fresh |-> {}]
           Good(c) == \A o \in DOMAIN c.rows :
                         c.rows[o].type = "comment" /\ c.rows[o].twyst = t
                            => c.rows[o].newsId <= m
           S == {p \in (0 .. MaxEvents) \X Boards : Good(p[2])}
<1>1. <<0, b>> \in S /\ b \in Boards
    BY DEF Boards
<1>2. ASSUME NEW i \in 1 .. MaxEvents, NEW c \in Boards, <<i - 1, c>> \in S
      PROVE  /\ <<i, c>> \in S
             /\ \A n \in news : \A d : n.id = i /\ Follows(c, n, d) => <<i, d>> \in S
    <2>1. Good(c) /\ i \in 0 .. MaxEvents
        BY <1>2
    <2>2. ASSUME NEW n \in news, NEW d, Follows(c, n, d)
          PROVE  <<i, d>> \in S
        <3>1. /\ FreshRow(n).type = n.type /\ FreshRow(n).twyst = n.twyst
              /\ FreshRow(n).newsId = n.id
            BY WrittenItems
        <3>2. Writes(n) /\ n.type = "comment" => n.sender # Me
            BY DEF Writes, Adds
        <3>3. Good(d)
            BY <2>1, <2>2, <3>1, <3>2, KeptRow
        <3>4. d \in Boards
            BY <2>2 DEF Follows
        <3> QED
            BY <2>1, <3>3, <3>4
    <2> QED
        BY <2>1, <2>2
<1> HIDE DEF S, b
<1>3. <<MaxEvents, Handled(b, news)>> \in S
    BY <1>1, <1>2, HandledKeeps
<1>4. Good(Handled(b, news))
    BY <1>3 DEF S
<1> QED
    BY <1>4 DEF b

\* What stands is left alone by a step that brings the app no news.
LEMMA FeedKept ==
    ASSUME Typed, FeedInv, UNCHANGED <<feed, gone, comments>>, Clean' => Clean,
           \A u \in NewsIn' : \E v \in NewsIn :
              u.id = v.id /\ u.type = v.type /\ u.twyst = v.twyst /\ u.sender = v.sender,
           \A f \in feed, o \in DOMAIN rows' :
              /\ f.type = "comment" /\ rows'[o].type = "comment"
              /\ rows'[o].twyst = f.twyst
              => rows'[o].newsId <= f.id
    PROVE  FeedInv'
<1>1. \A f \in feed' : /\ f.twyst \notin gone' /\ f.type \in RowTypes
                       /\ f.sender = Me => f.type = "Pass"
    BY DEF FeedInv
<1>2. ASSUME NEW f \in feed', NEW u \in NewsIn', u.twyst = f.twyst /\ u.id > f.id
      PROVE  /\ ~(f.type = "Like" /\ u.type = "unlike" /\ u.sender = f.sender)
             /\ ~(f.type = "comment" /\ u.type = "comment" /\ u.sender # Me)
    <2>1. PICK v \in NewsIn :
              u.id = v.id /\ u.type = v.type /\ u.twyst = v.twyst /\ u.sender = v.sender
        OBVIOUS
    <2>2. f \in feed /\ v.twyst = f.twyst /\ v.id > f.id
        BY <1>2, <2>1
    <2>3. /\ ~(f.type = "Like" /\ v.type = "unlike" /\ v.sender = f.sender)
          /\ ~(f.type = "comment" /\ v.type = "comment" /\ v.sender # Me)
        BY <2>2 DEF FeedInv
    <2> QED
        BY <2>1, <2>3
<1>3. ASSUME Clean'
      PROVE  /\ \A n \in NewsIn' : n.type = "comment" => n.sender # Me
             /\ \A t \in Twysts \ gone' :
                   comments'[t] > 0 <=> About(t, "comment")' # {}
    <2>1. Clean
        BY <1>3
    <2>2. \A t \in Twysts \ gone' : comments'[t] > 0 <=> About(t, "comment")' # {}
        BY <2>1 DEF FeedInv, About
    <2>3. \A n \in NewsIn' : n.type = "comment" => n.sender # Me
        BY <2>1 DEF FeedInv
    <2> QED
        BY <2>2, <2>3
<1> QED
    BY <1>1, <1>2, <1>3 DEF FeedInv

\* The rows that are there were there before.
LEMMA FeedRows ==
    ASSUME FeedInv, UNCHANGED feed,
           \A o \in DOMAIN rows' :
              /\ o \in DOMAIN rows /\ rows'[o].newsId = rows[o].newsId
              /\ rows'[o].type = rows[o].type /\ rows'[o].twyst = rows[o].twyst
    PROVE  \A f \in feed, o \in DOMAIN rows' :
              /\ f.type = "comment" /\ rows'[o].type = "comment"
              /\ rows'[o].twyst = f.twyst
              => rows'[o].newsId <= f.id
BY DEF FeedInv

\* Something happens: what it undoes stands no more.
LEMMA FeedServerNews ==
    ASSUME BasicInv, FeedInv, NEW t \in Twysts, NEW type \in Types, NEW s \in Senders,
           ServerNews(type, t, s)
    PROVE  FeedInv'
<1> DEFINE f0 == NewItem(type, t, s)
           n0 == NewNews(type, t, s)
<1>0. Typed /\ ItemsInv
    BY DEF BasicInv
<1>1. /\ clock' = clock + 1 /\ clock \in Nat
      /\ NewsIn' = NewsIn \cup {n0}
      /\ feed' \subseteq feed \cup {f0}
      /\ UNCHANGED <<rows, gone>> /\ t \notin gone
    BY <1>0, ServerNewsFacts
<1>2. /\ n0.id = clock + 1 /\ n0.type = type /\ n0.twyst = t /\ n0.sender = s
      /\ f0.id = clock + 1 /\ f0.type = type /\ f0.twyst = t /\ f0.sender = s
    BY DEF NewNews, NewItem
<1>3. Happens(type, t, s) /\ (Clean' => Clean /\ ~(type = "comment" /\ s = Me))
    BY DEF ServerNews, Clean
<1>4. f0 \in feed' => type \in RowTypes /\ (s = Me => type = "Pass")
    <2>1. ASSUME f0 \in feed
          PROVE  FALSE
        <3>1. f0.id <= clock
            BY <1>0, <2>1, ItemsParts
        <3> QED
            BY <1>1, <1>2, <3>1
    <2> HIDE DEF f0, n0
    <2>2. f0 \in feed' => \/ type \in {"Like", "Pass", "Reply", "Follow"} /\ (s = Me => type = "Pass")
                          \/ type = "comment" /\ s # Me
        BY <1>3, <2>1 DEF Happens, About
    <2> QED
        BY <2>2 DEF RowTypes
<1>5. \A f \in feed : f \in feed' => /\ ~(/\ type = "unlike" /\ f.type = "Like"
                                          /\ f.twyst = t /\ f.sender = s)
                                     /\ ~(/\ type = "comment" /\ s # Me
                                          /\ f.type = "comment" /\ f.twyst = t)
    <2>1. ASSUME NEW f \in feed, f \in feed'
          PROVE  f # f0
        <3>1. f.id <= clock
            BY <1>0, ItemsParts
        <3> QED
            BY <1>1, <1>2, <3>1
    <2> HIDE DEF f0, n0
    <2>2. f0 = [id |-> clock + 1, type |-> type, twyst |-> t, sender |-> s]
        BY DEF f0, NewItem
    <2>3. ASSUME NEW f \in feed, f \in feed', type = "unlike", f.type = "Like",
                 f.twyst = t, f.sender = s
          PROVE  FALSE
        BY <1>3, <2>3 DEF Happens, About
    <2>4. ASSUME NEW f \in feed, f \in feed', type = "comment", s # Me,
                 f.type = "comment", f.twyst = t
          PROVE  FALSE
        BY <1>3, <2>1, <2>2, <2>4 DEF Happens, About
    <2> QED
        BY <2>3, <2>4
<1>6. \A f \in feed : f.id <= clock /\ f.id \in Nat
    BY <1>0, ItemsParts, FeedTyped
<1>7. \A u \in NewsIn : u.id <= clock /\ u.id \in Nat
    BY <1>0, ItemsParts, NewsFacts DEF Ids
<1>8. rows \in Tables /\ RowItems(rows) \subseteq Known
    BY <1>0, ItemsParts DEF Typed
<1>9. \A o \in DOMAIN rows : rows[o].newsId <= clock /\ rows[o].newsId \in Nat
    <2>1. \A o \in DOMAIN rows : RowItem(rows[o]) \in Known
        BY <1>8, RowItemsIn
    <2> QED
        BY <1>8, <2>1, ToldKnown, ItemFacts
<1> HIDE DEF f0, n0
<1>10. \A f \in feed' : /\ f.twyst \notin gone' /\ f.type \in RowTypes
                        /\ f.sender = Me => f.type = "Pass"
    BY <1>1, <1>2, <1>4 DEF FeedInv
<1>11. ASSUME NEW f \in feed', NEW u \in NewsIn', u.twyst = f.twyst, u.id > f.id
       PROVE  /\ ~(f.type = "Like" /\ u.type = "unlike" /\ u.sender = f.sender)
              /\ ~(f.type = "comment" /\ u.type = "comment" /\ u.sender # Me)
    <2>1. f # f0
        BY <1>1, <1>2, <1>7, <1>11
    <2>2. f \in feed
        BY <1>1, <2>1
    <2>3. CASE u \in NewsIn
        BY <1>11, <2>2, <2>3 DEF FeedInv
    <2>4. CASE u = n0
        BY <1>2, <1>5, <1>11, <2>2, <2>4
    <2> QED
        BY <1>1, <2>3, <2>4
<1>12. ASSUME NEW f \in feed', NEW o \in DOMAIN rows', f.type = "comment",
              rows'[o].type = "comment", rows'[o].twyst = f.twyst
       PROVE  rows'[o].newsId <= f.id
    <2>1. CASE f \in feed
        BY <1>1, <1>12, <2>1 DEF FeedInv
    <2>2. CASE f = f0
        BY <1>1, <1>2, <1>9, <2>2
    <2> QED
        BY <1>1, <2>1, <2>2
<1>13. ASSUME Clean'
       PROVE  /\ \A n \in NewsIn' : n.type = "comment" => n.sender # Me
              /\ \A x \in Twysts \ gone' :
                    comments'[x] > 0 <=> About(x, "comment")' # {}
    <2>1. Clean /\ ~(type = "comment" /\ s = Me)
        BY <1>3, <1>13
    <2>2. \A n \in NewsIn' : n.type = "comment" => n.sender # Me
        BY <1>1, <1>2, <2>1 DEF FeedInv
    <2>3. ASSUME NEW x \in Twysts \ gone'
          PROVE  comments'[x] > 0 <=> About(x, "comment")' # {}
        <3>1. comments[x] > 0 <=> About(x, "comment") # {}
            BY <1>1, <2>1 DEF FeedInv
        <3>2. comments[x] \in Nat /\ comments[t] \in Nat /\ comments \in [Twysts -> Times]
            BY <1>0 DEF Typed, Times
        <3>3. f0 = [id |-> clock + 1, type |-> type, twyst |-> t, sender |-> s]
            BY DEF f0, NewItem
        <3>4. CASE type \notin CommentTypes
            <4>1. comments' = comments
                BY <1>3, <3>4 DEF Happens, CommentTypes
            <4>2. About(x, "comment")' = About(x, "comment")
                <5>1. \A f : f.type = "comment" => (f \in feed' <=> f \in feed)
                    BY <1>2, <1>3, <3>3, <3>4 DEF Happens, About, CommentTypes
                <5> QED
                    BY <5>1 DEF About
            <4> QED
                BY <3>1, <4>1, <4>2
        <3>5. CASE type = "comment"
            <4>1. comments' = [comments EXCEPT ![t] = @ + 1]
                  /\ feed' = (feed \ About(t, "comment")) \cup {f0}
                BY <1>3, <2>1, <3>3, <3>5 DEF Happens
            <4>2. CASE x = t
                <5>1. f0 \in About(x, "comment")'
                    BY <1>2, <3>5, <4>1, <4>2 DEF About
                <5> QED
                    BY <3>2, <4>1, <4>2, <5>1
            <4>3. CASE x # t
                <5>1. About(x, "comment")' = About(x, "comment")
                    BY <1>2, <4>1, <4>3 DEF About
                <5> QED
                    BY <3>1, <3>2, <4>1, <4>3, <5>1
            <4> QED
                BY <4>2, <4>3
        <3>6. CASE type = "deletecomment"
            <4>1. /\ comments[t] > 0
                  /\ comments' = [comments EXCEPT ![t] = @ - 1]
                  /\ feed' = IF comments[t] = 1 THEN feed \ About(t, "comment") ELSE feed
                BY <1>3, <3>6 DEF Happens
            <4>2. CASE x # t
                <5>1. About(x, "comment")' = About(x, "comment")
                    BY <4>1, <4>2 DEF About
                <5> QED
                    BY <3>1, <3>2, <4>1, <4>2, <5>1
            <4>3. CASE x = t /\ comments[t] = 1
                <5>1. About(x, "comment")' = {} /\ comments'[x] = 0
                    BY <3>2, <4>1, <4>3 DEF About
                <5> QED
                    BY <5>1
            <4>4. CASE x = t /\ comments[t] # 1
                <5>1. feed' = feed /\ comments'[x] > 0
                    BY <3>2, <4>1, <4>4
                <5>2. About(x, "comment")' = About(x, "comment")
                    BY <5>1 DEF About
                <5> QED
                    BY <3>1, <4>1, <4>4, <5>1, <5>2
            <4> QED
                BY <4>2, <4>3, <4>4
        <3> QED
            BY <3>4, <3>5, <3>6 DEF CommentTypes
    <2> QED
        BY <2>2, <2>3
<1> QED
    BY <1>10, <1>11, <1>12, <1>13 DEF FeedInv

\* A twyst is deleted: nothing stands of it.
LEMMA FeedDeleted ==
    ASSUME BasicInv, FeedInv, NEW t \in Twysts, FriendDeletes(t) \/ UserDeletes(t)
    PROVE  FeedInv'
<1>1. /\ t \notin gone /\ gone' = gone \cup {t}
      /\ feed' = {f \in feed : f.twyst # t} /\ comments' = comments
      /\ NewsIn' \subseteq NewsIn /\ rows' = rows
      /\ mishaps' = {} => mishaps = {}
    BY DeletedFacts DEF BasicInv
<1>2. \A f \in feed' : /\ f.twyst \notin gone' /\ f.type \in RowTypes
                       /\ f.sender = Me => f.type = "Pass"
    BY <1>1 DEF FeedInv
<1>3. ASSUME NEW f \in feed', NEW u \in NewsIn', u.twyst = f.twyst /\ u.id > f.id
      PROVE  /\ ~(f.type = "Like" /\ u.type = "unlike" /\ u.sender = f.sender)
             /\ ~(f.type = "comment" /\ u.type = "comment" /\ u.sender # Me)
    <2>1. f \in feed /\ u \in NewsIn
        BY <1>1
    <2> QED
        BY <1>3, <2>1 DEF FeedInv
<1>4. \A f \in feed', o \in DOMAIN rows' :
         /\ f.type = "comment" /\ rows'[o].type = "comment"
         /\ rows'[o].twyst = f.twyst
         => rows'[o].newsId <= f.id
    BY <1>1 DEF FeedInv
<1>5. ASSUME Clean'
      PROVE  /\ \A n \in NewsIn' : n.type = "comment" => n.sender # Me
             /\ \A x \in Twysts \ gone' :
                   comments'[x] > 0 <=> About(x, "comment")' # {}
    <2>1. Clean
        BY <1>1, <1>5 DEF Clean
    <2>2. \A n \in NewsIn' : n.type = "comment" => n.sender # Me
        BY <1>1, <2>1 DEF FeedInv
    <2>3. ASSUME NEW x \in Twysts \ gone'
          PROVE  comments'[x] > 0 <=> About(x, "comment")' # {}
        <3>1. About(x, "comment")' = About(x, "comment")
            BY <1>1 DEF About
        <3>2. comments[x] > 0 <=> About(x, "comment") # {}
            BY <1>1, <2>1 DEF FeedInv
        <3> QED
            BY <1>1, <3>1, <3>2
    <2> QED
        BY <2>2, <2>3
<1> QED
    BY <1>2, <1>3, <1>4, <1>5 DEF FeedInv

\* Fewer replies, and nothing new in the mailbox.
LEMMA SameNews ==
    ASSUME UnderWay' \subseteq UnderWay, mailbox' = mailbox
    PROVE  \A u \in NewsIn' : \E v \in NewsIn :
              u.id = v.id /\ u.type = v.type /\ u.twyst = v.twyst /\ u.sender = v.sender
BY NewsInKept

\* What stands keeps its parts.
LEMMA FeedStep ==
    ASSUME BasicInv, BasicInv', FeedInv, [Next]_vars
    PROVE  FeedInv'
<1>0. Typed /\ ItemsInv /\ Paired(mainQueue) /\ rows \in Tables
    <2>1. Typed /\ ItemsInv
        BY DEF BasicInv
    <2> QED
        BY <2>1 DEF Typed, ItemsInv
<1>1. ASSUME UNCHANGED <<feed, gone, comments, mailbox>>, Clean' => Clean,
             UnderWay' \subseteq UnderWay,
             \A o \in DOMAIN rows' :
                /\ o \in DOMAIN rows /\ rows'[o].newsId = rows[o].newsId
                /\ rows'[o].type = rows[o].type /\ rows'[o].twyst = rows[o].twyst
      PROVE  FeedInv'
    BY <1>0, <1>1, SameNews, FeedRows, FeedKept
<1>2. CASE Quiet
    <2>1. /\ UNCHANGED <<feed, gone, comments, mailbox, replies, mainQueue, mishaps>>
          /\ Marked(rows', rows)
        BY <1>2 DEF Quiet
    <2>2. UnderWay' = UnderWay /\ (Clean' => Clean)
        BY <2>1 DEF UnderWay, Clean
    <2> QED
        BY <1>1, <2>1, <2>2 DEF Marked
<1>3. CASE Answer
    <2>1. PICK kept \in BOOLEAN :
              /\ mailbox' = IF kept THEN mailbox ELSE [notes |-> {}, news |-> {}]
              /\ UnderWay' = UnderWay \cup {ReplyNow(kept)}
        BY <1>0, <1>3, WayAnswer
    <2>2. \A m \in ReplyNow(kept).news : \E n \in mailbox.news :
             m.id = n.id /\ m.type = n.type /\ m.twyst = n.twyst /\ m.sender = n.sender
        BY <1>0, ReplyNowNews
    <2>3. UNCHANGED <<feed, gone, comments, rows, mishaps>>
        BY <1>3 DEF Answer, CheckStep, boardVars
    <2>4. \A u \in NewsIn' : u \in NewsIn \/ u \in ReplyNow(kept).news
        BY <2>1 DEF NewsIn
    <2>5. \A u \in NewsIn' : \E v \in NewsIn :
             u.id = v.id /\ u.type = v.type /\ u.twyst = v.twyst /\ u.sender = v.sender
        BY <2>2, <2>4 DEF NewsIn
    <2>6. Clean' => Clean
        BY <2>3 DEF Clean
    <2>7. \A f \in feed, o \in DOMAIN rows' :
              /\ f.type = "comment" /\ rows'[o].type = "comment"
              /\ rows'[o].twyst = f.twyst
              => rows'[o].newsId <= f.id
        BY <2>3 DEF FeedInv
    <2> QED
        BY <1>0, <2>3, <2>5, <2>6, <2>7, FeedKept
<1>4. ASSUME NEW i \in DOMAIN replies, ReplyLost(i) \/ ReplyArrives(i)
      PROVE  FeedInv'
    <2>1. UnderWay' \subseteq UnderWay
        BY <1>0, <1>4, WayLost, WayArrives
    <2>2. UNCHANGED <<feed, gone, comments, mailbox, rows>>
        BY <1>4 DEF ReplyLost, ReplyArrives, CheckStep, boardVars
    <2>3. Clean' => Clean
        BY <1>4 DEF ReplyLost, ReplyArrives, Clean
    <2> QED
        BY <1>1, <2>1, <2>2, <2>3
<1>5. CASE twystNewsDidReceive
    <2> DEFINE r == Head(mainQueue).reply
               b == Handled([rows |-> rows, fresh |-> {}], r.news)
    <2>1. Take("news", {}) /\ rows' = b.rows
        BY <1>5 DEF twystNewsDidReceive
    <2>2. r \in Reply /\ r \in UnderWay /\ UnderWay = UnderWay' \cup {r}
        BY <1>0, <2>1, WayTake, LeftoverTyped
    <2>3. UNCHANGED <<feed, gone, comments, mailbox>> /\ (Clean' => Clean)
        BY <1>0, <2>1, TakeApplied, LeftoverTyped DEF Take, serverVars, Clean
    <2>4. r.news \in SUBSET News
        BY <2>2, ReplyFacts
    <2> HIDE DEF r
    <2>5. \A n \in r.news : n \in NewsIn
        BY <2>2 DEF NewsIn
    <2>6. ASSUME NEW f \in feed, f.type = "comment"
          PROVE  \A o \in DOMAIN b.rows :
                    b.rows[o].type = "comment" /\ b.rows[o].twyst = f.twyst
                       => b.rows[o].newsId <= f.id
        <3>1. f.id \in Nat
            BY <1>0, FeedTyped
        <3>2. \A n \in r.news : n.id \in Nat
            BY <2>4, NewsFacts DEF Ids
        <3>3. \A n \in r.news : n.type = "comment" /\ n.twyst = f.twyst /\ n.sender # Me
                                   => n.id <= f.id
            BY <2>5, <2>6, <3>1, <3>2 DEF FeedInv
        <3>4. \A o \in DOMAIN rows : rows[o].type = "comment" /\ rows[o].twyst = f.twyst
                                        => rows[o].newsId <= f.id
            BY <2>6 DEF FeedInv
        <3> QED
            BY <1>0, <2>4, <3>1, <3>3, <3>4, HandledComments
    <2> HIDE DEF b
    <2>7. UnderWay' \subseteq UnderWay /\ mailbox' = mailbox
        BY <2>2, <2>3
    <2> QED
        BY <1>0, <2>1, <2>3, <2>6, <2>7, SameNews, FeedKept
<1>6. ASSUME NEW ts, deleteNewsWithTwystId(ts),
             UNCHANGED <<feed, gone, comments, mailbox>>, Clean' => Clean,
             UnderWay' \subseteq UnderWay
      PROVE  FeedInv'
    BY <1>1, <1>6, DeleteFewer DEF Fewer
<1>7. CASE notificationDidReceive
    <2>1. /\ Take("notes", Leftover(Head(mainQueue).reply.notes))
          /\ deleteNewsWithTwystId(Head(mainQueue).reply.notes)
        BY <1>7 DEF notificationDidReceive
    <2>2. UnderWay' \subseteq UnderWay
        BY <1>0, <2>1, WayTake, LeftoverTyped
    <2>3. UNCHANGED <<feed, gone, comments, mailbox>> /\ (Clean' => Clean)
        BY <1>0, <2>1, TakeApplied, LeftoverTyped DEF Take, serverVars, Clean
    <2> QED
        BY <1>6, <2>1, <2>2, <2>3
<1>8. ASSUME NEW t \in Twysts, NEW made \in Times, DeletionAnswered(t, made)
      PROVE  FeedInv'
    <2>1. /\ deleteNewsWithTwystId({t}) /\ (Clean' => Clean)
          /\ UNCHANGED <<feed, gone, comments, mailbox, replies, mainQueue>>
        BY <1>8 DEF DeletionAnswered, serverVars, checkVars, Clean
    <2>2. UnderWay' = UnderWay
        BY <2>1 DEF UnderWay
    <2> QED
        BY <1>6, <2>1, <2>2
<1>9. ASSUME NEW t \in Twysts, NEW made \in Times, DeletionFails(t, made)
      PROVE  FeedInv'
    <2>1. /\ (Clean' => Clean)
          /\ UNCHANGED <<feed, gone, comments, mailbox, replies, mainQueue, rows>>
        BY <1>9 DEF DeletionFails, serverVars, checkVars, boardVars, Clean
    <2>2. UnderWay' = UnderWay
        BY <2>1 DEF UnderWay
    <2> QED
        BY <1>1, <2>1, <2>2
<1>10. CASE Restart
    <2>1. /\ (Clean' => Clean) /\ replies' = <<>> /\ mainQueue' = <<>>
          /\ UNCHANGED <<feed, gone, comments, mailbox, rows>>
        BY <1>10 DEF Restart, serverVars, Clean
    <2>2. UnderWay' = {}
        BY <2>1 DEF UnderWay, ToSet
    <2> QED
        BY <1>1, <2>1, <2>2
<1> QED
    BY <1>0, <1>2, <1>3, <1>4, <1>5, <1>7, <1>8, <1>9, <1>10, Steps, FeedServerNews,
       FeedDeleted

\* Nothing was told, and nothing happened.
LEMMA TellKept ==
    ASSUME TellInv, UnderWay' \subseteq UnderWay, UNCHANGED <<mailbox, clock, feed>>
    PROVE  TellInv'
BY DEF TellInv

\* Something happened at the server: the replies under way are older.
LEMMA TellServer ==
    ASSUME BasicInv, TellInv, clock' = clock + 1, UnderWay' = UnderWay,
           \A n \in mailbox'.news : n \in mailbox.news \/ n.id = clock + 1,
           \A f \in feed' : f \in feed \/ f.id = clock + 1,
           \A n \in mailbox'.news, f \in feed' :
              n.twyst = f.twyst /\ n.id < f.id => Item(f) \in Items(mailbox'.news)
    PROVE  TellInv'
<1>1. \A r \in UnderWay : r.made \in Nat /\ r.made <= clock
    <2>1. Typed /\ ItemsInv
        BY DEF BasicInv
    <2> QED
        BY <2>1, UnderWayTyped, ItemsParts DEF MadeInv
<1>2. clock \in Nat
    BY DEF BasicInv, Typed, Times
<1>3. \A r \in UnderWay' : \A n \in mailbox'.news :
         ~Empty(r) /\ n.id <= r.made => Item(n) \in Items(r.news)
    BY <1>1, <1>2 DEF TellInv
<1>4. \A r \in UnderWay' : r.made # clock'
    BY <1>1, <1>2
<1>5. \A r \in UnderWay' : \A n \in r.news, f \in feed' :
         n.twyst = f.twyst /\ n.id < f.id /\ f.id <= r.made
            => Item(f) \in Items(r.news)
    BY <1>1, <1>2 DEF TellInv
<1>6. \A r, q \in UnderWay' : \A n \in q.news :
         ~Empty(r) /\ r.made <= q.made /\ n.id <= r.made => Item(n) \in Items(r.news)
    BY DEF TellInv
<1> QED
    BY <1>3, <1>4, <1>5, <1>6 DEF TellInv

\* A reply tells of all that is in the mailbox.
LEMMA TellAnswer ==
    ASSUME BasicInv, TellInv, Answer
    PROVE  TellInv'
<1>0. Typed /\ ItemsInv
    BY DEF BasicInv
<1>1. PICK kept \in BOOLEAN :
          /\ mailbox' = IF kept THEN mailbox ELSE [notes |-> {}, news |-> {}]
          /\ UnderWay' = UnderWay \cup {ReplyNow(kept)}
    BY <1>0, WayAnswer
<1> DEFINE r == ReplyNow(kept)
<1>2. /\ r.made = clock /\ r.notes = mailbox.notes
      /\ Items(r.news) = Items(mailbox.news)
      /\ \A m \in r.news : \E n \in mailbox.news :
            Item(m) = Item(n) /\ m.id = n.id /\ m.twyst = n.twyst
      /\ r.news = {} <=> mailbox.news = {}
    BY <1>0, ReplyNowNews
<1>3. UnderWay' = UnderWay \cup {r}
    BY <1>1
<1> HIDE DEF r
<1>4. clock' = clock /\ feed' = feed
    BY DEF Answer, CheckStep
<1>5. /\ mailbox'.notes \subseteq mailbox.notes /\ mailbox'.news \subseteq mailbox.news
      /\ mailbox'.notes # {} \/ mailbox'.news # {} => mailbox' = mailbox
      /\ \A n \in mailbox'.news : mailbox' = mailbox
    BY <1>1
<1>6. \A q \in UnderWay : q.made \in Nat /\ q.made <= clock
    BY <1>0, UnderWayTyped, ItemsParts DEF MadeInv
<1>7. clock \in Nat
    BY <1>0 DEF Typed, Times
<1>8. \A p \in UnderWay' : \A n \in mailbox'.news :
         ~Empty(p) /\ n.id <= p.made => Item(n) \in Items(p.news)
    <2>1. \A p \in UnderWay : \A n \in mailbox.news :
             ~Empty(p) /\ n.id <= p.made => Item(n) \in Items(p.news)
        BY DEF TellInv
    <2>2. \A n \in mailbox.news : Item(n) \in Items(r.news)
        BY <1>2, ItemIn
    <2> QED
        BY <1>3, <1>5, <2>1, <2>2
<1>9. \A p, q \in UnderWay' : \A n \in q.news :
         ~Empty(p) /\ p.made <= q.made /\ n.id <= p.made => Item(n) \in Items(p.news)
    <2> SUFFICES ASSUME NEW p \in UnderWay', NEW q \in UnderWay', NEW n \in q.news,
                        ~Empty(p), p.made <= q.made, n.id <= p.made
                 PROVE  Item(n) \in Items(p.news)
        OBVIOUS
    <2>1. CASE p \in UnderWay /\ q \in UnderWay
        BY <2>1 DEF TellInv
    <2>2. CASE p \in UnderWay /\ q = r
        <3>1. PICK m \in mailbox.news : Item(n) = Item(m) /\ n.id = m.id
            BY <1>2, <2>2
        <3> QED
            BY <2>2, <3>1 DEF TellInv
    <2>3. CASE p = r /\ q = r
        BY <2>3, ItemIn
    <2>4. CASE p = r /\ q \in UnderWay
        <3>1. q.made = clock
            BY <1>2, <1>6, <1>7, <2>4
        <3>2. mailbox.notes # {} \/ mailbox.news # {}
            BY <1>2, <2>4 DEF Empty
        <3>3. Items(q.news) \subseteq Items(mailbox.news)
            BY <2>4, <3>1, <3>2 DEF TellInv
        <3> QED
            BY <1>2, <2>4, <3>3, ItemIn
    <2> QED
        BY <1>3, <2>1, <2>2, <2>3, <2>4
<1>10. \A p \in UnderWay' :
          ~Empty(p) /\ p.made = clock' => mailbox'.notes \subseteq p.notes
    <2>1. \A p \in UnderWay : ~Empty(p) /\ p.made = clock => mailbox.notes \subseteq p.notes
        BY DEF TellInv
    <2> QED
        BY <1>2, <1>3, <1>4, <1>5, <2>1
<1>11. \A q \in UnderWay' :
          q.made = clock' /\ (mailbox'.notes # {} \/ mailbox'.news # {})
             => Items(q.news) \subseteq Items(mailbox'.news)
    <2>1. \A q \in UnderWay : q.made = clock /\ (mailbox.notes # {} \/ mailbox.news # {})
                                => Items(q.news) \subseteq Items(mailbox.news)
        BY DEF TellInv
    <2> QED
        BY <1>2, <1>3, <1>4, <1>5, <2>1
<1>12. \A n \in mailbox'.news, f \in feed' :
          n.twyst = f.twyst /\ n.id < f.id => Item(f) \in Items(mailbox'.news)
    <2>1. \A n \in mailbox.news, f \in feed :
             n.twyst = f.twyst /\ n.id < f.id => Item(f) \in Items(mailbox.news)
        BY DEF TellInv
    <2> QED
        BY <1>4, <1>5, <2>1
<1>13. \A p \in UnderWay' : \A n \in p.news, f \in feed' :
          n.twyst = f.twyst /\ n.id < f.id /\ f.id <= p.made
             => Item(f) \in Items(p.news)
    <2> SUFFICES ASSUME NEW p \in UnderWay', NEW n \in p.news, NEW f \in feed,
                        n.twyst = f.twyst, n.id < f.id, f.id <= p.made
                 PROVE  Item(f) \in Items(p.news)
        BY <1>4
    <2>1. CASE p \in UnderWay
        BY <2>1 DEF TellInv
    <2>2. CASE p = r
        <3>1. PICK m \in mailbox.news : n.id = m.id /\ n.twyst = m.twyst
            BY <1>2, <2>2
        <3>2. Item(f) \in Items(mailbox.news)
            BY <3>1 DEF TellInv
        <3> QED
            BY <1>2, <2>2, <3>2
    <2> QED
        BY <1>3, <2>1, <2>2
<1> QED
    BY <1>8, <1>9, <1>10, <1>11, <1>12, <1>13 DEF TellInv

\* Every reply still tells of all that it should.
LEMMA TellStep ==
    ASSUME BasicInv, TellInv, [Next]_vars
    PROVE  TellInv'
<1>0. Typed /\ ItemsInv /\ Paired(mainQueue)
    <2>1. Typed /\ ItemsInv
        BY DEF BasicInv
    <2> QED
        BY <2>1 DEF ItemsInv
<1>1. CASE Quiet
    <2>1. UNCHANGED <<mailbox, clock, feed, replies, mainQueue>>
        BY <1>1 DEF Quiet
    <2>2. UnderWay' = UnderWay
        BY <2>1 DEF UnderWay
    <2> QED
        BY <2>1, <2>2, TellKept
<1>2. ASSUME NEW t \in Twysts, NEW type \in Types, NEW s \in Senders,
             ServerNews(type, t, s)
      PROVE  TellInv'
    <2> DEFINE f0 == NewItem(type, t, s)
               n0 == NewNews(type, t, s)
    <2>1. /\ clock' = clock + 1 /\ UnderWay' = UnderWay
          /\ mailbox'.news = mailbox.news \cup {n0}
          /\ feed' \subseteq feed \cup {f0} /\ Item(n0) = Item(f0)
          /\ n0.id = clock + 1
        BY <1>0, <1>2, ServerNewsFacts
    <2>2. f0.id = clock + 1
        BY DEF NewItem
    <2> HIDE DEF f0, n0
    <2>3. \A f \in feed : f.id \in Nat /\ f.id <= clock
        BY <1>0, ItemsParts, FeedTyped
    <2>4. clock \in Nat
        BY <1>0 DEF Typed, Times
    <2>5. ASSUME NEW n \in mailbox'.news, NEW f \in feed', n.twyst = f.twyst, n.id < f.id
          PROVE  Item(f) \in Items(mailbox'.news)
        <3>1. CASE f = f0
            BY <2>1, <3>1, ItemIn
        <3>2. CASE f \in feed
            <4>1. n \in mailbox.news
                BY <2>1, <2>3, <2>4, <2>5, <3>2
            <4>2. Item(f) \in Items(mailbox.news)
                BY <2>5, <3>2, <4>1 DEF TellInv
            <4> QED
                BY <2>1, <4>2, ItemIn
        <3> QED
            BY <2>1, <3>1, <3>2
    <2> QED
        BY <2>1, <2>2, <2>5, TellServer
<1>3. ASSUME NEW t \in Twysts, FriendDeletes(t) \/ UserDeletes(t)
      PROVE  TellInv'
    <2>1. /\ clock' = clock + 1 /\ UnderWay' = UnderWay
          /\ feed' = {f \in feed : f.twyst # t}
          /\ mailbox'.news \in {mailbox.news, NewsOfOthers(t)}
          /\ mailbox'.news \subseteq mailbox.news
        BY <1>0, <1>3, DeletedFacts
    <2>2. ASSUME NEW n \in mailbox'.news, NEW f \in feed', n.twyst = f.twyst, n.id < f.id
          PROVE  Item(f) \in Items(mailbox'.news)
        <3>1. Item(f) \in Items(mailbox.news) /\ f.twyst # t
            BY <2>1, <2>2 DEF TellInv
        <3>2. PICK m \in mailbox.news : Item(f) = Item(m)
            BY <3>1, ItemIn
        <3>3. m.twyst = f.twyst
            BY <3>2, ItemFacts
        <3>4. m \in mailbox'.news
            BY <2>1, <3>1, <3>3 DEF NewsOfOthers
        <3> QED
            BY <3>2, <3>4, ItemIn
    <2> QED
        BY <2>1, <2>2, TellServer
<1>4. ASSUME NEW i \in DOMAIN replies, ReplyLost(i) \/ ReplyArrives(i)
      PROVE  TellInv'
    <2>1. UnderWay' \subseteq UnderWay
        BY <1>0, <1>4, WayLost, WayArrives
    <2>2. UNCHANGED <<mailbox, clock, feed>>
        BY <1>4 DEF ReplyLost, ReplyArrives, CheckStep
    <2> QED
        BY <2>1, <2>2, TellKept
<1>5. ASSUME NEW kind, NEW met \in SUBSET Mishaps, Take(kind, met)
      PROVE  TellInv'
    <2>1. UnderWay' \subseteq UnderWay
        BY <1>0, <1>5, WayTake, LeftoverTyped
    <2>2. UNCHANGED <<mailbox, clock, feed>>
        BY <1>5 DEF Take, serverVars
    <2> QED
        BY <2>1, <2>2, TellKept
<1>6. ASSUME NEW t \in Twysts, NEW made \in Times,
             DeletionAnswered(t, made) \/ DeletionFails(t, made)
      PROVE  TellInv'
    <2>1. UNCHANGED <<mailbox, clock, feed, replies, mainQueue>>
        BY <1>6 DEF DeletionAnswered, DeletionFails, serverVars, checkVars
    <2>2. UnderWay' = UnderWay
        BY <2>1 DEF UnderWay
    <2> QED
        BY <2>1, <2>2, TellKept
<1>7. CASE Restart
    <2>1. /\ replies' = <<>> /\ mainQueue' = <<>>
          /\ UNCHANGED <<mailbox, clock, feed>>
        BY <1>7 DEF Restart, serverVars
    <2>2. UnderWay' = {}
        BY <2>1 DEF UnderWay, ToSet
    <2> QED
        BY <2>1, <2>2, TellKept
<1> QED
    BY <1>0, <1>1, <1>2, <1>3, <1>4, <1>5, <1>6, <1>7, Steps, TellAnswer, BlockTaken

\* Replies that tell of deletions are under way.
LEMMA NotesWay ==
    ASSUME Typed
    PROVE  NotesUnderWay \subseteq UnderWay
<1>1. mainQueue \in Seq(Block)
    BY DEF Typed
<1>2. NotesOf(mainQueue) \subseteq RepliesOf(mainQueue)
    BY <1>1, RepliesIn
<1> QED
    BY <1>2, UnderWayIs DEF NotesUnderWay

\* A step that brings no reply and runs no block.
LEMMA NotesKept ==
    ASSUME NotesInv, UNCHANGED <<dropped, gone, mailbox>>,
           applied' = applied, clock' = clock, Clean' => Clean,
           HalfDone' => HalfDone /\ Head(mainQueue') = Head(mainQueue),
           Clean' => /\ leaving \subseteq leaving'
                     /\ \A r \in NotesUnderWay :
                           \/ r \in NotesUnderWay' \/ r.kept \/ r.notes = {}
    PROVE  NotesInv'
<1>1. HalfDone' => Head(mainQueue').reply.notes \subseteq dropped'
    BY DEF NotesInv
<1>2. \A t \in mailbox'.notes : t \in dropped' \/ applied' < clock'
    BY DEF NotesInv
<1>3. ASSUME Clean', NEW t \in gone'
      PROVE  \/ t \in dropped' \/ t \in mailbox'.notes
             \/ \E l \in leaving' : l[1] = t
             \/ \E r \in NotesUnderWay' : ~r.kept /\ t \in r.notes
    <2>1. \/ t \in dropped \/ t \in mailbox.notes
          \/ \E l \in leaving : l[1] = t
          \/ \E r \in NotesUnderWay : ~r.kept /\ t \in r.notes
        BY <1>3 DEF NotesInv
    <2> QED
        BY <1>3, <2>1
<1> QED
    BY <1>1, <1>2, <1>3 DEF NotesInv

\* What the server has told when a block's reply reaches up to now.
LEMMA NotesTaken ==
    ASSUME BasicInv, TellInv, NEW r \in UnderWay, ~Empty(r), r.made = clock
    PROVE  mailbox.notes \subseteq r.notes
BY DEF TellInv

\* The app is still told of every deletion.
LEMMA NotesStep ==
    ASSUME BasicInv, BasicInv', TellInv, NotesInv, [Next]_vars
    PROVE  NotesInv'
<1>0. /\ Typed /\ ItemsInv /\ Paired(mainQueue)
      /\ clock \in Nat /\ applied \in Nat /\ applied <= clock
    <2>1. Typed /\ ItemsInv
        BY DEF BasicInv
    <2> QED
        BY <2>1, ItemsParts DEF ItemsInv
<1>1. CASE Quiet
    <2>1. UNCHANGED <<mailbox, clock, gone, leaving, replies, mainQueue, applied, dropped,
                      mishaps>>
        BY <1>1 DEF Quiet
    <2>2. NotesUnderWay' = NotesUnderWay /\ (HalfDone' => HalfDone)
        BY <2>1 DEF NotesUnderWay, NotesOf, HalfDone
    <2> QED
        BY <2>1, <2>2, NotesKept DEF Clean
<1>2. ASSUME NEW t \in Twysts, NEW type \in Types, NEW s \in Senders,
             ServerNews(type, t, s)
      PROVE  NotesInv'
    <2>1. /\ clock' = clock + 1 /\ NotesUnderWay' = NotesUnderWay
          /\ mailbox'.notes = mailbox.notes
          /\ UNCHANGED <<applied, mainQueue, gone, leaving, dropped>>
        BY <1>0, <1>2, ServerNewsFacts
    <2>2. (Clean' => Clean) /\ (HalfDone' => HalfDone)
        BY <1>2, <2>1 DEF ServerNews, Clean, HalfDone
    <2>3. applied' < clock'
        BY <1>0, <2>1
    <2> QED
        BY <2>1, <2>2, <2>3 DEF NotesInv
<1>3. ASSUME NEW t \in Twysts, FriendDeletes(t) \/ UserDeletes(t)
      PROVE  NotesInv'
    <2>1. /\ clock' = clock + 1 /\ NotesUnderWay' = NotesUnderWay
          /\ gone' = gone \cup {t}
          /\ mishaps' = {} => mishaps = {}
          /\ mailbox'.notes = IF FriendDeletes(t) THEN mailbox.notes \cup {t}
                              ELSE mailbox.notes
          /\ leaving' = IF FriendDeletes(t) THEN leaving
                        ELSE leaving \cup {<<t, clock + 1>>}
          /\ UNCHANGED <<applied, mainQueue, dropped>>
        BY <1>0, <1>3, DeletedFacts
    <2>2. HalfDone' => HalfDone
        BY <2>1 DEF HalfDone
    <2>3. applied' < clock'
        BY <1>0, <2>1
    <2>4. HalfDone' => Head(mainQueue').reply.notes \subseteq dropped'
        BY <2>1, <2>2 DEF NotesInv
    <2>5. ASSUME Clean', NEW x \in gone'
          PROVE  \/ x \in dropped' \/ x \in mailbox'.notes
                 \/ \E l \in leaving' : l[1] = x
                 \/ \E r \in NotesUnderWay' : ~r.kept /\ x \in r.notes
        <3>1. CASE x = t
            <4>1. <<t, clock + 1>>[1] = t
                OBVIOUS
            <4> QED
                BY <2>1, <3>1, <4>1
        <3>2. CASE x \in gone
            <4>1. Clean
                BY <2>1, <2>5 DEF Clean
            <4>2. \/ x \in dropped \/ x \in mailbox.notes
                  \/ \E l \in leaving : l[1] = x
                  \/ \E r \in NotesUnderWay : ~r.kept /\ x \in r.notes
                BY <3>2, <4>1 DEF NotesInv
            <4>3. leaving \subseteq leaving' /\ mailbox.notes \subseteq mailbox'.notes
                BY <2>1
            <4> QED
                BY <2>1, <4>2, <4>3
        <3> QED
            BY <2>1, <2>5, <3>1, <3>2
    <2> QED
        BY <2>3, <2>4, <2>5 DEF NotesInv
<1>4. CASE Answer
    <2>1. PICK kept \in BOOLEAN :
              /\ mailbox' = IF kept THEN mailbox ELSE [notes |-> {}, news |-> {}]
              /\ NotesUnderWay' = NotesUnderWay \cup {ReplyNow(kept)}
        BY <1>0, <1>4, WayAnswer
    <2>2. ReplyNow(kept).kept = kept /\ ReplyNow(kept).notes = mailbox.notes
        BY <1>0, ReplyNowNews
    <2>3. UNCHANGED <<clock, gone, leaving, mainQueue, applied, dropped, mishaps>>
        BY <1>4 DEF Answer, CheckStep, boardVars
    <2>4. mailbox'.notes \subseteq mailbox.notes /\ (kept => mailbox' = mailbox)
        BY <2>1
    <2>5. HalfDone' => Head(mainQueue').reply.notes \subseteq dropped'
        BY <2>3 DEF NotesInv, HalfDone
    <2>6. ASSUME Clean', NEW x \in gone'
          PROVE  \/ x \in dropped' \/ x \in mailbox'.notes
                 \/ \E l \in leaving' : l[1] = x
                 \/ \E r \in NotesUnderWay' : ~r.kept /\ x \in r.notes
        <3>1. \/ x \in dropped \/ x \in mailbox.notes
              \/ \E l \in leaving : l[1] = x
              \/ \E r \in NotesUnderWay : ~r.kept /\ x \in r.notes
            BY <2>3, <2>6 DEF NotesInv, Clean
        <3> QED
            BY <2>1, <2>2, <2>3, <2>4, <3>1
    <2>7. \A x \in mailbox'.notes : x \in dropped' \/ applied' < clock'
        BY <2>3, <2>4 DEF NotesInv
    <2> QED
        BY <2>5, <2>6, <2>7 DEF NotesInv
<1>5. ASSUME NEW i \in DOMAIN replies, ReplyLost(i)
      PROVE  NotesInv'
    <2>1. NotesUnderWay = NotesUnderWay' \cup {replies[i]}
        BY <1>0, <1>5, WayLost
    <2>2. /\ UNCHANGED <<clock, gone, mailbox, leaving, mainQueue, applied, dropped>>
          /\ mishaps' = {} => mishaps = {} /\ ~Matters(replies[i])
        BY <1>5 DEF ReplyLost, CheckStep, boardVars
    <2>3. Clean' => replies[i].kept \/ replies[i].notes = {}
        BY <2>2 DEF Clean, Matters
    <2> QED
        BY <2>1, <2>2, <2>3, NotesKept DEF Clean, HalfDone
<1>6. ASSUME NEW i \in DOMAIN replies, ReplyArrives(i)
      PROVE  NotesInv'
    <2>1. /\ \A r \in NotesUnderWay : r \in NotesUnderWay' \/ r.notes = {}
          /\ mainQueue # <<>> => /\ mainQueue' # <<>>
                                 /\ Head(mainQueue') = Head(mainQueue)
          /\ /\ mainQueue = <<>> /\ mainQueue' # <<>>
             /\ Head(mainQueue').kind = "news"
             => Head(mainQueue').reply.notes = {}
        BY <1>0, <1>6, WayArrives
    <2>2. UNCHANGED <<clock, gone, mailbox, leaving, applied, dropped, mishaps>>
        BY <1>6 DEF ReplyArrives, CheckStep, boardVars
    <2>3. HalfDone' => HalfDone /\ Head(mainQueue') = Head(mainQueue)
        BY <2>1 DEF HalfDone
    <2> QED
        BY <2>1, <2>2, <2>3, NotesKept DEF Clean
<1>7. CASE twystNewsDidReceive
    <2> DEFINE r == Head(mainQueue).reply
    <2>1. Take("news", {}) /\ UNCHANGED <<dropped, leaving>>
        BY <1>7 DEF twystNewsDidReceive
    <2>2. /\ r \in UnderWay /\ Head(mainQueue).kind = "news" /\ mainQueue # <<>>
          /\ r.news # {} /\ NotesUnderWay' = NotesUnderWay
          /\ /\ mainQueue' # <<>> /\ Head(mainQueue').kind = "news"
             /\ Head(mainQueue').reply.notes # {}
             => Head(mainQueue) = Half("notes", Head(mainQueue').reply)
        BY <1>0, <2>1, WayTake, LeftoverTyped DEF Take
    <2>3. /\ applied' = IF applied >= r.made THEN applied ELSE r.made
          /\ r.made \in Nat /\ (mishaps' = {} => mishaps = {})
          /\ UNCHANGED <<clock, gone, mailbox>>
        BY <1>0, <2>1, TakeApplied, LeftoverTyped DEF Take, serverVars
    <2>4. ~HalfDone'
        <3>1. ASSUME HalfDone' PROVE FALSE
            <4>1. Head(mainQueue) = Half("notes", Head(mainQueue').reply)
                BY <2>2, <3>1 DEF HalfDone
            <4>2. Head(mainQueue).kind = "notes"
                BY <4>1 DEF Half
            <4> QED
                BY <2>2, <4>2
        <3> QED
            BY <3>1
    <2>5. r.notes \subseteq dropped
        BY <2>2 DEF NotesInv, HalfDone
    <2>6. r.made <= clock /\ ~Empty(r)
        BY <1>0, <2>2, ItemsParts DEF MadeInv, Empty
    <2> HIDE DEF r
    <2>7. \A x \in mailbox'.notes : x \in dropped' \/ applied' < clock'
        <3>1. CASE r.made = clock
            BY <2>1, <2>2, <2>3, <2>5, <2>6, <3>1, NotesTaken
        <3>2. CASE r.made < clock
            BY <1>0, <2>1, <2>3, <3>2 DEF NotesInv
        <3> QED
            BY <1>0, <2>3, <2>6, <3>1, <3>2
    <2>8. Clean' => \A x \in gone' :
                       \/ x \in dropped' \/ x \in mailbox'.notes
                       \/ \E l \in leaving' : l[1] = x
                       \/ \E q \in NotesUnderWay' : ~q.kept /\ x \in q.notes
        BY <2>1, <2>2, <2>3 DEF NotesInv, Clean
    <2> QED
        BY <2>4, <2>7, <2>8 DEF NotesInv
<1>8. CASE notificationDidReceive
    <2> DEFINE r == Head(mainQueue).reply
    <2>1. Take("notes", Leftover(r.notes)) /\ dropped' = dropped \cup r.notes /\ leaving' = leaving
        BY <1>8 DEF notificationDidReceive, deleteNewsWithTwystId
    <2>2. /\ r \in UnderWay /\ Head(mainQueue).kind = "notes" /\ mainQueue # <<>>
          /\ r.notes # {} /\ NotesUnderWay = NotesUnderWay' \cup {r}
          /\ /\ mainQueue' # <<>> /\ Head(mainQueue').kind = "news"
             /\ Head(mainQueue').reply.notes # {}
             => Head(mainQueue) = Half("notes", Head(mainQueue').reply)
        BY <1>0, <2>1, WayTake, LeftoverTyped DEF Take
    <2>3. /\ applied' = applied \/ applied' = r.made
          /\ r.made \in Nat /\ (mishaps' = {} => mishaps = {})
          /\ UNCHANGED <<clock, gone, mailbox>>
        BY <1>0, <2>1, TakeApplied, LeftoverTyped DEF Take, serverVars
    <2>4. HalfDone' => Head(mainQueue').reply.notes \subseteq dropped'
        <3>1. ASSUME HalfDone' PROVE r = Head(mainQueue').reply
            <4>1. Head(mainQueue) = Half("notes", Head(mainQueue').reply)
                BY <2>2, <3>1 DEF HalfDone
            <4> QED
                BY <4>1 DEF Half
        <3> QED
            BY <2>1, <3>1
    <2>5. r.made <= clock /\ ~Empty(r)
        BY <1>0, <2>2, ItemsParts DEF MadeInv, Empty
    <2> HIDE DEF r
    <2>6. \A x \in mailbox'.notes : x \in dropped' \/ applied' < clock'
        <3>1. CASE r.made = clock
            BY <2>1, <2>2, <2>3, <2>5, <3>1, NotesTaken
        <3>2. CASE r.made < clock
            BY <1>0, <2>1, <2>3, <3>2 DEF NotesInv
        <3> QED
            BY <1>0, <2>3, <2>5, <3>1, <3>2
    <2>7. ASSUME Clean', NEW x \in gone'
          PROVE  \/ x \in dropped' \/ x \in mailbox'.notes
                 \/ \E l \in leaving' : l[1] = x
                 \/ \E q \in NotesUnderWay' : ~q.kept /\ x \in q.notes
        <3>1. \/ x \in dropped \/ x \in mailbox.notes
              \/ \E l \in leaving : l[1] = x
              \/ \E q \in NotesUnderWay : ~q.kept /\ x \in q.notes
            BY <2>3, <2>7 DEF NotesInv, Clean
        <3> QED
            BY <2>1, <2>2, <2>3, <3>1
    <2> QED
        BY <2>4, <2>6, <2>7 DEF NotesInv
<1>9. ASSUME NEW t \in Twysts, NEW made \in Times, DeletionAnswered(t, made)
      PROVE  NotesInv'
    <2>1. /\ leaving' = leaving \ {<<t, made>>} /\ dropped' = dropped \cup {t}
          /\ mishaps' = {} => mishaps = {}
          /\ UNCHANGED <<clock, gone, mailbox, replies, mainQueue, applied>>
        BY <1>9 DEF DeletionAnswered, serverVars, checkVars, deleteNewsWithTwystId
    <2>2. NotesUnderWay' = NotesUnderWay /\ (HalfDone' => HalfDone)
        BY <2>1 DEF NotesUnderWay, NotesOf, HalfDone
    <2>3. \A l \in leaving : l \in leaving' \/ l[1] \in dropped'
        BY <2>1
    <2>4. HalfDone' => Head(mainQueue').reply.notes \subseteq dropped'
        BY <2>1, <2>2 DEF NotesInv
    <2>5. \A x \in mailbox'.notes : x \in dropped' \/ applied' < clock'
        BY <2>1 DEF NotesInv
    <2>6. ASSUME Clean', NEW x \in gone'
          PROVE  \/ x \in dropped' \/ x \in mailbox'.notes
                 \/ \E l \in leaving' : l[1] = x
                 \/ \E q \in NotesUnderWay' : ~q.kept /\ x \in q.notes
        <3>1. \/ x \in dropped \/ x \in mailbox.notes
              \/ \E l \in leaving : l[1] = x
              \/ \E q \in NotesUnderWay : ~q.kept /\ x \in q.notes
            BY <2>1, <2>6 DEF NotesInv, Clean
        <3> QED
            BY <2>1, <2>2, <2>3, <3>1
    <2> QED
        BY <2>4, <2>5, <2>6 DEF NotesInv
<1>10. ASSUME NEW t \in Twysts, NEW made \in Times, DeletionFails(t, made)
       PROVE  NotesInv'
    <2>1. /\ UNCHANGED <<clock, gone, mailbox, mainQueue, applied, dropped>>
          /\ ~Clean'
        BY <1>10 DEF DeletionFails, serverVars, checkVars, boardVars, Clean
    <2> QED
        BY <2>1, NotesKept DEF HalfDone
<1>11. CASE Restart
    <2>1. /\ mainQueue' = <<>> /\ leaving' = {}
          /\ UNCHANGED <<clock, gone, mailbox, applied, dropped>>
          /\ mishaps' = {} => /\ mishaps = {} /\ leaving = {}
                              /\ \A r \in UnderWay : ~Matters(r)
        BY <1>11 DEF Restart, serverVars
    <2>2. ~HalfDone'
        BY <2>1 DEF HalfDone
    <2>3. Clean' => \A r \in NotesUnderWay : r.kept \/ r.notes = {}
        BY <1>0, <2>1, NotesWay DEF Clean, Matters
    <2> QED
        BY <2>1, <2>2, <2>3, NotesKept DEF Clean
<1> QED
    BY <1>0, <1>1, <1>2, <1>3, <1>4, <1>5, <1>6, <1>7, <1>8, <1>9, <1>10, <1>11, Steps

\* What is told after a step, part by part.
LEMMA ToldInNext ==
    \A k : k \in Told' <=> \/ k \in Items(mailbox'.news)
                           \/ \E r \in UnderWay' : ~r.kept /\ k \in Items(r.news)
BY DEF Told, Items

\* What a clean step keeps: what was told is told still, unless it was handled
\* or is about a deleted twyst, and what no longer stands was undone by what is
\* told.
Onward ==
    /\ Clean /\ clock <= clock' /\ applied <= applied' /\ applied' <= clock
    /\ gone \subseteq gone'
    /\ \A k \in Told : k.twyst \in gone' \/ k.id <= applied' \/ k \in Told'
    /\ \A k \in Told' : k \in Told \/ k.id > clock
    /\ \A f \in feed : \/ f \in feed' \/ f.twyst \in gone'
                       \/ \E u \in Told' : u.id > clock /\ Kills(u, Item(f))
    /\ \A f \in feed' : f \in feed \/ (f.id > clock /\ Item(f) \in Told')
    /\ \A t \in Twysts :
          \/ comments'[t] = comments[t]
          \/ \E u \in Told' : u.id > clock /\ u.twyst = t /\ u.type \in CommentTypes

\* A step that the server takes no part in.
LEMMA OnwardKept ==
    ASSUME BasicInv, Clean, UNCHANGED <<clock, gone, feed, comments>>,
           applied <= applied', applied' <= clock, Told' \subseteq Told,
           \A k \in Told : k.id <= applied' \/ k \in Told'
    PROVE  Onward
<1>1. clock \in Nat /\ clock <= clock' /\ gone \subseteq gone' /\ feed' = feed
    BY DEF BasicInv, Typed, Times
<1>2. \A t \in Twysts : comments'[t] = comments[t]
    OBVIOUS
<1>3. \A k \in Told : k.twyst \in gone' \/ k.id <= applied' \/ k \in Told'
    OBVIOUS
<1>4. \A k \in Told' : k \in Told \/ k.id > clock
    OBVIOUS
<1> HIDE DEF Told
<1> QED
    BY ONLY Clean, applied <= applied', applied' <= clock, <1>1, <1>2, <1>3, <1>4 DEF Onward

\* Something happens at the server.
LEMMA OnwardServer ==
    ASSUME BasicInv, NEW t \in Twysts, NEW type \in Types, NEW s \in Senders,
           ServerNews(type, t, s), Clean'
    PROVE  /\ Onward
           /\ Adds(NewNews(type, t, s)) => NewItem(type, t, s) \in feed'
           /\ \A f \in feed : f \in feed' \/ Kills(Item(NewNews(type, t, s)), Item(f))
<1> DEFINE f0 == NewItem(type, t, s)
           n0 == NewNews(type, t, s)
<1>0. Typed /\ ItemsInv
    BY DEF BasicInv
<1>1. /\ clock' = clock + 1 /\ clock \in Nat /\ UnderWay' = UnderWay
      /\ mailbox'.news = mailbox.news \cup {n0}
      /\ feed' \subseteq feed \cup {f0} /\ Item(n0) = Item(f0)
      /\ UNCHANGED <<applied, gone>> /\ t \notin gone
    BY <1>0, ServerNewsFacts
<1>2. /\ n0.id = clock + 1 /\ n0.type = type /\ n0.twyst = t /\ n0.sender = s
      /\ f0.id = clock + 1 /\ f0.type = type /\ f0.twyst = t /\ f0.sender = s
    BY DEF NewNews, NewItem
<1>3. Happens(type, t, s) /\ Clean
    BY DEF ServerNews, Clean
<1>4. f0 = [id |-> clock + 1, type |-> type, twyst |-> t, sender |-> s]
    BY DEF NewItem
<1> HIDE DEF f0, n0
<1>5. applied \in Nat /\ applied <= clock /\ comments \in [Twysts -> Times]
    BY <1>0, ItemsParts DEF Typed
<1>6. Told \subseteq Told' /\ (\A k \in Told' : k \in Told \/ k = Item(n0))
      /\ Item(n0) \in Told'
    <2>1. /\ Items(mailbox'.news) = Items(mailbox.news) \cup Items({n0})
          /\ Items({n0}) = {Item(n0)}
        BY <1>1, ItemIn DEF Items
    <2> QED
        BY <1>1, <2>1, ToldIn, ToldInNext
<1>7. /\ Item(n0).id = clock + 1 /\ Item(n0).type = type /\ Item(n0).twyst = t
      /\ Item(n0).who = IF type = "comment" THEN Me ELSE s
    BY <1>2, ItemFacts DEF Who
<1>8. ASSUME NEW f \in feed, f \notin feed'
      PROVE  Kills(Item(n0), Item(f))
    <2>1. \/ type = "unlike" /\ f.type = "Like" /\ f.twyst = t /\ f.sender = s
          \/ type \in CommentTypes /\ f.type = "comment" /\ f.twyst = t
        BY <1>3, <1>8 DEF Happens, About, CommentTypes
    <2>2. f.id \in Nat /\ f.id <= clock
        BY <1>0, ItemsParts, FeedTyped
    <2>3. /\ Item(f).id = f.id /\ Item(f).type = f.type /\ Item(f).twyst = f.twyst
          /\ Item(f).who = IF f.type = "comment" THEN Me ELSE f.sender
        BY ItemFacts DEF Who
    <2> QED
        BY <1>1, <1>7, <2>1, <2>2, <2>3 DEF Kills
<1>9. Adds(n0) => f0 \in feed'
    BY <1>2, <1>3, <1>4 DEF Adds, Happens
<1>10. ASSUME NEW x \in Twysts, comments'[x] # comments[x]
       PROVE  x = t /\ type \in CommentTypes
    BY <1>3, <1>5, <1>10 DEF Happens, CommentTypes
<1>11. /\ Clean /\ clock <= clock' /\ applied <= applied' /\ applied' <= clock
       /\ gone \subseteq gone'
    BY <1>1, <1>3, <1>5
<1>12. \A k \in Told : k.twyst \in gone' \/ k.id <= applied' \/ k \in Told'
    BY <1>6
<1>13. Item(n0).id > clock
    BY <1>1, <1>7
<1>14. \A k \in Told' : k \in Told \/ k.id > clock
    BY <1>6, <1>13
<1>15. \A f \in feed : \/ f \in feed' \/ f.twyst \in gone'
                        \/ \E u \in Told' : u.id > clock /\ Kills(u, Item(f))
    BY <1>6, <1>8, <1>13
<1>16. \A f \in feed' : f \in feed \/ (f.id > clock /\ Item(f) \in Told')
    BY <1>1, <1>2, <1>6
<1>17. \A x \in Twysts :
          \/ comments'[x] = comments[x]
          \/ \E u \in Told' : u.id > clock /\ u.twyst = x /\ u.type \in CommentTypes
    BY <1>6, <1>7, <1>10, <1>13
<1> QED
    BY <1>8, <1>9, <1>11, <1>12, <1>14, <1>15, <1>16, <1>17 DEF Onward, f0, n0

\* A twyst is deleted.
LEMMA OnwardDeleted ==
    ASSUME BasicInv, NEW t \in Twysts, FriendDeletes(t) \/ UserDeletes(t), Clean'
    PROVE  Onward
<1>0. Typed /\ ItemsInv
    BY DEF BasicInv
<1>1. /\ clock' = clock + 1 /\ clock \in Nat /\ UnderWay' = UnderWay
      /\ gone' = gone \cup {t}
      /\ feed' = {f \in feed : f.twyst # t} /\ comments' = comments
      /\ mailbox'.news = NewsOfOthers(t) /\ Clean
      /\ mailbox'.news \subseteq mailbox.news
      /\ applied' = applied
    BY <1>0, DeletedFacts DEF Clean
<1>2. applied \in Nat /\ applied <= clock
    BY <1>0, ItemsParts
<1>3. Told' \subseteq Told
    <2>1. Items(mailbox'.news) \subseteq Items(mailbox.news)
        BY <1>1, ItemIn
    <2> QED
        BY <1>1, <2>1, ToldIn, ToldInNext
<1>4. ASSUME NEW k \in Told, k.twyst # t
      PROVE  k \in Told'
    <2>1. CASE k \in Items(mailbox.news)
        <3>1. PICK n \in mailbox.news : k = Item(n)
            BY <2>1, ItemIn
        <3>2. n \in mailbox'.news
            BY <1>1, <1>4, <3>1, ItemFacts DEF NewsOfOthers
        <3> QED
            BY <3>1, <3>2, ItemIn, ToldInNext
    <2>2. CASE \E r \in UnderWay : ~r.kept /\ k \in Items(r.news)
        BY <1>1, <2>2, ToldInNext
    <2> QED
        BY <2>1, <2>2, ToldIn
<1>5. /\ Clean /\ clock <= clock' /\ applied <= applied' /\ applied' <= clock
      /\ gone \subseteq gone'
    BY <1>1, <1>2
<1>6. \A k \in Told : k.twyst \in gone' \/ k.id <= applied' \/ k \in Told'
    BY <1>1, <1>4
<1>7. \A f \in feed : f \in feed' \/ f.twyst \in gone'
    BY <1>1
<1>8. \A f \in feed' : f \in feed
    BY <1>1
<1> QED
    BY <1>1, <1>3, <1>5, <1>6, <1>7, <1>8 DEF Onward

\* A block is run: what was told in its reply is handled.
LEMMA OnwardTake ==
    ASSUME BasicInv, NEW kind \in {"notes", "news"},
           NEW met \in SUBSET Mishaps, Take(kind, met), gone' = gone, Clean'
    PROVE  /\ Onward /\ Told' \subseteq Told
           /\ \A k \in Told : \/ k \in Told'
                              \/ kind = "news" /\ k \in Items(Head(mainQueue).reply.news)
<1> DEFINE r == Head(mainQueue).reply
<1>0. Typed /\ ItemsInv /\ Paired(mainQueue)
    BY DEF BasicInv, ItemsInv
<1>1. /\ r \in UnderWay /\ UnderWay = UnderWay' \cup {r}
      /\ kind = "notes" /\ r.news # {} => UnderWay' = UnderWay
    BY <1>0, WayTake, LeftoverTyped
<1>2. /\ applied' = IF kind = "notes" /\ r.news # {} THEN applied
                    ELSE IF applied >= r.made THEN applied ELSE r.made
      /\ applied <= applied' /\ r.made \in Nat /\ applied \in Nat
      /\ mishaps' = {} => mishaps = {}
      /\ UNCHANGED <<clock, feed, comments, gone, mailbox>>
    BY <1>0, TakeApplied, LeftoverTyped
<1>3. /\ r.made <= clock /\ applied <= clock /\ r.news \subseteq News
      /\ \A n \in r.news : n.id <= r.made
    BY <1>0, <1>1, ItemsParts, UnderWayTyped DEF MadeInv, ItemsInv
<1> HIDE DEF r
<1>4. Told' \subseteq Told
    BY <1>1, <1>2, ToldIn, ToldInNext
<1>5. ASSUME NEW k \in Told, k \notin Told'
      PROVE  kind = "news" /\ k \in Items(r.news)
    <2>1. k \notin Items(mailbox.news) /\ \E q \in UnderWay : ~q.kept /\ k \in Items(q.news)
        BY <1>2, <1>5, ToldIn, ToldInNext
    <2>2. PICK q \in UnderWay : ~q.kept /\ k \in Items(q.news)
        BY <2>1
    <2>3. q \notin UnderWay'
        BY <1>5, <2>2, ToldInNext
    <2>4. q = r
        BY <1>1, <2>3
    <2>5. k \in Items(r.news) /\ r.news # {}
        BY <2>2, <2>4 DEF Items
    <2> QED
        BY <1>1, <2>3, <2>4, <2>5
<1>6. \A k \in Items(r.news) : k.id <= r.made /\ k.id \in Nat
    BY <1>3, NewsFacts, ItemIn, ItemFacts DEF Ids
<1>7. \A k \in Told : k \in Told' \/ k.id <= applied'
    <2> SUFFICES ASSUME NEW k \in Told, k \notin Told'
                 PROVE  k.id <= applied'
        OBVIOUS
    <2>1. kind = "news" /\ k \in Items(r.news)
        BY <1>5
    <2>2. k.id <= r.made /\ k.id \in Nat
        BY <1>6, <2>1
    <2>3. applied' = IF applied >= r.made THEN applied ELSE r.made
        BY <1>2, <2>1
    <2> QED
        BY <1>2, <2>2, <2>3
<1>8. applied' <= clock
    BY <1>2, <1>3
<1>9. Onward
    BY <1>2, <1>4, <1>7, <1>8, OnwardKept DEF Clean
<1> QED
    BY <1>4, <1>5, <1>9 DEF r

\* Every clean step keeps these.
LEMMA OnwardStep ==
    ASSUME BasicInv, [Next]_vars, Clean'
    PROVE  Onward
<1>0. Typed /\ ItemsInv /\ Paired(mainQueue) /\ applied \in Nat /\ applied <= clock
    <2>1. Typed /\ ItemsInv
        BY DEF BasicInv
    <2> QED
        BY <2>1, ItemsParts
<1>1. ASSUME Clean, UNCHANGED <<clock, gone, feed, comments, applied, mailbox>>,
             UnderWay' \subseteq UnderWay,
             \A r \in UnderWay : r \in UnderWay' \/ r.kept \/ r.news = {}
      PROVE  Onward
    <2>1. Told' \subseteq Told
        BY <1>1, ToldIn, ToldInNext
    <2>2. ASSUME NEW k \in Told
          PROVE  k \in Told'
        <3>1. CASE k \in Items(mailbox.news)
            BY <1>1, <3>1, ToldInNext
        <3>2. CASE \E r \in UnderWay : ~r.kept /\ k \in Items(r.news)
            <4>1. PICK r \in UnderWay : ~r.kept /\ k \in Items(r.news)
                BY <3>2
            <4>2. r.news # {}
                BY <4>1 DEF Items
            <4> QED
                BY <1>1, <4>1, <4>2, ToldInNext
        <3> QED
            BY <3>1, <3>2, ToldIn
    <2>3. applied <= applied' /\ applied' <= clock
        BY <1>0, <1>1
    <2> QED
        BY <1>1, <2>1, <2>2, <2>3, OnwardKept
<1>2. CASE Quiet
    <2>1. UNCHANGED <<clock, gone, feed, comments, applied, mailbox, replies, mainQueue,
                      mishaps>>
        BY <1>2 DEF Quiet
    <2>2. UnderWay' = UnderWay
        BY <2>1 DEF UnderWay
    <2> QED
        BY <1>1, <2>1, <2>2 DEF Clean
<1>3. CASE Answer
    <2>1. PICK kept \in BOOLEAN :
              /\ mailbox' = IF kept THEN mailbox ELSE [notes |-> {}, news |-> {}]
              /\ UnderWay' = UnderWay \cup {ReplyNow(kept)}
        BY <1>0, <1>3, WayAnswer
    <2>2. /\ ReplyNow(kept).kept = kept
          /\ Items(ReplyNow(kept).news) = Items(mailbox.news)
        BY <1>0, ReplyNowNews
    <2>3. UNCHANGED <<clock, gone, feed, comments, applied, mishaps>>
        BY <1>3 DEF Answer, CheckStep
    <2>4. mailbox'.news \subseteq mailbox.news /\ (kept => mailbox' = mailbox)
        BY <2>1
    <2>5. Items(mailbox'.news) \subseteq Items(mailbox.news)
        BY <2>4, ItemIn
    <2>6. Told' \subseteq Told
        BY <2>1, <2>2, <2>5, ToldIn, ToldInNext
    <2>7. Told \subseteq Told'
        BY <2>1, <2>2, <2>4, ToldIn, ToldInNext
    <2>8. applied <= applied' /\ applied' <= clock
        BY <1>0, <2>3
    <2> QED
        BY <2>3, <2>6, <2>7, <2>8, OnwardKept DEF Clean
<1>4. ASSUME NEW i \in DOMAIN replies, ReplyLost(i)
      PROVE  Onward
    <2>1. UnderWay = UnderWay' \cup {replies[i]}
        BY <1>0, <1>4, WayLost
    <2>2. /\ UNCHANGED <<clock, gone, feed, comments, applied, mailbox>>
          /\ mishaps' = {} => mishaps = {} /\ ~Matters(replies[i])
        BY <1>4 DEF ReplyLost, CheckStep
    <2> QED
        BY <1>1, <2>1, <2>2 DEF Clean, Matters
<1>5. ASSUME NEW i \in DOMAIN replies, ReplyArrives(i)
      PROVE  Onward
    <2>1. UnderWay' \subseteq UnderWay /\ \A r \in UnderWay : r \in UnderWay' \/ Empty(r)
        BY <1>0, <1>5, WayArrives
    <2>2. UNCHANGED <<clock, gone, feed, comments, applied, mailbox, mishaps>>
        BY <1>5 DEF ReplyArrives, CheckStep
    <2> QED
        BY <1>1, <2>1, <2>2 DEF Clean, Empty
<1>6. CASE twystNewsDidReceive \/ notificationDidReceive
    <2>1. PICK kind \in {"notes", "news"}, met \in SUBSET Mishaps : Take(kind, met)
        BY <1>6, BlockTaken
    <2>2. gone' = gone
        BY <2>1 DEF Take, serverVars
    <2> QED
        BY <2>1, <2>2, OnwardTake
<1>7. ASSUME NEW t \in Twysts, NEW made \in Times,
             DeletionAnswered(t, made) \/ DeletionFails(t, made)
      PROVE  Onward
    <2>1. /\ UNCHANGED <<clock, gone, feed, comments, applied, mailbox, replies, mainQueue>>
          /\ Clean
        BY <1>7 DEF DeletionAnswered, DeletionFails, serverVars, checkVars, Clean
    <2>2. UnderWay' = UnderWay
        BY <2>1 DEF UnderWay
    <2> QED
        BY <1>1, <2>1, <2>2
<1>8. CASE Restart
    <2>1. /\ replies' = <<>> /\ mainQueue' = <<>>
          /\ UNCHANGED <<clock, gone, feed, comments, applied, mailbox>>
          /\ mishaps' = {} => mishaps = {} /\ \A r \in UnderWay : ~Matters(r)
        BY <1>8 DEF Restart, serverVars
    <2>2. UnderWay' = {}
        BY <2>1 DEF UnderWay, ToSet
    <2> QED
        BY <1>1, <2>1, <2>2 DEF Clean, Matters
<1> QED
    BY <1>0, <1>2, <1>3, <1>4, <1>5, <1>6, <1>7, <1>8, Steps, OnwardServer, OnwardDeleted

\* What is in the mailbox stands, or what undid it is there too.
MailStands ==
    \A n \in mailbox.news :
       Adds(n) => \/ Item(n) \in Items(feed)
                  \/ \E u \in Items(mailbox.news) : Kills(u, Item(n))

\* It stays so, step by step.
LEMMA MailStandsStep ==
    ASSUME BasicInv, MailStands, [Next]_vars, Clean'
    PROVE  MailStands'
<1>0. Typed
    BY DEF BasicInv
<1>1. CASE mailbox' = mailbox /\ feed' = feed
    BY <1>1 DEF MailStands
<1>2. ASSUME NEW t \in Twysts, NEW type \in Types, NEW s \in Senders,
             ServerNews(type, t, s)
      PROVE  MailStands'
    <2> DEFINE f0 == NewItem(type, t, s)
               n0 == NewNews(type, t, s)
    <2>1. mailbox'.news = mailbox.news \cup {n0} /\ Item(n0) = Item(f0)
        BY <1>0, <1>2, ServerNewsFacts
    <2>2. /\ Adds(n0) => f0 \in feed'
          /\ \A f \in feed : f \in feed' \/ Kills(Item(n0), Item(f))
        BY <1>2, OnwardServer
    <2> HIDE DEF f0, n0
    <2>3. /\ Item(n0) \in Items(mailbox'.news)
          /\ Items(mailbox.news) \subseteq Items(mailbox'.news)
        BY <2>1, ItemIn
    <2>4. ASSUME NEW n \in mailbox'.news, Adds(n)
          PROVE  \/ Item(n) \in Items(feed')
                 \/ \E u \in Items(mailbox'.news) : Kills(u, Item(n))
        <3>1. CASE n = n0
            BY <2>1, <2>2, <2>4, <3>1, ItemIn
        <3>2. CASE n \in mailbox.news /\ Item(n) \in Items(feed)
            <4>1. PICK f \in feed : Item(n) = Item(f)
                BY <3>2, ItemIn
            <4>2. f \in feed' => Item(n) \in Items(feed')
                BY <4>1, ItemIn
            <4> QED
                BY <2>2, <2>3, <4>1, <4>2
        <3>3. CASE n \in mailbox.news /\ Item(n) \notin Items(feed)
            BY <2>3, <2>4, <3>3 DEF MailStands
        <3> QED
            BY <2>1, <3>1, <3>2, <3>3
    <2> QED
        BY <2>4 DEF MailStands
<1>3. ASSUME NEW t \in Twysts, FriendDeletes(t) \/ UserDeletes(t)
      PROVE  MailStands'
    <2>1. /\ feed' = {f \in feed : f.twyst # t}
          /\ mailbox'.news = NewsOfOthers(t)
        BY <1>0, <1>3, DeletedFacts DEF Clean
    <2>2. ASSUME NEW n \in mailbox'.news, Adds(n)
          PROVE  \/ Item(n) \in Items(feed')
                 \/ \E u \in Items(mailbox'.news) : Kills(u, Item(n))
        <3>1. n \in mailbox.news /\ n.twyst # t
            BY <2>1 DEF NewsOfOthers
        <3>2. CASE Item(n) \in Items(feed)
            <4>1. PICK f \in feed : Item(n) = Item(f)
                BY <3>2, ItemIn
            <4>2. f.twyst = n.twyst
                BY <4>1, ItemFacts
            <4>3. f \in feed'
                BY <2>1, <3>1, <4>2
            <4> QED
                BY <4>1, <4>3, ItemIn
        <3>3. CASE Item(n) \notin Items(feed)
            <4>1. PICK u \in Items(mailbox.news) : Kills(u, Item(n))
                BY <2>2, <3>1, <3>3 DEF MailStands
            <4>2. PICK m \in mailbox.news : u = Item(m)
                BY <4>1, ItemIn
            <4>3. m.twyst = n.twyst
                BY <4>1, <4>2, ItemFacts DEF Kills
            <4>4. m \in mailbox'.news
                BY <2>1, <3>1, <4>3 DEF NewsOfOthers
            <4> QED
                BY <4>1, <4>2, <4>4, ItemIn
        <3> QED
            BY <3>2, <3>3
    <2> QED
        BY <2>2 DEF MailStands
<1>4. CASE Answer
    <2>1. PICK kept \in BOOLEAN :
              mailbox' = IF kept THEN mailbox ELSE [notes |-> {}, news |-> {}]
        BY <1>0, <1>4, WayAnswer
    <2>2. feed' = feed
        BY <1>4 DEF Answer, CheckStep
    <2>3. mailbox'.news = {} \/ mailbox' = mailbox
        BY <2>1
    <2> QED
        BY <2>2, <2>3 DEF MailStands
<1>5. \/ mailbox' = mailbox /\ feed' = feed
      \/ \E t \in Twysts, type \in Types, s \in Senders : ServerNews(type, t, s)
      \/ \E t \in Twysts : FriendDeletes(t) \/ UserDeletes(t)
      \/ Answer
    <2>1. Quiet => mailbox' = mailbox /\ feed' = feed
        BY DEF Quiet
    <2>2. (\E i \in DOMAIN replies : ReplyLost(i) \/ ReplyArrives(i))
             => mailbox' = mailbox /\ feed' = feed
        BY DEF ReplyLost, ReplyArrives, CheckStep
    <2>3. twystNewsDidReceive \/ notificationDidReceive
             => mailbox' = mailbox /\ feed' = feed
        BY DEF twystNewsDidReceive, notificationDidReceive, Take, serverVars
    <2>4. (\E t \in Twysts, made \in Times :
              DeletionAnswered(t, made) \/ DeletionFails(t, made))
             => mailbox' = mailbox /\ feed' = feed
        BY DEF DeletionAnswered, DeletionFails, serverVars
    <2>5. Restart => mailbox' = mailbox /\ feed' = feed
        BY DEF Restart, serverVars
    <2> QED
        BY <1>0, <2>1, <2>2, <2>3, <2>4, <2>5, Steps
<1> QED
    BY <1>1, <1>2, <1>3, <1>4, <1>5

\* What is told stands, and what stands is told.
LEMMA MailStep ==
    ASSUME BasicInv, BasicInv', FeedInv', MailInv, [Next]_vars, Clean'
    PROVE  MailInv'
<1>1. MailStands /\ \A f \in feed : f.id <= applied \/ Item(f) \in Told
    BY DEF MailInv, MailStands
<1>2. Onward
    BY OnwardStep
<1>3. applied \in Nat /\ applied' \in Nat
    BY DEF BasicInv, Typed, Times
<1>4. ASSUME NEW f \in feed'
      PROVE  f.id <= applied' \/ Item(f) \in Told'
    <2>1. f \in feed \/ Item(f) \in Told'
        BY <1>2 DEF Onward
    <2>2. CASE f \in feed /\ f.id <= applied
        <3>1. f.id \in Nat
            BY <2>2, FeedTyped DEF BasicInv
        <3>2. applied <= applied'
            BY <1>2 DEF Onward
        <3> QED
            BY <1>3, <2>2, <3>1, <3>2
    <2>3. CASE Item(f) \in Told
        <3>1. Item(f).twyst \in gone' \/ Item(f).id <= applied' \/ Item(f) \in Told'
            BY <1>2, <2>3 DEF Onward
        <3>2. f.twyst \notin gone'
            BY DEF FeedInv
        <3> QED
            BY <3>1, <3>2, ItemFacts
    <2> QED
        BY <1>1, <2>1, <2>2, <2>3
<1>5. MailStands'
    BY <1>1, MailStandsStep
<1> QED
    BY <1>4, <1>5 DEF MailInv, MailStands

\* What is told after a step, and what stands, is numbered.
LEMMA ToldNumbers ==
    ASSUME BasicInv'
    PROVE  \A u \in Told' : u.id \in Nat
<1>1. Typed'
    BY DEF BasicInv
<1>2. UnderWay' \subseteq Reply /\ mailbox'.news \subseteq News
    <2>1. replies' \in Seq(Reply) /\ mainQueue' \in Seq(Block) /\ mailbox'.news \subseteq News
        BY <1>1 DEF Typed
    <2>2. ToSet(replies') \subseteq Reply /\ RepliesOf(mainQueue') \subseteq Reply
        BY <2>1, ElementsIn, RepliesIn
    <2>3. UnderWay' = ToSet(replies') \cup RepliesOf(mainQueue')
        BY DEF UnderWay, RepliesOf
    <2> QED
        BY <2>1, <2>2, <2>3
<1>3. \A r \in UnderWay' : r.news \subseteq News
    BY <1>2, ReplyFacts
<1>4. ASSUME NEW u \in Told'
      PROVE  \E n \in News : u = Item(n)
    BY <1>2, <1>3, ToldInNext, ItemIn
<1> QED
    BY <1>4, NewsFacts, ItemFacts DEF Ids

\* So is what stands.
LEMMA FeedNumbers ==
    ASSUME BasicInv'
    PROVE  \A f \in feed' : f.id \in Nat
BY DEF BasicInv, Typed, Standing

\* A reply still stands for what it tells, or comes too late.
LEMMA ReplyKept ==
    ASSUME BasicInv, BasicInv', Onward, NEW r \in UnderWay, ReplyInv(r)
    PROVE  ReplyInv(r)'
<1>1. /\ clock \in Nat /\ applied \in Nat /\ applied' \in Nat
      /\ r.made \in Nat /\ r.made <= clock /\ applied <= applied'
      /\ r.news \subseteq News
    <2>1. Typed /\ Typed' /\ ItemsInv
        BY DEF BasicInv
    <2>2. applied <= applied'
        BY DEF Onward
    <2>3. clock \in Nat /\ applied \in Nat /\ applied' \in Nat
        BY <2>1 DEF Typed, Times
    <2>4. r.made \in Nat /\ r.made <= clock /\ r.news \subseteq News
        BY <2>1, UnderWayTyped, ItemsParts DEF MadeInv
    <2> QED
        BY <2>2, <2>3, <2>4
<1> SUFFICES ASSUME ~(r.made < applied'), NEW n \in r.news, n.twyst \notin gone'
             PROVE  /\ Adds(n) => \/ Item(n) \in Items(feed')
                                  \/ \E u \in Items(r.news) : Kills(u, Item(n))
                                  \/ \E u \in Told' : u.id > r.made /\ Kills(u, Item(n))
                    /\ n.type \in CommentTypes
                         => /\ \/ n.count = comments'[n.twyst]
                               \/ \E u \in Told' : /\ u.id > r.made /\ u.twyst = n.twyst
                                                   /\ u.type \in CommentTypes
                            /\ \/ n.count > 0
                               \/ \A f \in About(n.twyst, "comment")' : f.id > r.made
    BY DEF ReplyInv
<1>2. ~(r.made < applied) /\ n.twyst \notin gone /\ n.twyst \in Twysts
    BY <1>1, NewsFacts DEF Onward
<1>3. /\ Adds(n) => \/ Item(n) \in Items(feed)
                    \/ \E u \in Items(r.news) : Kills(u, Item(n))
                    \/ \E u \in Told : u.id > r.made /\ Kills(u, Item(n))
      /\ n.type \in CommentTypes
           => /\ \/ n.count = comments[n.twyst]
                 \/ \E u \in Told : /\ u.id > r.made /\ u.twyst = n.twyst
                                    /\ u.type \in CommentTypes
              /\ \/ n.count > 0
                 \/ \A f \in About(n.twyst, "comment") : f.id > r.made
    BY <1>2 DEF ReplyInv
<1>4. ASSUME NEW u \in Told, u.id > r.made, u.twyst = n.twyst
      PROVE  u \in Told'
    <2>1. u.id \in Nat
        BY ToldKnown
    <2>2. ~(u.id <= applied')
        BY <1>1, <1>4, <2>1
    <2> QED
        BY <1>4, <2>2 DEF Onward
<1>5. \A u \in Told' : u.id > clock => u.id > r.made
    <2>1. \A u \in Told' : u.id > clock => u.id \in Nat
        BY ToldNumbers
    <2> QED
        BY <1>1, <2>1
<1>6. ASSUME Adds(n)
      PROVE  \/ Item(n) \in Items(feed')
             \/ \E u \in Items(r.news) : Kills(u, Item(n))
             \/ \E u \in Told' : u.id > r.made /\ Kills(u, Item(n))
    <2>1. CASE Item(n) \in Items(feed)
        <3>1. PICK f \in feed : Item(n) = Item(f)
            BY <2>1, ItemIn
        <3>2. f.twyst = n.twyst
            BY <3>1, ItemFacts
        <3>3. f \in feed' \/ \E u \in Told' : u.id > clock /\ Kills(u, Item(f))
            BY <3>2 DEF Onward
        <3> QED
            BY <1>5, <3>1, <3>3, ItemIn
    <2>2. CASE \E u \in Told : u.id > r.made /\ Kills(u, Item(n))
        <3>1. PICK u \in Told : u.id > r.made /\ Kills(u, Item(n))
            BY <2>2
        <3>2. u.twyst = n.twyst
            BY <3>1, ItemFacts DEF Kills
        <3> QED
            BY <1>4, <3>1, <3>2
    <2> QED
        BY <1>3, <1>6, <2>1, <2>2
<1>7. ASSUME n.type \in CommentTypes
      PROVE  \/ n.count = comments'[n.twyst]
             \/ \E u \in Told' : /\ u.id > r.made /\ u.twyst = n.twyst
                                 /\ u.type \in CommentTypes
    <2>1. CASE n.count = comments[n.twyst]
        <3>1. \/ comments'[n.twyst] = comments[n.twyst]
              \/ \E u \in Told' : u.id > clock /\ u.twyst = n.twyst /\ u.type \in CommentTypes
            BY <1>2 DEF Onward
        <3> QED
            BY <1>5, <2>1, <3>1
    <2>2. CASE \E u \in Told : /\ u.id > r.made /\ u.twyst = n.twyst
                               /\ u.type \in CommentTypes
        BY <1>4, <2>2
    <2> QED
        BY <1>3, <1>7, <2>1, <2>2
<1>8. ASSUME n.type \in CommentTypes, ~(n.count > 0), NEW f \in About(n.twyst, "comment")'
      PROVE  f.id > r.made
    <2>1. f \in feed' /\ f.twyst = n.twyst /\ f.type = "comment"
        BY DEF About
    <2>2. CASE f \in feed
        <3>1. f \in About(n.twyst, "comment")
            BY <2>1, <2>2 DEF About
        <3> QED
            BY <1>3, <1>8, <3>1
    <2>3. CASE f.id > clock
        <3>1. f.id \in Nat
            BY <2>1, FeedNumbers
        <3> QED
            BY <1>1, <2>3, <3>1
    <2> QED
        BY <2>1, <2>2, <2>3 DEF Onward
<1> QED
    BY <1>6, <1>7, <1>8

\* Replies come from the server only, and one that the server does not repeat
\* leaves when it is handled, in a clean run, before any that was made later.
LEMMA WayStep ==
    ASSUME BasicInv, [Next]_vars
    PROVE  /\ Answer \/ UnderWay' \subseteq UnderWay
           /\ Clean' => \A r \in UnderWay : \/ r \in UnderWay' \/ ~Matters(r)
                                            \/ ~(r.made < applied)
<1>0. Typed /\ ItemsInv /\ Paired(mainQueue) /\ applied \in Nat
    <2>1. Typed /\ ItemsInv
        BY DEF BasicInv
    <2> QED
        BY <2>1, ItemsParts
<1>1. CASE replies' = replies /\ mainQueue' = mainQueue
    <2>1. UnderWay' = UnderWay
        BY <1>1 DEF UnderWay
    <2> QED
        BY <2>1
<1>2. CASE Answer
    <2>1. UnderWay \subseteq UnderWay'
        BY <1>0, <1>2, WayAnswer
    <2> QED
        BY <1>2, <2>1
<1>3. ASSUME NEW i \in DOMAIN replies, ReplyLost(i)
      PROVE  /\ UnderWay' \subseteq UnderWay
             /\ Clean' => \A r \in UnderWay : r \in UnderWay' \/ ~Matters(r)
    <2>1. UnderWay = UnderWay' \cup {replies[i]}
        BY <1>0, <1>3, WayLost
    <2>2. mishaps' = {} => ~Matters(replies[i])
        BY <1>3 DEF ReplyLost
    <2> QED
        BY <2>1, <2>2 DEF Clean
<1>4. ASSUME NEW i \in DOMAIN replies, ReplyArrives(i)
      PROVE  /\ UnderWay' \subseteq UnderWay
             /\ \A r \in UnderWay : r \in UnderWay' \/ ~Matters(r)
    <2>1. UnderWay' \subseteq UnderWay /\ \A r \in UnderWay : r \in UnderWay' \/ Empty(r)
        BY <1>0, <1>4, WayArrives
    <2> QED
        BY <2>1 DEF Matters, Empty
<1>5. ASSUME NEW kind, NEW met \in SUBSET Mishaps, Take(kind, met)
      PROVE  /\ UnderWay' \subseteq UnderWay
             /\ Clean' => \A r \in UnderWay : r \in UnderWay' \/ ~(r.made < applied)
    <2>1. UnderWay = UnderWay' \cup {Head(mainQueue).reply}
        BY <1>0, <1>5, WayTake, LeftoverTyped
    <2>2. mishaps' = {} => /\ Head(mainQueue).reply.made >= applied
                           /\ Head(mainQueue).reply.made \in Nat
        BY <1>0, <1>5, TakeApplied, LeftoverTyped
    <2> QED
        BY <1>0, <2>1, <2>2 DEF Clean
<1>6. CASE Restart
    <2>1. /\ replies' = <<>> /\ mainQueue' = <<>>
          /\ mishaps' = {} => \A r \in UnderWay : ~Matters(r)
        BY <1>6 DEF Restart
    <2>2. UnderWay' = {}
        BY <2>1 DEF UnderWay, ToSet
    <2> QED
        BY <2>1, <2>2 DEF Clean
<1>7. \/ replies' = replies /\ mainQueue' = mainQueue
      \/ Answer \/ Restart
      \/ \E i \in DOMAIN replies : ReplyLost(i) \/ ReplyArrives(i)
      \/ \E kind \in {"notes", "news"}, met \in SUBSET Mishaps : Take(kind, met)
    <2>1. Quiet => replies' = replies /\ mainQueue' = mainQueue
        BY DEF Quiet
    <2>2. (\E t \in Twysts, type \in Types, s \in Senders : ServerNews(type, t, s))
             => replies' = replies /\ mainQueue' = mainQueue
        BY DEF ServerNews, ServerStep, checkVars
    <2>3. (\E t \in Twysts : FriendDeletes(t) \/ UserDeletes(t))
             => replies' = replies /\ mainQueue' = mainQueue
        BY DEF FriendDeletes, UserDeletes, Deleted, ServerStep, checkVars
    <2>4. (\E t \in Twysts, made \in Times :
              DeletionAnswered(t, made) \/ DeletionFails(t, made))
             => replies' = replies /\ mainQueue' = mainQueue
        BY DEF DeletionAnswered, DeletionFails, checkVars
    <2> QED
        BY <1>0, <2>1, <2>2, <2>3, <2>4, BlockTaken, Steps
<1> QED
    BY <1>1, <1>2, <1>3, <1>4, <1>5, <1>6, <1>7

\* Every reply under way stands for what it tells.
LEMMA ReplyStep ==
    ASSUME BasicInv, BasicInv', FeedInv, MailInv, \A r \in UnderWay : ReplyInv(r),
           [Next]_vars, Clean', NEW r \in UnderWay'
    PROVE  ReplyInv(r)'
<1>1. Onward /\ Clean
    BY OnwardStep DEF Onward
<1>2. CASE r \in UnderWay
    BY <1>1, <1>2, ReplyKept
<1>3. CASE r \notin UnderWay
    <2>1. Typed /\ Answer
        BY <1>3, WayStep DEF BasicInv
    <2>2. PICK kept \in BOOLEAN : r = ReplyNow(kept)
        BY <1>3, <2>1, WayAnswer
    <2>3. UNCHANGED <<feed, comments, gone>>
        BY <2>1 DEF Answer, CheckStep
    <2>4. ASSUME NEW n \in r.news, n.twyst \notin gone'
          PROVE  /\ Adds(n) => \/ Item(n) \in Items(feed')
                               \/ \E u \in Items(r.news) : Kills(u, Item(n))
                 /\ n.count = comments'[n.twyst]
                 /\ n.count > 0 \/ About(n.twyst, "comment")' = {}
        <3>1. PICK m \in mailbox.news :
                  /\ Item(n) = Item(m) /\ n.type = m.type /\ n.sender = m.sender
                  /\ n.twyst = m.twyst /\ n.count = comments[n.twyst]
            BY <2>1, <2>2, ReplyNowNews
        <3>2. Items(r.news) = Items(mailbox.news)
            BY <2>1, <2>2, ReplyNowNews
        <3>3. Adds(n) => \/ Item(n) \in Items(feed)
                         \/ \E u \in Items(r.news) : Kills(u, Item(n))
            BY <3>1, <3>2 DEF MailInv, Adds
        <3>4. n.twyst \in Twysts \ gone
            <4>1. m \in News
                BY <2>1, UnderWayTyped
            <4> QED
                BY <2>3, <2>4, <3>1, <4>1, NewsFacts
        <3>5. n.count > 0 \/ About(n.twyst, "comment") = {}
            BY <1>1, <3>1, <3>4 DEF FeedInv
        <3>6. About(n.twyst, "comment")' = About(n.twyst, "comment")
            BY <2>3 DEF About
        <3> QED
            BY <2>3, <3>1, <3>3, <3>5, <3>6
    <2> QED
        BY <2>4 DEF ReplyInv
<1> QED
    BY <1>2, <1>3

\* A reply that was overtaken, and will not be told again, is still under way.
LEMMA BehindStep ==
    ASSUME BasicInv, BasicInv', [Next]_vars, Clean', ~Behind'
    PROVE  ~Behind
<1> SUFFICES ASSUME NEW r \in UnderWay, Matters(r), r.made < applied
             PROVE  FALSE
    BY DEF Behind
<1>1. r \in UnderWay'
    BY WayStep
<1>2. applied <= applied'
    BY OnwardStep DEF Onward
<1>3. r.made \in Nat /\ applied \in Nat /\ applied' \in Nat
    <2>1. Typed /\ Typed'
        BY DEF BasicInv
    <2>2. applied \in Nat /\ applied' \in Nat
        BY <2>1 DEF Typed, Times
    <2> QED
        BY <2>1, <2>2, UnderWayTyped
<1> QED
    BY <1>1, <1>2, <1>3 DEF Behind

\* A reply that is handled tells of all that the app was still to be told, as
\* far as it reaches.
LEMMA ToldReply ==
    ASSUME BasicInv, TellInv, NEW kind \in {"notes", "news"},
           NEW met \in SUBSET Mishaps, Take(kind, met), ~Behind',
           kind = "news" \/ Head(mainQueue).reply.news = {},
           NEW k \in Told, k.id <= Head(mainQueue).reply.made
    PROVE  k \in Items(Head(mainQueue).reply.news)
<1> DEFINE r == Head(mainQueue).reply
<1>0. Typed /\ ItemsInv /\ Paired(mainQueue)
    BY DEF BasicInv, ItemsInv
<1>1. /\ r \in UnderWay /\ UnderWay = UnderWay' \cup {r}
      /\ ~Empty(r)
    BY <1>0, WayTake, LeftoverTyped DEF Empty
<1>2. /\ applied' = IF applied >= r.made THEN applied ELSE r.made
      /\ r.made \in Nat /\ applied \in Nat /\ k.id <= r.made
    BY <1>0, TakeApplied, LeftoverTyped
<1> HIDE DEF r
<1>3. k.id \in Nat
    BY ToldKnown
<1>4. CASE k \in Items(mailbox.news)
    <2>1. PICK n \in mailbox.news : k = Item(n)
        BY <1>4, ItemIn
    <2>2. n.id <= r.made
        BY <1>2, <2>1, ItemFacts
    <2> QED
        BY <1>1, <2>1, <2>2 DEF TellInv, r
<1>5. CASE \E q \in UnderWay : ~q.kept /\ k \in Items(q.news)
    <2>1. PICK q \in UnderWay : ~q.kept /\ k \in Items(q.news)
        BY <1>5
    <2>2. PICK n \in q.news : k = Item(n)
        BY <2>1, ItemIn
    <2>3. n.id <= r.made
        BY <1>2, <2>2, ItemFacts
    <2>4. q.made \in Nat
        BY <1>0, UnderWayTyped
    <2>5. CASE r.made <= q.made
        BY <1>1, <2>2, <2>3, <2>5 DEF TellInv, r
    <2>6. CASE q.made < r.made
        <3>1. q # r
            BY <1>2, <2>6
        <3>2. q \in UnderWay' /\ Matters(q)
            BY <1>1, <2>1, <2>2, <3>1 DEF Matters
        <3>3. q.made < applied'
            BY <1>2, <2>4, <2>6
        <3> QED
            BY <3>2, <3>3 DEF Behind
    <2> QED
        BY <1>2, <2>4, <2>5, <2>6
<1> QED
    BY <1>4, <1>5, ToldIn

-----------------------------------------------------------------------------
(* The rows, while the news of a reply are handled                         *)

\* A reply that does not come too late is handled in a clean run.
Handling(r) ==
    /\ BasicInv /\ Clean /\ FeedInv /\ TellInv /\ MailInv
    /\ r \in UnderWay /\ ReplyInv(r) /\ applied <= r.made

HasRow(rs, i) == \E o \in DOMAIN rs : rs[o].newsId = i

\* With the news up to i handled, what stands has its row, unless later news
\* tell of it, ...
Shown(rs, r, i) ==
    \A f \in feed :
       f.id <= r.made /\ (f.id <= i \/ Item(f) \notin Items(r.news))
          => HasRow(rs, f.id)

\* ... and each row tells of what stands, or news to come undo it.
Right(rs, r, i) ==
    \A o \in DOMAIN rs :
       \/ RowItem(rs[o]) \in Items(feed) \/ rs[o].twyst \in gone
       \/ \E u \in Items(r.news) : u.id > i /\ Kills(u, RowItem(rs[o]))
       \/ \E u \in Told : u.id > r.made /\ Kills(u, RowItem(rs[o]))

Older(rs) ==
    \A f \in feed, o \in DOMAIN rs :
       f.type = "comment" /\ rs[o].type = "comment" /\ rs[o].twyst = f.twyst
          => rs[o].newsId <= f.id

Halfway(rs, r, i) ==
    /\ Sound(rs) /\ RowItems(rs) \subseteq Known /\ Older(rs)
    /\ Shown(rs, r, i) /\ Right(rs, r, i)

\* What there is to know of the numbers.
LEMMA HandlingFacts ==
    ASSUME NEW r, Handling(r)
    PROVE  /\ Typed /\ ItemsInv /\ OneEach(Known)
           /\ r.news \subseteq News /\ r.made \in Nat /\ applied \in Nat
           /\ \A n \in r.news : /\ n \in NewsIn /\ Item(n) \in Known
                                /\ n.id \in Nat /\ n.id <= r.made
           /\ \A f \in feed : Item(f) \in Known /\ f.id \in Nat
           /\ \A k \in Known : k.id \in Nat
<1>1. Typed /\ ItemsInv /\ r \in UnderWay /\ BasicInv
    BY DEF Handling, BasicInv
<1>2. r.news \subseteq News /\ r.made \in Nat
    BY <1>1, UnderWayTyped
<1>3. /\ \A f \in feed : Item(f) \in Known
      /\ \A n \in NewsIn : Item(n) \in Known
      /\ r.news \subseteq NewsIn /\ applied \in Nat
    BY <1>1, ItemsParts
<1>4. \A f \in feed : f.id \in Nat
    BY <1>1, FeedTyped
<1>5. \A n \in r.news : n.id \in Nat /\ n.id <= r.made
    BY <1>1, <1>2, NewsFacts DEF Ids, ItemsInv
<1>6. OneEach(Known) /\ \A k \in Known : k.id \in Nat
    BY <1>1, KnownIds DEF ItemsInv
<1> QED
    BY <1>1, <1>2, <1>3, <1>4, <1>5, <1>6

\* News of a reply do not undo what stands and is shown.
LEMMA NotUndone ==
    ASSUME NEW r, Handling(r), NEW n \in r.news, NEW f \in feed,
           f.id <= r.made, f.id # n.id, f.twyst = n.twyst,
           f.id <= n.id \/ Item(f) \notin Items(r.news)
    PROVE  /\ ~(f.type = "Like" /\ n.type = "unlike" /\ n.sender = f.sender)
           /\ ~(f.type = "comment" /\ n.type = "comment" /\ n.sender # Me)
<1>1. n \in NewsIn /\ n.id \in Nat /\ f.id \in Nat
    BY HandlingFacts
<1>2. CASE n.id > f.id
    BY <1>1, <1>2 DEF Handling, FeedInv
<1>3. CASE n.id < f.id
    <2>1. Item(f) \in Items(r.news)
        BY <1>3 DEF Handling, TellInv
    <2> QED
        BY <1>1, <1>3, <2>1
<1> QED
    BY <1>1, <1>2, <1>3

\* The comments that stand are counted.
LEMMA StandingCounted ==
    ASSUME NEW r, Handling(r), NEW n \in r.news, n.type \in CommentTypes,
           NEW f \in feed, f.type = "comment", f.twyst = n.twyst, f.id <= r.made
    PROVE  n.count > 0
<1>1. f \in About(n.twyst, "comment")
    BY DEF About
<1>2. n.twyst \notin gone
    BY DEF Handling, FeedInv
<1>3. /\ r.made \in Nat /\ applied \in Nat /\ f.id \in Nat
    BY HandlingFacts
<1>4. ~(r.made < applied)
    BY <1>3 DEF Handling
<1>5. n.count > 0 \/ \A g \in About(n.twyst, "comment") : g.id > r.made
    BY <1>2, <1>4 DEF Handling, ReplyInv
<1> QED
    BY <1>1, <1>3, <1>5

\* Which row news are written over.
LEMMA Overwritten ==
    ASSUME NEW c, Sound(c.rows), NEW K, OneEach(K), RowItems(c.rows) \subseteq K,
           NEW n, Item(n) \in K, NEW p \in DOMAIN c.rows, WrittenTo(c, n, p)
    PROVE  \/ c.rows[p].newsId = n.id
           \/ n.type = "comment" /\ p \in CommentRows(c, n.twyst)
<1>1. RowItem(c.rows[p]) \in K /\ ObjectItem(p, c.rows[p]) \in K
    BY RowItemsIn
<1>2. CASE n.type = "comment"
    <2>1. CASE CommentRows(c, n.twyst) = {} /\ p = n.id
        <3>1. ObjectItem(p, c.rows[p]).id = Item(n).id
            BY <2>1, ItemFacts
        <3>2. ObjectItem(p, c.rows[p]) = Item(n)
            BY <1>1, <3>1 DEF OneEach
        <3>3. c.rows[p].type = n.type /\ c.rows[p].twyst = n.twyst
            BY <3>2, ItemFacts
        <3>4. p \in CommentRows(c, n.twyst)
            BY <1>2, <3>3 DEF CommentRows
        <3> QED
            BY <2>1, <3>4
    <2> QED
        BY <1>2, <2>1 DEF WrittenTo
<1>3. CASE n.type # "comment" /\ p = n.id
    <2>1. ObjectItem(p, c.rows[p]).id = Item(n).id
        BY <1>3, ItemFacts
    <2>2. ObjectItem(p, c.rows[p]) = Item(n)
        BY <1>1, <2>1 DEF OneEach
    <2>3. c.rows[p].type = n.type
        BY <2>2, ItemFacts
    <2> QED
        BY <1>3, <2>3 DEF Sound
<1> QED
    BY <1>2, <1>3 DEF WrittenTo

\* One item of news leaves what stands its row, or gives it one.
LEMMA ShownStep ==
    ASSUME NEW r, Handling(r), NEW c \in Boards, NEW n \in r.news, NEW d,
           Follows(c, n, d), Sound(c.rows), RowItems(c.rows) \subseteq Known,
           Shown(c.rows, r, n.id - 1)
    PROVE  Shown(d.rows, r, n.id)
<1>1. /\ OneEach(Known) /\ r.news \subseteq News /\ r.made \in Nat
      /\ n \in NewsIn /\ Item(n) \in Known /\ n.id \in Nat /\ n.id <= r.made
    BY HandlingFacts
<1> SUFFICES ASSUME NEW f \in feed, f.id <= r.made,
                    f.id <= n.id \/ Item(f) \notin Items(r.news)
             PROVE  HasRow(d.rows, f.id)
    BY DEF Shown
<1>2. f.id \in Nat /\ Item(f) \in Known
    BY HandlingFacts
<1>3. f.type \in RowTypes /\ f.twyst \notin gone /\ (f.sender = Me => f.type = "Pass")
    BY DEF Handling, FeedInv
<1>4. n \in News /\ n.count \in Nat
    BY <1>1, NewsFacts DEF Times
<1>5. CASE f.id = n.id
    <2>1. Item(f).id = Item(n).id
        BY <1>5, ItemFacts
    <2>2. Item(f) = Item(n)
        BY <1>1, <1>2, <2>1 DEF OneEach
    <2>3. f.type = n.type /\ f.twyst = n.twyst /\ Who(f) = Who(n)
        BY <2>2, ItemFacts
    <2>4. n.type = "comment" => n.sender # Me
        BY <1>1 DEF Handling, FeedInv
    <2>5. n.type # "comment" => n.sender = f.sender
        BY <2>3 DEF Who
    <2>6. Adds(n)
        BY <1>3, <2>3, <2>4, <2>5 DEF Adds, RowTypes
    <2>7. n.type = "comment" => n.count > 0
        BY <2>3, StandingCounted DEF CommentTypes
    <2>8. Writes(n)
        BY <1>4, <2>6, <2>7 DEF Writes
    <2>9. PICK p \in DOMAIN d.rows : d.rows[p] = FreshRow(n)
        BY <2>8 DEF Follows
    <2>10. d.rows[p].newsId = n.id
        BY <1>4, <2>9, WrittenItems
    <2> QED
        BY <1>5, <2>10 DEF HasRow
<1>6. CASE f.id # n.id
    <2>1. f.id <= n.id - 1 \/ Item(f) \notin Items(r.news)
        BY <1>1, <1>2, <1>6
    <2>2. PICK p \in DOMAIN c.rows : c.rows[p].newsId = f.id
        BY <2>1 DEF Shown, HasRow
    <2>3. RowItem(c.rows[p]) \in Known
        BY RowItemsIn
    <2>4. RowItem(c.rows[p]).id = Item(f).id
        BY <2>2, ItemFacts
    <2>5. RowItem(c.rows[p]) = Item(f)
        BY <1>1, <1>2, <2>3, <2>4 DEF OneEach
    <2>6. /\ c.rows[p].type = f.type /\ c.rows[p].twyst = f.twyst
          /\ f.type # "comment" => c.rows[p].sender = f.sender
        <3>1. /\ c.rows[p].type = f.type /\ c.rows[p].twyst = f.twyst
              /\ Who(c.rows[p]) = Who(f)
            BY <2>5, ItemFacts
        <3> QED
            BY <3>1 DEF Who
    <2>7. f.twyst = n.twyst
             => /\ ~(f.type = "Like" /\ n.type = "unlike" /\ n.sender = f.sender)
                /\ ~(f.type = "comment" /\ n.type = "comment" /\ n.sender # Me)
        BY <1>6, NotUndone
    <2>8. p \in DOMAIN d.rows
        <3> SUFFICES ASSUME p \notin DOMAIN d.rows PROVE FALSE
            OBVIOUS
        <3>1. \/ /\ n.type = "unlike" /\ c.rows[p].type = "Like"
                 /\ c.rows[p].twyst = n.twyst /\ c.rows[p].sender = n.sender
              \/ Ends(n) /\ p \in CommentRows(c, n.twyst)
            BY DEF Follows
        <3>2. Ends(n) /\ p \in CommentRows(c, n.twyst) => FALSE
            <4> SUFFICES ASSUME Ends(n), p \in CommentRows(c, n.twyst) PROVE FALSE
                OBVIOUS
            <4>1. n.count = 0 /\ n.type \in CommentTypes
                BY DEF Ends, CommentTypes
            <4>2. f.type = "comment" /\ f.twyst = n.twyst
                BY <2>6 DEF CommentRows
            <4>3. n.count > 0
                BY <4>1, <4>2, StandingCounted
            <4> QED
                BY <4>1, <4>3
        <3> QED
            BY <2>6, <2>7, <3>1, <3>2
    <2>9. ~(Writes(n) /\ WrittenTo(c, n, p))
        <3> SUFFICES ASSUME Writes(n), WrittenTo(c, n, p) PROVE FALSE
            OBVIOUS
        <3>1. n.type = "comment" /\ p \in CommentRows(c, n.twyst)
            BY <1>1, <1>6, <2>2, Overwritten
        <3>2. f.type = "comment" /\ f.twyst = n.twyst
            BY <2>6, <3>1 DEF CommentRows
        <3>3. n.sender # Me
            BY <3>1 DEF Writes, Adds
        <3> QED
            BY <2>7, <3>1, <3>2, <3>3
    <2>10. d.rows[p].newsId = c.rows[p].newsId
        BY <1>4, <2>8, <2>9, KeptRow
    <2> QED
        BY <2>2, <2>8, <2>10 DEF HasRow
<1> QED
    BY <1>5, <1>6

\* A row of comments that is not the newest: later comments that stand undo
\* it, or will.
LEMMA CommentsUndone ==
    ASSUME NEW r, Handling(r), NEW n \in r.news, NEW rs,
           Sound(rs), RowItems(rs) \subseteq Known, Older(rs), Shown(rs, r, n.id - 1),
           n.type = "deletecomment", n.count # 0, n.twyst \notin gone,
           NEW p \in DOMAIN rs, rs[p].type = "comment", rs[p].twyst = n.twyst,
           rs[p].newsId < n.id
    PROVE  \/ RowItem(rs[p]) \in Items(feed)
           \/ \E u \in Items(r.news) : u.id > n.id /\ Kills(u, RowItem(rs[p]))
           \/ \E u \in Told : u.id > r.made /\ Kills(u, RowItem(rs[p]))
<1> DEFINE k == RowItem(rs[p])
<1>1. /\ OneEach(Known) /\ r.news \subseteq News /\ r.made \in Nat /\ applied \in Nat
      /\ n \in NewsIn /\ Item(n) \in Known /\ n.id \in Nat /\ n.id <= r.made
      /\ \A x \in Known : x.id \in Nat
    BY HandlingFacts
<1>2. /\ k.id = rs[p].newsId /\ k.type = "comment" /\ k.twyst = n.twyst
      /\ k \in Known /\ k.id \in Nat /\ k.id < n.id
    <2>1. k.id = rs[p].newsId /\ k.type = "comment" /\ k.twyst = n.twyst
        BY ItemFacts
    <2>2. k \in Known
        BY RowItemsIn
    <2> QED
        BY <1>1, <2>1, <2>2
<1> HIDE DEF k
<1>3. n \in News /\ n.count \in Nat /\ n.twyst \in Twysts
    BY <1>1, NewsFacts DEF Times
<1>4. \A u \in Told : u.id > r.made /\ u.twyst = n.twyst /\ u.type \in CommentTypes
                        => Kills(u, k)
    <2>1. \A u \in Told : u.id \in Nat
        BY ToldKnown DEF Handling
    <2> QED
        BY <1>1, <1>2, <2>1 DEF Kills
<1>5. \/ n.count = comments[n.twyst]
      \/ \E u \in Told : /\ u.id > r.made /\ u.twyst = n.twyst
                         /\ u.type \in CommentTypes
    <2>1. ~(r.made < applied)
        BY <1>1 DEF Handling
    <2> QED
        BY <2>1 DEF Handling, ReplyInv, CommentTypes
<1>6. CASE n.count = comments[n.twyst]
    <2>1. About(n.twyst, "comment") # {}
        <3>1. comments[n.twyst] > 0
            BY <1>3, <1>6
        <3>2. n.twyst \in Twysts \ gone
            BY <1>3
        <3> QED
            BY <3>1, <3>2 DEF Handling, FeedInv
    <2>2. PICK f \in feed : f.twyst = n.twyst /\ f.type = "comment"
        BY <2>1 DEF About
    <2>3. f.id \in Nat /\ Item(f) \in Known
        BY HandlingFacts
    <2>4. Item(f).id = f.id /\ Item(f).type = "comment" /\ Item(f).twyst = n.twyst
        BY <2>2, ItemFacts
    <2>5. CASE f.id > r.made
        <3>1. Item(f) \in Told
            <4>1. ~(f.id <= applied)
                BY <1>1, <2>3, <2>5 DEF Handling
            <4> QED
                BY <4>1 DEF Handling, MailInv
        <3> QED
            BY <1>4, <2>4, <2>5, <3>1 DEF CommentTypes, k
    <2>6. CASE f.id <= r.made
        <3>1. k.id <= f.id
            BY <1>2, <2>2 DEF Older
        <3>2. CASE k.id = f.id
            <4>1. k = Item(f)
                BY <1>1, <1>2, <2>3, <2>4, <3>2 DEF OneEach
            <4> QED
                BY <4>1, ItemIn DEF k
        <3>3. CASE k.id < f.id
            <4>1. f.id # n.id
                <5> SUFFICES ASSUME f.id = n.id PROVE FALSE
                    OBVIOUS
                <5>1. Item(f).id = Item(n).id
                    BY ItemFacts
                <5>2. Item(f) = Item(n)
                    BY <1>1, <2>3, <5>1 DEF OneEach
                <5>3. Item(n).type = "deletecomment"
                    BY ItemFacts
                <5> QED
                    BY <2>4, <5>2, <5>3
            <4>2. ~HasRow(rs, f.id)
                <5> SUFFICES ASSUME NEW o \in DOMAIN rs, rs[o].newsId = f.id PROVE FALSE
                    BY DEF HasRow
                <5>1. RowItem(rs[o]).id = Item(f).id /\ RowItem(rs[o]) \in Known
                    BY <2>4, ItemFacts, RowItemsIn
                <5>2. RowItem(rs[o]) = Item(f)
                    BY <1>1, <2>3, <5>1 DEF OneEach
                <5>3. rs[o].type = "comment" /\ rs[o].twyst = n.twyst
                    BY <2>4, <5>2, ItemFacts
                <5>4. o = p
                    BY <5>3 DEF Sound, OneRow
                <5> QED
                    BY <1>2, <2>3, <3>3, <5>4
            <4>3. ~(f.id <= n.id - 1) /\ Item(f) \in Items(r.news)
                BY <2>6, <4>2 DEF Shown
            <4>4. f.id > n.id
                BY <1>1, <2>3, <4>1, <4>3
            <4>5. Kills(Item(f), k)
                BY <1>2, <2>3, <2>4, <3>3 DEF Kills, CommentTypes
            <4> QED
                BY <2>4, <4>3, <4>4, <4>5 DEF k
        <3> QED
            BY <1>2, <2>3, <3>1, <3>2, <3>3
    <2> QED
        BY <1>1, <2>3, <2>5, <2>6
<1> QED
    BY <1>4, <1>5, <1>6 DEF k

\* A row that news n would undo, and that is there after them.
LEMMA StillThere ==
    ASSUME NEW r, Handling(r), NEW c \in Boards, NEW n \in r.news, NEW d,
           Follows(c, n, d), Sound(c.rows), Sound(d.rows),
           NEW p \in DOMAIN c.rows, p \in DOMAIN d.rows,
           RowItem(d.rows[p]) = RowItem(c.rows[p]), Kills(Item(n), RowItem(c.rows[p]))
    PROVE  /\ c.rows[p].type = "comment" /\ c.rows[p].twyst = n.twyst
           /\ c.rows[p].newsId < n.id
           /\ n.type = "deletecomment" /\ n.count # 0
<1> DEFINE k == RowItem(c.rows[p])
<1>1. n \in News /\ n \in NewsIn /\ n.id \in Nat /\ n.count \in Nat
    <2>1. n \in News /\ n \in NewsIn /\ n.id \in Nat
        BY HandlingFacts
    <2> QED
        BY <2>1, NewsFacts DEF Times
<1>2. /\ k.id = c.rows[p].newsId /\ k.type = c.rows[p].type /\ k.twyst = c.rows[p].twyst
      /\ k.who = Who(c.rows[p])
      /\ k.id = d.rows[p].newsId /\ k.type = d.rows[p].type /\ k.twyst = d.rows[p].twyst
      /\ k.who = Who(d.rows[p])
    BY ItemFacts
<1>3. /\ n.twyst = k.twyst /\ n.id > k.id
      /\ \/ k.type = "Like" /\ n.type = "unlike" /\ Who(n) = k.who
         \/ k.type = "comment" /\ n.type \in CommentTypes
    <2>1. Kills(Item(n), k)
        OBVIOUS
    <2> HIDE DEF k
    <2> QED
        BY <2>1, ItemFacts DEF Kills
<1> HIDE DEF k
<1>4. ~(k.type = "Like" /\ n.type = "unlike" /\ Who(n) = k.who)
    <2> SUFFICES ASSUME k.type = "Like", n.type = "unlike", Who(n) = k.who PROVE FALSE
        OBVIOUS
    <2>1. n.sender = d.rows[p].sender
        BY <1>2 DEF Who
    <2> QED
        BY <1>2, <1>3, <2>1 DEF Follows
<1>5. k.type = "comment" /\ n.type \in CommentTypes
    BY <1>3, <1>4
<1>6. p \in CommentRows(c, n.twyst)
    BY <1>2, <1>3, <1>5 DEF CommentRows
<1>7. ~Ends(n)
    <2> SUFFICES ASSUME Ends(n) PROVE FALSE
        OBVIOUS
    <2>1. PICK q \in CommentRows(c, n.twyst) : q \notin DOMAIN d.rows
        BY <1>6 DEF Follows
    <2>2. p = q
        BY <1>6 DEF CommentRows, Sound, OneRow
    <2> QED
        BY <2>1, <2>2
<1>8. n.type # "comment"
    <2> SUFFICES ASSUME n.type = "comment" PROVE FALSE
        OBVIOUS
    <2>1. n.sender # Me
        BY <1>1 DEF Handling, FeedInv
    <2>2. n.count # 0
        BY <1>7, <2>1 DEF Ends
    <2>3. Writes(n)
        BY <2>1, <2>2 DEF Writes, Adds
    <2>4. PICK q \in DOMAIN d.rows : d.rows[q] = FreshRow(n)
        BY <2>3 DEF Follows
    <2>5. d.rows[q].newsId = n.id /\ d.rows[q].type = "comment" /\ d.rows[q].twyst = n.twyst
        BY <1>1, <2>4, WrittenItems
    <2>6. p = q
        BY <1>2, <1>3, <1>5, <2>5 DEF Sound, OneRow
    <2> QED
        BY <1>1, <1>2, <1>3, <2>5, <2>6
<1>9. n.type = "deletecomment" /\ n.count # 0
    BY <1>5, <1>7, <1>8 DEF CommentTypes, Ends
<1>10. k.id < n.id
    <2>1. c.rows[p].newsId \in Nat
        BY TableFacts DEF Boards, Ids
    <2> QED
        BY <1>1, <1>2, <1>3, <2>1
<1> QED
    BY <1>2, <1>3, <1>5, <1>9, <1>10

\* One item of news leaves no row that nothing will undo.
LEMMA RightStep ==
    ASSUME NEW r, Handling(r), NEW c \in Boards, NEW n \in r.news, NEW d,
           Follows(c, n, d), Halfway(c.rows, r, n.id - 1), Sound(d.rows)
    PROVE  Right(d.rows, r, n.id)
<1>1. /\ OneEach(Known) /\ r.news \subseteq News /\ r.made \in Nat /\ applied \in Nat
      /\ n \in NewsIn /\ Item(n) \in Known /\ n.id \in Nat /\ n.id <= r.made
      /\ \A x \in Known : x.id \in Nat
      /\ \A m \in r.news : Item(m) \in Known /\ m.id \in Nat
    BY HandlingFacts
<1>2. n \in News
    BY <1>1
<1>3. /\ Sound(c.rows) /\ RowItems(c.rows) \subseteq Known /\ Older(c.rows)
      /\ Shown(c.rows, r, n.id - 1) /\ Right(c.rows, r, n.id - 1)
    BY DEF Halfway
<1> SUFFICES ASSUME NEW p \in DOMAIN d.rows, d.rows[p].twyst \notin gone
             PROVE  \/ RowItem(d.rows[p]) \in Items(feed)
                    \/ \E u \in Items(r.news) : u.id > n.id /\ Kills(u, RowItem(d.rows[p]))
                    \/ \E u \in Told : u.id > r.made /\ Kills(u, RowItem(d.rows[p]))
    BY DEF Right
<1>4. CASE p \in DOMAIN c.rows /\ RowItem(d.rows[p]) = RowItem(c.rows[p])
    <2> DEFINE k == RowItem(c.rows[p])
    <2>1. c.rows[p].twyst = d.rows[p].twyst
        BY <1>4, ItemFacts
    <2>2. \/ k \in Items(feed)
          \/ \E u \in Items(r.news) : u.id > n.id - 1 /\ Kills(u, k)
          \/ \E u \in Told : u.id > r.made /\ Kills(u, k)
        BY <1>3, <1>4, <2>1 DEF Right
    <2>3. CASE \E u \in Items(r.news) : u.id > n.id - 1 /\ Kills(u, k)
        <3>1. PICK u \in Items(r.news) : u.id > n.id - 1 /\ Kills(u, k)
            BY <2>3
        <3>2. u \in Known /\ u.id \in Nat
            BY <1>1, <3>1, ItemIn
        <3>3. CASE u.id > n.id
            BY <1>4, <3>1, <3>3
        <3>4. CASE u.id = n.id
            <4>1. u = Item(n)
                BY <1>1, <3>2, <3>4, ItemFacts DEF OneEach
            <4>2. /\ c.rows[p].type = "comment" /\ c.rows[p].twyst = n.twyst
                  /\ c.rows[p].newsId < n.id
                  /\ n.type = "deletecomment" /\ n.count # 0
                BY <1>3, <1>4, <3>1, <4>1, StillThere
            <4>3. \/ k \in Items(feed)
                  \/ \E v \in Items(r.news) : v.id > n.id /\ Kills(v, k)
                  \/ \E v \in Told : v.id > r.made /\ Kills(v, k)
                BY <1>3, <1>4, <2>1, <4>2, CommentsUndone
            <4> QED
                BY <1>4, <4>3
        <3> QED
            BY <1>1, <3>1, <3>2, <3>3, <3>4
    <2> QED
        BY <1>4, <2>2, <2>3
<1>5. CASE Writes(n) /\ d.rows[p] = FreshRow(n)
    <2>1. RowItem(d.rows[p]) = Item(n) /\ d.rows[p].twyst = n.twyst
        BY <1>2, <1>5, WrittenItems
    <2>2. ~(r.made < applied) /\ Adds(n)
        BY <1>1, <1>5 DEF Handling, Writes
    <2>3. \/ Item(n) \in Items(feed)
          \/ \E u \in Items(r.news) : Kills(u, Item(n))
          \/ \E u \in Told : u.id > r.made /\ Kills(u, Item(n))
        BY <2>1, <2>2 DEF Handling, ReplyInv
    <2>4. \A u : Kills(u, Item(n)) => u.id > n.id
        BY ItemFacts DEF Kills
    <2> QED
        BY <2>1, <2>3, <2>4
<1> QED
    BY <1>2, <1>4, <1>5, KeptRow

\* One item of news, in its turn.
LEMMA HalfwayStep ==
    ASSUME NEW r, Handling(r), NEW c \in Boards, NEW n \in r.news, NEW d,
           Follows(c, n, d), Halfway(c.rows, r, n.id - 1)
    PROVE  Halfway(d.rows, r, n.id)
<1>1. /\ OneEach(Known) /\ n \in News /\ n \in NewsIn /\ Item(n) \in Known
      /\ n.id \in Nat
    BY HandlingFacts
<1>2. /\ Sound(c.rows) /\ RowItems(c.rows) \subseteq Known /\ Older(c.rows)
      /\ Shown(c.rows, r, n.id - 1)
    BY DEF Halfway
<1>3. Sound(d.rows) /\ RowItems(d.rows) \subseteq Known
    BY <1>1, <1>2, HandleSound
<1>4. Older(d.rows)
    <2> SUFFICES ASSUME NEW f \in feed, NEW p \in DOMAIN d.rows, f.type = "comment",
                        d.rows[p].type = "comment", d.rows[p].twyst = f.twyst
                 PROVE  d.rows[p].newsId <= f.id
        BY DEF Older
    <2>1. CASE /\ p \in DOMAIN c.rows /\ d.rows[p].newsId = c.rows[p].newsId
               /\ d.rows[p].type = c.rows[p].type /\ d.rows[p].twyst = c.rows[p].twyst
        BY <1>2, <2>1 DEF Older
    <2>2. CASE Writes(n) /\ d.rows[p] = FreshRow(n)
        <3>1. d.rows[p].newsId = n.id /\ n.type = "comment" /\ n.twyst = f.twyst
            BY <1>1, <2>2, WrittenItems
        <3>2. n.sender # Me
            BY <2>2, <3>1 DEF Writes, Adds
        <3>3. ~(n.id > f.id)
            BY <1>1, <3>1, <3>2 DEF Handling, FeedInv
        <3>4. f.id \in Nat
            BY HandlingFacts
        <3> QED
            BY <1>1, <3>1, <3>3, <3>4
    <2> QED
        BY <1>1, <2>1, <2>2, KeptRow
<1>5. Shown(d.rows, r, n.id)
    BY <1>2, ShownStep
<1>6. Right(d.rows, r, n.id)
    BY <1>3, RightStep
<1> QED
    BY <1>3, <1>4, <1>5, <1>6 DEF Halfway

\* A number that no news has.
LEMMA HalfwaySkips ==
    ASSUME NEW r, Handling(r), NEW rs, NEW i \in 1 .. MaxEvents,
           Halfway(rs, r, i - 1), ~ \E n \in r.news : n.id = i
    PROVE  Halfway(rs, r, i)
<1>1. /\ \A f \in feed : f.id \in Nat
      /\ \A n \in r.news : n.id \in Nat
    BY HandlingFacts
<1>2. Shown(rs, r, i)
    <2> SUFFICES ASSUME NEW f \in feed, f.id <= r.made,
                        f.id <= i \/ Item(f) \notin Items(r.news)
                 PROVE  HasRow(rs, f.id)
        BY DEF Shown
    <2>1. f.id = i => Item(f) \notin Items(r.news)
        BY ItemIn, ItemFacts
    <2>2. f.id <= i - 1 \/ Item(f) \notin Items(r.news)
        BY <1>1, <2>1
    <2> QED
        BY <2>2 DEF Halfway, Shown
<1>3. \A u \in Items(r.news) : u.id > i - 1 => u.id > i
    <2> SUFFICES ASSUME NEW u \in Items(r.news), u.id > i - 1
                 PROVE  u.id > i
        OBVIOUS
    <2>1. PICK n \in r.news : u = Item(n)
        BY ItemIn
    <2>2. u.id = n.id /\ u.id # i
        BY <2>1, ItemFacts
    <2> QED
        BY <1>1, <2>2
<1>4. Right(rs, r, i)
    BY <1>3 DEF Halfway, Right
<1> QED
    BY <1>2, <1>4 DEF Halfway

\* The rows when all the news are handled.
LEMMA HandledRows ==
    ASSUME NEW r, Handling(r), Halfway(rows, r, 0)
    PROVE  Halfway(Handled([rows |-> rows, fresh |-> {}], r.news).rows, r, MaxEvents)
<1> DEFINE b == [rows |-> rows, fresh |-> {}]
           S == {p \in (0 .. MaxEvents) \X Boards : Halfway(p[2].rows, r, p[1])}
<1>0. rows \in Tables /\ r.news \in SUBSET News
    BY HandlingFacts DEF Typed
<1>1. <<0, b>> \in S /\ b \in Boards
    BY <1>0 DEF Boards
<1>2. ASSUME NEW i \in 1 .. MaxEvents, NEW c \in Boards, <<i - 1, c>> \in S
      PROVE  /\ ~(\E n \in r.news : n.id = i) => <<i, c>> \in S
             /\ \A n \in r.news : \A d : n.id = i /\ Follows(c, n, d) => <<i, d>> \in S
    <2>1. Halfway(c.rows, r, i - 1) /\ i \in 0 .. MaxEvents
        BY <1>2
    <2>2. ~(\E n \in r.news : n.id = i) => <<i, c>> \in S
        BY <2>1, HalfwaySkips
    <2>3. ASSUME NEW n \in r.news, NEW d, n.id = i, Follows(c, n, d)
          PROVE  <<i, d>> \in S
        <3>1. Halfway(d.rows, r, i)
            BY <2>1, <2>3, HalfwayStep
        <3>2. d \in Boards
            BY <2>3 DEF Follows
        <3> QED
            BY <2>1, <3>1, <3>2
    <2> QED
        BY <2>2, <2>3
<1> HIDE DEF S, b
<1>3. <<MaxEvents, Handled(b, r.news)>> \in S
    BY <1>0, <1>1, <1>2, HandledKeeps
<1>4. Halfway(Handled(b, r.news).rows, r, MaxEvents)
    BY <1>3 DEF S
<1> QED
    BY <1>4 DEF b

\* The rows are what stands, before the first item of news is handled, ...
LEMMA HalfwayStarts ==
    ASSUME NEW r, Handling(r), RowInv,
           \A k \in Told : k.id <= r.made => k \in Items(r.news)
    PROVE  Halfway(rows, r, 0)
<1>1. /\ Typed /\ ItemsInv /\ r.made \in Nat /\ applied \in Nat
      /\ \A f \in feed : Item(f) \in Known /\ f.id \in Ids /\ f.id \in Nat
    BY HandlingFacts, FeedTyped
<1>2. Sound(rows) /\ RowItems(rows) \subseteq Known
    BY <1>1, ItemsParts
<1>3. Older(rows)
    BY DEF Handling, FeedInv, Older
<1>4. Shown(rows, r, 0)
    <2> SUFFICES ASSUME NEW f \in feed, f.id <= r.made,
                        f.id <= 0 \/ Item(f) \notin Items(r.news)
                 PROVE  HasRow(rows, f.id)
        BY DEF Shown
    <2>1. Item(f) \notin Items(r.news)
        BY <1>1 DEF Ids
    <2>2. Item(f) \notin Told
        BY <2>1, ItemFacts
    <2>3. f.id <= applied
        BY <2>2 DEF Handling, MailInv
    <2> QED
        BY <1>1, <2>3 DEF RowInv, HasRow
<1>5. Right(rows, r, 0)
    <2> SUFFICES ASSUME NEW o \in DOMAIN rows
                 PROVE  \/ RowItem(rows[o]) \in Items(feed) \/ rows[o].twyst \in gone
                        \/ \E u \in Items(r.news) : u.id > 0 /\ Kills(u, RowItem(rows[o]))
                        \/ \E u \in Told : u.id > r.made /\ Kills(u, RowItem(rows[o]))
        BY DEF Right
    <2>1. \/ RowItem(rows[o]) \in Items(feed) \/ rows[o].twyst \in gone
          \/ \E u \in Told : u.id > applied /\ Kills(u, RowItem(rows[o]))
        BY DEF RowInv
    <2>2. \A u \in Told : u.id \in Nat
        BY ToldKnown DEF Handling
    <2>3. \A u \in Told : u.id > applied => u.id > 0
        BY <1>1, <2>2
    <2>4. \A u \in Told : u.id > r.made \/ u \in Items(r.news)
        BY <1>1, <2>2
    <2> QED
        BY <2>1, <2>3, <2>4
<1> QED
    BY <1>2, <1>3, <1>4, <1>5 DEF Halfway

\* ... and after the last.
LEMMA HalfwayEnds ==
    ASSUME NEW r, Handling(r), NEW rs, Halfway(rs, r, MaxEvents)
    PROVE  /\ \A f \in feed : f.id > r.made \/ HasRow(rs, f.id)
           /\ \A o \in DOMAIN rs :
                 \/ RowItem(rs[o]) \in Items(feed) \/ rs[o].twyst \in gone
                 \/ \E u \in Told : u.id > r.made /\ Kills(u, RowItem(rs[o]))
<1>1. /\ Typed /\ r.made \in Nat /\ r.news \subseteq News
      /\ \A f \in feed : f.id \in Nat /\ f.id \in Ids
    BY HandlingFacts, FeedTyped
<1>2. \A f \in feed : f.id <= MaxEvents
    BY <1>1 DEF Ids
<1>3. \A u \in Items(r.news) : ~(u.id > MaxEvents)
    <2> SUFFICES ASSUME NEW n \in r.news
                 PROVE  ~(Item(n).id > MaxEvents)
        BY ItemIn
    <2>1. n.id \in Ids
        BY <1>1, NewsFacts
    <2> QED
        BY <2>1, ItemFacts DEF Ids
<1> QED
    BY <1>1, <1>2, <1>3 DEF Halfway, Shown, Right

\* A step that handles nothing: the rows that stand stay.
LEMMA RowKept ==
    ASSUME BasicInv, FeedInv', MailInv, RowInv, Onward,
           \A k \in Told : k.id > applied => k.id > applied',
           \A o \in DOMAIN rows' :
              /\ o \in DOMAIN rows /\ rows'[o].newsId = rows[o].newsId
              /\ rows'[o].twyst = rows[o].twyst /\ RowItem(rows'[o]) = RowItem(rows[o]),
           \A o \in DOMAIN rows : \/ rows[o].twyst \in gone'
                                  \/ o \in DOMAIN rows' /\ rows'[o].newsId = rows[o].newsId,
           clock' \in Nat, applied' \in Nat, \A f \in feed' : f.id \in Nat,
           \A u \in Told' : u.id \in Nat
    PROVE  RowInv'
<1>0. /\ Typed /\ ItemsInv /\ RowItems(rows) \subseteq Known /\ OneEach(Known)
      /\ clock \in Nat /\ applied \in Nat
      /\ \A f \in feed : Item(f) \in Known
    <2>1. Typed /\ ItemsInv
        BY DEF BasicInv
    <2> QED
        BY <2>1, ItemsParts DEF ItemsInv
<1>1. applied' <= clock
    BY DEF Onward
<1>2. ASSUME NEW f \in feed'
      PROVE  f.id > applied' \/ \E o \in DOMAIN rows' : rows'[o].newsId = f.id
    <2>1. f \in feed \/ f.id > clock
        BY DEF Onward
    <2>2. CASE f.id > clock
        BY <1>0, <1>1, <2>2
    <2>3. CASE f \in feed /\ ~(f.id <= applied)
        <3>1. Item(f) \in Told /\ f.id > applied
            BY <1>0, <2>3 DEF MailInv
        <3>2. Item(f).id > applied => Item(f).id > applied'
            BY <3>1
        <3> QED
            BY <3>1, <3>2, ItemFacts
    <2>4. CASE f \in feed /\ f.id <= applied
        <3>1. PICK o \in DOMAIN rows : rows[o].newsId = f.id
            BY <1>0, <2>4 DEF RowInv
        <3>2. RowItem(rows[o]) \in Known /\ RowItem(rows[o]).id = Item(f).id
            BY <1>0, <3>1, RowItemsIn, ItemFacts
        <3>3. RowItem(rows[o]) = Item(f)
            BY <1>0, <2>4, <3>2 DEF OneEach
        <3>4. rows[o].twyst = f.twyst /\ f.twyst \notin gone'
            BY <3>3, ItemFacts DEF FeedInv
        <3> QED
            BY <3>1, <3>4
    <2> QED
        BY <2>1, <2>2, <2>3, <2>4
<1>3. ASSUME NEW o \in DOMAIN rows', rows'[o].twyst \notin gone'
      PROVE  \/ RowItem(rows'[o]) \in Items(feed')
             \/ \E u \in Told' : u.id > applied' /\ Kills(u, RowItem(rows'[o]))
    <2> DEFINE k == RowItem(rows[o])
    <2>1. o \in DOMAIN rows /\ RowItem(rows'[o]) = k /\ rows'[o].twyst = rows[o].twyst
        OBVIOUS
    <2>2. k.twyst \notin gone' /\ k.twyst = rows[o].twyst
        BY <1>3, <2>1, ItemFacts
    <2>3. rows[o].twyst \notin gone
        BY <2>2 DEF Onward
    <2>4. \/ k \in Items(feed)
          \/ \E u \in Told : u.id > applied /\ Kills(u, k)
        BY <2>1, <2>3 DEF RowInv
    <2> HIDE DEF k
    <2>5. CASE k \in Items(feed)
        <3>1. PICK f \in feed : k = Item(f)
            BY <2>5, ItemIn
        <3>2. f.twyst \notin gone'
            BY <2>2, <3>1, ItemFacts
        <3>3. f \in feed' \/ \E u \in Told' : u.id > clock /\ Kills(u, k)
            BY <3>1, <3>2 DEF Onward
        <3>4. \A u \in Told' : u.id > clock => u.id > applied'
            BY <1>0, <1>1
        <3>5. f \in feed' => k \in Items(feed')
            BY <3>1, ItemIn
        <3> QED
            BY <2>1, <3>3, <3>4, <3>5
    <2>6. CASE \E u \in Told : u.id > applied /\ Kills(u, k)
        <3>1. PICK u \in Told : u.id > applied /\ Kills(u, k)
            BY <2>6
        <3>2. u.twyst \notin gone' /\ u.id > applied'
            BY <2>2, <3>1 DEF Kills
        <3>3. u.id \in Nat
            BY ToldKnown
        <3>4. u \in Told'
            BY <3>2, <3>3 DEF Onward
        <3> QED
            BY <2>1, <3>1, <3>2, <3>4
    <2> QED
        BY <2>4, <2>5, <2>6
<1> QED
    BY <1>2, <1>3 DEF RowInv

\* The news of a reply are handled.
LEMMA RowNews ==
    ASSUME BasicInv, FeedInv, TellInv, MailInv, RowInv,
           \A r \in UnderWay : ReplyInv(r),
           twystNewsDidReceive, Clean', ~Behind'
    PROVE  RowInv'
<1> DEFINE r == Head(mainQueue).reply
           rs == Handled([rows |-> rows, fresh |-> {}], r.news).rows
<1>0. Typed /\ ItemsInv /\ Paired(mainQueue)
    BY DEF BasicInv, ItemsInv
<1>1. Take("news", {}) /\ rows' = rs
    BY DEF twystNewsDidReceive
<1>2. /\ r \in UnderWay /\ r.made \in Nat /\ applied \in Nat
      /\ applied' = IF applied >= r.made THEN applied ELSE r.made
      /\ mishaps' = {} => r.made >= applied
      /\ UNCHANGED <<feed, gone>>
    BY <1>0, <1>1, WayTake, TakeApplied, LeftoverTyped
<1>3. Onward
    BY <1>1, <1>2, OnwardTake
<1>4. applied' = r.made /\ applied <= r.made
    BY <1>2 DEF Clean
<1>5. Handling(r)
    BY <1>2, <1>3, <1>4 DEF Handling, Onward
<1>6. \A k \in Told : k.id <= r.made => k \in Items(r.news)
    BY <1>1, ToldReply
<1> HIDE DEF r
<1>7. Halfway(rs, r, MaxEvents)
    BY <1>5, <1>6, HalfwayStarts, HandledRows
<1> HIDE DEF rs
<1>8. /\ \A f \in feed : f.id > r.made \/ HasRow(rs, f.id)
      /\ \A o \in DOMAIN rs :
            \/ RowItem(rs[o]) \in Items(feed) \/ rs[o].twyst \in gone
            \/ \E u \in Told : u.id > r.made /\ Kills(u, RowItem(rs[o]))
    BY <1>5, <1>7, HalfwayEnds
<1>9. \A o \in DOMAIN rs, u \in Told :
         u.id > r.made /\ Kills(u, RowItem(rs[o])) => rs[o].twyst \in gone \/ u \in Told'
    <2> SUFFICES ASSUME NEW o \in DOMAIN rs, NEW u \in Told, u.id > r.made,
                        Kills(u, RowItem(rs[o]))
                 PROVE  rs[o].twyst \in gone \/ u \in Told'
        OBVIOUS
    <2>1. u.id \in Nat /\ u.twyst = rs[o].twyst
        BY ToldKnown, ItemFacts DEF Kills
    <2>2. ~(u.id <= applied')
        BY <1>2, <1>4, <2>1
    <2> QED
        BY <1>2, <1>3, <2>1, <2>2 DEF Onward
<1>10. \A f \in feed' : f.id > applied' \/ \E o \in DOMAIN rows' : rows'[o].newsId = f.id
    BY <1>1, <1>2, <1>4, <1>8 DEF HasRow
<1>11. ASSUME NEW o \in DOMAIN rows'
       PROVE  \/ RowItem(rows'[o]) \in Items(feed') \/ rows'[o].twyst \in gone'
              \/ \E u \in Told' : u.id > applied' /\ Kills(u, RowItem(rows'[o]))
    BY <1>1, <1>2, <1>4, <1>8, <1>9
<1> QED
    BY <1>10, <1>11 DEF RowInv

\* The rows are what stands, as far as it was told.
LEMMA RowStep ==
    ASSUME BasicInv, BasicInv', GoneInv, FeedInv, FeedInv', TellInv, MailInv, RowInv,
           \A r \in UnderWay : ReplyInv(r), [Next]_vars, Clean', ~Behind'
    PROVE  RowInv'
<1>0. /\ Typed /\ Typed' /\ ItemsInv /\ Paired(mainQueue) /\ rows \in Tables
      /\ applied \in Nat
    <2>1. Typed /\ Typed' /\ ItemsInv
        BY DEF BasicInv
    <2>2. rows \in Tables /\ applied \in Nat
        BY <2>1 DEF Typed, Times
    <2>3. Paired(mainQueue)
        BY <2>1 DEF ItemsInv
    <2> QED
        BY <2>1, <2>2, <2>3
<1>1. Onward
    BY OnwardStep
<1>2. /\ clock' \in Nat /\ applied' \in Nat /\ (\A f \in feed' : f.id \in Nat)
      /\ \A u \in Told' : u.id \in Nat
    <2>1. clock' \in Nat /\ applied' \in Nat
        BY <1>0 DEF Typed, Times
    <2> QED
        BY <2>1, ToldNumbers, FeedNumbers
<1>3. ASSUME applied' = applied, Marked(rows', rows)
      PROVE  RowInv'
    <2>1. /\ DOMAIN rows' = DOMAIN rows
          /\ \A o \in DOMAIN rows :
                /\ rows'[o].newsId = rows[o].newsId /\ rows'[o].type = rows[o].type
                /\ rows'[o].twyst = rows[o].twyst /\ rows'[o].sender = rows[o].sender
        BY <1>3 DEF Marked
    <2>2. \A o \in DOMAIN rows : RowItem(rows'[o]) = RowItem(rows[o])
        BY <2>1 DEF RowItem, Who
    <2> QED
        BY <1>1, <1>2, <1>3, <2>1, <2>2, RowKept
<1>4. ASSUME NEW ts, deleteNewsWithTwystId(ts), ts \subseteq gone,
             \A k \in Told : k.id > applied => k.id > applied'
      PROVE  RowInv'
    <2>1. /\ Fewer(rows', rows)
          /\ \A o \in DOMAIN rows : rows[o].twyst \notin ts => o \in DOMAIN rows'
        BY <1>4, DeleteFewer
    <2>2. \A o \in DOMAIN rows' : o \in DOMAIN rows /\ rows'[o] = rows[o]
        BY <2>1 DEF Fewer
    <2>3. gone \subseteq gone'
        BY <1>1 DEF Onward
    <2>4. \A o \in DOMAIN rows : \/ rows[o].twyst \in gone'
                                 \/ o \in DOMAIN rows' /\ rows'[o].newsId = rows[o].newsId
        BY <1>4, <2>1, <2>2, <2>3
    <2> QED
        BY <1>1, <1>2, <1>4, <2>2, <2>4, RowKept
<1>5. CASE rows' = rows /\ applied' = applied
    BY <1>0, <1>3, <1>5, SameMarked
<1>6. CASE Quiet
    BY <1>3, <1>6 DEF Quiet
<1>7. CASE twystNewsDidReceive
    BY <1>7, RowNews
<1>8. CASE notificationDidReceive
    <2> DEFINE r == Head(mainQueue).reply
    <2>1. Take("notes", Leftover(r.notes)) /\ deleteNewsWithTwystId(r.notes)
        BY <1>8 DEF notificationDidReceive
    <2>2. r \in UnderWay
        BY <1>0, <2>1, WayTake, LeftoverTyped
    <2>3. /\ applied' = IF r.news # {} THEN applied
                        ELSE IF applied >= r.made THEN applied ELSE r.made
          /\ r.made \in Nat
        BY <1>0, <2>1, TakeApplied, LeftoverTyped
    <2>4. r.notes \subseteq gone
        BY <2>2 DEF GoneInv
    <2>5. ASSUME NEW k \in Told, k.id > applied
          PROVE  k.id > applied'
        <3>1. k.id \in Nat
            BY ToldKnown
        <3>2. CASE r.news = {} /\ k.id <= r.made
            <4>1. k \in Items(r.news)
                BY <2>1, <3>2, ToldReply, LeftoverTyped
            <4> QED
                BY <3>2, <4>1 DEF Items
        <3> QED
            BY <1>0, <2>3, <2>5, <3>1, <3>2
    <2> QED
        BY <1>4, <2>1, <2>4, <2>5
<1>9. ASSUME NEW t \in Twysts, NEW made \in Times, DeletionAnswered(t, made)
      PROVE  RowInv'
    <2>1. /\ deleteNewsWithTwystId({t}) /\ applied' = applied /\ <<t, made>> \in leaving
        BY <1>9 DEF DeletionAnswered
    <2>2. {t} \subseteq gone
        BY <2>1 DEF GoneInv
    <2> QED
        BY <1>4, <2>1, <2>2
<1>10. \/ rows' = rows /\ applied' = applied
       \/ Quiet \/ twystNewsDidReceive \/ notificationDidReceive
       \/ \E t \in Twysts, made \in Times : DeletionAnswered(t, made)
    <2>1. (\E t \in Twysts, type \in Types, s \in Senders : ServerNews(type, t, s))
             => rows' = rows /\ applied' = applied
        BY DEF ServerNews, ServerStep, boardVars
    <2>2. (\E t \in Twysts : FriendDeletes(t) \/ UserDeletes(t))
             => rows' = rows /\ applied' = applied
        BY DEF FriendDeletes, UserDeletes, Deleted, ServerStep, boardVars
    <2>3. Answer => rows' = rows /\ applied' = applied
        BY DEF Answer, CheckStep, boardVars
    <2>4. (\E i \in DOMAIN replies : ReplyLost(i) \/ ReplyArrives(i))
             => rows' = rows /\ applied' = applied
        BY DEF ReplyLost, ReplyArrives, CheckStep, boardVars
    <2>5. (\E t \in Twysts, made \in Times : DeletionFails(t, made))
             => rows' = rows /\ applied' = applied
        BY DEF DeletionFails, boardVars
    <2>6. Restart => rows' = rows /\ applied' = applied
        BY DEF Restart
    <2> QED
        BY <1>0, <2>1, <2>2, <2>3, <2>4, <2>5, <2>6, Steps
<1> QED
    BY <1>5, <1>6, <1>7, <1>8, <1>9, <1>10

\* The parts of AgreeInv, all together.
LEMMA AgreeStep ==
    ASSUME BasicInv, BasicInv', ReviveInv, AgreeInv, [Next]_vars
    PROVE  AgreeInv'
<1>1. FeedInv /\ TellInv /\ NotesInv /\ GoneInv
    BY DEF AgreeInv, ReviveInv
<1>2. FeedInv' /\ TellInv' /\ NotesInv'
    BY <1>1, FeedStep, TellStep, NotesStep
<1>3. ASSUME Clean'
      PROVE  MailInv' /\ (\A r \in UnderWay' : ReplyInv(r)') /\ (~Behind' => RowInv')
    <2>1. Clean
        BY <1>3, OnwardStep DEF Onward
    <2>2. MailInv /\ \A r \in UnderWay : ReplyInv(r)
        BY <2>1 DEF AgreeInv
    <2>3. MailInv'
        BY <1>2, <1>3, <2>2, MailStep
    <2>4. \A r \in UnderWay' : ReplyInv(r)'
        BY <1>1, <1>3, <2>2, ReplyStep
    <2>5. ASSUME ~Behind'
          PROVE  RowInv'
        <3>1. RowInv
            BY <1>3, <2>1, <2>5, BehindStep DEF AgreeInv
        <3> QED
            BY <1>1, <1>2, <1>3, <2>2, <2>5, <3>1, RowStep
    <2> QED
        BY <2>3, <2>4, <2>5
<1> QED
    BY <1>2, <1>3 DEF AgreeInv

\* At first nothing happened and nothing is told.
LEMMA InitAgree ==
    ASSUME Init
    PROVE  AgreeInv
<1>1. /\ feed = {} /\ gone = {} /\ mailbox.notes = {} /\ mailbox.news = {}
      /\ mainQueue = <<>> /\ rows = <<>> /\ DOMAIN <<>> = {}
      /\ \A t \in Twysts : comments[t] = 0
    BY DEF Init
<1>2. UnderWay = {} /\ NotesUnderWay = {} /\ NewsIn = {}
    BY InitBasic
<1>3. FeedInv
    BY <1>1, <1>2 DEF FeedInv, About
<1>4. TellInv
    BY <1>1, <1>2 DEF TellInv
<1>5. NotesInv
    BY <1>1, <1>2 DEF NotesInv, HalfDone
<1>6. MailInv /\ RowInv
    BY <1>1, <1>2 DEF MailInv, RowInv
<1> QED
    BY <1>2, <1>3, <1>4, <1>5, <1>6 DEF AgreeInv

\* Up to date, the rows are what stands.
LEMMA AgreeEnds ==
    ASSUME BasicInv, ReviveInv, AgreeInv, UpToDate, Clean
    PROVE  {<<r.newsId, r.type, r.twyst>> : r \in Range(rows)}
              = {<<f.id, f.type, f.twyst>> : f \in feed}
<1>0. Typed /\ ItemsInv
    BY DEF BasicInv
<1>1. /\ RowItems(rows) \subseteq Known /\ (\A f \in feed : Item(f) \in Known /\ f.id <= clock)
      /\ OneEach(Known) /\ clock \in Nat
    BY <1>0, ItemsParts DEF ItemsInv
<1>2. applied = clock /\ replies = <<>> /\ mainQueue = <<>> /\ leaving = {}
    BY DEF UpToDate
<1>3. UnderWay = {} /\ NotesUnderWay = {}
    <2>1. UnderWay = {}
        BY <1>2 DEF UnderWay, ToSet
    <2> QED
        BY <1>0, <2>1, NotesWay
<1>4. RowInv
    BY <1>3 DEF AgreeInv, Behind
<1>5. ASSUME NEW f \in feed
      PROVE  \E o \in DOMAIN rows : /\ rows[o].newsId = f.id /\ rows[o].type = f.type
                                    /\ rows[o].twyst = f.twyst
    <2>1. ~(f.id > applied)
        <3>1. f.id <= clock
            BY <1>1
        <3>2. f.id \in Nat
            BY <1>0 DEF Typed, Standing
        <3> QED
            BY <1>1, <1>2, <3>1, <3>2
    <2>2. PICK o \in DOMAIN rows : rows[o].newsId = f.id
        BY <1>4, <2>1 DEF RowInv
    <2>3. RowItem(rows[o]) \in Known /\ RowItem(rows[o]).id = Item(f).id
        BY <1>1, <2>2, RowItemsIn, ItemFacts
    <2>4. RowItem(rows[o]) = Item(f)
        BY <1>1, <2>3 DEF OneEach
    <2> QED
        BY <2>2, <2>4, ItemFacts
<1>6. ASSUME NEW o \in DOMAIN rows
      PROVE  \E f \in feed : /\ rows[o].newsId = f.id /\ rows[o].type = f.type
                             /\ rows[o].twyst = f.twyst
    <2>1. rows[o].twyst \notin gone
        <3>1. rows[o].twyst \notin dropped
            BY DEF ReviveInv, NoneBack
        <3>2. \A t \in gone : t \in dropped \/ t \in mailbox.notes
            BY <1>2, <1>3 DEF AgreeInv, NotesInv
        <3>3. \A t \in mailbox.notes : t \in dropped
            BY <1>1, <1>2 DEF AgreeInv, NotesInv
        <3> QED
            BY <3>1, <3>2, <3>3
    <2>2. ~\E u \in Told : u.id > applied /\ Kills(u, RowItem(rows[o]))
        <3>1. \A u \in Told : u.id \in Nat /\ u.id <= clock
            BY ToldKnown
        <3> QED
            BY <1>1, <1>2, <3>1
    <2>3. RowItem(rows[o]) \in Items(feed)
        BY <1>4, <2>1, <2>2 DEF RowInv
    <2>4. PICK f \in feed : RowItem(rows[o]) = Item(f)
        BY <2>3, ItemIn
    <2> QED
        BY <2>4, ItemFacts
<1>7. Range(rows) = {rows[o] : o \in DOMAIN rows}
    BY DEF Range
<1> QED
    BY <1>5, <1>6, <1>7

\* With no mishap and every reply handled, the rows of TTwystNewsManager tell
\* of exactly the news that stand at the server, each of them once: whatever
\* checks crossed, whichever replies the server repeats, wherever deletions
\* and kills of the app fall between.
THEOREM BoardIsRight == Spec => []BoardAgrees
<1>1. Init => BasicInv /\ ReviveInv /\ AgreeInv
    <2> SUFFICES ASSUME Init PROVE BasicInv /\ ReviveInv /\ AgreeInv
        OBVIOUS
    <2>1. /\ mailbox.notes = {} /\ mailbox.news = {} /\ dropped = {} /\ revived = {}
          /\ leaving = {} /\ rows = <<>> /\ DOMAIN <<>> = {}
        BY DEF Init
    <2>2. BasicInv /\ UnderWay = {}
        BY InitBasic
    <2>3. ReviveInv
        BY <2>1, <2>2 DEF ReviveInv, GoneInv, NewsOfGone, NoneBack
    <2> QED
        BY <2>2, <2>3, InitAgree
<1>2. BasicInv /\ ReviveInv /\ AgreeInv /\ [Next]_vars
         => BasicInv' /\ ReviveInv' /\ AgreeInv'
    BY BasicStep, ReviveStep, AgreeStep
<1>3. BasicInv /\ ReviveInv /\ AgreeInv => BoardAgrees
    <2>1. BasicInv => OneRowEach
        BY DEF BasicInv, ItemsInv, Sound, OneRow, OneRowEach
    <2> QED
        BY <2>1, AgreeEnds DEF BoardAgrees, Clean
<1> QED
    BY <1>1, <1>2, <1>3, PTL DEF Spec
=============================================================================
