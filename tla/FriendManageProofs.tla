-------------------------- MODULE FriendManageProofs --------------------------
(***************************************************************************)
(* Theorems about FriendManage, for any accounts, friends and bounds, and  *)
(* whatever the server has when the app is first used.                     *)
(***************************************************************************)
EXTENDS FriendManage, SequenceTheorems, TLAPS

USE NoUserAssumption, BeforeAssumption, BoundsAssumption

-----------------------------------------------------------------------------
(* Sequences of tasks                                                      *)

\* What is left when one element of a sequence is removed.
LEMMA RemoveAtValue ==
    ASSUME NEW S, NEW s \in Seq(S), NEW i \in DOMAIN s
    PROVE  /\ RemoveAt(s, i) \in Seq(S) /\ Len(RemoveAt(s, i)) = Len(s) - 1
           /\ \A j \in 1 .. Len(s) - 1 :
                  RemoveAt(s, i)[j] = IF j < i THEN s[j] ELSE s[j + 1]
<1> DEFINE left == SubSeq(s, 1, i - 1)
           right == SubSeq(s, i + 1, Len(s))
<1>1. i \in 1 .. Len(s) /\ Len(s) \in Nat
    OBVIOUS
<1>2. /\ left \in Seq(S) /\ Len(left) = i - 1
      /\ \A j \in 1 .. i - 1 : left[j] = s[j]
    BY <1>1
<1>3. /\ right \in Seq(S) /\ Len(right) = Len(s) - i
      /\ \A j \in 1 .. Len(s) - i : right[j] = s[j + i]
    BY <1>1
<1>4. RemoveAt(s, i) = left \o right
    BY DEF RemoveAt
<1> HIDE DEF left, right
<1>5. /\ left \o right \in Seq(S) /\ Len(left \o right) = Len(s) - 1
      /\ \A j \in 1 .. Len(s) - 1 :
            (left \o right)[j] = IF j < i THEN left[j] ELSE right[j - (i - 1)]
    BY <1>1, <1>2, <1>3, ConcatProperties
<1>6. ASSUME NEW j \in 1 .. Len(s) - 1
      PROVE  (left \o right)[j] = IF j < i THEN s[j] ELSE s[j + 1]
    <2>1. CASE j < i
        BY <1>1, <1>2, <1>5, <2>1
    <2>2. CASE ~(j < i)
        <3>1. j - (i - 1) \in 1 .. Len(s) - i /\ (j - (i - 1)) + i = j + 1
            BY <1>1, <2>2
        <3> QED
            BY <1>3, <1>5, <2>2, <3>1
    <2> QED
        BY <2>1, <2>2
<1> QED
    BY <1>4, <1>5, <1>6

\* A chain goes on after a fetch, and after an operation that was reported
\* as done.
Live(task) == task.do \notin Operations \/ task.phase = "answered"

\* This list is being fetched, or will be.  A check that is queued is not
\* made when there is no user.
Fetching(task, k) ==
    KindOf(task) = k /\ (task.do = "check" => task.phase # "queued")

\* Another task than the i-th, or the rest of a chain, brings this list.
Later(s, i, k) ==
    \E j \in DOMAIN s :
        \/ Live(s[j]) /\ k \in ToSet(s[j].then)
        \/ j # i /\ Fetching(s[j], k)

\* What was to come is still to come when a task goes on to its next phase.
LEMMA LaterReplaced ==
    ASSUME NEW s \in Seq(Task), NEW i \in DOMAIN s, NEW e, NEW n, NEW k,
           Later(s, n, k),
           Live(s[i]) /\ k \in ToSet(s[i].then) => Live(e) /\ k \in ToSet(e.then),
           Fetching(s[i], k) => Fetching(e, k)
    PROVE  Later([s EXCEPT ![i] = e], n, k)
<1> DEFINE t == [s EXCEPT ![i] = e]
<1>1. DOMAIN t = DOMAIN s /\ \A j \in DOMAIN s : t[j] = IF j = i THEN e ELSE s[j]
    OBVIOUS
<1> HIDE DEF t
<1>2. Later(t, n, k)
    BY <1>1 DEF Later
<1> QED
    BY <1>2 DEF t

\* An answer that is overtaken changes nothing of what is to come.
LEMMA LaterOvertaken ==
    ASSUME NEW s \in Seq(Task), NEW kinds, NEW n, NEW k, Later(s, n, k)
    PROVE  Later(Overtake(s, kinds), n, k)
<1> DEFINE t == Overtake(s, kinds)
<1>1. ASSUME NEW j \in DOMAIN s
      PROVE  /\ t[j].do = s[j].do /\ t[j].phase = s[j].phase
             /\ t[j].then = s[j].then
    <2>1. s[j] \in Task
        OBVIOUS
    <2> QED
        BY <2>1 DEF Overtake, Task
<1>2. DOMAIN t = DOMAIN s
    BY DEF Overtake
<1> HIDE DEF t
<1>3. Later(t, n, k)
    BY <1>1, <1>2 DEF Later, Live, Fetching, KindOf
<1> QED
    BY <1>3 DEF t

\* Nor do tasks that come behind the others.
LEMMA LaterAppended ==
    ASSUME NEW s \in Seq(Task), NEW t \in Seq(Task), NEW n, NEW k, Later(s, n, k)
    PROVE  Later(s \o t, n, k)
<1>1. DOMAIN s \subseteq DOMAIN (s \o t) /\ \A j \in DOMAIN s : (s \o t)[j] = s[j]
    BY ConcatProperties
<1> QED
    BY <1>1 DEF Later

\* A task that brings nothing can go.
LEMMA LaterRemoved ==
    ASSUME NEW s \in Seq(Task), NEW i \in DOMAIN s, NEW k,
           ~(Live(s[i]) /\ k \in ToSet(s[i].then)),
           NEW m \in 0 .. Len(s) - 1
    PROVE  LET n == IF m < i THEN m ELSE m + 1
           IN  Later(s, n, k) /\ ~Fetching(s[i], k)
                 => Later(RemoveAt(s, i), m, k)
<1> DEFINE n == IF m < i THEN m ELSE m + 1
           r == RemoveAt(s, i)
<1>1. /\ i \in 1 .. Len(s) /\ Len(s) \in Nat /\ DOMAIN r = 1 .. Len(s) - 1
      /\ \A j \in 1 .. Len(s) - 1 : r[j] = IF j < i THEN s[j] ELSE s[j + 1]
    BY RemoveAtValue
<1> SUFFICES ASSUME Later(s, n, k), ~Fetching(s[i], k)
             PROVE  Later(r, m, k)
    OBVIOUS
<1> HIDE DEF r
<1>2. PICK j \in 1 .. Len(s) :
          \/ Live(s[j]) /\ k \in ToSet(s[j].then)
          \/ j # n /\ Fetching(s[j], k)
    BY DEF Later
<1>3. j # i
    BY <1>2
<1> DEFINE l == IF j < i THEN j ELSE j - 1
<1>4. l \in 1 .. Len(s) - 1 /\ r[l] = s[j]
    BY <1>1, <1>3
<1>5. j # n => l # m
    BY <1>1, <1>3
<1> HIDE DEF l, n
<1> QED
    BY <1>1, <1>2, <1>4, <1>5 DEF Later

\* What others than a removed task were to bring is still to come.
LEMMA LaterOfRemoved ==
    ASSUME NEW s \in Seq(Task), NEW i \in DOMAIN s, NEW k, Later(s, i, k),
           ~(Live(s[i]) /\ k \in ToSet(s[i].then))
    PROVE  Later(RemoveAt(s, i), 0, k)
<1> DEFINE r == RemoveAt(s, i)
<1>1. /\ i \in 1 .. Len(s) /\ Len(s) \in Nat /\ DOMAIN r = 1 .. Len(s) - 1
      /\ \A j \in 1 .. Len(s) - 1 : r[j] = IF j < i THEN s[j] ELSE s[j + 1]
    BY RemoveAtValue
<1> HIDE DEF r
<1>2. PICK j \in 1 .. Len(s) :
          /\ (Live(s[j]) /\ k \in ToSet(s[j].then)) \/ Fetching(s[j], k)
          /\ j # i
    BY DEF Later
<1> DEFINE l == IF j < i THEN j ELSE j - 1
<1>3. l \in 1 .. Len(s) - 1 /\ r[l] = s[j] /\ l # 0
    BY <1>1, <1>2
<1> HIDE DEF l
<1>4. Later(r, 0, k)
    BY <1>1, <1>2, <1>3 DEF Later
<1> QED
    BY <1>4 DEF r

\* Fetches, checks and operations have different names.
LEMMA KindsApart ==
    /\ "check" \notin Kinds \cup Operations
    /\ \A k \in Kinds : k \notin Operations
BY DEF Kinds, Operations

\* The fetch that is queued next is the first of the rest of the chain.
LEMMA QueuedValue ==
    ASSUME NEW then \in Seq(Kinds), then # <<>>
    PROVE  LET e == Queued(Head(then), Tail(then)) IN
           /\ e \in Task /\ e.phase = "queued" /\ e.owner = NoUser
           /\ e.do \in Kinds /\ Live(e)
           /\ \A k \in ToSet(then) : Fetching(e, k) \/ k \in ToSet(e.then)
<1> DEFINE e == Queued(Head(then), Tail(then))
<1>1. Head(then) \in Kinds /\ Tail(then) \in Seq(Kinds)
    OBVIOUS
<1>2. /\ e.do = Head(then) /\ e.then = Tail(then) /\ e.phase = "queued"
      /\ e.owner = NoUser
    BY DEF Queued, NewTask
<1>3. e \in Task
    BY <1>1 DEF Queued, NewTask, Task
<1>4. ASSUME NEW k \in ToSet(then), k # Head(then)
      PROVE  k \in ToSet(Tail(then))
    <2>1. PICK j \in 1 .. Len(then) : then[j] = k
        BY DEF ToSet
    <2>2. j # 1
        BY <1>4, <2>1
    <2>3. j - 1 \in DOMAIN Tail(then) /\ Tail(then)[j - 1] = k
        BY <2>1, <2>2
    <2> QED
        BY <2>3 DEF ToSet
<1>5. Fetching(e, Head(then)) /\ Live(e)
    BY <1>1, <1>2, KindsApart DEF Fetching, KindOf, Live
<1> HIDE DEF e
<1>6. \A k \in ToSet(then) : Fetching(e, k) \/ k \in ToSet(e.then)
    BY <1>2, <1>4, <1>5
<1> QED
    BY <1>1, <1>2, <1>3, <1>5, <1>6 DEF e

\* Where the others are when the i-th task is done, and the rest of its
\* chain goes on: at m is what was at n, and what was to come for it still
\* is, but for the list that the task was for.
Kept(s, m, n) == s[m] = tasks[n]

\* What is at each place when a task is done, and what is still to come.
LEMMA OnwardStep ==
    ASSUME tasks \in Seq(Task), NEW i \in DOMAIN tasks, Live(tasks[i])
    PROVE  /\ Onward(i) \in Seq(Task)
           /\ \A k \in Kinds : Later(tasks, i, k) => Later(Onward(i), 0, k)
           /\ \A m \in DOMAIN Onward(i) :
                 \/ \E p \in Seq(Kinds), k \in Kinds : Onward(i)[m] = Queued(k, p)
                 \/ \E n \in DOMAIN tasks \ {i} :
                       /\ Kept(Onward(i), m, n)
                       /\ \A k \in Kinds : k # KindOf(tasks[i])
                                        /\ Later(tasks, n, k)
                            => Later(Onward(i), m, k)
<1> DEFINE then == tasks[i].then
<1>1. then \in Seq(Kinds)
    <2>1. tasks[i] \in Task
        OBVIOUS
    <2> QED
        BY <2>1 DEF Task
<1>2. CASE then = <<>>
    <2>1. Onward(i) = RemoveAt(tasks, i)
        BY <1>2 DEF Onward
    <2>2. \A k : k \notin ToSet(tasks[i].then)
        BY <1>2 DEF ToSet
    <2>3. /\ i \in 1 .. Len(tasks) /\ Len(tasks) \in Nat
          /\ Onward(i) \in Seq(Task) /\ DOMAIN Onward(i) = 1 .. Len(tasks) - 1
          /\ \A j \in 1 .. Len(tasks) - 1 :
                Onward(i)[j] = IF j < i THEN tasks[j] ELSE tasks[j + 1]
        BY <2>1, RemoveAtValue
    <2>4. ASSUME NEW m \in DOMAIN Onward(i)
          PROVE  \E n \in DOMAIN tasks \ {i} :
                     /\ Kept(Onward(i), m, n)
                     /\ \A k \in Kinds : k # KindOf(tasks[i]) /\ Later(tasks, n, k)
                          => Later(Onward(i), m, k)
        <3> DEFINE n == IF m < i THEN m ELSE m + 1
        <3>1. n \in DOMAIN tasks \ {i} /\ m \in 0 .. Len(tasks) - 1
            BY <2>3
        <3>2. Kept(Onward(i), m, n)
            BY <2>3 DEF Kept
        <3>3. ASSUME NEW k \in Kinds, k # KindOf(tasks[i]), Later(tasks, n, k)
              PROVE  Later(Onward(i), m, k)
            BY <2>1, <2>2, <3>1, <3>3, LaterRemoved DEF Fetching
        <3> HIDE DEF n
        <3> QED
            BY <3>1, <3>2, <3>3
    <2>5. ASSUME NEW k \in Kinds, Later(tasks, i, k)
          PROVE  Later(Onward(i), 0, k)
        BY <2>1, <2>2, <2>5, LaterOfRemoved
    <2> QED
        BY <2>3, <2>4, <2>5
<1>3. CASE then # <<>>
    <2> DEFINE e == Queued(Head(then), Tail(then))
    <2>1. /\ e \in Task /\ Live(e)
          /\ \A k \in ToSet(then) : Fetching(e, k) \/ k \in ToSet(e.then)
        BY <1>1, <1>3, QueuedValue
    <2>2. Head(then) \in Kinds /\ Tail(then) \in Seq(Kinds)
        BY <1>1, <1>3
    <2>3. Onward(i) = [tasks EXCEPT ![i] = e]
        BY <1>3 DEF Onward
    <2>4. /\ Onward(i) \in Seq(Task) /\ DOMAIN Onward(i) = DOMAIN tasks
          /\ \A j \in DOMAIN tasks :
                Onward(i)[j] = IF j = i THEN e ELSE tasks[j]
        BY <2>1, <2>3
    <2>5. Onward(i)[i] = Queued(Head(then), Tail(then))
        BY <2>4
    <2> HIDE DEF e
    <2>6. ASSUME NEW k \in Kinds, Later(tasks, i, k)
          PROVE  Later(Onward(i), 0, k)
        <3>1. 0 \notin DOMAIN tasks
            OBVIOUS
        <3>2. PICK j \in DOMAIN tasks :
                  \/ Live(tasks[j]) /\ k \in ToSet(tasks[j].then)
                  \/ j # i /\ Fetching(tasks[j], k)
            BY <2>6 DEF Later
        <3> QED
            BY <2>1, <2>4, <3>1, <3>2 DEF Later
    <2>7. ASSUME NEW n \in DOMAIN tasks \ {i}, NEW k \in Kinds,
                 k # KindOf(tasks[i]), Later(tasks, n, k)
          PROVE  Later(Onward(i), n, k)
        <3>1. PICK j \in DOMAIN tasks :
                  \/ Live(tasks[j]) /\ k \in ToSet(tasks[j].then)
                  \/ j # n /\ j # i /\ Fetching(tasks[j], k)
            BY <2>7 DEF Later, Fetching
        <3> QED
            BY <2>1, <2>4, <2>7, <3>1 DEF Later
    <2> QED
        BY <2>2, <2>4, <2>5, <2>6, <2>7 DEF Kept
<1> QED
    BY <1>2, <1>3

-----------------------------------------------------------------------------
(* The invariant                                                           *)

\* A task has a user from when it starts; an operation starts at once, and
\* a check is followed by nothing.
Proper(task) ==
    /\ task.phase = "queued" <=> task.owner = NoUser
    /\ task.do \in Operations =>
          /\ task.phase # "queued" /\ task.person \in People
          /\ task.then = Then(task.do)
    /\ task.do = "check" => task.then = <<>>

AllProper(s) == s \in Seq(Task) /\ \A i \in DOMAIN s : Proper(s[i])

TaskInv == AllProper(tasks)

LoginInv == logouts <= logins /\ (screen = "home" => logouts < logins)

\* A list, or an answer, is what the server has, but for others' changes.
Good(u, k, people) == <<u, k>> \in outdated \/ people = server[u][k]

\* The user's lists are good, doubtful, or brought by what is under way.
ListFor(k) ==
    k \in doubtful \/ Good(user, k, lists[k].people) \/ Later(tasks, 0, k)

ListInv == user # NoUser => \A k \in Kinds : ListFor(k)

\* So is an answer that has not been applied, unless it was overtaken.
Trusted(task, k) ==
    task.phase = "answered" /\ ~task.overtaken /\ KindOf(task) = k

AnswersFor(k) ==
    \A i \in DOMAIN tasks :
        Trusted(tasks[i], k) =>
            Good(tasks[i].owner, k, tasks[i].data) \/ Later(tasks, i, k)

AnswerInv == \A k \in Kinds : AnswersFor(k)

SafeInv ==
    hazards \cap {"busy", "lateLogout"} = {} =>
        /\ ~crashed
        /\ user = NoUser => screen = "landing" /\ tasks = <<>>

FriendInv ==
    /\ TypeOK /\ TaskInv /\ LoginInv
    /\ ListInv /\ AnswerInv /\ SafeInv /\ OwnLists

-----------------------------------------------------------------------------
(* Types                                                                   *)

Server == [Users -> [Kinds -> SUBSET People]]

\* Every operation is followed by fetches.
LEMMA ThenType ==
    ASSUME NEW op \in Operations
    PROVE  Then(op) \in Seq(Kinds) /\ Then(op) # <<>>
<1>1. /\ "friends" \in Kinds /\ "sent" \in Kinds /\ "received" \in Kinds
    BY DEF Kinds
<1>2. /\ <<"friends", "sent">> \in Seq(Kinds) /\ <<"friends", "sent">> # <<>>
      /\ <<"received", "friends">> \in Seq(Kinds)
      /\ <<"received", "friends">> # <<>>
      /\ <<"friends">> \in Seq(Kinds) /\ <<"friends">> # <<>>
      /\ <<"received">> \in Seq(Kinds) /\ <<"received">> # <<>>
      /\ <<"sent">> \in Seq(Kinds) /\ <<"sent">> # <<>>
    BY <1>1
<1>3. op \in {"request", "accept", "remove", "decline", "cancel"}
    BY DEF Operations
<1> QED
    BY <1>2, <1>3, Zenon DEF Then

LEMMA MissedType ==
    ASSUME NEW op \in Operations, NEW phase
    PROVE  Missed(op, phase) \in SUBSET Kinds
<1>1. Unfetched(op) \subseteq Kinds
    BY DEF Unfetched, Kinds
<1>2. ToSet(Then(op)) \subseteq Kinds
    BY ThenType DEF ToSet
<1> QED
    BY <1>1, <1>2 DEF Missed

\* What the server does with a friend.
LEMMA ServerType ==
    ASSUME server \in Server, NEW u \in Users, NEW p \in People,
           NEW k \in Kinds, NEW l \in Kinds
    PROVE  /\ Gains(u, k, p) \in Server /\ Loses(u, k, p) \in Server
           /\ Moves(u, k, l, p) \in Server
<1>1. server[u] \in [Kinds -> SUBSET People]
    BY DEF Server
<1>2. ASSUME NEW f \in [Kinds -> SUBSET People]
      PROVE  [server EXCEPT ![u] = f] \in Server
    BY <1>2 DEF Server
<1> DEFINE gain == [server[u] EXCEPT ![k] = @ \cup {p}]
           lose == [server[u] EXCEPT ![k] = @ \ {p}]
           move == [server[u] EXCEPT ![k] = @ \ {p}, ![l] = @ \cup {p}]
<1>3. /\ gain \in [Kinds -> SUBSET People] /\ lose \in [Kinds -> SUBSET People]
      /\ move \in [Kinds -> SUBSET People]
    BY <1>1
<1>4. Gains(u, k, p) = [server EXCEPT ![u] = gain]
    BY DEF Gains, Server
<1>5. Loses(u, k, p) = [server EXCEPT ![u] = lose]
    BY DEF Loses, Server
<1>6. Moves(u, k, l, p) = [server EXCEPT ![u] = move]
    BY DEF Moves
<1> HIDE DEF gain, lose, move
<1> QED
    BY <1>2, <1>3, <1>4, <1>5, <1>6

\* An operation changes the lists that are fetched after it, and those that
\* are not.
LEMMA PerformedStep ==
    ASSUME server \in Server, NEW task, task.do \in Operations,
           task.owner \in Users, task.person \in People,
           NEW s \in Performed(task)
    PROVE  /\ s \in Server
           /\ \A u \in Users, k \in Kinds :
                 k \in ToSet(Then(task.do)) \cup Unfetched(task.do) \/ s[u][k] = server[u][k]
<1>1. /\ "request" \in Operations /\ "accept" \in Operations
      /\ "remove" \in Operations /\ "decline" \in Operations
      /\ "friends" \in Kinds /\ "sent" \in Kinds /\ "received" \in Kinds
      /\ "followers" \in Kinds
    BY DEF Operations, Kinds
<1> DEFINE w == task.owner
           p == task.person
<1>2. ASSUME NEW j \in Kinds, NEW l \in Kinds,
             s = Gains(w, j, p) \/ s = Loses(w, j, p) \/ s = Moves(w, j, l, p)
      PROVE  /\ s \in Server
             /\ \A u \in Users, k \in Kinds :
                   k \in {j, l} \/ s[u][k] = server[u][k]
    <2>1. s \in Server
        BY <1>2, ServerType
    <2>2. server[w] \in [Kinds -> SUBSET People]
        BY DEF Server
    <2> QED
        BY <1>2, <2>1, <2>2 DEF Gains, Loses, Moves, Server
<1>3. CASE task.do = "request"
    <2>1. s = Gains(w, "sent", p) \/ s = Gains(w, "friends", p)
        BY <1>3 DEF Performed
    <2>2. {"sent", "friends"} \subseteq ToSet(Then(task.do))
        BY <1>3 DEF Then, ToSet
    <2> QED
        BY <1>1, <1>2, <2>1, <2>2
<1>4. CASE task.do = "accept"
    <2>1. \/ s = Moves(w, "received", "friends", p)
          \/ s = Moves(w, "received", "followers", p)
          \/ s = server
        BY <1>4 DEF Performed
    <2>2. {"received", "friends"} \subseteq ToSet(Then(task.do))
        BY <1>4 DEF Then, ToSet
    <2>3. "followers" \in Unfetched(task.do)
        BY <1>4 DEF Unfetched
    <2> QED
        BY <1>1, <1>2, <2>1, <2>2, <2>3
<1>5. CASE task.do = "remove"
    <2>1. s = Loses(w, "friends", p)
        BY <1>5 DEF Performed
    <2>2. {"friends"} \subseteq ToSet(Then(task.do))
        BY <1>5 DEF Then, ToSet
    <2> QED
        BY <1>1, <1>2, <2>1, <2>2
<1>6. CASE task.do = "decline"
    <2>1. s = Loses(w, "received", p)
        BY <1>6 DEF Performed
    <2>2. {"received"} \subseteq ToSet(Then(task.do))
        BY <1>6 DEF Then, ToSet
    <2> QED
        BY <1>1, <1>2, <2>1, <2>2
<1>7. CASE task.do = "cancel"
    <2>1. s = Loses(w, "sent", p)
        BY <1>7 DEF Performed
    <2>2. {"sent"} \subseteq ToSet(Then(task.do))
        BY <1>7 DEF Then, ToSet
    <2> QED
        BY <1>1, <1>2, <2>1, <2>2
<1> QED
    BY <1>3, <1>4, <1>5, <1>6, <1>7 DEF Operations

\* A sequence of proper tasks with one replaced.
LEMMA ProperReplaced ==
    ASSUME NEW s, AllProper(s), NEW i \in DOMAIN s, NEW e \in Task, Proper(e)
    PROVE  AllProper([s EXCEPT ![i] = e])
<1>1. [s EXCEPT ![i] = e] \in Seq(Task)
    BY DEF AllProper
<1>2. \A j \in DOMAIN s : [s EXCEPT ![i] = e][j] = IF j = i THEN e ELSE s[j]
    BY DEF AllProper
<1> QED
    BY <1>1, <1>2 DEF AllProper

\* With one removed.
LEMMA ProperRemoved ==
    ASSUME NEW s, AllProper(s), NEW i \in DOMAIN s
    PROVE  AllProper(RemoveAt(s, i))
<1>1. /\ i \in 1 .. Len(s) /\ Len(s) \in Nat /\ RemoveAt(s, i) \in Seq(Task)
      /\ DOMAIN RemoveAt(s, i) = 1 .. Len(s) - 1
      /\ \A j \in 1 .. Len(s) - 1 :
            RemoveAt(s, i)[j] = IF j < i THEN s[j] ELSE s[j + 1]
    BY RemoveAtValue DEF AllProper
<1>2. ASSUME NEW j \in 1 .. Len(s) - 1
      PROVE  Proper(RemoveAt(s, i)[j])
    <2>1. j \in DOMAIN s /\ j + 1 \in DOMAIN s
        BY <1>1 DEF AllProper
    <2> QED
        BY <1>1, <2>1 DEF AllProper
<1> QED
    BY <1>1, <1>2 DEF AllProper

\* With answers overtaken.
LEMMA ProperOvertaken ==
    ASSUME NEW s, AllProper(s), NEW kinds
    PROVE  AllProper(Overtake(s, kinds))
<1> DEFINE t == Overtake(s, kinds)
<1>1. ASSUME NEW j \in DOMAIN s
      PROVE  t[j] \in Task /\ Proper(t[j])
    <2>1. s[j] \in Task /\ Proper(s[j])
        BY DEF AllProper
    <2>2. t[j] = s[j] \/ t[j] = [s[j] EXCEPT !.overtaken = TRUE]
        BY DEF Overtake
    <2>3. [s[j] EXCEPT !.overtaken = TRUE] \in Task
        BY <2>1 DEF Task
    <2>4. Proper([s[j] EXCEPT !.overtaken = TRUE])
        BY <2>1 DEF Proper, Task
    <2> QED
        BY <2>1, <2>2, <2>3, <2>4
<1>2. DOMAIN t = DOMAIN s /\ t = [j \in DOMAIN s |-> t[j]]
    BY DEF Overtake
<1>3. DOMAIN s = 1 .. Len(s) /\ Len(s) \in Nat
    BY DEF AllProper
<1> HIDE DEF t
<1>4. t \in Seq(Task)
    BY <1>1, <1>2, <1>3
<1>5. AllProper(t)
    BY <1>1, <1>2, <1>4 DEF AllProper
<1> QED
    BY <1>5 DEF t

\* With others behind it.
LEMMA ProperAppended ==
    ASSUME NEW s, AllProper(s), NEW t, AllProper(t)
    PROVE  AllProper(s \o t)
<1>1. s \in Seq(Task) /\ t \in Seq(Task)
    BY DEF AllProper
<1>2. /\ s \o t \in Seq(Task) /\ DOMAIN (s \o t) = 1 .. Len(s) + Len(t)
      /\ \A j \in 1 .. Len(s) + Len(t) :
            (s \o t)[j] = IF j <= Len(s) THEN s[j] ELSE t[j - Len(s)]
    BY <1>1, ConcatProperties
<1>3. ASSUME NEW j \in 1 .. Len(s) + Len(t)
      PROVE  Proper((s \o t)[j])
    <2>1. CASE j <= Len(s)
        BY <1>1, <1>2, <2>1 DEF AllProper
    <2>2. CASE ~(j <= Len(s))
        <3>1. j - Len(s) \in DOMAIN t
            BY <1>1, <2>2
        <3> QED
            BY <1>2, <2>2, <3>1 DEF AllProper
    <2> QED
        BY <2>1, <2>2
<1> QED
    BY <1>2, <1>3 DEF AllProper

\* A task that waits for a global queue is a fetch, and no user's yet.
LEMMA ProperQueued ==
    ASSUME NEW do \in Kinds \cup {"check"}, NEW then \in Seq(Kinds),
           do = "check" => then = <<>>
    PROVE  Queued(do, then) \in Task /\ Proper(Queued(do, then))
<1>1. /\ Queued(do, then).do = do /\ Queued(do, then).phase = "queued"
      /\ Queued(do, then).owner = NoUser /\ Queued(do, then).then = then
    BY DEF Queued, NewTask
<1>2. Queued(do, then) \in Task
    BY DEF Queued, NewTask, Task
<1>3. do \notin Operations
    BY KindsApart
<1> QED
    BY <1>1, <1>2, <1>3 DEF Proper

\* With one done and the rest of its chain going on.
LEMMA ProperOnward ==
    ASSUME TaskInv, NEW i \in DOMAIN tasks
    PROVE  AllProper(Onward(i))
<1>1. AllProper(tasks) /\ tasks[i] \in Task
    BY DEF TaskInv, AllProper
<1>2. tasks[i].then \in Seq(Kinds)
    BY <1>1 DEF Task
<1>3. CASE tasks[i].then = <<>>
    BY <1>1, <1>3, ProperRemoved DEF Onward
<1>4. CASE tasks[i].then # <<>>
    <2>1. Head(tasks[i].then) \in Kinds /\ Tail(tasks[i].then) \in Seq(Kinds)
        BY <1>2, <1>4
    <2>2. Head(tasks[i].then) # "check"
        BY <2>1, KindsApart
    <2> QED
        BY <1>1, <1>4, <2>1, <2>2, ProperQueued, ProperReplaced DEF Onward
<1> QED
    BY <1>3, <1>4

\* One proper task.
LEMMA ProperOne ==
    ASSUME NEW e \in Task, Proper(e)
    PROVE  AllProper(<<e>>)
BY DEF AllProper

\* A task's answer, its failure and its start.
LEMMA TaskPhases ==
    ASSUME TypeOK, TaskInv, NEW i \in DOMAIN tasks
    PROVE  LET task == tasks[i] IN
           /\ task \in Task /\ Proper(task)
           /\ task.phase = "sent" =>
                 /\ task.owner \in Users
                 /\ \A p \in {"answered", "failed"} :
                       /\ [task EXCEPT !.phase = p] \in Task
                       /\ Proper([task EXCEPT !.phase = p])
                 /\ \A d \in SUBSET People :
                       LET e == [task EXCEPT !.phase = "answered", !.data = d]
                       IN  e \in Task /\ Proper(e)
           /\ task.phase = "queued" /\ user # NoUser =>
                 LET e == [task EXCEPT !.phase = "sent", !.owner = user]
                 IN  e \in Task /\ Proper(e)
<1>1. tasks[i] \in Task /\ Proper(tasks[i]) /\ user \in Users \cup {NoUser}
    BY DEF TaskInv, AllProper, TypeOK
<1>2. ASSUME tasks[i].phase = "sent", NEW p \in {"answered", "failed"}
      PROVE  /\ [tasks[i] EXCEPT !.phase = p] \in Task
             /\ Proper([tasks[i] EXCEPT !.phase = p])
    BY <1>1, <1>2 DEF Task, Proper
<1>3. ASSUME tasks[i].phase = "sent", NEW d \in SUBSET People
      PROVE  LET e == [tasks[i] EXCEPT !.phase = "answered", !.data = d]
             IN  e \in Task /\ Proper(e)
    BY <1>1, <1>3 DEF Task, Proper
<1>4. ASSUME tasks[i].phase = "queued", user # NoUser
      PROVE  LET e == [tasks[i] EXCEPT !.phase = "sent", !.owner = user]
             IN  e \in Task /\ Proper(e)
    BY <1>1, <1>4 DEF Task, Proper
<1>5. tasks[i].phase = "sent" => tasks[i].owner \in Users
    BY <1>1 DEF Task, Proper
<1> QED
    BY <1>1, <1>2, <1>3, <1>4, <1>5

\* A request that is answered or fails.
LEMMA ProperPhase ==
    ASSUME TypeOK, TaskInv, NEW i \in DOMAIN tasks, tasks[i].phase = "sent",
           NEW p \in {"answered", "failed"}
    PROVE  AllProper(InPhase(i, p))
<1>1. [tasks[i] EXCEPT !.phase = p] \in Task /\ Proper([tasks[i] EXCEPT !.phase = p])
    BY TaskPhases
<1> QED
    BY <1>1, ProperReplaced DEF InPhase, TaskInv

\* A task is an operation or fetches a list.
LEMMA TaskOrFetch ==
    ASSUME NEW task \in Task
    PROVE  task.do \in Operations \/ KindOf(task) \in Kinds
<1>1. "received" \in Kinds
    BY DEF Kinds
<1> QED
    BY <1>1 DEF Task, KindOf

\* The type of the state after an answer of the server.
LEMMA AnswerType ==
    ASSUME TypeOK, TaskInv, LoginInv, NEW i \in DOMAIN tasks, Answer(i)
    PROVE  TypeOK' /\ TaskInv' /\ LoginInv'
<1> USE DEF sessionVars, historyVars
<1> DEFINE task == tasks[i]
<1>1. /\ task \in Task /\ Proper(task) /\ task.phase = "sent"
      /\ task.owner \in Users /\ AllProper(tasks) /\ server \in Server
    BY TaskPhases DEF Answer, TaskInv, TypeOK, Server
<1>2. CASE task.do \in Operations
    <2>1. server' \in Server
        <3>1. server' \in Performed(task) /\ task.person \in People
            BY <1>1, <1>2 DEF Answer, Proper
        <3> HIDE DEF task
        <3> QED
            BY <1>1, <1>2, <3>1, PerformedStep
    <2>2. AllProper(tasks')
        <3>1. AllProper(InPhase(i, "answered")) /\ AllProper(InPhase(i, "failed"))
            BY <1>1, ProperPhase
        <3>2. \E phase \in {"answered", "failed"} :
                 tasks' = Overtake(InPhase(i, phase), Missed(task.do, phase))
            BY <1>2 DEF Answer
        <3> QED
            BY <3>1, <3>2, ProperOvertaken
    <2>3. doubtful' \subseteq Kinds
        <3> QED
            BY <1>2, MissedType DEF Answer, TypeOK
    <2> QED
        BY <1>2, <2>1, <2>2, <2>3
        DEF Answer, TypeOK, TaskInv, LoginInv, AllProper, Server
<1>3. CASE task.do \notin Operations
    <2>1. KindOf(task) \in Kinds
        BY <1>1, <1>3, TaskOrFetch
    <2>2. server[task.owner][KindOf(task)] \in SUBSET People
        BY <1>1, <2>1 DEF Server
    <2> DEFINE d == server[task.owner][KindOf(task)]
    <2>3. tasks' = [tasks EXCEPT ![i] = [task EXCEPT !.phase = "answered",
                                                     !.data = d]]
        BY <1>3 DEF Answer
    <2> HIDE DEF d
    <2>4. AllProper(tasks')
        BY <1>1, <2>2, <2>3, TaskPhases, ProperReplaced DEF d
    <2> QED
        BY <1>3, <2>4 DEF Answer, TypeOK, TaskInv, LoginInv, AllProper
<1> QED
    BY <1>2, <1>3

\* After a fetch, whose list is replaced, kept or emptied.
LEMMA FetchDoneType ==
    ASSUME TypeOK, TaskInv, LoginInv, NEW i \in DOMAIN tasks, FetchDone(i)
    PROVE  TypeOK' /\ TaskInv' /\ LoginInv'
<1> USE DEF sessionVars, historyVars
<1> DEFINE task == tasks[i]
           k == KindOf(task)
<1>1. /\ task \in Task /\ Proper(task) /\ k \in Kinds
      /\ task.phase \in {"answered", "failed"}
    BY TaskPhases, TaskOrFetch DEF FetchDone
<1>2. /\ Fetched(task) \in AList
      /\ Fetched(task).owner = NoUser => Fetched(task).people = {}
    <2>1. CASE task.phase = "answered"
        BY <1>1, <2>1 DEF Fetched, AList, Task, Proper
    <2>2. Empty \in AList /\ Empty.people = {}
        BY DEF Empty, AList
    <2>3. /\ lists[k] \in AList
          /\ lists[k].owner = NoUser => lists[k].people = {}
        BY <1>1 DEF TypeOK
    <2>4. Fetched(task) \in {Empty, lists[k]} \/ task.phase = "answered"
        BY DEF Fetched
    <2> QED
        BY <2>1, <2>2, <2>3, <2>4
<1>3. /\ lists' \in [Kinds -> AList]
      /\ \A j \in Kinds : lists'[j].owner = NoUser => lists'[j].people = {}
    BY <1>1, <1>2 DEF FetchDone, TypeOK
<1>4. AllProper(tasks')
    BY ProperOnward, ProperOvertaken DEF FetchDone
<1>5. doubtful' \subseteq Kinds /\ hazards' \subseteq Hazards
    BY <1>1 DEF FetchDone, TypeOK, Hazards
<1> QED
    BY <1>3, <1>4, <1>5 DEF FetchDone, TypeOK, TaskInv, LoginInv, AllProper

\* The chains of the screens, of a check, and of a login.
Chains ==
    {<<Queued("friends", <<"sent">>)>>, <<Queued("followers", <<"received">>)>>,
     <<Queued("check", <<>>)>>,
     <<Queued("sent", <<"friends", "followers">>), Queued("check", <<>>)>>}

\* The chains that screens, checks and logins begin are proper.
LEMMA ChainsProper == \A c \in Chains : AllProper(c) /\ c \in Seq(Task)
<1>1. /\ "friends" \in Kinds /\ "sent" \in Kinds /\ "received" \in Kinds
      /\ "followers" \in Kinds
    BY DEF Kinds
<1>2. /\ <<"sent">> \in Seq(Kinds) /\ <<"received">> \in Seq(Kinds)
      /\ <<>> \in Seq(Kinds) /\ <<"friends", "followers">> \in Seq(Kinds)
    BY <1>1
<1> DEFINE a == Queued("friends", <<"sent">>)
           b == Queued("followers", <<"received">>)
           c == Queued("check", <<>>)
           d == Queued("sent", <<"friends", "followers">>)
<1>3. /\ a \in Task /\ Proper(a) /\ b \in Task /\ Proper(b)
      /\ c \in Task /\ Proper(c) /\ d \in Task /\ Proper(d)
    BY <1>1, <1>2, ProperQueued
<1> HIDE DEF a, b, c, d
<1>4. /\ AllProper(<<a>>) /\ AllProper(<<b>>) /\ AllProper(<<c>>)
      /\ AllProper(<<d, c>>)
    BY <1>3 DEF AllProper
<1>5. \A s \in Chains : AllProper(s)
    BY <1>4 DEF Chains, a, b, c, d
<1> QED
    BY <1>5 DEF AllProper

\* The bound on what begins.
LEMMA BeginType ==
    ASSUME TypeOK, NEW n \in Nat, Begin(n)
    PROVE  events' \in 0..MaxEvents
<1>1. events \in 0..MaxEvents
    BY DEF TypeOK
<1> QED
    BY <1>1 DEF Begin

\* After a change of others'.
LEMMA OthersType ==
    ASSUME TypeOK, TaskInv, LoginInv, NEW u \in Users, NEW p \in People,
           OthersChange(u, p)
    PROVE  TypeOK' /\ TaskInv' /\ LoginInv'
<1> USE DEF sessionVars, historyVars
<1>1. server \in Server
    BY DEF TypeOK, Server
<1>2. server' \in Server
    <2>1. \A k \in Kinds : Gains(u, k, p) \in Server /\ Loses(u, k, p) \in Server
        BY <1>1, ServerType
    <2>2. \A k, l \in Kinds : Moves(u, k, l, p) \in Server
        BY <1>1, ServerType
    <2>3. /\ "friends" \in Kinds /\ "sent" \in Kinds /\ "received" \in Kinds
          /\ "followers" \in Kinds
        BY DEF Kinds
    <2> QED
        BY <2>1, <2>2, <2>3 DEF OthersChange
<1>3. outdated' \subseteq Users \X Kinds
    BY DEF OthersChange, TypeOK
<1>4. events' \in 0..MaxEvents
    BY BeginType DEF OthersChange
<1> QED
    BY <1>2, <1>3, <1>4 DEF OthersChange, TypeOK, TaskInv, LoginInv, Server

\* After a failure, a start and the end of an operation.
LEMMA RequestType ==
    ASSUME TypeOK, TaskInv, LoginInv, NEW i \in DOMAIN tasks,
           RequestFails(i) \/ StartFetch(i) \/ OperationDone(i)
    PROVE  TypeOK' /\ TaskInv' /\ LoginInv'
<1> USE DEF sessionVars, historyVars
<1>1. AllProper(tasks)
    BY DEF TaskInv
<1>2. CASE RequestFails(i)
    <2>1. AllProper(tasks')
        BY <1>2, ProperPhase DEF RequestFails
    <2> QED
        BY <1>2, <2>1 DEF RequestFails, TypeOK, TaskInv, LoginInv, AllProper
<1>3. CASE StartFetch(i)
    <2>1. AllProper(tasks')
        <3> DEFINE e == [tasks[i] EXCEPT !.phase = "sent", !.owner = user]
        <3>1. \/ user # NoUser /\ tasks' = [tasks EXCEPT ![i] = e]
              \/ tasks' = RemoveAt(tasks, i)
              \/ tasks' = tasks
            BY <1>3 DEF StartFetch
        <3>2. user # NoUser => e \in Task /\ Proper(e)
            BY <1>3, TaskPhases DEF StartFetch
        <3> HIDE DEF e
        <3> QED
            BY <1>1, <3>1, <3>2, ProperReplaced, ProperRemoved
    <2>2. crashed' \in BOOLEAN
        BY <1>3 DEF StartFetch, TypeOK
    <2> QED
        BY <1>3, <2>1, <2>2 DEF StartFetch, TypeOK, TaskInv, LoginInv, AllProper
<1>4. CASE OperationDone(i)
    <2>1. AllProper(tasks')
        BY <1>1, <1>4, ProperOnward, ProperRemoved DEF OperationDone
    <2> QED
        BY <1>4, <2>1 DEF OperationDone, TypeOK, TaskInv, LoginInv, AllProper
<1> QED
    BY <1>2, <1>3, <1>4

\* After what the user does, and after a logout.
LEMMA UserType ==
    ASSUME TypeOK, TaskInv, LoginInv, User \/ LogoutDone
    PROVE  TypeOK' /\ TaskInv' /\ LoginInv'
<1> USE DEF sessionVars, historyVars
<1>1. AllProper(tasks) /\ tasks \in Seq(Task)
    BY DEF TaskInv, AllProper
<1>2. ASSUME NEW op \in Operations, NEW p \in People, Operate(op, p)
      PROVE  TypeOK' /\ TaskInv' /\ LoginInv'
    <2> DEFINE e == NewTask(op, p, user, Then(op), "sent")
    <2>1. user # NoUser => e \in Task /\ Proper(e)
        <3>1. ASSUME user # NoUser
              PROVE  user \in Users
            BY <3>1 DEF TypeOK
        <3>2. Then(op) \in Seq(Kinds) /\ op # "check"
            BY ThenType, KindsApart
        <3> QED
            BY <3>1, <3>2 DEF NewTask, Task, Proper
    <2>2. tasks' = tasks \/ (user # NoUser /\ tasks' = Append(tasks, e))
        BY <1>2 DEF Operate
    <2> HIDE DEF e
    <2>3. AllProper(tasks')
        <3>1. CASE tasks' = tasks
            BY <1>1, <3>1
        <3>2. CASE user # NoUser /\ tasks' = Append(tasks, e)
            <4>1. e \in Task /\ AllProper(<<e>>)
                BY <2>1, <3>2, ProperOne
            <4>2. tasks' = tasks \o <<e>>
                BY <1>1, <3>2, <4>1, AppendIsConcat
            <4> QED
                BY <1>1, <4>1, <4>2, ProperAppended
        <3> QED
            BY <2>2, <3>1, <3>2
    <2>4. crashed' \in BOOLEAN
        BY <1>2 DEF Operate, TypeOK
    <2>5. events' \in 0..MaxEvents
        <3>1. events \in 0..MaxEvents
            BY DEF TypeOK
        <3> QED
            BY <1>2, <3>1, BeginType DEF Operate
    <2> QED
        BY <1>2, <2>3, <2>4, <2>5
        DEF Operate, TypeOK, TaskInv, LoginInv, AllProper
<1>3. ASSUME NEW k, NEW then, OpenList(k, then), <<Queued(k, then)>> \in Chains
      PROVE  TypeOK' /\ TaskInv' /\ LoginInv'
    <2> DEFINE e == Queued(k, then)
    <2>1. AllProper(<<e>>) /\ e \in Task
        <3>1. AllProper(<<e>>) /\ <<e>> \in Seq(Task)
            BY <1>3, ChainsProper
        <3>2. <<e>>[1] \in Task
            BY <3>1
        <3> QED
            BY <3>1, <3>2
    <2>2. tasks' = Append(tasks, e)
        BY <1>3 DEF OpenList
    <2> HIDE DEF e
    <2>3. AllProper(tasks')
        <3>1. tasks' = tasks \o <<e>>
            BY <1>1, <2>1, <2>2, AppendIsConcat
        <3> QED
            BY <1>1, <2>1, <3>1, ProperAppended
    <2>4. events' \in 0..MaxEvents
        BY <1>3, BeginType DEF OpenList
    <2> QED
        BY <1>3, <2>3, <2>4 DEF OpenList, TypeOK, TaskInv, LoginInv, AllProper
<1>4. CASE Logout
    <2>1. crashed' \in BOOLEAN
        BY <1>4 DEF Logout, TypeOK
    <2>2. logouts \in 0..MaxLogins /\ logins \in 0..MaxLogins
        BY DEF TypeOK
    <2>3. /\ logouts' \in 0..MaxLogins /\ screen' \in {"landing", "home"}
          /\ logouts' <= logins /\ (screen' = "home" => logouts' < logins)
        BY <1>4, <2>2 DEF Logout, LoginInv, TypeOK
    <2> QED
        BY <1>4, <2>1, <2>3 DEF Logout, TypeOK, TaskInv, LoginInv
<1>5. ASSUME NEW u \in Users, Login(u)
      PROVE  TypeOK' /\ TaskInv' /\ LoginInv'
    <2>1. PICK c \in Chains : tasks' = tasks \o c
        BY <1>5 DEF Login, Chains
    <2>2. AllProper(tasks')
        BY <1>1, <2>1, ChainsProper, ProperAppended
    <2>3. /\ lists' \in [Kinds -> AList]
          /\ \A k \in Kinds : lists'[k].people = {}
        BY <1>5 DEF Login, AList, Empty
    <2>4. /\ logins' \in 0..MaxLogins /\ logouts' \in 0..MaxLogins
          /\ logouts' < logins' /\ logouts' <= logins'
        <3>1. logouts \in 0..MaxLogins /\ logins \in 0..MaxLogins
            BY DEF TypeOK
        <3> QED
            BY <1>5, <3>1 DEF Login, LoginInv
    <2>5. events' \in 0..MaxEvents
        BY <1>5, BeginType DEF Login
    <2> QED
        BY <1>5, <2>2, <2>3, <2>4, <2>5
        DEF Login, TypeOK, TaskInv, LoginInv, AllProper
<1>6. CASE LogoutDone
    <2>1. /\ lists' \in [Kinds -> AList]
          /\ \A k \in Kinds : lists'[k] \in {lists[k], Empty}
        BY <1>6 DEF LogoutDone, AList, Empty, TypeOK, Kinds
    <2>2. \A k \in Kinds : lists'[k].owner = NoUser => lists'[k].people = {}
        BY <2>1 DEF TypeOK, Empty
    <2>3. hazards' \subseteq Hazards
        BY <1>6 DEF LogoutDone, TypeOK, Hazards
    <2>4. /\ logouts' \in 0..MaxLogins /\ logouts' <= logins
          /\ screen = "home" => logouts' < logins
        <3>1. logouts \in 0..MaxLogins /\ logins \in 0..MaxLogins
            BY DEF TypeOK
        <3> QED
            BY <1>6, <3>1 DEF LogoutDone, LoginInv
    <2> QED
        BY <1>6, <2>1, <2>2, <2>3, <2>4 DEF LogoutDone, TypeOK, TaskInv, LoginInv
<1> QED
    BY <1>2, <1>3, <1>4, <1>5, <1>6 DEF User, CheckNotification, Chains

\* Types, tasks and logins after any step.
LEMMA TypeStep ==
    ASSUME TypeOK, TaskInv, LoginInv, [Next]_vars
    PROVE  TypeOK' /\ TaskInv' /\ LoginInv'
<1>1. CASE UNCHANGED vars
    BY <1>1 DEF vars, sessionVars, historyVars, TypeOK, TaskInv, LoginInv,
                AllProper
<1>2. CASE Next
    BY <1>2, OthersType, RequestType, AnswerType, FetchDoneType, UserType
    DEF Next, Tasks
<1> QED
    BY <1>1, <1>2

-----------------------------------------------------------------------------
(* Whose lists they are, and requests without a user                       *)

\* A list has the owner of the answer it was replaced by, and the answer's
\* owner is the user unless it is late; who logs in finds no list.
LEMMA OwnListsStep ==
    ASSUME TypeOK, TaskInv, OwnLists, [Next]_vars
    PROVE  OwnLists'
<1> USE DEF sessionVars, historyVars
<1>1. ASSUME NEW i \in DOMAIN tasks, FetchDone(i)
      PROVE  OwnLists'
    <2> DEFINE task == tasks[i]
    <2> SUFFICES ASSUME user # NoUser, "late" \notin hazards',
                        NEW j \in Kinds
                 PROVE  lists'[j].owner \in {NoUser, user}
        BY <1>1 DEF FetchDone, OwnLists
    <2>1. task.owner = user /\ "late" \notin hazards
        BY <1>1 DEF FetchDone
    <2>2. lists'[j] \in {lists[j], Fetched(task)}
        BY <1>1 DEF FetchDone, TypeOK
    <2>3. task \in Task /\ KindOf(task) \in Kinds
        BY <1>1, TaskPhases, TaskOrFetch DEF FetchDone
    <2>4. Fetched(task).owner \in {NoUser, user}
        <3>1. Empty.owner = NoUser
            BY DEF Empty
        <3>2. lists[KindOf(task)].owner \in {NoUser, user}
            BY <2>1, <2>3 DEF OwnLists
        <3> QED
            BY <2>1, <3>1, <3>2 DEF Fetched
    <2> QED
        BY <2>1, <2>2, <2>4 DEF OwnLists
<1>2. CASE UNCHANGED <<user, lists, hazards>>
    BY <1>2 DEF OwnLists
<1>3. ASSUME NEW u \in Users, Login(u)
      PROVE  OwnLists'
    BY <1>3 DEF Login, OwnLists, Empty
<1>4. CASE LogoutDone
    BY <1>4 DEF LogoutDone, OwnLists
<1>5. CASE UNCHANGED vars
    BY <1>2, <1>5 DEF vars
<1>6. CASE Next
    <2>1. ASSUME NEW i \in DOMAIN tasks,
                 Answer(i) \/ RequestFails(i) \/ StartFetch(i) \/ OperationDone(i)
          PROVE  UNCHANGED <<user, lists, hazards>>
        BY <2>1 DEF Answer, RequestFails, StartFetch, OperationDone
    <2>2. ASSUME NEW u \in Users, NEW p \in People, OthersChange(u, p)
          PROVE  UNCHANGED <<user, lists, hazards>>
        BY <2>2 DEF OthersChange
    <2>3. ASSUME User
          PROVE  \/ UNCHANGED <<user, lists, hazards>>
                 \/ \E u \in Users : Login(u)
        BY <2>3 DEF User, Operate, OpenList, CheckNotification, Logout
    <2> QED
        BY <1>1, <1>2, <1>3, <1>4, <1>6, <2>1, <2>2, <2>3 DEF Next, Tasks
<1> QED
    BY <1>5, <1>6

\* Until a logout is answered late, a user is there while something is under
\* way and while the screens of the app are shown.
LEMMA SafeStep ==
    ASSUME TypeOK, TaskInv, SafeInv, [Next]_vars
    PROVE  SafeInv'
<1> USE DEF sessionVars, historyVars
<1> DEFINE bad == hazards \cap {"busy", "lateLogout"}
<1>1. CASE UNCHANGED vars
    BY <1>1 DEF vars, SafeInv
<1>2. ASSUME NEW i \in DOMAIN tasks, Tasks
      PROVE  SafeInv'
    <2>1. UNCHANGED <<user, screen>> /\ tasks # <<>>
        BY <1>2 DEF Tasks, Answer, RequestFails, StartFetch, FetchDone,
                    OperationDone
    <2>2. bad' = {} => bad = {}
        BY <1>2 DEF Tasks, Answer, RequestFails, StartFetch, FetchDone,
                    OperationDone
    <2>3. user # NoUser => crashed' = crashed
        BY <1>2 DEF Tasks, Answer, RequestFails, StartFetch, FetchDone,
                    OperationDone
    <2> QED
        BY <2>1, <2>2, <2>3 DEF SafeInv
<1>3. ASSUME NEW u \in Users, NEW p \in People, OthersChange(u, p)
      PROVE  SafeInv'
    BY <1>3 DEF OthersChange, SafeInv
<1>4. ASSUME NEW op, NEW p, Operate(op, p)
      PROVE  SafeInv'
    BY <1>4 DEF Operate, SafeInv
<1>5. ASSUME NEW k, NEW then, OpenList(k, then)
      PROVE  SafeInv'
    BY <1>5 DEF OpenList, SafeInv
<1>6. CASE Logout
    BY <1>6 DEF Logout, SafeInv
<1>7. ASSUME NEW u \in Users, Login(u), ~crashed
      PROVE  SafeInv'
    BY <1>7 DEF Login, SafeInv
<1>8. CASE LogoutDone
    <2>1. bad' = {} => bad = {} /\ tasks = <<>> /\ screen # "home"
        BY <1>8 DEF LogoutDone
    <2> QED
        BY <1>8, <2>1 DEF LogoutDone, SafeInv, TypeOK
<1>9. CASE Next
    BY <1>2, <1>3, <1>4, <1>5, <1>6, <1>7, <1>8, <1>9
    DEF Next, User, CheckNotification, Tasks
<1> QED
    BY <1>1, <1>9

-----------------------------------------------------------------------------
(* What the lists and the answers show                                     *)

\* What is good stays good.
Keeps(k) ==
    \A w \in Users : \A people : Good(w, k, people) => Good(w, k, people)'

\* The j-th answer is the n-th of before, and what was to come still is.
Carried(n, j, k) ==
    /\ Trusted(tasks[n], k)
    /\ tasks'[j].owner = tasks[n].owner /\ tasks'[j].data = tasks[n].data
    /\ Later(tasks, n, k) => Later(tasks', j, k)

\* The answers of a kind stay good if each was there before, the
\* server's list is good for what it was good for, and nothing that was to
\* come is lost.
LEMMA AnswersKept ==
    ASSUME TaskInv, NEW k \in Kinds, AnswersFor(k), Keeps(k),
           \A j \in DOMAIN tasks' :
              Trusted(tasks'[j], k) => \E n \in DOMAIN tasks : Carried(n, j, k)
    PROVE  AnswersFor(k)'
<1> SUFFICES ASSUME NEW j \in DOMAIN tasks', Trusted(tasks'[j], k)
             PROVE  \/ <<tasks'[j].owner, k>> \in outdated'
                    \/ tasks'[j].data = server'[tasks'[j].owner][k]
                    \/ Later(tasks', j, k)
    BY DEF AnswersFor, Trusted, Good
<1>1. PICK n \in DOMAIN tasks : Carried(n, j, k)
    OBVIOUS
<1>2. tasks[n].owner \in Users
    <2>1. tasks[n] \in Task /\ Proper(tasks[n])
        BY DEF TaskInv, AllProper
    <2>2. tasks[n].phase = "answered"
        BY <1>1, Zenon DEF Carried, Trusted
    <2> QED
        BY <2>1, <2>2 DEF Proper, Task
<1>3. Good(tasks[n].owner, k, tasks[n].data) \/ Later(tasks, n, k)
    BY <1>1 DEF Carried, AnswersFor
<1> QED
    BY <1>1, <1>2, <1>3 DEF Carried, Keeps, Good

\* So does a list.
LEMMA ListKept ==
    ASSUME NEW k \in Kinds, ListFor(k), Keeps(k), user \in Users, user' = user,
           lists'[k] = lists[k], k \in doubtful => k \in doubtful',
           Later(tasks, 0, k) => Later(tasks', 0, k)
    PROVE  ListFor(k)'
BY DEF ListFor, Keeps, Good

\* Where the server does not change, what is good stays good.
LEMMA SameKeeps ==
    ASSUME UNCHANGED <<server, outdated>>
    PROVE  \A k : Keeps(k)
BY DEF Keeps, Good

\* Others' changes are remembered.
LEMMA OthersCurrent ==
    ASSUME TypeOK, TaskInv, ListInv, AnswerInv,
           NEW u \in Users, NEW p \in People, OthersChange(u, p)
    PROVE  ListInv' /\ AnswerInv'
<1> USE DEF sessionVars
<1>1. ASSUME NEW w \in Users, NEW k \in Kinds, server'[w][k] # server[w][k]
      PROVE  <<w, k>> \in outdated'
    <2>1. w = u
        BY <1>1 DEF OthersChange, Gains, Loses, Moves, TypeOK
    <2> QED
        BY <1>1, <2>1 DEF OthersChange
<1>2. outdated \subseteq outdated'
    BY DEF OthersChange
<1>3. \A k \in Kinds : Keeps(k)
    BY <1>1, <1>2 DEF Keeps, Good
<1>4. UNCHANGED <<tasks, lists, user, doubtful>>
    BY DEF OthersChange
<1>5. \A k \in Kinds : AnswersFor(k)'
    BY <1>3, <1>4, AnswersKept DEF Carried, AnswerInv
<1>6. ASSUME user # NoUser, NEW k \in Kinds
      PROVE  ListFor(k)'
    <2>1. user \in Users
        BY <1>6 DEF TypeOK
    <2> QED
        BY <1>3, <1>4, <1>6, <2>1, ListKept DEF ListInv
<1> QED
    BY <1>4, <1>5, <1>6 DEF ListInv, AnswerInv

\* A step of a task that only moves it on.
LEMMA PhaseCurrent ==
    ASSUME TypeOK, TaskInv, ListInv, AnswerInv,
           UNCHANGED <<server, outdated, lists, user, doubtful>>,
           \A k \in Kinds : Later(tasks, 0, k) => Later(tasks', 0, k),
           \A j \in DOMAIN tasks', k \in Kinds :
              Trusted(tasks'[j], k) => \E n \in DOMAIN tasks : Carried(n, j, k)
    PROVE  ListInv' /\ AnswerInv'
<1>1. \A k \in Kinds : AnswersFor(k)'
    BY SameKeeps, AnswersKept DEF AnswerInv
<1>2. ASSUME user # NoUser, NEW k \in Kinds
      PROVE  ListFor(k)'
    <2>1. user \in Users
        BY <1>2 DEF TypeOK
    <2> QED
        BY <1>2, <2>1, SameKeeps, ListKept DEF ListInv
<1> QED
    BY <1>1, <1>2 DEF ListInv, AnswerInv

\* A task that has not been answered moves on and brings what it brought.
LEMMA ReplacedCurrent ==
    ASSUME TypeOK, TaskInv, ListInv, AnswerInv, NEW i \in DOMAIN tasks, NEW e,
           UNCHANGED <<server, outdated, lists, user, doubtful>>,
           tasks' = [tasks EXCEPT ![i] = e],
           e.phase # "answered" \/ KindOf(e) \notin Kinds,
           \A k \in Kinds :
              /\ Live(tasks[i]) /\ k \in ToSet(tasks[i].then)
                    => Live(e) /\ k \in ToSet(e.then)
              /\ Fetching(tasks[i], k) => Fetching(e, k)
    PROVE  ListInv' /\ AnswerInv'
<1>1. tasks \in Seq(Task)
    BY DEF TypeOK
<1>2. \A k \in Kinds : \A n : Later(tasks, n, k) => Later(tasks', n, k)
    BY <1>1, LaterReplaced
<1>3. /\ DOMAIN tasks' = DOMAIN tasks
      /\ \A j \in DOMAIN tasks : tasks'[j] = IF j = i THEN e ELSE tasks[j]
    BY <1>1
<1>4. ASSUME NEW j \in DOMAIN tasks', NEW k \in Kinds, Trusted(tasks'[j], k)
      PROVE  \E n \in DOMAIN tasks : Carried(n, j, k)
    <2>1. j # i
        BY <1>3, <1>4, Zenon DEF Trusted
    <2> QED
        BY <1>2, <1>3, <1>4, <2>1 DEF Carried
<1> QED
    BY <1>2, <1>4, PhaseCurrent

\* A task that brings nothing is given up.
LEMMA RemovedCurrent ==
    ASSUME TypeOK, TaskInv, ListInv, AnswerInv, NEW i \in DOMAIN tasks,
           UNCHANGED <<server, outdated, lists, user, doubtful>>,
           tasks' = RemoveAt(tasks, i),
           \A k \in Kinds : /\ ~(Live(tasks[i]) /\ k \in ToSet(tasks[i].then))
                           /\ ~Fetching(tasks[i], k)
    PROVE  ListInv' /\ AnswerInv'
<1>1. tasks \in Seq(Task)
    BY DEF TypeOK
<1>2. /\ i \in 1 .. Len(tasks) /\ Len(tasks) \in Nat
      /\ DOMAIN tasks' = 1 .. Len(tasks) - 1
      /\ \A j \in 1 .. Len(tasks) - 1 :
            tasks'[j] = IF j < i THEN tasks[j] ELSE tasks[j + 1]
    BY <1>1, RemoveAtValue
<1>3. ASSUME NEW k \in Kinds, NEW m \in 0 .. Len(tasks) - 1
      PROVE  LET n == IF m < i THEN m ELSE m + 1
             IN  Later(tasks, n, k) => Later(tasks', m, k)
    BY <1>1, LaterRemoved
<1>4. \A k \in Kinds : Later(tasks, 0, k) => Later(tasks', 0, k)
    BY <1>2, <1>3
<1>5. ASSUME NEW j \in DOMAIN tasks', NEW k \in Kinds, Trusted(tasks'[j], k)
      PROVE  \E n \in DOMAIN tasks : Carried(n, j, k)
    <2> DEFINE n == IF j < i THEN j ELSE j + 1
    <2>1. n \in DOMAIN tasks /\ tasks'[j] = tasks[n] /\ j \in 0 .. Len(tasks) - 1
        BY <1>2
    <2>2. Later(tasks, n, k) => Later(tasks', j, k)
        BY <1>3, <2>1
    <2> HIDE DEF n
    <2> QED
        BY <1>5, <2>1, <2>2 DEF Carried
<1> QED
    BY <1>4, <1>5, PhaseCurrent

\* New tasks come behind the others.
LEMMA AppendedCurrent ==
    ASSUME TypeOK, TaskInv, ListInv, AnswerInv, NEW t \in Seq(Task),
           \A j \in DOMAIN t : t[j].phase # "answered",
           tasks' = tasks \o t, UNCHANGED <<server, outdated>>
    PROVE  /\ AnswerInv'
           /\ UNCHANGED <<lists, user, doubtful>> => ListInv'
<1>1. tasks \in Seq(Task)
    BY DEF TypeOK
<1>2. \A k \in Kinds : \A n : Later(tasks, n, k) => Later(tasks', n, k)
    BY <1>1, LaterAppended
<1>3. /\ DOMAIN tasks = 1 .. Len(tasks) /\ Len(tasks) \in Nat
      /\ DOMAIN tasks' = 1 .. Len(tasks) + Len(t)
      /\ \A j \in DOMAIN tasks' :
            tasks'[j] = IF j <= Len(tasks) THEN tasks[j] ELSE t[j - Len(tasks)]
    BY <1>1, ConcatProperties
<1>4. ASSUME NEW j \in DOMAIN tasks', NEW k \in Kinds, Trusted(tasks'[j], k)
      PROVE  \E n \in DOMAIN tasks : Carried(n, j, k)
    <2>1. j \in DOMAIN tasks
        <3>1. ASSUME j \notin DOMAIN tasks
              PROVE  j - Len(tasks) \in DOMAIN t /\ tasks'[j] = t[j - Len(tasks)]
            BY <1>3, <3>1
        <3> QED
            BY <1>4, <3>1, Zenon DEF Trusted
    <2>2. tasks'[j] = tasks[j]
        BY <1>3, <2>1
    <2> QED
        BY <1>2, <1>4, <2>1, <2>2 DEF Carried
<1>5. AnswerInv'
    BY <1>4, SameKeeps, AnswersKept DEF AnswerInv
<1>6. UNCHANGED <<lists, user, doubtful>> => ListInv'
    BY <1>2, <1>4, PhaseCurrent
<1> QED
    BY <1>5, <1>6

\* An operation fetches no list itself.
LEMMA OperationFetches ==
    ASSUME NEW task, task.do \in Operations
    PROVE  KindOf(task) \notin Kinds /\ \A k \in Kinds : ~Fetching(task, k)
<1>1. task.do # "check"
    BY KindsApart
<1> QED
    BY <1>1, KindsApart DEF KindOf, Fetching

\* A request that fails brought nothing yet.
LEMMA FailsCurrent ==
    ASSUME TypeOK, TaskInv, ListInv, AnswerInv, NEW i \in DOMAIN tasks,
           RequestFails(i)
    PROVE  ListInv' /\ AnswerInv'
<1> DEFINE task == tasks[i]
           e == [task EXCEPT !.phase = "failed"]
<1>1. task \in Task /\ task.phase = "sent"
    BY TaskPhases DEF RequestFails
<1>2. /\ e.phase = "failed" /\ e.do = task.do /\ e.then = task.then
    BY <1>1 DEF Task
<1>3. tasks' = [tasks EXCEPT ![i] = e]
    BY DEF RequestFails, InPhase
<1> HIDE DEF e
<1>4. ASSUME NEW k \in Kinds
      PROVE  /\ Live(task) => Live(e)
             /\ Fetching(task, k) => Fetching(e, k)
    BY <1>1, <1>2 DEF Live, Fetching, KindOf
<1>5. e.phase # "answered"
    BY <1>2
<1> QED
    BY <1>2, <1>3, <1>4, <1>5, ReplacedCurrent
    DEF RequestFails, sessionVars, historyVars

\* A fetch that starts brings what it was queued to bring; a check that is
\* given up was to bring nothing.
LEMMA StartCurrent ==
    ASSUME TypeOK, TaskInv, ListInv, AnswerInv, NEW i \in DOMAIN tasks,
           StartFetch(i)
    PROVE  ListInv' /\ AnswerInv'
<1> DEFINE task == tasks[i]
           e == [task EXCEPT !.phase = "sent", !.owner = user]
<1>1. task \in Task /\ Proper(task) /\ task.phase = "queued"
    BY TaskPhases DEF StartFetch
<1>2. UNCHANGED <<server, outdated, lists, user, doubtful>>
    BY DEF StartFetch, sessionVars, historyVars
<1>3. CASE tasks' = [tasks EXCEPT ![i] = e]
    <2>1. e.phase = "sent" /\ e.do = task.do /\ e.then = task.then
        BY <1>1 DEF Task
    <2> HIDE DEF e
    <2>2. ASSUME NEW k \in Kinds
          PROVE  /\ Live(task) => Live(e)
                 /\ Fetching(task, k) => Fetching(e, k)
        BY <1>1, <2>1 DEF Live, Fetching, KindOf
    <2>3. e.phase # "answered"
        BY <2>1
    <2> QED
        BY <1>2, <1>3, <2>1, <2>2, <2>3, ReplacedCurrent
<1>4. CASE task.do = "check" /\ tasks' = RemoveAt(tasks, i)
    <2>1. task.then = <<>>
        BY <1>1, <1>4 DEF Proper
    <2>2. \A k : k \notin ToSet(task.then) /\ ~Fetching(task, k)
        BY <1>1, <1>4, <2>1 DEF ToSet, Fetching
    <2> QED
        BY <1>2, <1>4, <2>2, RemovedCurrent
<1>5. CASE tasks' = tasks
    <2>1. \A j \in DOMAIN tasks', k \in Kinds :
              Trusted(tasks'[j], k) => \E n \in DOMAIN tasks : Carried(n, j, k)
        BY <1>5 DEF Carried
    <2> QED
        BY <1>2, <1>5, <2>1, PhaseCurrent
<1> QED
    BY <1>3, <1>4, <1>5 DEF StartFetch

\* The rest of a chain brings what the chain was to bring.
LEMMA OperationCurrent ==
    ASSUME TypeOK, TaskInv, ListInv, AnswerInv, NEW i \in DOMAIN tasks,
           OperationDone(i)
    PROVE  ListInv' /\ AnswerInv'
<1>1. /\ UNCHANGED <<server, outdated, lists, user, doubtful>>
      /\ tasks \in Seq(Task)
    BY DEF OperationDone, sessionVars, historyVars, TypeOK
<1>2. /\ KindOf(tasks[i]) \notin Kinds
      /\ \A k \in Kinds : ~Fetching(tasks[i], k)
    BY OperationFetches DEF OperationDone
<1>3. CASE tasks[i].phase = "answered"
    <2>1. tasks' = Onward(i) /\ Live(tasks[i])
        BY <1>3 DEF OperationDone, Live
    <2>2. ASSUME NEW k \in Kinds, Later(tasks, 0, k)
          PROVE  Later(tasks, i, k)
        BY <1>2, <2>2 DEF Later
    <2>3. \A k \in Kinds : Later(tasks, 0, k) => Later(tasks', 0, k)
        BY <1>1, <2>1, <2>2, OnwardStep
    <2>4. ASSUME NEW j \in DOMAIN tasks', NEW k \in Kinds, Trusted(tasks'[j], k)
          PROVE  \E n \in DOMAIN tasks : Carried(n, j, k)
        <3>1. \A then, l : Queued(l, then).phase # "answered"
            BY DEF Queued, NewTask
        <3>2. \A then, l : tasks'[j] # Queued(l, then)
            BY <2>4, <3>1, Zenon DEF Trusted
        <3>3. PICK n \in DOMAIN tasks \ {i} :
                  /\ Kept(tasks', j, n)
                  /\ \A l \in Kinds : l # KindOf(tasks[i]) /\ Later(tasks, n, l)
                        => Later(tasks', j, l)
            BY <1>1, <2>1, <3>2, OnwardStep
        <3> QED
            BY <1>2, <2>4, <3>3 DEF Carried, Kept
    <2> QED
        BY <1>1, <2>3, <2>4, PhaseCurrent
<1>4. CASE tasks[i].phase # "answered"
    <2>1. tasks' = RemoveAt(tasks, i) /\ ~Live(tasks[i])
        BY <1>4 DEF OperationDone, Live
    <2> QED
        BY <1>1, <1>2, <2>1, RemovedCurrent
<1> QED
    BY <1>3, <1>4

\* A list is replaced by an answer that was good, or that a later one of the
\* same list follows.
LEMMA FetchCurrent ==
    ASSUME TypeOK, TaskInv, ListInv, AnswerInv, NEW i \in DOMAIN tasks,
           FetchDone(i)
    PROVE  ListInv' /\ AnswerInv'
<1> DEFINE task == tasks[i]
           kind == KindOf(task)
           rest == Onward(i)
<1>1. /\ UNCHANGED <<server, outdated, user>> /\ tasks \in Seq(Task)
      /\ tasks' = Overtake(rest, {kind})
      /\ \A k \in Kinds \ {kind} : lists'[k] = lists[k]
      /\ Live(task)
    BY DEF FetchDone, sessionVars, TypeOK, Live
<1>2. /\ rest \in Seq(Task)
      /\ \A k \in Kinds : Later(tasks, i, k) => Later(rest, 0, k)
    BY <1>1, OnwardStep
<1>3. \A k, m : Later(rest, m, k) => Later(tasks', m, k)
    BY <1>1, <1>2, LaterOvertaken
<1>4. ASSUME NEW k \in Kinds \ {kind}, Later(tasks, 0, k)
      PROVE  Later(tasks', 0, k)
    <2>1. Later(tasks, i, k)
        BY <1>4 DEF Later, Fetching
    <2> QED
        BY <1>2, <1>3, <2>1
<1>5. DOMAIN tasks' = DOMAIN rest
    BY <1>1 DEF Overtake
<1>6. ASSUME NEW j \in DOMAIN tasks', NEW k \in Kinds, Trusted(tasks'[j], k)
      PROVE  k # kind /\ tasks'[j] = rest[j]
    <2>1. rest[j] \in Task
        BY <1>2, <1>5
    <2>2. CASE KindOf(rest[j]) = kind /\ rest[j].phase = "answered"
        <3>1. tasks'[j] = [rest[j] EXCEPT !.overtaken = TRUE]
            BY <1>1, <1>5, <2>2 DEF Overtake
        <3>2. tasks'[j].overtaken
            BY <2>1, <3>1 DEF Task
        <3> QED
            BY <1>6, <3>2 DEF Trusted
    <2>3. CASE ~(KindOf(rest[j]) = kind /\ rest[j].phase = "answered")
        <3>1. tasks'[j] = rest[j]
            BY <1>1, <1>5, <2>3 DEF Overtake
        <3> QED
            BY <1>6, <2>3, <3>1 DEF Trusted
    <2> QED
        BY <2>2, <2>3
<1>7. ASSUME NEW j \in DOMAIN tasks', NEW k \in Kinds, Trusted(tasks'[j], k)
      PROVE  \E n \in DOMAIN tasks : Carried(n, j, k)
    <2>1. k # kind /\ tasks'[j] = rest[j]
        BY <1>6, <1>7
    <2>2. \A then, l : Queued(l, then).phase # "answered"
        BY DEF Queued, NewTask
    <2>3. \A then, l : rest[j] # Queued(l, then)
        BY <1>7, <2>1, <2>2, Zenon DEF Trusted
    <2>4. PICK n \in DOMAIN tasks \ {i} :
              /\ Kept(rest, j, n)
              /\ \A l \in Kinds : l # kind /\ Later(tasks, n, l)
                    => Later(rest, j, l)
        BY <1>1, <1>5, <2>3, OnwardStep
    <2> QED
        BY <1>3, <1>7, <2>1, <2>4 DEF Carried, Kept
<1>8. AnswerInv'
    BY <1>1, <1>7, SameKeeps, AnswersKept DEF AnswerInv
<1>9. ASSUME user # NoUser, NEW k \in Kinds
      PROVE  ListFor(k)'
    <2>1. user \in Users /\ k \in Kinds
        BY <1>9 DEF TypeOK
    <2>2. CASE k # kind
        <3>1. k \in doubtful => k \in doubtful'
            BY <2>2 DEF FetchDone
        <3> QED
            BY <1>1, <1>4, <1>9, <2>1, <2>2, <3>1, SameKeeps, ListKept
            DEF ListInv
    <2>3. CASE k = kind /\ k \notin doubtful'
        <3>1. task.phase = "answered" /\ ~task.overtaken /\ task.owner = user
            BY <2>3 DEF FetchDone
        <3>2. lists'[k].people = task.data
            BY <2>1, <2>3, <3>1 DEF FetchDone, Fetched, TypeOK
        <3>3. Good(task.owner, k, task.data) \/ Later(tasks, i, k)
            BY <1>9, <2>3, <3>1 DEF AnswerInv, AnswersFor, Trusted
        <3>4. Later(tasks, i, k) => Later(tasks', 0, k)
            BY <1>2, <1>3, <2>1
        <3> HIDE DEF task
        <3> QED
            BY <1>1, <3>1, <3>2, <3>3, <3>4 DEF Good, ListFor
    <2> QED
        BY <2>2, <2>3 DEF ListFor
<1> QED
    BY <1>1, <1>8, <1>9 DEF ListInv

\* An operation changes lists that the rest of its chain fetches and lists
\* that are doubtful from then on.
LEMMA PerformedCurrent ==
    ASSUME TypeOK, TaskInv, ListInv, AnswerInv, NEW i \in DOMAIN tasks,
           Answer(i), tasks[i].do \in Operations
    PROVE  ListInv' /\ AnswerInv'
<1> DEFINE task == tasks[i]
<1>1. /\ task \in Task /\ Proper(task) /\ task.phase = "sent"
      /\ task.owner \in Users /\ task.person \in People
      /\ task.then = Then(task.do) /\ task.do \in Operations
    BY TaskPhases DEF Answer, Proper
<1>2. /\ UNCHANGED <<outdated, lists, user>> /\ tasks \in Seq(Task)
    BY DEF Answer, sessionVars, TypeOK
<1>3. ASSUME NEW k \in Kinds \ (ToSet(Then(task.do)) \cup Unfetched(task.do))
      PROVE  Keeps(k)
    <2>1. server \in Server /\ server' \in Performed(task)
        BY DEF Answer, TypeOK, Server
    <2> HIDE DEF task
    <2>2. \A u \in Users : server'[u][k] = server[u][k]
        BY <1>1, <1>3, <2>1, PerformedStep
    <2> QED
        BY <1>2, <2>2 DEF Keeps, Good
<1>4. KindOf(task) \notin Kinds /\ \A k \in Kinds : ~Fetching(task, k)
    BY OperationFetches
<1>5. ASSUME NEW k \in Kinds, NEW n, NEW phase, Later(tasks, n, k)
      PROVE  Later(InPhase(i, phase), n, k)
    <2> DEFINE e == [task EXCEPT !.phase = phase]
    <2>1. ~Live(task) /\ ~Fetching(task, k)
        BY <1>1, <1>4 DEF Live
    <2>2. InPhase(i, phase) = [tasks EXCEPT ![i] = e]
        BY DEF InPhase
    <2> HIDE DEF e
    <2>3. tasks \in Seq(Task)
        BY <1>2
    <2>4. Later([tasks EXCEPT ![i] = e], n, k)
        BY <1>5, <2>1, <2>3, LaterReplaced
    <2> QED
        BY <2>2, <2>4
<1>6. ASSUME NEW phase, NEW j \in DOMAIN InPhase(i, phase), NEW k \in Kinds,
             Trusted(InPhase(i, phase)[j], k)
      PROVE  j \in DOMAIN tasks /\ InPhase(i, phase)[j] = tasks[j]
    <2> DEFINE e == [task EXCEPT !.phase = phase]
    <2>1. KindOf(e) = KindOf(task)
        BY <1>1 DEF KindOf, Task
    <2>2. j \in DOMAIN tasks
        BY DEF InPhase
    <2>3. InPhase(i, phase)[j] = IF j = i THEN e ELSE tasks[j]
        BY <2>2 DEF InPhase
    <2> HIDE DEF e
    <2>4. j # i
        BY <1>4, <1>6, <2>1, <2>3 DEF Trusted
    <2> QED
        BY <2>2, <2>3, <2>4
<1>7. PICK phase \in {"answered", "failed"} :
         /\ tasks' = Overtake(InPhase(i, phase), Missed(task.do, phase))
         /\ doubtful' = doubtful \cup Missed(task.do, phase)
    BY DEF Answer
<1> DEFINE s == InPhase(i, phase)
           missed == Missed(task.do, phase)
<1>8. s \in Seq(Task)
    BY <1>1, ProperPhase DEF AllProper, TaskInv
<1>9. \A k \in Kinds : \A n : Later(s, n, k) => Later(tasks', n, k)
    BY <1>7, <1>8, LaterOvertaken
<1>10. \A k \in Kinds : \A n : Later(tasks, n, k) => Later(tasks', n, k)
    BY <1>5, <1>9
<1>11. ASSUME NEW k \in Kinds, k \in ToSet(Then(task.do)), phase = "answered", NEW n
       PROVE  Later(tasks', n, k)
    <2> DEFINE e == [task EXCEPT !.phase = phase]
    <2>1. e.phase = "answered" /\ e.then = Then(task.do)
        BY <1>1, <1>11 DEF Task
    <2>2. i \in DOMAIN s /\ s[i] = e
        BY <1>2 DEF InPhase
    <2> HIDE DEF e
    <2>3. Later(s, n, k)
        BY <1>11, <2>1, <2>2 DEF Later, Live
    <2> QED
        BY <1>9, <2>3
<1>12. ASSUME NEW k \in Kinds \ missed
       PROVE  Keeps(k) \/ \A n : Later(tasks', n, k)
    <2>1. CASE phase = "answered"
        BY <1>3, <1>11, <2>1, <1>12 DEF Missed
    <2>2. CASE phase = "failed"
        BY <1>3, <2>2, <1>12 DEF Missed
    <2> QED
        BY <1>7, <2>1, <2>2
<1>13. ASSUME NEW j \in DOMAIN tasks', NEW k \in Kinds, Trusted(tasks'[j], k)
       PROVE  k \notin missed /\ \E n \in DOMAIN tasks : Carried(n, j, k)
    <2>1. j \in DOMAIN s /\ s[j] \in Task
        BY <1>7, <1>8 DEF Overtake
    <2> HIDE DEF s, missed
    <2>2. CASE KindOf(s[j]) \in missed /\ s[j].phase = "answered"
        <3>1. tasks'[j] = [s[j] EXCEPT !.overtaken = TRUE]
            BY <1>7, <2>1, <2>2 DEF Overtake, s, missed
        <3>2. tasks'[j].overtaken
            BY <2>1, <3>1 DEF Task
        <3> QED
            BY <1>13, <3>2 DEF Trusted
    <2>3. CASE ~(KindOf(s[j]) \in missed /\ s[j].phase = "answered")
        <3>1. tasks'[j] = s[j]
            BY <1>7, <2>1, <2>3 DEF Overtake, s, missed
        <3>2. k \notin missed
            BY <1>13, <2>3, <3>1 DEF Trusted
        <3>3. j \in DOMAIN tasks /\ s[j] = tasks[j]
            BY <1>6, <1>13, <2>1, <3>1 DEF s
        <3> QED
            BY <1>10, <1>13, <3>1, <3>2, <3>3 DEF Carried
    <2> QED
        BY <2>2, <2>3
<1> HIDE DEF s, missed
<1>14. ASSUME NEW k \in Kinds
       PROVE  AnswersFor(k)'
    <2>1. CASE k \in missed
        BY <1>13, <2>1 DEF AnswersFor
    <2>2. CASE k \notin missed /\ Keeps(k)
        BY <1>13, <2>2, AnswersKept DEF AnswerInv
    <2>3. CASE \A n : Later(tasks', n, k)
        BY <2>3 DEF AnswersFor
    <2> QED
        BY <1>12, <2>1, <2>2, <2>3
<1>15. ASSUME user # NoUser, NEW k \in Kinds
       PROVE  ListFor(k)'
    <2>1. CASE k \in missed
        BY <1>7, <2>1 DEF ListFor, missed
    <2>2. CASE k \notin missed /\ Keeps(k)
        <3>1. user \in Users /\ doubtful \subseteq doubtful'
            BY <1>7, <1>15 DEF TypeOK
        <3> QED
            BY <1>2, <1>10, <1>15, <2>2, <3>1, ListKept DEF ListInv
    <2>3. CASE \A n : Later(tasks', n, k)
        BY <2>3 DEF ListFor
    <2> QED
        BY <1>12, <2>1, <2>2, <2>3
<1> QED
    BY <1>2, <1>14, <1>15 DEF ListInv, AnswerInv

\* A fetch is answered with what the server has.
LEMMA AnsweredCurrent ==
    ASSUME TypeOK, TaskInv, ListInv, AnswerInv, NEW i \in DOMAIN tasks,
           Answer(i), tasks[i].do \notin Operations
    PROVE  ListInv' /\ AnswerInv'
<1> DEFINE task == tasks[i]
           kind == KindOf(task)
           d == server[task.owner][kind]
           e == [task EXCEPT !.phase = "answered", !.data = d]
<1>1. task \in Task /\ Proper(task) /\ task.phase = "sent"
    BY TaskPhases DEF Answer
<1>2. /\ UNCHANGED <<server, lists, user, doubtful>> /\ tasks \in Seq(Task)
      /\ outdated' = outdated \ {<<task.owner, kind>>}
      /\ tasks' = [tasks EXCEPT ![i] = e]
    BY DEF Answer, sessionVars, TypeOK
<1>3. /\ e.phase = "answered" /\ e.do = task.do /\ e.then = task.then
      /\ e.owner = task.owner /\ e.data = d
    BY <1>1 DEF Task
<1> HIDE DEF e
<1>4. /\ DOMAIN tasks' = DOMAIN tasks
      /\ \A j \in DOMAIN tasks : tasks'[j] = IF j = i THEN e ELSE tasks[j]
    BY <1>2
<1>5. /\ Live(task) => Live(e)
      /\ \A k : Fetching(task, k) => Fetching(e, k)
    BY <1>1, <1>3 DEF Live, Fetching, KindOf
<1>6. \A k \in Kinds : \A n : Later(tasks, n, k) => Later(tasks', n, k)
    BY <1>2, <1>3, <1>5, LaterReplaced
<1>7. ASSUME NEW n, n # i
      PROVE  Later(tasks', n, kind)
    <2>1. Fetching(e, kind)
        BY <1>3 DEF Fetching, KindOf
    <2> QED
        BY <1>4, <1>7, <2>1 DEF Later
<1>8. \A k \in Kinds \ {kind} : Keeps(k)
    BY <1>2 DEF Keeps, Good
<1>9. ASSUME NEW k \in Kinds
      PROVE  AnswersFor(k)'
    <2>1. CASE k = kind
        <3>1. ASSUME NEW j \in DOMAIN tasks'
              PROVE  \/ tasks'[j].data = server'[tasks'[j].owner][k]
                     \/ Later(tasks', j, k)
            <4>1. CASE j = i
                BY <1>2, <1>3, <1>4, <2>1, <4>1
            <4>2. CASE j # i
                BY <1>7, <2>1, <4>2
            <4> QED
                BY <4>1, <4>2
        <3> QED
            BY <3>1 DEF AnswersFor, Good
    <2>2. CASE k # kind
        <3>1. ASSUME NEW j \in DOMAIN tasks', Trusted(tasks'[j], k)
              PROVE  \E n \in DOMAIN tasks : Carried(n, j, k)
            <4>1. KindOf(e) = kind
                BY <1>3 DEF KindOf
            <4>2. j # i
                BY <1>4, <2>2, <3>1, <4>1, Zenon DEF Trusted
            <4> QED
                BY <1>4, <1>6, <3>1, <4>2 DEF Carried
        <3> QED
            BY <1>8, <2>2, <3>1, AnswersKept DEF AnswerInv
    <2> QED
        BY <2>1, <2>2
<1>10. ASSUME user # NoUser, NEW k \in Kinds
       PROVE  ListFor(k)'
    <2>1. user \in Users
        BY <1>10 DEF TypeOK
    <2>2. CASE k = kind
        <3>1. 0 # i
            BY <1>2
        <3> QED
            BY <1>7, <2>2, <3>1 DEF ListFor
    <2>3. CASE k # kind
        BY <1>2, <1>6, <1>8, <1>10, <2>1, <2>3, ListKept DEF ListInv
    <2> QED
        BY <2>2, <2>3
<1> QED
    BY <1>2, <1>9, <1>10 DEF ListInv, AnswerInv

\* What the user begins comes behind the tasks under way; a login makes every
\* list doubtful until it is fetched; without a user no list is shown.
LEMMA UserCurrent ==
    ASSUME TypeOK, TaskInv, ListInv, AnswerInv, User \/ LogoutDone
    PROVE  ListInv' /\ AnswerInv'
<1> USE DEF sessionVars, historyVars
<1>1. ASSUME UNCHANGED <<server, outdated, tasks>>
      PROVE  /\ AnswerInv'
             /\ UNCHANGED <<lists, user, doubtful>> => ListInv'
    <2>1. \A k \in Kinds : AnswersFor(k)'
        BY <1>1, SameKeeps, AnswersKept DEF Carried, AnswerInv
    <2>2. \A j \in DOMAIN tasks', k \in Kinds :
              Trusted(tasks'[j], k) => \E n \in DOMAIN tasks : Carried(n, j, k)
        BY <1>1 DEF Carried
    <2>3. UNCHANGED <<lists, user, doubtful>> => ListInv'
        BY <1>1, <2>2, PhaseCurrent
    <2> QED
        BY <2>1, <2>3 DEF AnswerInv
<1>2. ASSUME NEW op \in Operations, NEW p \in People, Operate(op, p)
      PROVE  ListInv' /\ AnswerInv'
    <2> DEFINE e == NewTask(op, p, user, Then(op), "sent")
    <2>1. UNCHANGED <<server, outdated, lists, user, doubtful>>
        BY <1>2 DEF Operate
    <2>2. CASE user = NoUser
        BY <1>1, <1>2, <2>1, <2>2 DEF Operate
    <2>3. CASE user # NoUser
        <3>1. e \in Task /\ e.phase = "sent"
            <4>1. user \in Users
                BY <2>3 DEF TypeOK
            <4>2. Then(op) \in Seq(Kinds)
                BY ThenType
            <4> QED
                BY <4>1, <4>2 DEF NewTask, Task
        <3>2. tasks' = Append(tasks, e)
            BY <1>2, <2>3 DEF Operate
        <3> HIDE DEF e
        <3>3. tasks' = tasks \o <<e>>
            BY <3>1, <3>2, AppendIsConcat DEF TypeOK
        <3>4. <<e>> \in Seq(Task) /\ \A j \in DOMAIN <<e>> : <<e>>[j].phase = "sent"
            BY <3>1
        <3> QED
            BY <2>1, <3>3, <3>4, AppendedCurrent
    <2> QED
        BY <2>2, <2>3
<1>3. \A c \in Chains : /\ c \in Seq(Task)
                       /\ \A j \in DOMAIN c : c[j].phase = "queued"
    <2>1. \A k, then : Queued(k, then).phase = "queued"
        BY DEF Queued, NewTask
    <2>2. \A c \in Chains : \A j \in DOMAIN c : \E k, then : c[j] = Queued(k, then)
        BY DEF Chains
    <2> QED
        BY <2>1, <2>2, ChainsProper
<1>4. ASSUME NEW k, NEW then, OpenList(k, then), <<Queued(k, then)>> \in Chains
      PROVE  ListInv' /\ AnswerInv'
    <2> DEFINE e == Queued(k, then)
    <2>1. <<e>> \in Seq(Task) /\ \A j \in DOMAIN <<e>> : <<e>>[j].phase = "queued"
        BY <1>3, <1>4
    <2>2. e \in Task
        <3>1. <<e>>[1] \in Task
            BY <2>1
        <3> QED
            BY <3>1
    <2>3. /\ UNCHANGED <<server, outdated, lists, user, doubtful>>
          /\ tasks' = Append(tasks, e)
        BY <1>4 DEF OpenList
    <2> HIDE DEF e
    <2>4. tasks' = tasks \o <<e>>
        BY <2>2, <2>3, AppendIsConcat DEF TypeOK
    <2> QED
        BY <2>1, <2>3, <2>4, AppendedCurrent
<1>5. CASE Logout
    BY <1>1, <1>5 DEF Logout
<1>6. ASSUME NEW u \in Users, Login(u)
      PROVE  ListInv' /\ AnswerInv'
    <2>1. PICK c \in Chains : tasks' = tasks \o c
        BY <1>6 DEF Login, Chains
    <2>2. UNCHANGED <<server, outdated>> /\ doubtful' = Kinds
        BY <1>6 DEF Login
    <2>3. AnswerInv'
        BY <1>3, <2>1, <2>2, AppendedCurrent
    <2> QED
        BY <2>2, <2>3 DEF ListInv, ListFor
<1>7. CASE LogoutDone
    BY <1>1, <1>7 DEF LogoutDone, ListInv
<1> QED
    BY <1>2, <1>4, <1>5, <1>6, <1>7 DEF User, CheckNotification, Chains

\* The lists and the answers after any step.
LEMMA CurrentStep ==
    ASSUME TypeOK, TaskInv, ListInv, AnswerInv, [Next]_vars
    PROVE  ListInv' /\ AnswerInv'
<1>1. CASE UNCHANGED vars
    <2>1. /\ UNCHANGED <<server, outdated, lists, user, doubtful>>
          /\ tasks' = tasks
        BY <1>1 DEF vars, sessionVars, historyVars
    <2>2. \A j \in DOMAIN tasks', k \in Kinds :
              Trusted(tasks'[j], k) => \E n \in DOMAIN tasks : Carried(n, j, k)
        BY <2>1 DEF Carried
    <2> QED
        BY <2>1, <2>2, PhaseCurrent
<1>2. CASE Next
    BY <1>2, OthersCurrent, FailsCurrent, StartCurrent, OperationCurrent,
       FetchCurrent, PerformedCurrent, AnsweredCurrent, UserCurrent
    DEF Next, Tasks
<1> QED
    BY <1>1, <1>2

-----------------------------------------------------------------------------
(* The theorems                                                            *)

\* The invariant holds when the app is first used.
LEMMA InitInv == Init => FriendInv
<1> SUFFICES ASSUME Init
             PROVE  FriendInv
    OBVIOUS
<1> USE DEF Init
<1>1. server \in Server /\ tasks \in Seq(Task) /\ DOMAIN tasks = {}
    BY DEF Server
<1>2. TypeOK
    <2>1. /\ lists \in [Kinds -> AList]
          /\ \A k \in Kinds : lists[k].people = {}
        BY DEF AList, Empty
    <2>2. server \in [Users -> [Kinds -> SUBSET People]]
        BY <1>1 DEF Server
    <2>3. /\ user \in Users \cup {NoUser} /\ screen \in {"landing", "home"}
          /\ logins \in 0..MaxLogins /\ logouts \in 0..MaxLogins
          /\ events \in 0..MaxEvents
        OBVIOUS
    <2>4. /\ outdated \subseteq Users \X Kinds /\ doubtful \subseteq Kinds
          /\ hazards \subseteq Hazards
        OBVIOUS
    <2>5. crashed \in BOOLEAN
        OBVIOUS
    <2> HIDE DEF Init
    <2> QED
        BY <1>1, <2>1, <2>2, <2>3, <2>4, <2>5 DEF TypeOK
<1>3. TaskInv /\ LoginInv /\ SafeInv
    BY <1>1 DEF TaskInv, AllProper, LoginInv, SafeInv
<1>4. ListInv /\ AnswerInv /\ OwnLists
    BY <1>1 DEF ListInv, AnswerInv, AnswersFor, OwnLists
<1> QED
    BY <1>2, <1>3, <1>4 DEF FriendInv

\* It is kept by every step.
LEMMA InvStep == FriendInv /\ [Next]_vars => FriendInv'
BY TypeStep, CurrentStep, SafeStep, OwnListsStep DEF FriendInv

\* It always holds.
LEMMA InvAlways == Spec => []FriendInv
<1> QED
    BY InitInv, InvStep, PTL DEF Spec

\* The lists, the requests under way and the counts keep their types.
THEOREM TypeCorrect == Spec => []TypeOK
<1>1. FriendInv => TypeOK
    BY DEF FriendInv
<1> QED
    BY <1>1, InvAlways, PTL

\* The lists a user sees are his own unless an answer came late: an answer
\* does not say whose it is, but replaces a list as its fetch's user's.
THEOREM OwnListsTheorem == Spec => []OwnLists
<1>1. FriendInv => OwnLists
    BY DEF FriendInv
<1> QED
    BY <1>1, InvAlways, PTL

\* No request is made without a user unless a logout was answered with tasks
\* under way or after the next login.
THEOREM NoCrashTheorem == Spec => []NoCrash
<1>1. FriendInv => NoCrash
    BY DEF FriendInv, SafeInv, NoCrash
<1> QED
    BY <1>1, InvAlways, PTL

\* When nothing is under way, the lists show what the server has, the
\* followers too, but for what others changed and for the lists that missed a
\* change: of those that an operation changes itself, only the followers
\* after an acceptance.
THEOREM ListsTheorem == Spec => []ListsAreCurrent
<1>1. ASSUME FriendInv
      PROVE  ListsAreCurrent
    <2> SUFFICES ASSUME user # NoUser, tasks = <<>>,
                        NEW k \in Kinds \ doubtful,
                        <<user, k>> \notin outdated
                 PROVE  lists[k].people = server[user][k]
        BY DEF ListsAreCurrent
    <2>1. ListFor(k)
        BY <1>1 DEF FriendInv, ListInv
    <2>2. ~Later(tasks, 0, k)
        BY DEF Later
    <2> QED
        BY <2>1, <2>2 DEF ListFor, Good
<1> QED
    BY <1>1, InvAlways, PTL
===============================================================================
