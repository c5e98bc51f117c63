---------------------------- MODULE FriendManage ----------------------------
(***************************************************************************)
(* The copies of the friend lists that FriendManageService keeps, and the  *)
(* session they belong to.  An operation on a friend is a request to the   *)
(* server whose success sets off a chain of fetches; IANoticeManageService *)
(* brings the received requests as well.  Every fetch starts in a block on *)
(* a global queue, which reads the user of that moment, and replaces its   *)
(* list when its answer comes, whoever is logged in by then.  Logging out  *)
(* shows the landing screen at once and forgets the user when the server   *)
(* has answered.                                                           *)
(***************************************************************************)
EXTENDS Naturals, Sequences, FiniteSets, SequencesExt

CONSTANTS Users,      \* accounts used on this device
          People,     \* the others
          NoUser,
          Before,     \* what the server may have when the app is first used
          MaxEvents,  \* bound: chains of requests, and changes of others
          MaxLogins   \* bound: logins

Kinds == {"friends", "followers", "received", "sent"}
Operations == {"request", "accept", "remove", "decline", "cancel"}

ASSUME NoUserAssumption == NoUser \notin Users
ASSUME BeforeAssumption == Before \subseteq [Users -> [Kinds -> SUBSET People]]
ASSUME BoundsAssumption ==
    MaxEvents \in Nat /\ MaxLogins \in Nat

VARIABLES
    server,    \* the lists of every account
    user,      \* Global getOCUser
    screen,    \* the screens of the app, or the landing screen
    logins,    \* bound: logins so far
    logouts,   \* Logout requests that are not answered
    lists,     \* _friends, _followers, _receivedRequests, _sentRequests
    tasks,     \* requests and fetches under way
    events,    \* bound: chains begun, changes made
    outdated,  \* history: others changed these lists since they were fetched
    doubtful,  \* history: these lists missed a change, see below
    crashed,   \* a request was made with no user's token
    hazards    \* history of the session

sessionVars == <<user, screen, logins, logouts>>
historyVars == <<outdated, doubtful, hazards>>
vars == <<server, sessionVars, lists, tasks, events, crashed, historyVars>>

\* "late": an answer came after the session that asked for it; "busy": the
\* user was forgotten with tasks under way; "lateLogout": or after somebody
\* had logged in again.  A list is doubtful when its last fetch failed, when
\* the answer to an operation on it was lost, when an acceptance changed it
\* and it is not fetched again, or when it was replaced by an answer older
\* than the one before, or that came late.
Hazards == {"late", "busy", "lateLogout"}

\* A task fetches a list ("check" is the notification service's way to the
\* received requests) or asks for an operation; then come the fetches of
\* the rest of the chain.
Task == [do : Kinds \cup Operations \cup {"check"}, person : People \cup {NoUser},
         owner : Users \cup {NoUser}, then : Seq(Kinds),
         phase : {"queued", "sent", "answered", "failed"},
         data : SUBSET People, overtaken : BOOLEAN]

NewTask(do, p, owner, then, phase) ==
    [do |-> do, person |-> p, owner |-> owner, then |-> then, phase |-> phase,
     data |-> {}, overtaken |-> FALSE]

KindOf(task) == IF task.do = "check" THEN "received" ELSE task.do

\* Mutant: only an acceptance fetches all lists again.
Then_AcceptOnly(op) ==
    IF op = "accept" THEN <<"received">>
    ELSE CASE op = "request" -> <<"friends", "sent">>
           [] op = "remove" -> <<"friends">>
           [] op = "decline" -> <<"received">>
           [] op = "cancel" -> <<"sent">>

\* The fetches that follow an operation.
Then(op) ==
    CASE op = "request" -> <<"friends", "sent">>
      [] op = "accept" -> <<"received", "friends">>
      [] op = "remove" -> <<"friends">>
      [] op = "decline" -> <<"received">>
      [] op = "cancel" -> <<"sent">>

\* The followers, whom an acceptance changes, are not among them.
Unfetched(op) == IF op = "accept" THEN {"followers"} ELSE {}

AList == [owner : Users \cup {NoUser}, people : SUBSET People]
Empty == [owner |-> NoUser, people |-> {}]

TypeOK ==
    /\ server \in [Users -> [Kinds -> SUBSET People]]
    /\ user \in Users \cup {NoUser}
    /\ screen \in {"landing", "home"}
    /\ logins \in 0..MaxLogins
    /\ logouts \in 0..MaxLogins
    /\ lists \in [Kinds -> AList]
    /\ tasks \in Seq(Task)
    /\ events \in 0..MaxEvents
    /\ outdated \in SUBSET (Users \X Kinds)
    /\ doubtful \in SUBSET Kinds
    /\ crashed \in BOOLEAN
    /\ hazards \in SUBSET Hazards
    /\ \A k \in Kinds : lists[k].owner = NoUser => lists[k].people = {}

Init ==
    /\ server \in Before
    /\ user = NoUser
    /\ screen = "landing"
    /\ logins = 0
    /\ logouts = 0
    /\ lists = [k \in Kinds |-> Empty]
    /\ tasks = <<>>
    /\ events = 0
    /\ outdated = {}
    /\ doubtful = {}
    /\ crashed = FALSE
    /\ hazards = {}

-----------------------------------------------------------------------------
(* The server                                                              *)

Begin(n) == events + n <= MaxEvents /\ events' = events + n

Gains(u, k, p) == [server EXCEPT ![u][k] = @ \cup {p}]
Loses(u, k, p) == [server EXCEPT ![u][k] = @ \ {p}]
Moves(u, from, to, p) ==
    [server EXCEPT ![u] =
        [server[u] EXCEPT ![from] = @ \ {p}, ![to] = @ \cup {p}]]

\* What others do: ask to follow, follow, stop following, accept, decline.
OthersChange(u, p) ==
    /\ Begin(1)
    /\ \/ /\ p \notin server[u]["received"] \cup server[u]["followers"]
          /\ \E k \in {"received", "followers"} : server' = Gains(u, k, p)
       \/ /\ p \in server[u]["followers"]
          /\ server' = Loses(u, "followers", p)
       \/ /\ p \in server[u]["sent"]
          /\ server' \in {Moves(u, "sent", "friends", p), Loses(u, "sent", p)}
    /\ outdated' = outdated \cup
          {<<u, k>> : k \in {j \in Kinds : server'[u][j] # server[u][j]}}
    /\ UNCHANGED <<sessionVars, lists, tasks, crashed, doubtful, hazards>>

\* An account that is not private is followed at once.  A request that is no
\* longer there is not accepted.
Performed(task) ==
    LET u == task.owner  p == task.person IN
    CASE task.do = "request" -> {Gains(u, "sent", p), Gains(u, "friends", p)}
      [] task.do = "accept" ->
            IF p \in server[u]["received"]
            THEN {Moves(u, "received", "friends", p),
                  Moves(u, "received", "followers", p)}
            ELSE {server}
      [] task.do = "remove" -> {Loses(u, "friends", p)}
      [] task.do = "decline" -> {Loses(u, "received", p)}
      [] task.do = "cancel" -> {Loses(u, "sent", p)}

\* The answers that are older than a change of lists of these kinds.
Overtake(seq, kinds) ==
    [j \in DOMAIN seq |->
        IF KindOf(seq[j]) \in kinds /\ seq[j].phase = "answered"
        THEN [seq[j] EXCEPT !.overtaken = TRUE]
        ELSE seq[j]]

InPhase(i, phase) == [tasks EXCEPT ![i] = [@ EXCEPT !.phase = phase]]

\* The lists that an operation changed and that no fetch will follow.
Missed(op, phase) ==
    Unfetched(op) \cup (IF phase = "failed" THEN ToSet(Then(op)) ELSE {})

\* The server answers.  The answer to an operation may be lost.
Answer(i) ==
    LET task == tasks[i] IN
    /\ task.phase = "sent"
    /\ IF task.do \in Operations
       THEN /\ server' \in Performed(task)
            /\ \E phase \in {"answered", "failed"} :
                  LET missed == Missed(task.do, phase) IN
                  /\ tasks' = Overtake(InPhase(i, phase), missed)
                  /\ doubtful' = doubtful \cup missed
            /\ UNCHANGED outdated
       ELSE /\ tasks' = [tasks EXCEPT ![i] =
                           [@ EXCEPT !.phase = "answered",
                                     !.data = server[task.owner][KindOf(task)]]]
            /\ outdated' = outdated \ {<<task.owner, KindOf(task)>>}
            /\ UNCHANGED <<server, doubtful>>
    /\ UNCHANGED <<sessionVars, lists, events, crashed, hazards>>

\* A request that does not reach the server, or a fetch without an answer.
RequestFails(i) ==
    /\ tasks[i].phase = "sent"
    /\ tasks' = InPhase(i, "failed")
    /\ UNCHANGED <<server, sessionVars, lists, events, crashed, historyVars>>

-----------------------------------------------------------------------------
(* Fetches                                                                 *)

Queued(k, then) == NewTask(k, NoUser, NoUser, then, "queued")

\* The block on the global queue: the headers of a request are a dictionary
\* with the user's token, and nil in it ends the app.  Only
\* getAllNotifications: looks whether there is a user.
StartFetch(i) ==
    /\ tasks[i].phase = "queued"
    /\ IF user # NoUser
       THEN /\ tasks' = [tasks EXCEPT ![i] = [@ EXCEPT !.phase = "sent",
                                                   !.owner = user]]
            /\ UNCHANGED crashed
       ELSE IF tasks[i].do = "check"
       THEN tasks' = RemoveAt(tasks, i) /\ UNCHANGED crashed
       ELSE crashed' = TRUE /\ UNCHANGED tasks
    /\ UNCHANGED <<server, sessionVars, lists, events, historyVars>>

\* The rest of a chain after its i-th task is done.
Onward(i) ==
    LET then == tasks[i].then IN
    IF then = <<>> THEN RemoveAt(tasks, i)
    ELSE [tasks EXCEPT ![i] = Queued(Head(then), Tail(then))]

\* What a list becomes: friends and followers, and the received requests of
\* a check, are left alone by a failure; the other two are emptied by it.
Fetched(task) ==
    IF task.phase = "answered" THEN [owner |-> task.owner, people |-> task.data]
    ELSE IF task.do \in {"received", "sent"} THEN Empty
    ELSE lists[KindOf(task)]

FetchDone(i) ==
    LET task == tasks[i]  k == KindOf(task) IN
    /\ task.phase \in {"answered", "failed"}
    /\ task.do \notin Operations
    /\ lists' = [lists EXCEPT ![k] = Fetched(task)]
    /\ tasks' = Overtake(Onward(i), {k})
    /\ doubtful' =
          IF task.phase = "answered" /\ ~task.overtaken /\ task.owner = user
          THEN doubtful \ {k} ELSE doubtful \cup {k}
    /\ hazards' = IF task.owner # user THEN hazards \cup {"late"} ELSE hazards
    /\ UNCHANGED <<server, sessionVars, events, crashed, outdated>>

-----------------------------------------------------------------------------
(* What the user does                                                      *)

\* requesetFriend:, acceptRequest:, removeFriend:, declineRequest: and
\* cancelRequest:.  What a profile offers follows from the lists.  Nothing in
\* the service keeps two operations from being under way.
Relationship(p) ==
    IF p \in lists["sent"].people THEN "requested"
    ELSE IF p \in lists["received"].people THEN "received"
    ELSE IF p \in lists["friends"].people THEN "friend"
    ELSE "none"

Offered == [none |-> {"request"}, friend |-> {"remove"},
            requested |-> {"cancel"}, received |-> {"accept", "decline"}]

Operate(op, p) ==
    /\ screen = "home"
    /\ op \in Offered[Relationship(p)]
    /\ IF user = NoUser
       THEN crashed' = TRUE /\ UNCHANGED <<tasks, events>>
       ELSE /\ Begin(1)
            /\ tasks' = Append(tasks, NewTask(op, p, user, Then(op), "sent"))
            /\ UNCHANGED crashed
    /\ UNCHANGED <<server, sessionVars, lists, historyVars>>

OperationDone(i) ==
    /\ tasks[i].do \in Operations
    /\ tasks[i].phase \in {"answered", "failed"}
    /\ tasks' = IF tasks[i].phase = "answered" THEN Onward(i)
                ELSE RemoveAt(tasks, i)
    /\ UNCHANGED <<server, sessionVars, lists, events, crashed, historyVars>>

\* The screens of followers and of followed people fetch their lists.
OpenList(first, then) ==
    /\ screen = "home"
    /\ Begin(1)
    /\ tasks' = Append(tasks, Queued(first, then))
    /\ UNCHANGED <<server, sessionVars, lists, crashed, historyVars>>

CheckNotification == OpenList("check", <<>>)

-----------------------------------------------------------------------------
(* The session                                                             *)

\* Mutant: the lists of the last session are kept.
Login_KeepLists(u) ==
    /\ screen = "landing"
    /\ logins < MaxLogins
    /\ Begin(2)
    /\ logins' = logins + 1
    /\ user' = u
    /\ screen' = "home"
    /\ UNCHANGED lists
    /\ tasks' = tasks \o <<Queued("sent", <<"friends", "followers">>),
                           Queued("check", <<>>)>>
    /\ doubtful' = Kinds
    /\ hazards' = {}
    /\ UNCHANGED <<server, logouts, crashed, outdated>>

\* Mutant: the user is not set.
Login_NoUser(u) ==
    /\ screen = "landing"
    /\ logins < MaxLogins
    /\ Begin(2)
    /\ logins' = logins + 1
    /\ UNCHANGED user
    /\ screen' = "home"
    /\ lists' = [k \in Kinds |-> Empty]
    /\ tasks' = tasks \o <<Queued("sent", <<"friends", "followers">>),
                           Queued("check", <<>>)>>
    /\ doubtful' = Kinds
    /\ hazards' = {}
    /\ UNCHANGED <<server, logouts, crashed, outdated>>

\* loginUser: and startNewFriendSession, startNewIANSession.
Login(u) ==
    /\ screen = "landing"
    /\ logins < MaxLogins
    /\ Begin(2)
    /\ logins' = logins + 1
    /\ user' = u
    /\ screen' = "home"
    /\ lists' = [k \in Kinds |-> Empty]
    /\ tasks' = tasks \o <<Queued("sent", <<"friends", "followers">>),
                           Queued("check", <<>>)>>
    /\ doubtful' = Kinds
    /\ hazards' = {}
    /\ UNCHANGED <<server, logouts, crashed, outdated>>

\* The landing screen is shown before logOutUser: is answered.
Logout ==
    /\ screen = "home"
    /\ IF user = NoUser
       THEN crashed' = TRUE /\ UNCHANGED <<screen, logouts>>
       ELSE /\ screen' = "landing"
            /\ logouts' = logouts + 1
            /\ UNCHANGED crashed
    /\ UNCHANGED <<server, user, logins, lists, tasks, events, historyVars>>

\* logOut and clearServices, whatever the server says; clearCachedData does
\* not empty the followers.
LogoutDone ==
    /\ logouts > 0
    /\ logouts' = logouts - 1
    /\ user' = NoUser
    /\ lists' = [lists EXCEPT !["friends"] = Empty, !["received"] = Empty,
                              !["sent"] = Empty]
    /\ hazards' = hazards \cup (IF tasks # <<>> THEN {"busy"} ELSE {})
                          \cup (IF screen = "home" THEN {"lateLogout"} ELSE {})
    /\ UNCHANGED <<server, screen, logins, tasks, events, crashed, outdated,
                   doubtful>>

-----------------------------------------------------------------------------
Tasks ==
    \E i \in DOMAIN tasks :
        \/ Answer(i) \/ RequestFails(i)
        \/ StartFetch(i) \/ FetchDone(i) \/ OperationDone(i)

User ==
    \/ \E op \in Operations, p \in People : Operate(op, p)
    \/ OpenList("friends", <<"sent">>)
    \/ OpenList("followers", <<"received">>)
    \/ CheckNotification
    \/ Logout
    \/ \E u \in Users : Login(u)

Next ==
    /\ ~crashed
    /\ \/ \E u \in Users, p \in People : OthersChange(u, p)
       \/ Tasks \/ User \/ LogoutDone

Spec == Init /\ [][Next]_vars

-----------------------------------------------------------------------------
(* Properties                                                              *)

\* The lists that a user sees are his own, although the answers that bring
\* them do not say whose they are, unless an answer came late.
OwnLists ==
    user # NoUser /\ "late" \notin hazards =>
        \A k \in Kinds : lists[k].owner \in {NoUser, user}

\* When nothing is under way, each list shows what the server has, but for
\* what others changed since: operations of the user's that were reported as
\* done show in every list that they changed, whatever fetches were under way
\* with them; but for the followers, which stay as they were after an
\* acceptance (acceptRequest: fetches two of the three lists it changes)
\* until they are fetched for another reason.
ListsAreCurrent ==
    user # NoUser /\ tasks = <<>> =>
        \A k \in Kinds \ doubtful :
            <<user, k>> \notin outdated => lists[k].people = server[user][k]

\* No request is made without a user, unless he was forgotten while tasks
\* were under way, or after another had logged in.
NoCrash == crashed => hazards \cap {"busy", "lateLogout"} # {}
=============================================================================
