------------------------------ MODULE NewsBoard ------------------------------
(***************************************************************************)
(* The notification screen: IANoticeManageService asks the server what is  *)
(* new, TTwystNewsManager merges the news into its rows, and               *)
(* NotificationsViewController lists them, counts them on the tab bar and  *)
(* marks as read what the user opens.                                      *)
(*                                                                         *)
(* Nothing keeps two checks from being under way at once: a push, a return *)
(* to the foreground and a share each start one, and the timer's test of   *)
(* _isWaitingResponse and its setting are blocks of two queues.            *)
(***************************************************************************)
EXTENDS Naturals, Sequences, FiniteSets, FiniteSetsExt, SequencesExt,
        Functions

CONSTANTS Twysts,
          Friends,      \* those who like and comment
          Me,           \* the user
          Types,        \* the kinds of news in use
          MaxChecks,    \* bound: checks not yet handled
          FetchLimit,   \* setFetchLimit: of getAllNews
          DeleteLimit,  \* setFetchLimit: of deleteNewsWithTwystId:
          MaxEvents,    \* bound: what happens at the server
          MaxReads,     \* bound: delayed calls of readNotification
          MaxRestarts,  \* bound: kills of the app
          MaxTogether   \* bound: events, kills and checks under way together

ASSUME MeAssumption == Me \notin Friends
ASSUME TypesAssumption ==
    Types \subseteq {"Like", "unlike", "comment", "deletecomment", "Pass",
                     "Reply", "Follow"}
ASSUME NewsBoundsAssumption ==
    /\ FetchLimit \in Nat \ {0} /\ DeleteLimit \in Nat \ {0}
    /\ MaxChecks \in Nat \ {0}
    /\ MaxEvents \in Nat /\ MaxReads \in Nat /\ MaxRestarts \in Nat
    /\ MaxTogether \in Nat

VARIABLES
    clock,      \* server: the number of events, which also names the news
    feed,       \* server: the news that stand, as the user should see them
    comments,   \* server: CommentCount of each twyst
    gone,       \* server: the twysts deleted, or left by the user
    mailbox,    \* server: what it has not yet told the user
    leaving,    \* the user's own deletions, sent and not answered
    waiting,    \* _isWaitingResponse
    due,        \* blocks of checkNotification: that have yet to run
    sent,       \* requests that the server has yet to answer
    replies,    \* replies on their way, in the order they were made
    mainQueue,  \* the blocks that hand a reply to its delegates
    rows,       \* the rows of TTwystNews in the store
    list,       \* _arrStringgNews, the rows of the table
    badge,      \* the number on the tab bar
    screen,     \* the screen, "top" standing for _isTopScreen
    loaded,     \* viewDidLoad was called
    selected,   \* _selectedNewsId, 0 for NSNotFound
    reads,      \* delayed calls of readNotification
    restarts,
    applied,    \* history: how far the replies that were handled reach
    unseen,     \* history: rows that news came for with the screen closed
    tapped,     \* history: the news that the user has tapped
    dropped,    \* history: the twysts whose deletion the app has carried out
    revived,    \* history: those of them that it has then asked to download
    mishaps     \* history: what the properties except, see below

serverVars == <<clock, feed, comments, gone, mailbox>>
checkVars == <<waiting, due, sent, replies, mainQueue>>
viewVars == <<screen, loaded, selected, reads>>
boardVars == <<rows, list, badge, unseen, tapped, dropped, revived>>
vars == <<serverVars, leaving, checkVars, boardVars, viewVars, restarts,
          applied, mishaps>>

\* "overtaken": a reply was handled after one that was made later;
\* "crossed": a deletion of the user was answered while a reply made before
\* it was under way; "lost": a reply was lost that the server does not
\* repeat; "outdated": the server told news of a twyst after its deletion;
\* "own": the user has commented, which is in the counts of the news and has
\* no row; "leftover": a deleted twyst had more rows than are deleted at once.
Mishaps == {"overtaken", "crossed", "lost", "outdated", "own", "leftover"}

Times == 0 .. MaxEvents
Senders == Friends \cup {Me}

News == [id : 1 .. MaxEvents, type : Types, twyst : Twysts, sender : Senders,
         count : Times]
Standing == [id : 1 .. MaxEvents, type : Types, twyst : Twysts,
             sender : Senders]
Row == [newsId : 1 .. MaxEvents, type : Types, twyst : Twysts,
        sender : Senders, unread : BOOLEAN, badge : BOOLEAN]
Reply == [notes : SUBSET Twysts, news : SUBSET News, made : Times,
          kept : BOOLEAN]
Block == [kind : {"notes", "news"}, reply : Reply]

\* The rows of the store, by their objects.
Tables == UNION {[objs -> Row] : objs \in SUBSET (1 .. MaxEvents)}

Typed ==
    /\ clock \in Times
    /\ feed \in SUBSET Standing
    /\ comments \in [Twysts -> Times]
    /\ gone \in SUBSET Twysts
    /\ mailbox \in [notes : SUBSET Twysts, news : SUBSET News]
    /\ leaving \in SUBSET (Twysts \X Times)
    /\ waiting \in BOOLEAN
    /\ due \in 0 .. MaxChecks /\ sent \in 0 .. MaxChecks
    /\ replies \in Seq(Reply)
    /\ due + sent + Len(replies) <= MaxChecks
    /\ mainQueue \in Seq(Block)
    /\ rows \in Tables
    /\ list \in SUBSET (1 .. MaxEvents)
    /\ badge \in Nat
    /\ screen \in {"away", "appearing", "top"}
    /\ loaded \in BOOLEAN
    /\ selected \in Times
    /\ reads \in 0 .. MaxReads
    /\ restarts \in 0 .. MaxRestarts
    /\ applied \in Times
    /\ unseen \in SUBSET (1 .. MaxEvents)
    /\ tapped \in SUBSET (1 .. MaxEvents)
    /\ dropped \in SUBSET Twysts /\ revived \in SUBSET dropped
    /\ mishaps \in SUBSET Mishaps

TypeOK == Typed /\ Cardinality(list) <= FetchLimit

\* The app has just started: startNewIANSession has asked for a check.
Init ==
    /\ clock = 0
    /\ feed = {}
    /\ comments = [t \in Twysts |-> 0]
    /\ gone = {}
    /\ mailbox = [notes |-> {}, news |-> {}]
    /\ leaving = {}
    /\ waiting = FALSE
    /\ due = 1 /\ sent = 0 /\ replies = <<>> /\ mainQueue = <<>>
    /\ rows = <<>>
    /\ list = {}
    /\ badge = 0
    /\ screen = "away"
    /\ loaded = FALSE
    /\ selected = 0
    /\ reads = 0
    /\ restarts = 0
    /\ applied = 0
    /\ unseen = {}
    /\ tapped = {}
    /\ dropped = {} /\ revived = {}
    /\ mishaps = {}

-----------------------------------------------------------------------------
(* The bounds                                                              *)

Checks == due + sent + Len(replies) + Len(mainQueue)

OneMore == clock + restarts + Checks < MaxTogether

-----------------------------------------------------------------------------
(* The server                                                              *)

ServerStep ==
    /\ clock < MaxEvents /\ OneMore
    /\ clock' = clock + 1
    /\ UNCHANGED <<checkVars, boardVars, viewVars, restarts, applied>>

About(t, type) == {f \in feed : f.twyst = t /\ f.type = type}

\* What a friend, or the user on another device, does to a twyst.  A like
\* stands until it is withdrawn, and of the comments the last by a friend
\* until there are none left.
Happens(type, t, s) ==
    LET item == [id |-> clock + 1, type |-> type, twyst |-> t, sender |-> s]
        likes == {f \in About(t, "Like") : f.sender = s}
    IN
    \/ /\ type \in {"Like", "Pass", "Reply", "Follow"}
       /\ type = "Like" => likes = {}
       /\ feed' = IF s = Me /\ type # "Pass" THEN feed ELSE feed \cup {item}
       /\ UNCHANGED comments
    \/ /\ type = "unlike"
       /\ likes # {}
       /\ feed' = feed \ likes
       /\ UNCHANGED comments
    \/ /\ type = "comment"
       /\ comments' = [comments EXCEPT ![t] = @ + 1]
       /\ feed' = IF s = Me THEN feed
                  ELSE (feed \ About(t, "comment")) \cup {item}
    \/ /\ type = "deletecomment"
       /\ comments[t] > 0
       /\ comments' = [comments EXCEPT ![t] = @ - 1]
       /\ feed' = IF comments[t] = 1 THEN feed \ About(t, "comment") ELSE feed

ServerNews(type, t, s) ==
    /\ ServerStep
    /\ t \notin gone
    /\ Happens(type, t, s)
    /\ mailbox' = [mailbox EXCEPT !.news = @ \cup
                     {[id |-> clock + 1, type |-> type, twyst |-> t,
                       sender |-> s, count |-> 0]}]
    /\ mishaps' = IF type = "comment" /\ s = Me THEN mishaps \cup {"own"}
                  ELSE mishaps
    /\ UNCHANGED <<gone, leaving>>

NewsOfOthers(t) == {n \in mailbox.news : n.twyst # t}

\* A twyst is deleted, by a friend or by the user (who may also leave or
\* report it).  The server may tell of what happened to it before, or not.
Deleted(t, notes) ==
    /\ ServerStep
    /\ t \notin gone
    /\ gone' = gone \cup {t}
    /\ feed' = {f \in feed : f.twyst # t}
    /\ \E news \in {mailbox.news, NewsOfOthers(t)} :
          /\ mailbox' = [notes |-> mailbox.notes \cup notes, news |-> news]
          /\ mishaps' = IF news = NewsOfOthers(t) THEN mishaps
                        ELSE mishaps \cup {"outdated"}
    /\ UNCHANGED comments

FriendDeletes(t) ==
    /\ Deleted(t, {t})
    /\ UNCHANGED leaving

UserDeletes(t) ==
    /\ Deleted(t, {})
    /\ leaving' = leaving \cup {<<t, clock + 1>>}

-----------------------------------------------------------------------------
(* IANoticeManageService                                                   *)

CheckStep ==
    UNCHANGED <<clock, feed, comments, gone, leaving, boardVars, viewVars,
                restarts, applied>>

\* checkNotification:
CheckNotification ==
    /\ Checks < MaxChecks /\ OneMore
    /\ due' = due + 1
    /\ CheckStep
    /\ UNCHANGED <<mailbox, waiting, sent, replies, mainQueue, mishaps>>

\* onTimer:, on a background queue.  What it tests is set by a later block.
Tick ==
    /\ ~waiting
    /\ CheckNotification

\* checkIANManually:, which does not look whether a check is under way.
CheckManually ==
    CheckNotification

\* The block of checkNotification:.
Send ==
    /\ due > 0
    /\ due' = due - 1
    /\ sent' = sent + 1
    /\ waiting' = TRUE
    /\ CheckStep
    /\ UNCHANGED <<mailbox, replies, mainQueue, mishaps>>

\* The server's reply, with the twysts as they are now.  It may keep what it
\* told, for the case that the reply does not arrive, and tell it again.
Answer ==
    LET news == {[n EXCEPT !.count = comments[n.twyst]] : n \in mailbox.news}
    IN
    /\ sent > 0
    /\ sent' = sent - 1
    /\ \E kept \in BOOLEAN :
          /\ replies' = Append(replies, [notes |-> mailbox.notes,
                                         news |-> news, made |-> clock,
                                         kept |-> kept])
          /\ mailbox' = IF kept THEN mailbox ELSE [notes |-> {}, news |-> {}]
    /\ CheckStep
    /\ UNCHANGED <<waiting, due, mainQueue, mishaps>>

\* Mutant: a check that fails is never over.
RequestFails_Stuck ==
    /\ sent > 0
    /\ sent' = sent - 1
    /\ CheckStep
    /\ UNCHANGED <<mailbox, waiting, due, replies, mainQueue, mishaps>>

\* The completion of getAllNotifications:, without a result: the request
\* did not reach the server.
RequestFails ==
    /\ sent > 0
    /\ sent' = sent - 1
    /\ waiting' = FALSE
    /\ CheckStep
    /\ UNCHANGED <<mailbox, due, replies, mainQueue, mishaps>>

Matters(reply) == ~reply.kept /\ (reply.notes # {} \/ reply.news # {})

\* The same: the reply did not arrive.
ReplyLost(i) ==
    /\ replies' = RemoveAt(replies, i)
    /\ waiting' = FALSE
    /\ mishaps' = IF Matters(replies[i]) THEN mishaps \cup {"lost"}
                  ELSE mishaps
    /\ CheckStep
    /\ UNCHANGED <<mailbox, due, sent, mainQueue>>

Blocks(reply) ==
    (IF reply.notes = {} THEN <<>> ELSE <<[kind |-> "notes", reply |-> reply]>>)
    \o (IF reply.news = {} THEN <<>> ELSE <<[kind |-> "news", reply |-> reply]>>)

\* The completion of getAllNotifications:, with a result.  Replies overtake
\* each other.
ReplyArrives(i) ==
    /\ mainQueue' = mainQueue \o Blocks(replies[i])
    /\ replies' = RemoveAt(replies, i)
    /\ waiting' = FALSE
    /\ CheckStep
    /\ UNCHANGED <<mailbox, due, sent, mishaps>>

-----------------------------------------------------------------------------
(* TTwystNewsManager: the rows, and those that news came for               *)

Without(b, objs) ==
    [rows |-> [o \in DOMAIN b.rows \ objs |-> b.rows[o]],
     fresh |-> b.fresh \ objs]

With(b, o, row) ==
    [rows |-> [p \in DOMAIN b.rows \cup {o} |->
                  IF p = o THEN row ELSE b.rows[p]],
     fresh |-> b.fresh \cup {o}]

NewRow(n, unread) ==
    [newsId |-> n.id, type |-> n.type, twyst |-> n.twyst, sender |-> n.sender,
     unread |-> unread, badge |-> TRUE]

\* A row that is found is written over; else the item gets one of its own.
confirmTwystNews(b, n) ==
    LET same == {o \in DOMAIN b.rows : b.rows[o].newsId = n.id}
    IN  With(b, IF same = {} THEN n.id ELSE CHOOSE o \in same : TRUE,
             NewRow(n, TRUE))

confirmUnlikeTwyst(b, n) ==
    Without(b, {o \in DOMAIN b.rows : /\ b.rows[o].type = "Like"
                                      /\ b.rows[o].twyst = n.twyst
                                      /\ b.rows[o].sender = n.sender})

\* twystNewsWithTwystId:type:
CommentRows(b, t) ==
    {o \in DOMAIN b.rows : b.rows[o].type = "comment" /\ b.rows[o].twyst = t}

\* Mutant: new comments leave a row that was read as it is.
confirmCommentTwyst_StaysRead(b, n) ==
    LET old == CommentRows(b, n.twyst)
        o == CHOOSE row \in old : TRUE
    IN  IF n.count = 0 THEN Without(b, IF old = {} THEN {} ELSE {o})
        ELSE IF old = {} THEN With(b, n.id, NewRow(n, n.sender # Me))
        ELSE With(b, o, NewRow(n, b.rows[o].unread))

\* One row tells of all comments on a twyst.
confirmCommentTwyst(b, n) ==
    LET old == CommentRows(b, n.twyst)
        o == CHOOSE row \in old : TRUE
    IN  IF n.count = 0 THEN Without(b, IF old = {} THEN {} ELSE {o})
        ELSE IF old = {} THEN With(b, n.id, NewRow(n, n.sender # Me))
        ELSE With(b, o, NewRow(n, b.rows[o].unread \/ n.sender # Me))

\* Mutant: the number of comments that are left is not looked at.
confirmDeleteCommentTwyst_Any(b, n) == Without(b, CommentRows(b, n.twyst))

\* A row that stays shows the sender, and keeps its news and its marks.
confirmDeleteCommentTwyst(b, n) ==
    LET old == CommentRows(b, n.twyst)
        o == CHOOSE row \in old : TRUE
    IN  IF old = {} THEN b
        ELSE IF n.count = 0 THEN Without(b, {o})
        ELSE [b EXCEPT !.rows[o].sender = n.sender]

-----------------------------------------------------------------------------
(* NotificationsViewController                                             *)

\* handleLikeStringgNews: and its siblings.
Handle(b, n) ==
    IF n.type = "unlike" THEN confirmUnlikeTwyst(b, n)
    ELSE IF n.type = "deletecomment" THEN confirmDeleteCommentTwyst(b, n)
    ELSE IF n.type # "Pass" /\ n.sender = Me THEN b
    ELSE IF n.type = "comment" THEN confirmCommentTwyst(b, n)
    ELSE confirmTwystNews(b, n)

\* The news of a reply, one by one in the order in which they happened.
Handled(b, news) ==
    LET after[i \in 0 .. MaxEvents] ==
            IF i = 0 THEN b
            ELSE IF \E n \in news : n.id = i
            THEN Handle(after[i - 1], CHOOSE n \in news : n.id = i)
            ELSE after[i - 1]
    IN  after[MaxEvents]

\* A fetch sorted by created, with a limit: the newest rows, by their news.
Newest(rs, objs, limit) ==
    {o \in objs : Cardinality({p \in objs : rs[p].newsId > rs[o].newsId}) < limit}

getAllNews(rs) == Newest(rs, DOMAIN rs, FetchLimit)

\* preDownloadTwyst: asks for those that are not saved, which a twyst whose
\* deletion was carried out is not.
PreDownloads(news) ==
    {n.twyst : n \in {m \in news : /\ m.sender # Me
                                   /\ m.type \in {"Like", "comment"}}}

Badged(rs, objs) == {o \in objs \cap DOMAIN rs : rs[o].badge}

\* A block is run, which meets these mishaps; a reply is handled when its
\* last block is.
Take(kind, met) ==
    /\ mainQueue # <<>>
    /\ Head(mainQueue).kind = kind
    /\ mainQueue' = Tail(mainQueue)
    /\ LET reply == Head(mainQueue).reply IN
       /\ applied' = IF kind = "notes" /\ reply.news # {} THEN applied
                     ELSE Max({applied, reply.made})
       /\ mishaps' = IF reply.made < applied
                     THEN mishaps \cup met \cup {"overtaken"}
                     ELSE mishaps \cup met
    /\ UNCHANGED <<serverVars, waiting, due, sent, replies, viewVars, restarts>>

\* Mutant: the badge is counted before the news are loaded.
twystNewsDidReceive_Early ==
    LET news == Head(mainQueue).reply.news
        b == Handled([rows |-> rows, fresh |-> {}], news)
    IN
    /\ Take("news", {})
    /\ rows' = b.rows
    /\ list' = getAllNews(rows')
    /\ badge' = IF screen = "top" THEN badge
                ELSE Cardinality(Badged(rows', list))
    /\ unseen' = IF screen = "top" THEN (unseen \cap DOMAIN rows') \ list'
                 ELSE (unseen \cap DOMAIN rows') \cup b.fresh
    /\ revived' = revived \cup (PreDownloads(news) \cap dropped)
    /\ UNCHANGED <<tapped, dropped, leaving>>

twystNewsDidReceive ==
    LET news == Head(mainQueue).reply.news
        b == Handled([rows |-> rows, fresh |-> {}], news)
    IN
    /\ Take("news", {})
    /\ rows' = b.rows
    /\ list' = getAllNews(rows')
    /\ badge' = IF screen = "top" THEN badge
                ELSE Cardinality(Badged(rows', list'))
    /\ unseen' = IF screen = "top" THEN (unseen \cap DOMAIN rows') \ list'
                 ELSE (unseen \cap DOMAIN rows') \cup b.fresh
    /\ revived' = revived \cup (PreDownloads(news) \cap dropped)
    /\ UNCHANGED <<tapped, dropped, leaving>>

RowsOf(t) == {o \in DOMAIN rows : rows[o].twyst = t}

\* The rows that deleteNewsWithTwystId: fetches, and whether some are left.
Fetched(ts) == UNION {Newest(rows, RowsOf(t), DeleteLimit) : t \in ts}

Leftover(ts) ==
    IF \A t \in ts : RowsOf(t) \subseteq Fetched(ts) THEN {} ELSE {"leftover"}

\* Mutant: only the rows on the screen are deleted.
deleteNewsWithTwystId_Listed(ts) ==
    /\ rows' = [o \in DOMAIN rows \ (Fetched(ts) \cap list) |-> rows[o]]
    /\ dropped' = dropped \cup ts
    /\ unseen' = unseen \cap DOMAIN rows'
    /\ UNCHANGED <<list, badge, tapped, revived>>

\* deleteNewsWithTwystId: of each of the twysts.  It tells the screen nothing:
\* its list may hold the deleted rows, and the badge may count them.
deleteNewsWithTwystId(ts) ==
    /\ rows' = [o \in DOMAIN rows \ Fetched(ts) |-> rows[o]]
    /\ dropped' = dropped \cup ts
    /\ unseen' = unseen \cap DOMAIN rows'
    /\ UNCHANGED <<list, badge, tapped, revived>>

\* The home screen hears of deleted twysts.
notificationDidReceive ==
    /\ LET ts == Head(mainQueue).reply.notes IN
       /\ Take("notes", Leftover(ts))
       /\ deleteNewsWithTwystId(ts)
    /\ UNCHANGED leaving

\* The replies that are still to be handled.
UnderWay ==
    ToSet(replies) \cup {mainQueue[i].reply : i \in DOMAIN mainQueue}

\* The answer to actionDelete, actionLeave or actionReport of the preview.
DeletionAnswered(t, made) ==
    /\ <<t, made>> \in leaving
    /\ leaving' = leaving \ {<<t, made>>}
    /\ deleteNewsWithTwystId({t})
    /\ mishaps' = mishaps \cup Leftover({t})
                     \cup (IF \E reply \in UnderWay : reply.made < made
                           THEN {"crossed"} ELSE {})
    /\ UNCHANGED <<serverVars, checkVars, viewVars, restarts, applied>>

\* The answer is lost, and the app takes the deletion for failed.
DeletionFails(t, made) ==
    /\ <<t, made>> \in leaving
    /\ leaving' = leaving \ {<<t, made>>}
    /\ mishaps' = mishaps \cup {"lost"}
    /\ UNCHANGED <<serverVars, checkVars, boardVars, viewVars, restarts, applied>>

ViewStep ==
    /\ UNCHANGED <<serverVars, leaving, checkVars, restarts, applied, dropped,
                   revived, mishaps>>

\* viewWillAppear:, the first time after viewDidLoad.
viewWillAppear ==
    /\ screen = "away"
    /\ screen' = "appearing"
    /\ loaded' = TRUE
    /\ selected' = 0
    /\ list' = getAllNews(rows)
    /\ badge' = IF loaded THEN badge ELSE Cardinality(Badged(rows, list'))
    /\ ViewStep
    /\ UNCHANGED <<reads, rows, unseen, tapped>>

\* viewDidAppear:, with removeAllBadge.
viewDidAppear ==
    /\ screen = "appearing"
    /\ screen' = "top"
    /\ rows' = [o \in DOMAIN rows |->
                  IF o \in list THEN [rows[o] EXCEPT !.badge = FALSE]
                  ELSE rows[o]]
    /\ badge' = 0
    /\ unseen' = unseen \ list
    /\ ViewStep
    /\ UNCHANGED <<loaded, selected, reads, list, tapped>>

viewWillDisappear ==
    /\ screen = "top"
    /\ screen' = "away"
    /\ ViewStep
    /\ UNCHANGED <<loaded, selected, reads, rows, list, badge, unseen, tapped>>

\* tableView:didSelectRowAtIndexPath:.  What the row is about may be unknown
\* to the app; else it is opened, and half a second later the row is read.
Tap(o) ==
    /\ screen = "top"
    /\ o \in list \cap DOMAIN rows
    /\ selected' = rows[o].newsId
    /\ tapped' = tapped \cup {rows[o].newsId}
    /\ \/ reads' = reads
       \/ reads < MaxReads /\ reads' = reads + 1
    /\ ViewStep
    /\ UNCHANGED <<screen, loaded, rows, list, badge, unseen>>

readNotification ==
    /\ reads > 0
    /\ reads' = reads - 1
    /\ rows' = [o \in DOMAIN rows |->
                  IF o \in list /\ selected # 0 /\ rows[o].newsId = selected
                  THEN [rows[o] EXCEPT !.unread = FALSE] ELSE rows[o]]
    /\ ViewStep
    /\ UNCHANGED <<screen, loaded, selected, list, badge, unseen, tapped>>

\* The app is killed and started again: the rows are what is left.
Restart ==
    /\ restarts < MaxRestarts /\ clock + restarts + 1 < MaxTogether
    /\ restarts' = restarts + 1
    /\ waiting' = FALSE /\ due' = 1 /\ sent' = 0
    /\ replies' = <<>> /\ mainQueue' = <<>>
    /\ list' = {} /\ badge' = 0
    /\ screen' = "away" /\ loaded' = FALSE /\ selected' = 0 /\ reads' = 0
    /\ leaving' = {}
    /\ unseen' = {}
    /\ mishaps' = IF leaving # {} \/ \E reply \in UnderWay : Matters(reply)
                  THEN mishaps \cup {"lost"} ELSE mishaps
    /\ UNCHANGED <<serverVars, rows, tapped, dropped, revived, applied>>

-----------------------------------------------------------------------------
Server ==
    \E t \in Twysts :
        \/ FriendDeletes(t) \/ UserDeletes(t)
        \/ \E type \in Types, s \in Senders : ServerNews(type, t, s)

Checking ==
    \/ Tick \/ CheckManually \/ Send \/ Answer \/ RequestFails
    \/ \E i \in DOMAIN replies : ReplyLost(i) \/ ReplyArrives(i)

Board ==
    \/ twystNewsDidReceive \/ notificationDidReceive
    \/ \E t \in Twysts, made \in Times :
          DeletionAnswered(t, made) \/ DeletionFails(t, made)

View ==
    \/ viewWillAppear \/ viewDidAppear \/ viewWillDisappear
    \/ \E o \in 1 .. MaxEvents : Tap(o)
    \/ readNotification

Next == Server \/ Checking \/ Board \/ View \/ Restart

Spec == Init /\ [][Next]_vars

-----------------------------------------------------------------------------
(* Properties                                                              *)

\* One row tells of the comments on a twyst, however often the server
\* repeats itself and in whatever order replies are handled, and no news
\* has two rows.
OneRowEach ==
    \A o, p \in DOMAIN rows :
        /\ rows[o].newsId = rows[p].newsId
           \/ /\ rows[o].type = "comment" /\ rows[p].type = "comment"
              /\ rows[o].twyst = rows[p].twyst
        => o = p

\* Everything that happened was told, and every reply was handled.
UpToDate ==
    /\ applied = clock
    /\ replies = <<>> /\ mainQueue = <<>> /\ leaving = {}

\* No news has two rows; and when the app is up to date and met no mishap,
\* its rows are the news that stand: no withdrawn like, no comments of a
\* twyst without any, nothing about a deleted twyst (unless it had more rows
\* than one deletion fetches), and nothing is missing.
BoardAgrees ==
    /\ OneRowEach
    /\ UpToDate /\ mishaps = {} =>
          {<<r.newsId, r.type, r.twyst>> : r \in Range(rows)}
              = {<<f.id, f.type, f.twyst>> : f \in feed}

\* The flag that holds the timer back stands for a request that will end:
\* whatever the order of checks and answers, the timer goes on.
TimerGoesOn ==
    waiting => sent > 0 \/ replies # <<>>

\* A deletion leaves no row unless there are more of them than it fetches,
\* and the app does not bring back what it was told is deleted, with a row or
\* with a download.
NoRevival ==
    mishaps = {} =>
        /\ revived = {}
        /\ \A o \in DOMAIN rows : rows[o].twyst \notin dropped

\* A row counts as read only if the user has tapped it when it told of the
\* news that it tells of now.
ReadWasTapped ==
    \A o \in DOMAIN rows : ~rows[o].unread => rows[o].newsId \in tapped

\* With the screen closed, the badge counts every listed row that news came
\* for since it was last open.
BadgeMissesNothing ==
    screen = "away" =>
        badge >= Cardinality(unseen \cap list \cap DOMAIN rows)
=============================================================================
