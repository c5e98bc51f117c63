------------------------------ MODULE HomeFeed ------------------------------
(***************************************************************************)
(* The lists of twysts on the home screen: HomeViewController loads the    *)
(* friends' ("twysted") and the private twysts page by page while          *)
(* notifications insert and delete single ones, and keeps two table views  *)
(* in step with its arrays.  Everything runs on the main thread, but       *)
(* several page requests may be under way, and their answers come late.    *)
(*                                                                         *)
(* A twyst is a number that says when it was finalised; a list is sorted   *)
(* by it, newest first.  The server orders its pages by the time of the    *)
(* last action on a twyst instead.                                         *)
(***************************************************************************)
EXTENDS Naturals, Sequences, FiniteSets, SequencesExt,
        Functions

CONSTANTS Twysts,     \* twysts, by DateFinalized
          Feeds,      \* what a server may have: see FeedsAssumption
          Bunch,      \* DEF_HOME_FEED_BUNCH
          MaxPages    \* bound: page requests under way

ASSUME TwystsAssumption == Twysts \subseteq Nat \ {0} /\ IsFiniteSet(Twysts)
\* The tab that shows each twyst, its Visibility; the newest twysts, which
\* are not finalised when the app starts; bounds for the server's clock (a
\* draft beyond it stays one) and for the notifications under way.
ASSUME FeedsAssumption ==
    \A feed \in Feeds :
        /\ feed.tabOf \in [Twysts -> {"twysted", "private"}]
        /\ feed.drafts \subseteq Twysts
        /\ \A d \in feed.drafts, t \in Twysts \ feed.drafts : t < d
        /\ feed.maxTime \in Nat /\ feed.maxNotices \in Nat
        /\ \A t \in Twysts \ feed.drafts : t <= feed.maxTime
ASSUME BoundsAssumption ==
    /\ Bunch \in Nat \ {0}
    /\ MaxPages \in Nat \ {0}

VARIABLES
    feed,        \* server: the member of Feeds that it has
    status,      \* server: what each twyst is
    actionTime,  \* server: ActionTimeStamp
    clock,       \* server
    notices,     \* notifications that the app has yet to handle
    pages,       \* page requests under way, in the order of sending
    opened,      \* the tabs whose array exists
    list,        \* _arrayTwysted and _arrayPrivate
    cursor,      \* _startTime and _startIndex, 0 if there is none
    allLoaded,   \* _isTwystedAllLoaded and _isPrivateAllLoaded
    loadFailed,  \* _isTwystedLoadFailed and _isPrivateLoadFailed
    reloading,   \* _reloading: a pulled refresh is under way
    rows,        \* how many rows each table view believes it has
    asked,       \* the downloads that the last step asked for
    crashed,     \* a table view found its rows inconsistent
    hazards      \* history: what each list has met, see below

serverVars == <<feed, status, actionTime, clock>>
tabVars == <<opened, list, cursor, allLoaded, loadFailed>>
tableVars == <<rows, crashed>>
vars == <<serverVars, notices, pages, tabVars, reloading, tableVars, asked,
          hazards>>

TabOf == feed.tabOf
Tabs == Range(TabOf)
MaxTime == feed.maxTime

\* What the properties except.  "failed": a page failed and the list was
\* emptied, but the next page goes on from where it was; "stale": a page
\* arrived that was asked for before the list was last pulled; "cut": the
\* app sorted out entries of a full page, or could not read a page, and took
\* it for the last one; "shifted": the entries that a start index counts are
\* not those that the server skips, one being deleted or one having come out
\* of turn; "crossed": between the making of a page and its arrival a
\* notification was handled; "overtaken": a deletion was handled before
\* another notification of its twyst.  Two concern the table: "refreshed",
\* the flag for the loading row was reset; "silent", a twyst was added
\* without telling it.
ListHazards == {"failed", "stale", "cut", "shifted", "crossed", "overtaken"}
TableHazards == {"refreshed", "silent"}

Page == [tab : Tabs, cursor : Nat,
         phase : {"sent", "answered", "failed"}, items : Seq(Twysts),
         lastTime : Nat, cut : BOOLEAN, crossed : BOOLEAN, stale : BOOLEAN]

NewPage(tab, c) ==
    [tab |-> tab, cursor |-> c, phase |-> "sent", items |-> <<>>,
     lastTime |-> 0, cut |-> FALSE, crossed |-> FALSE, stale |-> FALSE]

Notice == [kind : {"create", "reply", "didReply", "delete"}, twyst : Twysts]

TypeOK ==
    /\ feed \in Feeds
    /\ status \in [Twysts -> {"draft", "complete", "deleted"}]
    /\ actionTime \in [Twysts -> Nat]
    /\ clock \in 0 .. MaxTime
    /\ notices \in Seq(Notice)
    /\ pages \in Seq(Page) /\ Len(pages) <= MaxPages
    /\ opened \in SUBSET Tabs
    /\ list \in [Tabs -> Seq(Twysts)]
    /\ \A tab \in Tabs \ opened : list[tab] = <<>>
    /\ cursor \in [Tabs -> Nat]
    /\ allLoaded \in [Tabs -> BOOLEAN]
    /\ loadFailed \in [Tabs -> BOOLEAN]
    /\ reloading \in BOOLEAN
    /\ rows \in [Tabs -> Nat \ {0}]
    /\ asked \in SUBSET Twysts
    /\ crashed \in BOOLEAN
    /\ hazards \in [Tabs -> SUBSET (ListHazards \cup TableHazards)]

\* viewDidLoad has asked for the first page of the friends' twysts.
Init ==
    /\ feed \in Feeds
    /\ status = [t \in Twysts |-> IF t \in feed.drafts THEN "draft" ELSE "complete"]
    /\ actionTime = [t \in Twysts |-> t]
    /\ clock = Max((Twysts \ feed.drafts) \cup {0})
    /\ notices = <<>>
    /\ opened = Tabs \ {"private"}
    /\ pages = IF opened = {} THEN <<>> ELSE <<NewPage("twysted", 0)>>
    /\ list = [tab \in Tabs |-> <<>>]
    /\ cursor = [tab \in Tabs |-> 0]
    /\ allLoaded = [tab \in Tabs |-> FALSE]
    /\ loadFailed = [tab \in Tabs |-> FALSE]
    /\ reloading = FALSE
    /\ rows = [tab \in Tabs |-> 1]
    /\ asked = {}
    /\ crashed = FALSE
    /\ hazards = [tab \in Tabs |-> {}]

-----------------------------------------------------------------------------
(* The server                                                              *)

Tell(kind, t) ==
    /\ Len(notices) < feed.maxNotices
    /\ notices' = Append(notices, [kind |-> kind, twyst |-> t])

Acts(t) ==
    /\ clock < MaxTime
    /\ clock' = clock + 1
    /\ actionTime' = [actionTime EXCEPT ![t] = clock + 1]

\* A twyst is finalised, or passed on ("new twyst" and "passed").
ServerCreates(t) ==
    /\ status[t] # "deleted"
    /\ \A s \in Twysts : s < t => status[s] # "draft"
    /\ status' = [status EXCEPT ![t] = "complete"]
    /\ Acts(t)
    /\ Tell("create", t)
    /\ UNCHANGED <<feed, pages, tabVars, reloading, tableVars, asked, hazards>>

\* A friend replies, or the user ("didReply", a notification of the app's).
ServerReplies(t) ==
    /\ status[t] = "complete"
    /\ Acts(t)
    /\ Tell("reply", t) \/ Tell("didReply", t)
    /\ UNCHANGED <<feed, status, pages, tabVars, reloading, tableVars, asked,
                   hazards>>

ServerDeletes(t) ==
    /\ status[t] = "complete"
    /\ status' = [status EXCEPT ![t] = "deleted"]
    /\ Tell("delete", t)
    /\ UNCHANGED <<feed, actionTime, clock, pages, tabVars, reloading, tableVars,
                   asked, hazards>>

\* The twysts of S that acted last, n of them if there are, the last first.
Latest(S, n) ==
    LET first[k \in 0 .. n] ==
            IF k = 0 THEN <<>>
            ELSE LET rest == S \ ToSet(first[k - 1]) IN
                 IF rest = {} THEN first[k - 1]
                 ELSE Append(first[k - 1],
                             CHOOSE t \in rest :
                                 \A r \in rest : actionTime[r] <= actionTime[t])
    IN  first[n]

\* A page: of the twysts that the server lists, those that follow the
\* cursor, which for the private ones is an index.
Following(p, listed) ==
    IF p.tab = "twysted"
    THEN Latest({t \in listed : p.cursor = 0 \/ actionTime[t] < p.cursor}, Bunch)
    ELSE LET newest == Latest(listed, p.cursor + Bunch)
         IN  SubSeq(newest, p.cursor + 1, Len(newest))

\* The app sorts out what is not complete.  The server may list drafts and
\* deleted ones or not.
ServerAnswers(i) ==
    LET p == pages[i]
        complete == {t \in Twysts : TabOf[t] = p.tab /\ status[t] = "complete"}
    IN
    /\ p.phase = "sent"
    /\ \E others \in SUBSET ({t \in Twysts : TabOf[t] = p.tab} \ complete) :
          LET raw == Following(p, complete \cup others)
              items == Latest(ToSet(raw) \cap complete, Bunch)
          IN pages' = [pages EXCEPT ![i] =
                [p EXCEPT !.phase = "answered", !.items = items,
                          !.lastTime = IF items = <<>> THEN 0
                                       ELSE actionTime[Last(items)],
                          !.cut = Len(items) < Bunch /\ Len(raw) = Bunch]]
    /\ UNCHANGED <<serverVars, notices, tabVars, reloading, tableVars, asked,
                   hazards>>

\* An answer that does not parse fails the page, but is an empty page of the
\* private twysts.
RequestFails(i) ==
    /\ pages[i].phase = "sent"
    /\ \/ pages' = [pages EXCEPT ![i].phase = "failed"]
       \/ /\ pages[i].tab = "private"
          /\ pages' = [pages EXCEPT ![i] =
                          [@ EXCEPT !.phase = "answered", !.cut = TRUE]]
    /\ UNCHANGED <<serverVars, notices, tabVars, reloading, tableVars, asked,
                   hazards>>

-----------------------------------------------------------------------------
(* The arrays                                                              *)

\* Mutant: an equal entry is not noticed.
Ascending_Twice(l, t) ==
    LET older == {i \in DOMAIN l : l[i] < t}
    IN  IF older = {} THEN Append(l, t) ELSE InsertAt(l, Min(older), t)

\* addTwystToDataSource:twyst:isAscending:isNew:, from the newest entry on
\* (Ascending) or from the oldest (Descending).
Ascending(l, t) ==
    LET notNewer == {i \in DOMAIN l : l[i] <= t}
    IN  IF notNewer = {} THEN Append(l, t)
        ELSE IF l[Min(notNewer)] = t THEN l
        ELSE InsertAt(l, Min(notNewer), t)

Descending(l, t) ==
    LET notOlder == {i \in DOMAIN l : l[i] >= t}
    IN  IF notOlder = {} THEN <<t>> \o l
        ELSE IF l[Max(notOlder)] = t THEN l
        ELSE InsertAt(l, Max(notOlder) + 1, t)

\* The twysts of a page, one by one.
Merged(l, items) ==
    LET after[i \in 0 .. Len(items)] ==
            IF i = 0 THEN l ELSE Descending(after[i - 1], items[i])
    IN  after[Len(items)]

\* deleteTwystFromDataSource:twyst:, if the twyst is found.
Without(l, t) == RemoveAt(l, CHOOSE i \in DOMAIN l : l[i] = t)

\* tableView:numberOfRowsInSection:, where the row below the twysts asks for
\* the next page.
NumberOfRows(tab) ==
    IF list[tab] = <<>> THEN 1
    ELSE IF allLoaded[tab] \/ (tab = "twysted" /\ loadFailed[tab])
    THEN Len(list[tab])
    ELSE Len(list[tab]) + 1

\* A table that was reloaded, and one that is told of one row more or less.
Reloaded(tab) == rows' = [rows EXCEPT ![tab] = NumberOfRows(tab)']

Told(tab, expected) ==
    /\ Reloaded(tab)
    /\ crashed' = (expected # rows'[tab])

-----------------------------------------------------------------------------
(* Loading pages                                                           *)

\* The pages of a list that are under way when it is pulled, or when its
\* first page is asked for again.
Stale(tab) ==
    [i \in DOMAIN pages |-> [pages[i] EXCEPT !.stale = @ \/ pages[i].tab = tab]]

\* reloadContent:forced: when the list is pulled down, or when the private
\* twysts are shown for the first time.
Refresh(tab) ==
    /\ Len(pages) < MaxPages
    /\ cursor' = [cursor EXCEPT ![tab] = 0]
    /\ allLoaded' = [allLoaded EXCEPT ![tab] = FALSE]
    /\ pages' = Append(Stale(tab), NewPage(tab, 0))
    /\ opened' = opened \cup {tab}
    /\ UNCHANGED <<serverVars, notices, list, crashed>>
    /\ IF tab = "private"
       THEN /\ loadFailed' = [loadFailed EXCEPT ![tab] = FALSE]
            /\ Reloaded(tab)
            /\ hazards' = [hazards EXCEPT ![tab] = @ \ TableHazards]
       ELSE /\ hazards' = [hazards EXCEPT ![tab] = @ \cup
                              (IF allLoaded[tab] THEN {"refreshed"} ELSE {})]
            /\ UNCHANGED <<loadFailed, rows>>
    /\ asked' = {}

Pull(tab) ==
    /\ tab \in opened
    /\ ~reloading
    /\ reloading' = TRUE
    /\ Refresh(tab)

OpenPrivate ==
    /\ "private" \in Tabs \ opened
    /\ Refresh("private")
    /\ UNCHANGED reloading

\* scrollViewDidReachBottom: of either table, the flags of which are tested,
\* loads more of the tab in front.  Nothing keeps it from asking again while
\* an answer is under way, be it for a first page once more.
LoadMore(tab) ==
    /\ tab \in opened
    /\ \E scrolled \in opened :
          cursor[scrolled] # 0 /\ (scrolled = "private" => ~loadFailed[scrolled])
    /\ ~allLoaded[tab]
    /\ Len(pages) < MaxPages
    /\ pages' = Append(IF cursor[tab] = 0 THEN Stale(tab) ELSE pages,
                       NewPage(tab, cursor[tab]))
    /\ UNCHANGED <<serverVars, notices, opened, list, cursor, allLoaded,
                   reloading, crashed>>
    /\ IF tab = "private"
       THEN /\ loadFailed' = [loadFailed EXCEPT ![tab] = FALSE]
            /\ Reloaded(tab)
            /\ hazards' = [hazards EXCEPT ![tab] = @ \ TableHazards]
       ELSE UNCHANGED <<loadFailed, rows, hazards>>
    /\ asked' = {}

\* What a page brings on the list, or leaves behind if the list starts anew.
Brought(p) ==
    (IF cursor[p.tab] = 0 /\ ~allLoaded[p.tab] THEN {}
     ELSE hazards[p.tab] \cap ListHazards)
    \cup (IF p.cut THEN {"cut"} ELSE {})
    \cup (IF p.crossed THEN {"crossed"} ELSE {})
    \cup (IF p.stale THEN {"stale"} ELSE {})

\* Mutant: any page counts as the last.
PageLoaded_Early(tab, i) ==
    LET p == pages[i]
        kept == IF cursor[tab] = 0 THEN <<>> ELSE list[tab]
    IN
    /\ p.tab = tab /\ p.phase = "answered"
    /\ list' = [list EXCEPT ![tab] = Merged(kept, p.items)]
    /\ cursor' = [cursor EXCEPT ![tab] =
                    IF tab = "private" THEN Len(list'[tab])
                    ELSE IF p.items = <<>> THEN @
                    ELSE p.lastTime]
    /\ allLoaded' = [allLoaded EXCEPT ![tab] = @ \/ Len(p.items) <= Bunch]
    /\ loadFailed' = [loadFailed EXCEPT ![tab] = FALSE]
    /\ asked' = IF tab = "twysted" THEN ToSet(p.items) ELSE {}
    /\ hazards' = [hazards EXCEPT ![tab] = Brought(p)]
    /\ Reloaded(tab)
    /\ pages' = RemoveAt(pages, i)
    /\ reloading' = FALSE
    /\ UNCHANGED <<serverVars, notices, opened, crashed>>

PageLoaded(tab, i) ==
    LET p == pages[i]
        kept == IF cursor[tab] = 0 THEN <<>> ELSE list[tab]
    IN
    /\ p.tab = tab /\ p.phase = "answered"
    /\ list' = [list EXCEPT ![tab] = Merged(kept, p.items)]
    /\ cursor' = [cursor EXCEPT ![tab] =
                    IF tab = "private" THEN Len(list'[tab])
                    ELSE IF p.items = <<>> THEN @
                    ELSE p.lastTime]
    /\ allLoaded' = [allLoaded EXCEPT ![tab] = @ \/ Len(p.items) < Bunch]
    /\ loadFailed' = [loadFailed EXCEPT ![tab] = FALSE]
    /\ asked' = IF tab = "twysted" THEN ToSet(p.items) ELSE {}
    /\ hazards' = [hazards EXCEPT ![tab] = Brought(p)]
    /\ Reloaded(tab)
    /\ pages' = RemoveAt(pages, i)
    /\ reloading' = FALSE
    /\ UNCHANGED <<serverVars, notices, opened, crashed>>

PageFailed(tab, i) ==
    /\ pages[i].tab = tab /\ pages[i].phase = "failed"
    /\ UNCHANGED <<serverVars, notices, opened, cursor, allLoaded, crashed>>
    /\ list' = [list EXCEPT ![tab] = <<>>]
    /\ loadFailed' = [loadFailed EXCEPT ![tab] = TRUE]
    /\ hazards' = [hazards EXCEPT ![tab] =
                     (@ \ TableHazards) \cup {"failed"}]
    /\ Reloaded(tab)
    /\ pages' = RemoveAt(pages, i)
    /\ reloading' = FALSE
    /\ asked' = {}

-----------------------------------------------------------------------------
(* Notifications                                                           *)

Crossed(tab) ==
    [i \in DOMAIN pages |->
        IF pages[i].tab = tab /\ pages[i].phase = "answered"
        THEN [pages[i] EXCEPT !.crossed = TRUE]
        ELSE pages[i]]

\* Those of the server come with checks that overlap, those of the app from
\* itself: in any order.
Take(i, kind, t) ==
    /\ notices[i] = [kind |-> kind, twyst |-> t]
    /\ notices' = RemoveAt(notices, i)
    /\ pages' = Crossed(TabOf[t])
    /\ UNCHANGED <<serverVars, opened, cursor, allLoaded, loadFailed,
                   reloading>>

Insert(tab, t) ==
    list' = IF tab \in opened
            THEN [list EXCEPT ![tab] = Ascending(@, t)]
            ELSE list

\* The twysts that a notification under way will insert.
Awaited == {n.twyst : n \in {m \in ToSet(notices) : m.kind # "delete"}}

\* The private list gets an entry before others that the server lists before
\* it: its length is no index any more.
OutOfTurn(tab, t) ==
    /\ tab = "private" /\ list' # list
    /\ \E s \in Twysts \ (ToSet(list'[tab]) \cup Awaited') :
          TabOf[s] = tab /\ status[s] = "complete" /\ actionTime[s] > actionTime[t]

\* The deletion of t has been handled already.
Overtaken(t) ==
    /\ status[t] = "deleted"
    /\ [kind |-> "delete", twyst |-> t] \notin ToSet(notices')

Noted(tab, t) ==
    (IF OutOfTurn(tab, t) THEN {"shifted"} ELSE {})
    \cup (IF Overtaken(t) THEN {"overtaken"} ELSE {})

Note(tab, t, others) ==
    hazards' = [hazards EXCEPT ![tab] = others \cup Noted(tab, t)]

\* The second half of handleCreateNotificationReceived: and of
\* handleReplyNotificationReceived:, while the screen is in front or not.
ShowInserted(tab, t) ==
    IF list' = list /\ tab \in opened
    THEN Note(tab, t, hazards[tab]) /\ UNCHANGED tableVars
    ELSE \/ /\ Len(list'[tab]) > 1
            /\ Told(tab, rows[tab] + 1)
            /\ Note(tab, t, hazards[tab])
         \/ /\ Reloaded(tab)
            /\ Note(tab, t, hazards[tab] \ TableHazards)
            /\ UNCHANGED crashed

TwystCreated(i, t) ==
    /\ Take(i, "create", t)
    /\ asked' = {t}
    /\ Insert(TabOf[t], t)
    /\ ShowInserted(TabOf[t], t)

TwystReplied(i, t) ==
    /\ Take(i, "reply", t)
    /\ asked' = {}
    /\ Insert(TabOf[t], t)
    /\ ShowInserted(TabOf[t], t)

\* handleTwystDidReply: tells the table nothing.
TwystDidReply(i, t) ==
    /\ Take(i, "didReply", t)
    /\ asked' = {}
    /\ Insert(TabOf[t], t)
    /\ Note(TabOf[t], t, hazards[TabOf[t]]
                          \cup (IF list' = list THEN {} ELSE {"silent"}))
    /\ UNCHANGED tableVars

Shift(tab) == IF tab = "private" THEN {"shifted"} ELSE {}

\* Mutant: the deletion is ignored.
TwystDeleted_Keep(i, t) ==
    /\ Take(i, "delete", t)
    /\ asked' = {}
    /\ UNCHANGED <<list, tableVars, hazards>>

\* Mutant: the last row is deleted like any other.
TwystDeleted_Animated(i, t) ==
    LET tab == TabOf[t] IN
    /\ Take(i, "delete", t)
    /\ asked' = {}
    /\ IF t \notin ToSet(list[tab])
       THEN UNCHANGED <<list, tableVars, hazards>>
       ELSE /\ list' = [list EXCEPT ![tab] = Without(@, t)]
            /\ \/ /\ Told(tab, rows[tab] - 1)
                  /\ hazards' = [hazards EXCEPT ![tab] = @ \cup Shift(tab)]
               \/ /\ Reloaded(tab)
                  /\ hazards' = [hazards EXCEPT ![tab] =
                                    (@ \ TableHazards) \cup Shift(tab)]
                  /\ UNCHANGED crashed

TwystDeleted(i, t) ==
    LET tab == TabOf[t] IN
    /\ Take(i, "delete", t)
    /\ asked' = {}
    /\ IF t \notin ToSet(list[tab])
       THEN UNCHANGED <<list, tableVars, hazards>>
       ELSE /\ list' = [list EXCEPT ![tab] = Without(@, t)]
            /\ \/ /\ list'[tab] # <<>>
                  /\ Told(tab, rows[tab] - 1)
                  /\ hazards' = [hazards EXCEPT ![tab] = @ \cup Shift(tab)]
               \/ /\ Reloaded(tab)
                  /\ hazards' = [hazards EXCEPT ![tab] =
                                    (@ \ TableHazards) \cup Shift(tab)]
                  /\ UNCHANGED crashed

\* refreshTableView when the screen comes back.
Appear(tab) ==
    /\ tab \in opened
    /\ UNCHANGED <<serverVars, notices, pages, tabVars, reloading, crashed>>
    /\ Reloaded(tab)
    /\ hazards' = [hazards EXCEPT ![tab] = @ \ TableHazards]
    /\ asked' = {}

-----------------------------------------------------------------------------
Server ==
    \/ \E t \in Twysts :
          ServerCreates(t) \/ ServerReplies(t) \/ ServerDeletes(t)
    \/ \E i \in DOMAIN pages : ServerAnswers(i) \/ RequestFails(i)

Pages ==
    \E tab \in Tabs :
        \/ Pull(tab) \/ LoadMore(tab) \/ Appear(tab)
        \/ \E i \in DOMAIN pages : PageLoaded(tab, i) \/ PageFailed(tab, i)

Notifications ==
    \E t \in Twysts : \E i \in DOMAIN notices :
        \/ TwystCreated(i, t) \/ TwystReplied(i, t)
        \/ TwystDidReply(i, t) \/ TwystDeleted(i, t)

\* The exception of an inconsistent table ends the app.
Next == ~crashed /\ (Server \/ OpenPrivate \/ Pages \/ Notifications)

Spec == Init /\ [][Next]_vars

-----------------------------------------------------------------------------
(* Properties                                                              *)

\* A list holds no twyst twice and stays sorted, newest first, although
\* pages are merged from its end, notifications from its head, and late
\* pages overlap with what is there.
ListIsSorted ==
    \A tab \in Tabs : \A i, j \in DOMAIN list[tab] :
        i < j => list[tab][i] > list[tab][j]

\* When the app takes a list for complete, and nothing is under way, every
\* twyst of the server is in it, unless one of the ways to lose some has
\* been met since the list was last started anew.
NoGap ==
    \A tab \in Tabs :
        /\ allLoaded[tab]
        /\ notices = <<>>
        /\ \A i \in DOMAIN pages : pages[i].tab # tab
        /\ hazards[tab] \cap ListHazards = {}
        => \A t \in Twysts :
              TabOf[t] = tab /\ status[t] = "complete" => t \in ToSet(list[tab])

\* A twyst whose deletion was handled does not come back to its list and is
\* not downloaded again, unless it was on a page made before, or another
\* notification of a twyst of the list came after its deletion.
NoGhost ==
    \A t \in Twysts :
        /\ status[t] = "deleted"
        /\ \A i \in DOMAIN notices : notices[i].twyst # t
        /\ hazards[TabOf[t]] \cap {"crossed", "overtaken"} = {}
        => t \notin ToSet(list[TabOf[t]]) \cup asked

\* A table is told of as many rows as its array has gained or lost, so that
\* it never raises NSInternalInconsistencyException, unless the array or the
\* flag of the loading row was changed behind its back.
NoBadUpdate ==
    crashed => \E tab \in Tabs : hazards[tab] \cap TableHazards # {}
=============================================================================
