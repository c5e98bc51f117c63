--------------------------- MODULE TwystDownload ---------------------------
(***************************************************************************)
(* The download service of the Twyst app: TwystDownloadService, its        *)
(* TwystDownloadQueues, the saved-twyst store (TSavedTwystManager) they    *)
(* share, and those who use both: the preview that waits for a twyst, the  *)
(* delete notification that removes one, the user's own reply that a       *)
(* background thread adds to one.                                          *)
(*                                                                         *)
(* Threads.  The main thread runs one thing at a time: a step of the one   *)
(* second timer (while `tick' is not empty), a block of the main queue, or *)
(* a user's action.  Every running download has a thread of its own: the   *)
(* network first, then a worker of a global queue.  The actions below are  *)
(* the stretches between two points where another thread can be seen.      *)
(***************************************************************************)
EXTENDS SavedTwyst, Sequences, SequencesExt

CONSTANTS Twysts,       \* twyst ids
          Pairs,        \* the pairs of queues in use: "own", "friend"
          Movies,       \* the replies that are a movie, not an archive
          MaxRequests   \* bound: calls of downloadTwyst/downloadFriendTwyst

ASSUME PairsAssumption == Pairs \subseteq {"own", "friend"}
ASSUME MoviesAssumption == Movies \subseteq Replies
ASSUME MaxRequestsAssumption == MaxRequests \in Nat

Queues == Pairs \X {"principal", "normal"}

\* The queue of q's pair that the timer looks at first.
Principal(q) == <<q[1], "principal">>
IsNormal(q) == q[2] = "normal"

VARIABLES
    replyCount,     \* server: how many replies each twyst has
    timerOn,        \* _timer of the service
    tick,           \* the queues the running timer call has yet to look at
    queue,          \* _downloadItemsQueue of each queue
    isDownloading,  \* _isDownloading of each queue
    jobs,           \* the downloads that have begun and not yet ended
    mainQueue,      \* blocks waiting on the main dispatch queue
    stored,         \* the twysts that have a TSavedTwyst
    frames,         \* listStillframeRegular of each
    total,          \* totalFrames of each
    files,          \* <<twyst, reply>>: reply folders whose files are there
    localReplies,   \* addReplySuccess blocks that are running
    observing,      \* twysts whose preview observes the notifications
    requests,       \* bounded by MaxRequests
    hazards         \* history: which of the hazards below a twyst has met

serviceVars == <<timerOn, tick, queue, isDownloading>>
recordVars == <<stored, frames, total>>
storeVars == <<recordVars, files>>
userVars == <<localReplies, observing, requests>>
vars == <<replyCount, serviceVars, jobs, mainQueue, storeVars, userVars,
          hazards>>

-----------------------------------------------------------------------------
(* Types                                                                   *)

\* A download of `twyst' by queue `q'.  Phases: "request" (waiting for the
\* server), "answered" (its completion block is on the main queue), then,
\* on the worker thread, "open" (at the head of the loop, about to look at
\* reply `at'), "fetch" (the folder of reply `at' is empty, its data is
\* being fetched), "notify" (the save block is on the main queue) and
\* "clear" (about to reset _isDownloading).  `list' is replyCount as the
\* code holds it, `known' the saved frames when the list arrived, `saved'
\* the TSavedTwyst captured then and `arr' is arrFrames.
Job == [q : Queues, twyst : Twysts,
        phase : {"request", "answered", "open", "fetch", "notify", "clear"},
        list : 0..MaxReplies, known : FrameSet,
        saved : {"none", "live", "deleted"},
        at : 1 .. MaxReplies + 1, arr : FrameSet]

NewJob(q, t) ==
    [q |-> q, twyst |-> t, phase |-> "request", list |-> 0, known |-> {},
     saved |-> "none", at |-> 1, arr |-> {}]

\* A block on the main queue: the completion of getTwystReplies (with the
\* list or with nil), the save of a finished download, and the posting of
\* either notification.
Block == [kind : {"list", "nil", "save", "did", "fail"}, q : Queues,
          twyst : Twysts, list : 0..MaxReplies, arr : FrameSet]

ListBlock(j, n) ==
    [kind |-> "list", q |-> j.q, twyst |-> j.twyst, list |-> n, arr |-> {}]
NilBlock(j) ==
    [kind |-> "nil", q |-> j.q, twyst |-> j.twyst, list |-> 0, arr |-> {}]
SaveBlock(j) ==
    [kind |-> "save", q |-> j.q, twyst |-> j.twyst, list |-> j.list,
     arr |-> j.arr]
DidBlock(q, t, n) ==
    [kind |-> "did", q |-> q, twyst |-> t, list |-> n, arr |-> {}]
FailBlock(q, t) ==
    [kind |-> "fail", q |-> q, twyst |-> t, list |-> 0, arr |-> {}]

\* A reply of this user's that the server has accepted: "sent" until the
\* answer comes; then a background thread adds it to the saved record:
\* "move" its files, "read" the record, "commit" the new frames.
LocalReply == [twyst : Twysts, reply : Replies,
               phase : {"sent", "move", "read", "commit"},
               saved : {"none", "live", "deleted"},
               total : Nat, replyIndex : Nat]

\* What can happen to a twyst while it is downloaded that the code does
\* not guard against.  The invariants say what holds while none has.
\*   "overlap"  two workers download it at the same time
\*   "local"    a local reply and a download, or two local replies, of it
\*              are in progress at the same time
\*   "deleted"  its record is deleted during one of these
\*   "badEntry" an entry of an archive could not be unpacked
\*   "corrupt"  an archive could not be opened
Hazard == {"overlap", "local", "deleted", "badEntry", "corrupt"}

TypeOK ==
    /\ replyCount \in [Twysts -> 1..MaxReplies]
    /\ timerOn \in BOOLEAN
    /\ tick \in SUBSET Queues
    /\ queue \in [Queues -> Seq(Twysts)]
    /\ isDownloading \in [Queues -> BOOLEAN]
    /\ jobs \in SUBSET Job
    /\ mainQueue \in Seq(Block)
    /\ stored \in SUBSET Twysts
    /\ frames \in [Twysts -> FrameSet]
    /\ total \in [Twysts -> Nat]
    /\ files \in SUBSET (Twysts \X Replies)
    /\ localReplies \in SUBSET LocalReply
    /\ observing \in SUBSET Twysts
    /\ requests \in 0..MaxRequests
    /\ hazards \in [Twysts -> SUBSET Hazard]

Init ==
    /\ replyCount = [t \in Twysts |-> 1]
    /\ timerOn = FALSE
    /\ tick = {}
    /\ queue = [q \in Queues |-> <<>>]
    /\ isDownloading = [q \in Queues |-> FALSE]
    /\ jobs = {}
    /\ mainQueue = <<>>
    /\ stored = {}
    /\ frames = [t \in Twysts |-> {}]
    /\ total = [t \in Twysts |-> 0]
    /\ files = {}
    /\ localReplies = {}
    /\ observing = {}
    /\ requests = 0
    /\ hazards = [t \in Twysts |-> {}]

-----------------------------------------------------------------------------
(* Who is busy with a twyst                                                *)

WorkerPhases == {"open", "fetch", "notify", "clear"}

\* A worker is downloading t, or has done so and its save has yet to run.
Downloading(t) ==
    \/ \E j \in jobs : j.twyst = t /\ j.phase \in WorkerPhases
    \/ \E i \in 1..Len(mainQueue) :
          mainQueue[i].twyst = t /\ mainQueue[i].kind = "save"

AddingReply(t) == \E l \in localReplies : l.twyst = t

InFlight(t) ==
    \/ \E j \in jobs : j.twyst = t
    \/ \E i \in 1..Len(mainQueue) : mainQueue[i].twyst = t
    \/ AddingReply(t)

Meets(t, newHazards) ==
    hazards' = [hazards EXCEPT ![t] = @ \cup newHazards]

-----------------------------------------------------------------------------
(* The server and the service                                              *)

\* Another user replies.
ServerReply(t) ==
    /\ replyCount[t] < MaxReplies
    /\ replyCount' = [replyCount EXCEPT ![t] = @ + 1]
    /\ UNCHANGED <<serviceVars, jobs, mainQueue, storeVars, userVars,
                   hazards>>

\* AppDelegate starts the service with a session and stops it at logout;
\* neither touches the queues or a download in progress.
StartDownloadService ==
    /\ tick = {}
    /\ ~timerOn
    /\ timerOn' = TRUE
    /\ UNCHANGED <<replyCount, tick, queue, isDownloading, jobs, mainQueue,
                   storeVars, userVars, hazards>>

StopDownloadService ==
    /\ tick = {}
    /\ timerOn
    /\ timerOn' = FALSE
    /\ UNCHANGED <<replyCount, tick, queue, isDownloading, jobs, mainQueue,
                   storeVars, userVars, hazards>>

\* TwystDownloadQueue.downloadTwyst: a twyst that is queued already is
\* moved to the front by an urgent request and left alone by another.
Enqueued(s, t, isUrgent) ==
    IF \E i \in 1..Len(s) : s[i] = t
    THEN IF isUrgent
         THEN LET i == CHOOSE i \in 1..Len(s) : s[i] = t
              IN  <<t>> \o RemoveAt(s, i)
         ELSE s
    ELSE IF isUrgent THEN <<t>> \o s ELSE Append(s, t)

\* TwystDownloadService.downloadTwyst and downloadFriendTwyst.  An urgent
\* request comes from a preview, which first observes the notifications;
\* friends' twysts are only ever requested by a preview.
DownloadTwyst(p, t, isUrgent) ==
    LET q == <<p, IF isUrgent THEN "principal" ELSE "normal">> IN
    /\ tick = {}
    /\ p = "friend" => isUrgent
    /\ requests < MaxRequests
    /\ requests' = requests + 1
    /\ queue' = [queue EXCEPT ![q] = Enqueued(@, t, isUrgent)]
    /\ observing' = IF isUrgent THEN observing \cup {t} ELSE observing
    /\ UNCHANGED <<replyCount, timerOn, tick, isDownloading, jobs, mainQueue,
                   storeVars, localReplies, hazards>>

\* handleDownloadTimer.  It looks at each queue in turn, the principal one
\* of a pair first, while workers may reset their queue's _isDownloading
\* between two looks.  The pairs have nothing in common here, so the model
\* leaves open which one it takes first.
Tick ==
    /\ timerOn
    /\ tick = {}
    /\ tick' = Queues
    /\ UNCHANGED <<replyCount, timerOn, queue, isDownloading, jobs, mainQueue,
                   storeVars, userVars, hazards>>

InTurn(q) == q \in tick /\ (IsNormal(q) => Principal(q) \notin tick)

\* Mutant: _isDownloading is not asked.
CanStart_Twice(q) ==
    queue[q] # <<>> /\ (IsNormal(q) => ~isDownloading[Principal(q)])

CanStart(q) ==
    /\ queue[q] # <<>>
    /\ ~isDownloading[q]
    /\ IsNormal(q) => ~isDownloading[Principal(q)]

\* checkReplyAndDownload down to the request.
StartDownload(q) ==
    /\ InTurn(q)
    /\ CanStart(q)
    /\ tick' = tick \ {q}
    /\ isDownloading' = [isDownloading EXCEPT ![q] = TRUE]
    /\ queue' = [queue EXCEPT ![q] = Tail(@)]
    /\ jobs' = jobs \cup {NewJob(q, Head(queue[q]))}
    /\ UNCHANGED <<replyCount, timerOn, mainQueue, storeVars, userVars,
                   hazards>>

PassOver(q) ==
    /\ InTurn(q)
    /\ ~CanStart(q)
    /\ tick' = tick \ {q}
    /\ UNCHANGED <<replyCount, timerOn, queue, isDownloading, jobs, mainQueue,
                   storeVars, userVars, hazards>>

-----------------------------------------------------------------------------
(* A download: the request and its completion block                        *)

\* getTwystReplies ends, on its own thread, with the server's list or with
\* nil, and puts its completion on the main queue.
Answer(j, block) ==
    /\ j.phase = "request"
    /\ mainQueue' = Append(mainQueue, block)
    /\ jobs' = (jobs \ {j}) \cup {[j EXCEPT !.phase = "answered"]}
    /\ UNCHANGED <<replyCount, serviceVars, storeVars, userVars, hazards>>

RepliesArrive(j) == Answer(j, ListBlock(j, replyCount[j.twyst]))
RepliesFail(j) == Answer(j, NilBlock(j))

\* The main thread takes the next block, b, of its queue.
MainRuns(b, kind) ==
    /\ tick = {}
    /\ mainQueue # <<>>
    /\ b = Head(mainQueue)
    /\ b.kind = kind

Answered(j, b) == j.q = b.q /\ j.twyst = b.twyst /\ j.phase = "answered"

\* Mutant: _isDownloading is not reset.
Ends_FlagKept(j) == jobs' = jobs \ {j} /\ UNCHANGED isDownloading

\* A download is over: the next call of the timer may begin another.
Ends(j) ==
    /\ isDownloading' = [isDownloading EXCEPT ![j.q] = FALSE]
    /\ jobs' = jobs \ {j}

EndsAtOnce(b, j, kind, notification) ==
    /\ MainRuns(b, kind)
    /\ Answered(j, b)
    /\ mainQueue' = Append(Tail(mainQueue), notification)
    /\ Ends(j)
    /\ UNCHANGED <<replyCount, timerOn, tick, queue, storeVars, userVars,
                   hazards>>

\* Mutant: the queue is freed and nobody told.
GiveUp_Silent(b, j) ==
    /\ MainRuns(b, "nil")
    /\ Answered(j, b)
    /\ mainQueue' = Tail(mainQueue)
    /\ Ends(j)
    /\ UNCHANGED <<replyCount, timerOn, tick, queue, storeVars, userVars,
                   hazards>>

\* No list: post the failure, give the queue free.
GiveUp(b, j) == EndsAtOnce(b, j, "nil", FailBlock(b.q, b.twyst))

\* "check if all replies are downloaded": the list is compared with the
\* number of replies that the saved frames come from.
AllRepliesSaved(b) ==
    /\ b.twyst \in stored
    /\ b.list <= Cardinality(ZipNames(frames[b.twyst]))

SkipDownload(b, j) ==
    /\ AllRepliesSaved(b)
    /\ EndsAtOnce(b, j, "list", DidBlock(b.q, b.twyst, b.list))

\* Otherwise a worker gets the list, the names of the replies that are
\* saved now, and the TSavedTwyst.
BeginDownload(b, j) ==
    /\ MainRuns(b, "list")
    /\ Answered(j, b)
    /\ ~AllRepliesSaved(b)
    /\ mainQueue' = Tail(mainQueue)
    /\ jobs' = (jobs \ {j}) \cup
               {[j EXCEPT !.phase = "open", !.list = b.list,
                          !.known = frames[b.twyst],
                          !.saved = IF b.twyst \in stored THEN "live"
                                                          ELSE "none"]}
    /\ Meets(b.twyst,
             (IF Downloading(b.twyst) THEN {"overlap"} ELSE {})
             \cup (IF AddingReply(b.twyst) THEN {"local"} ELSE {}))
    /\ UNCHANGED <<replyCount, serviceVars, storeVars, userVars>>

-----------------------------------------------------------------------------
(* A download: the worker                                                  *)

\* One turn of the loop ends with the frames `new' in arrFrames.
NextReply(j, new) ==
    jobs' = (jobs \ {j}) \cup
            {[j EXCEPT !.phase = "open", !.at = @ + 1, !.arr = @ \cup new]}

\* Mutant: a saved reply is passed over.
ReuseReply_Nothing(j) ==
    /\ j.phase = "open"
    /\ j.at <= j.list
    /\ j.at \in ZipNames(j.known)
    /\ NextReply(j, {})
    /\ UNCHANGED <<replyCount, serviceVars, mainQueue, storeVars, userVars,
                   hazards>>

\* A reply that was saved when the list arrived: its frames are taken from
\* the TSavedTwyst as it is now.  If that was deleted meanwhile, what the
\* object still shows is not defined: nothing, or what it showed before.
ReuseReply(j) ==
    /\ j.phase = "open"
    /\ j.at <= j.list
    /\ j.at \in ZipNames(j.known)
    /\ \E F \in IF j.saved = "live" THEN {frames[j.twyst]} ELSE {{}, j.known} :
          NextReply(j, ReusedFrames(F, j.at, Cardinality(j.arr)))
    /\ UNCHANGED <<replyCount, serviceVars, mainQueue, storeVars, userVars,
                   hazards>>

\* Mutant: the folder is deleted of a saved reply, too.
OpenFolder_EveryReply(j) ==
    /\ j.phase = "open"
    /\ j.at <= j.list
    /\ files' = files \ {<<j.twyst, j.at>>}
    /\ jobs' = (jobs \ {j}) \cup {[j EXCEPT !.phase = "fetch"]}
    /\ UNCHANGED <<replyCount, serviceVars, mainQueue, recordVars, userVars,
                   hazards>>

\* Any other reply: its folder is deleted and created anew ...
OpenFolder(j) ==
    /\ j.phase = "open"
    /\ j.at <= j.list
    /\ j.at \notin ZipNames(j.known)
    /\ files' = files \ {<<j.twyst, j.at>>}
    /\ jobs' = (jobs \ {j}) \cup {[j EXCEPT !.phase = "fetch"]}
    /\ UNCHANGED <<replyCount, serviceVars, mainQueue, recordVars, userVars,
                   hazards>>

\* ... and filled from the movie or the archive,
FetchReply(j) ==
    /\ j.phase = "fetch"
    /\ files' = files \cup {<<j.twyst, j.at>>}
    /\ NextReply(j, FetchedFrames(j.at, Cardinality(j.arr)))
    /\ UNCHANGED <<replyCount, serviceVars, mainQueue, recordVars, userVars,
                   hazards>>

\* Mutant: the frames so far are kept.
FetchNothing_FramesKept(j) ==
    /\ j.phase = "fetch"
    /\ jobs' = (jobs \ {j}) \cup
               {[j EXCEPT !.phase = "open", !.at = j.list + 1]}
    /\ UNCHANGED <<replyCount, serviceVars, mainQueue, storeVars, userVars,
                   hazards>>

\* or there is no data, which drops all frames and leaves the loop,
FetchNothing(j) ==
    /\ j.phase = "fetch"
    /\ jobs' = (jobs \ {j}) \cup
               {[j EXCEPT !.phase = "open", !.at = j.list + 1, !.arr = {}]}
    /\ UNCHANGED <<replyCount, serviceVars, mainQueue, storeVars, userVars,
                   hazards>>

\* or an entry cannot be unpacked: its frame is added, its file is not
\* written,
FetchBadEntry(j) ==
    /\ j.phase = "fetch"
    /\ j.at \notin Movies
    /\ NextReply(j, FetchedFrames(j.at, Cardinality(j.arr)))
    /\ Meets(j.twyst, {"badEntry"})
    /\ UNCHANGED <<replyCount, serviceVars, mainQueue, storeVars, userVars>>

\* or the archive cannot be opened, and the reply goes without frames.
FetchCorrupt(j) ==
    /\ j.phase = "fetch"
    /\ j.at \notin Movies
    /\ NextReply(j, {})
    /\ Meets(j.twyst, {"corrupt"})
    /\ UNCHANGED <<replyCount, serviceVars, mainQueue, storeVars, userVars>>

LoopDone(j) == j.phase = "open" /\ j.at > j.list

WorkerPosts(j, block, phase) ==
    /\ mainQueue' = Append(mainQueue, block)
    /\ jobs' = (jobs \ {j}) \cup {[j EXCEPT !.phase = phase]}
    /\ UNCHANGED <<replyCount, serviceVars, storeVars, userVars, hazards>>

\* Mutant: the notification before the save.
PostSave_DidFirst(j) ==
    /\ LoopDone(j)
    /\ j.arr # {}
    /\ mainQueue' = mainQueue \o
                       <<DidBlock(j.q, j.twyst, j.list), SaveBlock(j)>>
    /\ jobs' = (jobs \ {j}) \cup {[j EXCEPT !.phase = "clear"]}
    /\ UNCHANGED <<replyCount, serviceVars, storeVars, userVars, hazards>>

\* With frames: first the save, then the notification; without: failure.
PostSave(j) ==
    LoopDone(j) /\ j.arr # {} /\ WorkerPosts(j, SaveBlock(j), "notify")

PostDid(j) ==
    /\ j.phase = "notify"
    /\ WorkerPosts(j, DidBlock(j.q, j.twyst, j.list), "clear")

PostFail(j) ==
    /\ LoopDone(j)
    /\ j.arr = {}
    /\ WorkerPosts(j, FailBlock(j.q, j.twyst), "clear")

EndDownload(j) ==
    /\ j.phase = "clear"
    /\ Ends(j)
    /\ UNCHANGED <<replyCount, timerOn, tick, queue, mainQueue, storeVars,
                   userVars, hazards>>

-----------------------------------------------------------------------------
(* The main queue: saving and notifying                                    *)

\* confirmDownloadedTwyst: all frames of a record are replaced, or the
\* record is created with them.
ConfirmDownloadedTwyst(b) ==
    /\ MainRuns(b, "save")
    /\ mainQueue' = Tail(mainQueue)
    /\ stored' = stored \cup {b.twyst}
    /\ frames' = [frames EXCEPT ![b.twyst] = b.arr]
    /\ total' = [total EXCEPT ![b.twyst] = Cardinality(b.arr)]
    /\ UNCHANGED <<replyCount, serviceVars, jobs, files, userVars, hazards>>

\* Either notification reaches the preview of its twyst, whichever queue
\* posted it, and the preview stops observing.
Deliver(b, kind) ==
    /\ MainRuns(b, kind)
    /\ mainQueue' = Tail(mainQueue)
    /\ observing' = observing \ {b.twyst}
    /\ UNCHANGED <<replyCount, serviceVars, jobs, storeVars, localReplies,
                   requests, hazards>>

DeliverDid(b) == Deliver(b, "did")
DeliverFail(b) == Deliver(b, "fail")

-----------------------------------------------------------------------------
(* The other writers of the store                                          *)

\* The user, or a notification, deletes a twyst.  deleteSavedTwyst takes
\* the folder of any one of the frames and deletes it with the record; the
\* download queues are not told.
Orphaned(x) == [x EXCEPT !.saved = IF @ = "live" THEN "deleted" ELSE @]

DeleteSavedTwyst(t) ==
    /\ tick = {}
    /\ t \in stored
    /\ \/ frames[t] = {} /\ files' = files
       \/ \E r \in ZipNames(frames[t]) : files' = files \ {<<t, r>>}
    /\ stored' = stored \ {t}
    /\ frames' = [frames EXCEPT ![t] = {}]
    /\ total' = [total EXCEPT ![t] = 0]
    /\ jobs' = {IF j.twyst = t THEN Orphaned(j) ELSE j : j \in jobs}
    /\ localReplies' = {IF l.twyst = t THEN Orphaned(l) ELSE l :
                           l \in localReplies}
    /\ Meets(t, IF InFlight(t) THEN {"deleted"} ELSE {})
    /\ UNCHANGED <<replyCount, serviceVars, mainQueue, observing, requests>>

\* The server accepts a reply that the user made from the preview of a
\* saved twyst; the answer may get lost.
SendReply(t) ==
    /\ tick = {}
    /\ t \in stored
    /\ replyCount[t] < MaxReplies
    /\ replyCount' = [replyCount EXCEPT ![t] = @ + 1]
    /\ localReplies' = localReplies \cup
          {[twyst |-> t, reply |-> replyCount[t] + 1, phase |-> "sent",
            saved |-> "none", total |-> 0, replyIndex |-> 0]}
    /\ Meets(t, IF InFlight(t) THEN {"local"} ELSE {})
    /\ UNCHANGED <<serviceVars, jobs, mainQueue, storeVars, observing,
                   requests>>

AddReplySuccess(l) ==
    /\ tick = {}
    /\ l.phase = "sent"
    /\ localReplies' = (localReplies \ {l}) \cup {[l EXCEPT !.phase = "move"]}
    /\ UNCHANGED <<replyCount, serviceVars, jobs, mainQueue, storeVars,
                   observing, requests, hazards>>

AddReplyFails(l) ==
    /\ l.phase = "sent"
    /\ localReplies' = localReplies \ {l}
    /\ UNCHANGED <<replyCount, serviceVars, jobs, mainQueue, storeVars,
                   observing, requests, hazards>>

\* The block ends without a trace if the twyst is no longer saved;
\* otherwise the files move into the reply's folder.
MoveReplyFiles(l) ==
    /\ l.phase = "move"
    /\ l.twyst \in stored
    /\ files' = files \cup {<<l.twyst, l.reply>>}
    /\ localReplies' = (localReplies \ {l}) \cup {[l EXCEPT !.phase = "read"]}
    /\ UNCHANGED <<replyCount, serviceVars, jobs, mainQueue, recordVars,
                   observing, requests, hazards>>

\* addReplyToSavedTwyst reads where the new frames go ...
ReadRecord(l) ==
    /\ l.phase = "read"
    /\ l.twyst \in stored
    /\ \E i \in NextReplyIndexes(frames[l.twyst]) :
          localReplies' = (localReplies \ {l}) \cup
             {[l EXCEPT !.phase = "commit", !.saved = "live",
                        !.total = total[l.twyst], !.replyIndex = i]}
    /\ UNCHANGED <<replyCount, serviceVars, jobs, mainQueue, storeVars,
                   observing, requests, hazards>>

\* ... and adds them.
CommitReply(l) ==
    /\ l.phase = "commit"
    /\ l.saved = "live"
    /\ frames' = [frames EXCEPT ![l.twyst] =
                     @ \cup LocalFrames(l.reply, l.total, l.replyIndex)]
    /\ total' = [total EXCEPT ![l.twyst] = l.total + FrameCount[l.reply]]
    /\ localReplies' = localReplies \ {l}
    /\ UNCHANGED <<replyCount, serviceVars, jobs, mainQueue, stored, files,
                   observing, requests, hazards>>

\* The record is gone at one of these steps: nothing is added to any.
DropReply(l) ==
    /\ \/ l.phase \in {"move", "read"} /\ l.twyst \notin stored
       \/ l.phase = "commit" /\ l.saved = "deleted"
    /\ localReplies' = localReplies \ {l}
    /\ UNCHANGED <<replyCount, serviceVars, jobs, mainQueue, storeVars,
                   observing, requests, hazards>>

-----------------------------------------------------------------------------
(* The specification                                                       *)

Timer == Tick \/ \E q \in Queues : StartDownload(q) \/ PassOver(q)

Network(j) == RepliesArrive(j) \/ RepliesFail(j)

Worker(j) ==
    \/ ReuseReply(j) \/ OpenFolder(j)
    \/ FetchReply(j) \/ FetchNothing(j) \/ FetchBadEntry(j) \/ FetchCorrupt(j)
    \/ PostSave(j) \/ PostDid(j) \/ PostFail(j) \/ EndDownload(j)

MainBlock ==
    /\ mainQueue # <<>>
    /\ LET b == Head(mainQueue) IN
          \/ \E j \in jobs : GiveUp(b, j) \/ SkipDownload(b, j)
                             \/ BeginDownload(b, j)
          \/ ConfirmDownloadedTwyst(b)
          \/ DeliverDid(b) \/ DeliverFail(b)

ReplyThread(l) ==
    \/ AddReplySuccess(l) \/ AddReplyFails(l)
    \/ MoveReplyFiles(l) \/ ReadRecord(l) \/ CommitReply(l) \/ DropReply(l)

Environment ==
    \/ StartDownloadService \/ StopDownloadService
    \/ \E p \in Pairs, t \in Twysts, u \in BOOLEAN : DownloadTwyst(p, t, u)
    \/ \E t \in Twysts : \/ ServerReply(t)
                         \/ DeleteSavedTwyst(t)
                         \/ SendReply(t)

Next ==
    \/ Environment
    \/ Timer
    \/ \E j \in jobs : Network(j) \/ Worker(j)
    \/ MainBlock
    \/ \E l \in localReplies : ReplyThread(l)

Spec == Init /\ [][Next]_vars

\* The timer repeats, the run loop serves the main queue between two calls
\* of it (they exclude each other, hence strong fairness), every
\* network request ends, if only by its timeout, and a global queue runs
\* its blocks to the end.  Nothing is assumed of the users.
Fairness ==
    /\ WF_vars(Timer)
    /\ SF_vars(MainBlock)
    /\ \A q \in Queues :
          WF_vars(\E j \in jobs : j.q = q /\ (Network(j) \/ Worker(j)))

FairSpec == Spec /\ Fairness

-----------------------------------------------------------------------------
(* Safety                                                                  *)

\* A queue runs one download at a time, and _isDownloading, which is set
\* on the main thread and reset by completion blocks and workers, is set
\* exactly while it does.
SingleFlight ==
    /\ \A j, k \in jobs : j.q = k.q => j = k
    /\ \A q \in Queues : isDownloading[q] <=> \E j \in jobs : j.q = q

\* The save of a download comes before its notification on the main queue:
\* when a did-download notification is delivered, the preview that fetches
\* the record finds one, unless the twyst was deleted meanwhile.
SavedOrSaving(t, i) ==
    \/ t \in stored
    \/ \E k \in 1 .. i - 1 : mainQueue[k].kind = "save"
                             /\ mainQueue[k].twyst = t

NotifiedIsSaved ==
    \A i \in 1..Len(mainQueue) :
        mainQueue[i].kind = "did" =>
            \/ SavedOrSaving(mainQueue[i].twyst, i)
            \/ "deleted" \in hazards[mainQueue[i].twyst]

\* What the notification of a twyst that met no hazard promises: every
\* reply of the list that was downloaded, or found to be saved, is in the
\* record by then.
NotifiedIsComplete ==
    \A i \in 1..Len(mainQueue) :
        LET b == mainQueue[i] IN
        b.kind = "did" /\ hazards[b.twyst] = {} =>
            \/ 1..b.list \subseteq ZipNames(frames[b.twyst])
            \/ \E k \in 1 .. i - 1 :
                  /\ mainQueue[k].kind = "save"
                  /\ mainQueue[k].twyst = b.twyst
                  /\ 1..b.list \subseteq ZipNames(mainQueue[k].arr)

\* The frames of every record, of every finished download and of every
\* download under way are numbered 0, 1, ... without a gap or a double,
\* as long as no local reply was added during a download: what a download
\* takes over from a record is numbered anew, and carries its reply's place
\* in the server's list even if a local reply had another in the record.
NumberingHolds ==
    /\ \A t \in Twysts :
          "local" \notin hazards[t] => WellNumbered(frames[t], total[t])
    /\ \A i \in 1..Len(mainQueue) :
          WellNumbered(mainQueue[i].arr, Cardinality(mainQueue[i].arr))
    /\ \A j \in jobs : WellNumbered(j.arr, Cardinality(j.arr))
    /\ \A t \in Twysts : \A f \in frames[t] :
          ~f.local => f.replyIndex = f.reply - 1

\* A record never shows a part of a reply, and none twice.
WholeReplies ==
    \A t \in Twysts :
        hazards[t] \cap {"local", "deleted"} = {} =>
            \A r \in ZipNames(frames[t]) :
                Cardinality(FramesOf(frames[t], r)) = FrameCount[r]

\* Every reply that a record shows is whole, and its files are on disk: a
\* download deletes the folders only of replies that the record does not
\* show, unless the twyst met a hazard.  An archive that cannot be opened
\* does no harm.
RepliesPresent ==
    /\ WholeReplies
    /\ \A t \in Twysts :
          hazards[t] \subseteq {"corrupt"} =>
              \A r \in ZipNames(frames[t]) : <<t, r>> \in files

\* A record that is neither deleted nor hit by a hazard never loses a
\* reply: a download with an older list does not replace a newer record.
NoReplyLost ==
    [][\A t \in Twysts :
          t \in stored /\ t \in stored' /\ hazards'[t] \subseteq {"corrupt", "badEntry"}
              => ZipNames(frames[t]) \subseteq ZipNames(frames'[t])]_vars

-----------------------------------------------------------------------------
(* What the service promises to its clients                                *)

\* What the contract sees of the service: the twysts in each queue, ...
Queued == [q \in Queues |-> ToSet(queue[q])]

\* ... those of the downloads that have not posted their notification, ...
AwaitsAnswer(j) == j.phase # "clear"

Owed == [q \in Queues |->
            {j.twyst : j \in {k \in jobs : k.q = q /\ AwaitsAnswer(k)}}]

\* ... the notifications among the blocks s, in their order, ...
IsNotice(b) == b.kind \in {"did", "fail"}

NoticeOf(b) == [kind |-> b.kind, q |-> b.q, twyst |-> b.twyst]

NoticesIn(s) ==
    LET upTo[n \in 0..Len(s)] ==
            IF n = 0 THEN <<>>
            ELSE IF IsNotice(s[n]) THEN Append(upTo[n - 1], NoticeOf(s[n]))
            ELSE upTo[n - 1]
    IN  upTo[Len(s)]

\* ... and the twysts that were deleted while they were in use.
Deleted == {t \in Twysts : "deleted" \in hazards[t]}

Contract == INSTANCE DownloadContract WITH
    queued <- Queued, owed <- Owed, notices <- NoticesIn(mainQueue),
    deleted <- Deleted

\* The service with its timer, queues, threads and main-queue blocks keeps
\* the contract: no download that was begun ends unanswered or is answered
\* twice, no record appears that nobody waits for, and whoever is told of a
\* finished download finds its record.
KeepsContract == Contract!ContractSpec

\* A preview that waits for a twyst hears of it, or the service stops; and
\* a queue answers everything it has begun, even after it was stopped.
EveryoneIsAnswered ==
    /\ \A t \in Twysts : t \in observing ~> (t \notin observing \/ ~timerOn)
    /\ Contract!EveryDownloadIsAnswered

-----------------------------------------------------------------------------
(* What the source says of itself and the code does not do                 *)

\* TwystDownloadQueue.m:91 calls the comparison of two counts a check that
\* all replies are downloaded.  The list may be older than the record: a
\* local reply that it does not name makes up for one it names that is not
\* saved.
CheckSucceeds(b) ==
    /\ mainQueue # <<>>
    /\ b = Head(mainQueue)
    /\ b.kind = "list"
    /\ mainQueue' = Append(Tail(mainQueue), DidBlock(b.q, b.twyst, b.list))

CheckFindsAllReplies ==
    [][LET b == Head(mainQueue) IN
       CheckSucceeds(b) => 1..b.list \subseteq ZipNames(frames[b.twyst])]_vars

\* TSavedTwystManager.m:222 says that deleting a record removes the image
\* folder; it removes the folder of one reply, and the others stay on disk
\* with no record that names them.
DeleteRemovesFolder ==
    [][\A t \in Twysts :
          t \in stored /\ t \notin stored'
              => \A r \in ZipNames(frames[t]) : <<t, r>> \notin files']_vars
=============================================================================
