# Twyst: specifications, model checking and proofs

Twyst is an iOS app in Objective-C. A *twyst* is a short series of photos (or a
movie) that a user sends to friends; a friend *replies* with more frames, and
the app downloads all replies of a twyst, stores them and plays them one after
the other. This directory holds TLA+ models of the parts of the app in which
steps of several actors meet: timers, the main queue, global queues, network
answers, notifications and taps. Paths below are relative to
`src/Twyst/Twyst/`.

Contents: [inventory](#1-inventory), [modules](#2-modules-and-their-correspondence-to-the-code),
[runs](#3-runs), [exceptions](#4-exceptions-what-the-properties-do-not-claim),
[fairness](#5-fairness), [findings](#6-findings), [proofs](#7-proofs),
[abstractions](#8-abstractions), [what is not modelled](#9-what-is-not-modelled),
[plan](#10-plan).

## 1. Inventory

| Part | Source | State | Operations | What makes it hard |
|---|---|---|---|---|
| Download service | `Services/ApplicationServices/TwystDownloadService.m`, `Utils/TwystDownloadQueue.m` | a one-second timer; four queues (own/friend x principal/normal), each with a list of twysts and `_isDownloading` | start, stop, request (urgent or not), timer call, request of the replies, worker loop, notification | the flag is set on the main thread and reset on workers; a twyst may be in two queues; save and notification are two blocks; every way out must notify and reset |
| Saved-twyst store | `Services/DataAccessServices/TSavedTwystManager.m` | Core Data records with their frames; folders of files, one for each reply | confirm a download, add the user's own reply, delete | main thread, workers and a background thread write; record and files change separately |
| Preview | `Controllers/Preview/TwystPreviewController.m`, `Views/Preview/TwystPreviewView.m` | the wait (observer, 120 s timer), the frame shown, the playing timer, the movie player | open, check, download, time out, show, next frame, load more, report, select, close | late answers, notifications meant for another preview of the same twyst |
| Sharing | `Controllers/Sharing/ShareViewController.m`, `Services/LocalServices/AzureBlobStorageService.m` | the step of sending, the id given by the server | create, zip, upload twice, share, save; on failure delete and start again | two servers, lost answers, an unacknowledged deletion, the app killed |
| Capture | `Services/LocalServices/PhotoRegularService.m`, `Controllers/Capture/*`, `Utils/PhotoHelper.m` | three counts, arrays of paths, files named by an index, a global cancel flag | take, crop, write, import, delete, discard, leave | a shot is counted before it exists; names are given out again |
| Photo editing | `Models/FlipframePhotoModel.m`, `Controllers/Edit_Photo/*`, `Views/Edit/*` | per-frame flags and comments by index; drawing, backup and final image files by photo | comment, filter, draw, blur, save, delete, compile, reply | index and photo part ways at a deletion; blocks and keyboard notifications come late |
| Home feed | `Controllers/Home/HomeViewController.m` | two sorted arrays with paging cursors, two table views | load pages, refresh, insert and delete on notifications | pages arrive late, twice or after a refresh; the table must be told the exact change of rows |
| Friend lists | `Services/LocalServices/FriendManageService.m` | friends, followers, received and sent requests | five operations, each followed by fetches; screens that fetch | answers out of order, lost, or after a logout |
| Session | `Services/ApplicationServices/UserLocalServices.m`, `Controllers/Profile/Settings/SettingViewController.m`, `AppDelegate.m` | the current user | login, logout | the landing screen is there before the logout is answered |
| Notification check, news | `Services/LocalServices/IANoticeManageService.m`, `Services/DataAccessServices/TTwystNewsManager.m`, `Controllers/Notifications/NotificationsViewController.m` | the waiting flag; a row for each news with its unread and badge marks; the listed rows, the number on the tab bar, the row that was tapped | check (timer, push, foreground, share), merge news, list, count, open, mark as read, delete | checks overlap, replies are lost, repeated or out of order; deletions come from two sides; a row changes between the tap and its mark |
| Video | `Camera/CameraManager.m`, `Controllers/Capture/CaptureViewController.m`, `Controllers/Edit_Video/*`, `Views/Edit/EditVideoTrimView.m`, `Models/FlipframeVideoModel.m` | the recorder, the camera's session and the screens above it, a model with its part for each editor, one file for all recordings and one for all exports | record, import, trim, export, share or reply, close, go home | recordings and exports end when they like, on whatever screen and in whatever session; files are shared and survive failures |
| Video encoder | `Services/VideoEncodeServices/*` | its progress | encode photos to a movie | AVAssetWriter's queue |
| Draft library | `Services/ApplicationServices/Library*` | drafts on disk | save, load, delete | nothing concurrent |
| Web client | `Services/LocalServices/UserWebService.m` | none | requests with a completion | every completion may be an error |

How the parts interact: the home feed and the preview *call* the download
service, which answers with notifications posted on the main queue; the preview
then *reads* the store. Capture hands its photo array to the editor, the editor
its final images to sharing or, as a reply, to the server and then to the store
(`addReplySuccess`). Sharing and replying use the blob store and the app server.
The session starts and stops the download service and clears the friend lists.
A check of the notification
service brings the home feed its deletions and new twysts, the notification
screen its news and the friend lists their requests, each in a block of its own
on the main queue; deletions also remove records and news.

What makes each part correct:

* *Download*: one download per queue; urgent before normal; each answered once
  and nobody kept waiting; a notified twyst is saved and whole.
* *Store*: frames numbered without gaps, files present, no reply lost.
* *Preview*: a dismissed preview is idle, a shown one has frames, playing goes on.
* *Sharing*: nothing is shared before it is uploaded, success is what friends
  see, nothing is left or doubled by a retry.
* *Capture*: counts, frames and files stay in step.
* *Editing*: what was done to a photo stays with it; what is sent is what was shown.
* *Video*: an editor belongs to the session of the camera and its file is there; what is
  sent is the part that was shown, of a legal length, and once.
* *Feed*: lists are sorted, gapless, without ghosts; the table stays consistent.
* *News*: rows agree with what stands on the server, nothing deleted comes back,
  badge and unread marks hide nothing.
* *Friends and session*: lists are the user's own and current; no request without a user.

The hazards behind these, each with its line, are listed in `PROJECT.json`.

## 2. Modules and their correspondence to the code

| Module | Models | Checked by |
|---|---|---|
| `DownloadContract` | what the download service promises: the abstract specification | `TwystDownload!KeepsContract` (run and theorem); environment of `TwystPreview` |
| `SavedTwyst` | frames of a record and the pure operations on them | through `TwystDownload` |
| `TwystDownload` | download service, queues, store, and their other users | `DownloadQueues`, `DownloadStore`, `DownloadCheck`, `DownloadDelete` |
| `TwystDownloadProofs` | theorems about its queues, notifications and contract, and about the records it leaves | tlapm |
| `TwystPreview` | preview controllers and views over the contract | `Preview` |
| `TwystPreviewProofs` | theorems about it | tlapm |
| `ShareTwyst` | the share protocol | `ShareTwyst` |
| `PhotoCapture` | taking photos | `PhotoCapture` |
| `CaptureShareProofs` | theorems about `PhotoCapture` and `ShareTwyst` | tlapm |
| `PhotoEdit` | editing, compiling, replying | `PhotoEdit` |
| `PhotoEditProofs` | theorems about it | tlapm |
| `VideoTwyst` | from the shutter to a video on the server | `VideoTwyst` |
| `VideoTwystProofs` | theorems about it | tlapm |
| `HomeFeed` | the lists of the home screen and their tables | `HomeFeed` |
| `HomeFeedProofs` | theorems about it | tlapm |
| `FriendManage` | session and friend lists | `FriendSession` |
| `FriendManageProofs` | theorems about it | tlapm |
| `NewsBoard` | checks, news, the notification screen | `NewsBoard` |
| `NewsBoardProofs` | theorems about it | tlapm |
| `MC*` | constants of the runs | |

`PROJECT.json` maps every definition to its lines. An operator with a suffix
(`GiveUp_Silent` before `GiveUp`) is a *mutant*: the definition as a plausible
bug would have it. Each property is broken by at least one of them, which shows
that it depends on the code it is about.

### DownloadContract

A queue holds requested twysts, takes up one at a time (`owed`), and answers
each with one notification; a record appears only while somebody waits for it,
and a finished download finds its record unless it was deleted. `TwystDownload`
implements it (refinement mapping at its end: `Queued` is the set of a queue's
twysts, `Owed` the jobs that have not posted their notification, `NoticesIn` the
notification blocks of the main queue in their order, `Deleted` the twysts deleted
while in use). `TwystPreview` takes its actions as the
environment, so the preview is checked against everything the contract allows
and not only against what one implementation does.

### SavedTwyst and TwystDownload

*Threads.* The main thread runs one thing at a time: the timer call (while
`tick` is not empty), a block of the main queue, or a tap. Each running download
is a job with a thread of its own. Actions are the stretches between two points
at which another thread can be seen: `handleDownloadTimer` looks at the queues
one by one, because a worker can reset `_isDownloading` between two looks.

*A job* goes through "request", "answered" (its completion is on the main
queue), "open" (the head of the loop over the replies), "fetch", "notify" and
"clear". `known` and `saved` are what the completion captured: the names of the
saved replies and the `TSavedTwyst`, which may be deleted under the worker.

*The store.* `stored`, `frames`, `total` are the records and `files` the reply
folders. `confirmDownloadedTwyst` runs on the main queue and is one step;
`addReplySuccess` runs on a background thread and is three: move the files, read
the last frame and the count, write. `deleteSavedTwyst` removes the record and
the folder of *any one* frame.

### TwystPreview

Controllers go from "checking" (a saved twyst is first checked for new replies)
or "waiting" (observer and 120 s timer) to "shown", "failed" or "gone". A view
has the index of its frame, the 0.05 s timer (`running`), the movie player, a
frame to be loaded by a later block (`pending`), and `loading`. Notifications
reach *every* observer of the twyst. The view observes by itself until it is
deallocated: `Close` pauses it, `leaving` are the previews whose dismissal is still
animated, and after it the view lives by its timer or its block (`Retained`). A
finished download that is announced in that time starts the timer again (`Revived`).

### ShareTwyst

`step` is `_stepSharing` by name. Requests to the app server are in `requests`,
where they may stay, be lost, or be carried out after the app has given up
(`CreateFails` and `ShareFails` are possible at any time). `Failed` is
`handleShareTwystFailed`: ask for a deletion, forget the id, free the screen.

### PhotoCapture

`curIndex` and `totalImages` belong to the service, `frameCounter` to the
screen. `taking`, `burst` and `writes` are the shot in the camera, on the serial
queue and on the background queue that writes the cropped photo. `disk` says
which photo each file holds.

### PhotoEdit

The model keeps everything by index, files go by path: a photo is its file, and
the camera may hand over one file as two frames (`PhotoRegularService.m:197`:
after a deletion a name is given out again), which then share the drawing, the
backup and the image, and lose it together. `Init` begins with either. With
`IsSaveVideo`, `CompileDone` leaves a block of `serviceEncodeFlipframe` on the
global queue (`encoding`), which saves the final image of a twyst's only photo
without setting the flag (`EncodeFlipframe`). A *mark* (comment or stroke) is known by the photo the user saw when
making it, so that "it stays with its photo" can be said. `view.loads` are
blocks of `actionLoadNextImage` on the main queue, `view.keyboard` the keyboard
whose did-hide notification stores the comment.

### VideoTwyst

`stack` is the navigation controller above the camera, as numbers of videos; a
share screen is its video again. `home` says whether the home screens are away,
being presented or up: the stack is emptied only when the presentation is
complete (`HomeShown`). `edit` has the state of each editor and of its
`FlipframeVideoModel`: the phase, the twyst, the part (`start`, `end`), the
`offset` of the thumbnails, the `duration` that an export sets. An editor whose
screen is gone lives on while a block waits for an answer (`PopAll`, `InPhase`).
`recorder` is the movie output, whose end (`RecordingFinished`) may come at any
moment, because of its maximum, the button, or the camera's disappearance;
`own` says that the session it began in is still the camera's. `files` are
`capturingVideo.mov` and `FinalVideo.mp4`, by what they hold. `free` is what the
exporter found at the path of its output. `TrimLeft` and `TrimRight` apply the
limits of `touchesMoved:` in its order.

### HomeFeed

A twyst is its DateFinalized. `pages` are the page requests under way, with the
items the server put on them when it answered; the client applies them in any
order. The next page of friends' twysts is asked for by the time of the last action
that a page told (`cursor`), that of the private ones by the number of entries the
list has, as if these were the first that the server lists; `Shift` and `OutOfTurn`
note when they are not. `rows` is what the table view believes; an animated update
with the wrong number of rows raises (`crashed`).

### NewsBoard

The events at the server are numbered by `clock`, and a news carries the number
of its event; `feed` is what stands of them, `mailbox` what the app was not told
yet. A check is a block to be run (`due`), a request (`sent`), a reply (`replies`,
with the server's time `made`) and one block on the main queue for each of its
parts. The timer looks at `waiting`; `CheckManually` (pushes, foreground, shares)
does not, so that several checks are under way. The operators named like methods
of `TTwystNewsManager` change the rows `b.rows` and note in `b.fresh` the rows
that news came for; `Handle` is the dispatch of `twystNewsDidReceive:`. `screen`
is "appearing" between `viewWillAppear:` and `viewDidAppear:`, when the list is
loaded and the badge still counts. `deleteNewsWithTwystId` is called by the home
screen and by the preview, and tells the notification screen nothing: `list` may
hold rows that are gone. It fetches at most `DeleteLimit` rows of a twyst (100 in the
code), the newest (`Newest`); the rest stay, which is the mishap "leftover".

### FriendManage

`tasks` are operations and fetches, each with the rest of its chain (`then`).
`StartFetch` reads the user of the moment the block runs in; `FetchDone` applies
the answer whoever is logged in. `Before` is what stands on the server when the app
is first used. A list is `doubtful` while a fetch of it failed, was overtaken by a
change, or was replaced by a late answer; the next answer that is the user's own and
as new as his last change makes it certain again. The followers are also doubtful
after an acceptance, which adds to them at the server and fetches the received
requests and the friends only (`FriendManageService.m:122`): they stay stale until
their screen is opened or the next login, and `ListsAreCurrent` says so of no other
list and of no other operation (`Unfetched`, `Missed`). Operations may overlap: the
service does not test for one under way, the screens show a spinner.

## 3. Runs

| Run | Instance | Shows |
|---|---|---|
| `DownloadQueues` | two twysts of one reply, own pair, two requests | `SingleFlight`, `NotifiedIsSaved`; refinement `KeepsContract`; liveness `EveryoneIsAnswered` |
| `DownloadStore` | one twyst of an archive (two photos) and a movie, both pairs, two requests | `NotifiedIsComplete`, `NumberingHolds`, `RepliesPresent`, `NoReplyLost` |
| `DownloadCheck`, `DownloadDelete` | one twyst of three and of two replies | the two findings, section 6 |
| `Preview` | one preview of a friend's twyst, a movie and a photo | `DismissedIsIdle`, `ShownHasFrames`, `PlaybackLoops`, `LoadMoreEnds` |
| `ShareTwyst` | three ids, three attempts | `SharedIsUploaded`, `SuccessIsShared`, `NoOrphans`, `SharedOnce`, `SendEnds` |
| `PhotoCapture` | at most three frames, four photos | `CountsAgree` (with the limit of frames and the delete screen's indexes), `FramesKeepTheirPhoto`, `NoShotDropped` |
| `PhotoEdit` | up to two photos, two filters, three changes | `MarksStay`, `FinalIsCurrent`, `ReplySentOnce`, `EffectsAreFlagged`, `SavedIsInAlbum`, `NoCrash` |
| `VideoTwyst` | two videos, recorded or imported, too short, short or longer than the maximum; one twyst or a new one | `EditsThisSession`, `RepliesAreRight` |
| `HomeFeed` | three twysts in pages of two: friends' twysts with a draft among them; private ones, paged by index; one or two twysts in each list | `ListIsSorted`, `NoGap`, `NoGhost`, `NoBadUpdate` |
| `FriendSession` | two interchangeable accounts, one friend, two logins | `ListsAreCurrent`, `OwnLists`, `NoCrash` |
| `NewsBoard` | one twyst, one friend and the user, likes and comments and their withdrawal, a list of two rows, two checks under way | `BoardAgrees`, `TimerGoesOn`, `NoRevival`, `ReadWasTapped`, `BadgeMissesNothing` |

To repeat one: `tlc -workers 2 -config DownloadStore.cfg MCTwystDownload.tla`.
Each takes at most about three minutes.

### Bounds, and why they are enough

* *Twysts*: two contend for a queue (`DownloadQueues`); what happens to the
  record of one twyst does not depend on another's, so `DownloadStore` has one.
* *Pairs*: the two pairs share nothing but the store. `DownloadStore` has both,
  so that two workers can be on one twyst; the queue properties need one.
* *Replies*: two (an archive of two photos and a movie) make an older and a
  newer list, a saved and a new reply. The overtaken check needs a third
  (`DownloadCheck`).
* `MaxRequests` = 2: each request can be urgent or not and for either pair, so
  two suffice for a move to the front, for overlap, and for a download that
  finds what another saved. The bound is needed for `EveryoneIsAnswered`: urgent
  requests go to the head, and an endless stream starves the first.
* `MaxNotices`, `MaxIndex` (`TwystPreview`): notifications on their way, and how
  far beyond its last frame an incomplete view counts. One notification suffices
  for the properties, which are about the step that handles it.
* One preview in the run `Preview`: that a notification of one preview's download
  reaches another preview of the twyst is left to the proofs, which show
  `DismissedIsIdle` and `ShownHasFrames` for any number of previews.
* `MaxAttempts` = 3 and three ids: an attempt that succeeds after one that
  failed and one the app did not hear of.
* `MaxShots` = `MaxFrames` + 1: full, delete one, take one more under a used name.
* `MaxVideos` = 2 in `VideoTwyst`: one that is late and one that it meets. A time is
  half of what a cell of the trim view shows; the window has two cells (five in
  the code), and the minimum is a cell. Lengths 1, 3 and 5 are below the minimum,
  within the window, and beyond it, so that the thumbnails scroll and end after
  the video. `MaxEdits` = 2 counts the changes of one video: one before an export
  that fails and one after it, or two limits in turn.
* Three twysts in pages of two make a full and a last page, with one to be
  inserted or deleted between them; two pages under way can overtake each other.
  `maxTime` lets a single list with one draft see one action. With both lists in use,
  or two drafts, there are two notifications under way at once (`maxNotices`), so that
  a deletion can be handled before another notification of its twyst; else there is
  one. The run takes each member of `Feeds` for the server in turn.
* `MaxEvents` counts what users begin (a login costs two, its two chains);
  `MaxLogins` = 2 is the next user's session. `Before` has the friend's request to
  one of the users on the server from the start, so that there is something to
  answer without an event for it. The inductive invariant of the proofs was also
  simulated with nine events and three logins.
* `NewsBoard`: three events make a news, one that changes its row and one that
  takes it back; two checks overtake each other. `MaxTogether` = 4 keeps events,
  kills and the parts of checks that are not done from all being at their bounds
  at once: two checks are under way after at most two events, the third event
  while one is. Passes, replies and followers are rows like likes that are never
  withdrawn, and not in the instance. `FetchLimit` = 2 stands for 50: a third
  row is not listed. `DeleteLimit` = 1 stands for 100: of a twyst's two rows a
  deletion leaves one.
* `MaxPhotos` = 2, `MaxEdits` = 3, `MaxLoads` = 1: a mark, a deletion, and
  something after it; two photos are enough for two frames with one file.
  `IsSaveVideo` is TRUE, its default (`Config.m:50`): without it nothing is saved
  (`EditFramesViewController.m:216`, `340`). Steps that are not changes (taps, screens, blocks) are
  unbounded.

`CHECK_DEADLOCK FALSE` stands where a bound ends the activity or the app may
stop (the models with `crashed`, a screen that was left); the download runs
check deadlock.

## 4. Exceptions: what the properties do not claim

The code leaves some races unhandled. A property that ignored them would fail,
one that excluded more than them would be weak, so models record in a history
variable (`hazards`, `late`, `unheard`, `doubtful`, ...) exactly *which* race an
object has met, and the property excepts only those that matter to it. Each
exception was found necessary: without it TLC shows a violation. They are the
best summary of the known weaknesses:

* *Download*: two workers on one twyst ("overlap"), a local reply during a
  download ("local"), a deletion under a download ("deleted"), a bad archive
  entry or archive ("badEntry", "corrupt"). With none of them, a record is
  whole, numbered, has its files and never loses a reply.
* *Preview* (`late`): dismissed during its check, the controller goes on to
  download, show and play; told of a finished download while its dismissal is
  animated, a view starts its timer, which retains it, and plays on unseen.
* *Share*: the answer of a creation not heard, a lost deletion, a killed app.
* *Capture*: "late" (deleting or leaving while a shot or a write is under way),
  "stray", "failed" (a shot failed after a newer one was counted), "gap" (a
  frame's name will be given out again).
* *Edit*: "shifted" (comments are not moved at a deletion), "stale" (the view
  holds a deleted frame), "crossed" (a comment or stroke while a load is
  pending), "dangling" (single-frame deletion behind the preview), "twice" (the
  delete button before its screen is renewed), "lost" (answer of a reply),
  "late" (compiled before the last comment was stored), "shared" (two frames with
  one file: what is done to one shows on the other), "encoded" (a twyst's only
  photo went to the camera roll when it was compiled, and does not show as saved).
* *Video*: `disturbed` are the videos that a late recording concerned: one that ended
  when its session was over or another screen was on top of the camera. Its editor
  is pushed there, belongs to the wrong session, and its compile raises if the
  file is gone (`crashed`); too short, it empties the folder under all editors. And
  a background block may move the file of another session's export.
* *Feed*: a page failed and the list was emptied ("failed"), a page came for a
  list that was pulled anew, or whose first page was asked for again ("stale"), a
  full page was sorted out, or a page of private twysts could not be read
  (`UserWebService.m:766`), and taken for the last ("cut"), the private list's start
  index counts other entries than the server skips ("shifted": after a deletion, or,
  with more twysts than the run has, if an entry came before others that the server
  lists before it), a notification was
  handled between the making of a page and its arrival ("crossed"), or another
  notification of a twyst after its deletion ("overtaken"), which brings the twyst
  back: checks overlap, and the app's own notifications come by another way than the
  server's; for the table, "refreshed" and "silent".
* *News*: a reply handled after a later one ("overtaken"), a deletion of the user
  answered while an older reply is on its way ("crossed"), a reply or an answer
  lost ("lost"), news of a twyst told after its deletion ("outdated"), comments
  of the user, which are in the server's count and have no row ("own"), and a
  deleted twyst with more rows than are deleted at once ("leftover"): in the code a
  twyst with more than 100 news keeps the oldest of them, whose rows stay on the
  screen, since each like, pass and reply has a row of its own
  (`TTwystNewsManager.m:276`).
  `TimerGoesOn`, `ReadWasTapped` and `BadgeMissesNothing` need none of them, nor
  does `OneRowEach`, the first part of `BoardAgrees`.
* *Friends*: "late" answers, "busy" and "lateLogout" sessions, doubtful lists (the
  followers after an acceptance among them).

## 5. Fairness

* `TwystDownload`: the repeating timer fires (weak); the main queue is served
  between two timer calls, which exclude it again and again (strong); every
  network request ends, if only by its timeout, and a global queue runs its
  blocks to the end (weak, for each queue of the service). Nothing is assumed
  of users or of the timer staying on: for previews `EveryoneIsAnswered` ends in
  `~timerOn`; what a queue has begun it answers although the service is stopped.
* `TwystPreview`: its timers fire, a movie ends, the main queue runs its blocks,
  a check is answered (weak). That the service takes up and answers requests is
  *not* assumed for `PlaybackLoops`; it is the premise
  (`ServiceFairness`) of `LoadMoreEnds` alone.
* `ShareTwyst`: every request and upload ends, with success or failure (weak
  fairness of `Sending`). The server may stay silent for ever.
* The other modules state safety only.

## 6. Findings

* `DownloadCheck`, `CheckFindsAllReplies`. `Utils/TwystDownloadQueue.m:91` says
  "check if all replies are downloaded" and line 108 compares two *counts*. If
  the user's own reply is added to the record after the list was read, it makes
  up for a listed reply that is not saved: the check passes with that reply
  missing, until the next download.
* `DownloadDelete`, `DeleteRemovesFolder`.
  `Services/DataAccessServices/TSavedTwystManager.m:222` says that the image
  folder is removed; the folder is that of one arbitrary frame's reply, and
  those of the other replies stay on disk with no record that names them.

## 7. Proofs

TLAPS proves the following for every value of the constants, given the
assumptions stated as `ASSUME` in the modules (natural bounds, at least one
reply, at least one frame in each archive, an `NoId` that is no id).

`TwystDownloadProofs`

* `TypeCorrect`: `Spec => []TypeOK`. `TypeOK` is not inductive: that a worker's
  next position stays in range needs `WorkerInList` (a worker that fetches a
  reply is within its list), so the proof is of
  `TypeInv == TypeOK /\ WorkerInList`. The lemmas about `Rank`,
  `ReusedFrames`, `FetchedFrames`, `LocalFrames` and `Enqueued` say that the
  helpers return what their uses expect.
* `OneDownloadPerQueue`: `Spec => []SingleFlight`, inductive together with
  `TypeOK`: a download begins only with the flag down, and each of its ends
  lowers the flag in the step that removes the job.
* `SavedBeforeNotified`: `Spec => []NotifiedIsSaved`. The strengthening
  `NotifiedInv` also speaks of a job in phase "notify", whose save is posted and
  whose notification is not: its save is still on the main queue, or done, or
  the twyst was deleted. `PromiseMoves` and the lemmas on appending to and taking from
  the main queue carry "the save is ahead of the notification" through every
  step; the deletion is the step that needs the history variable.
* `ImplementsContract`: `Spec => KeepsContract`, that is `Contract!ContractSpec`
  under the refinement mapping. Besides the two invariants above it needs
  `QueuedOnce` (a twyst is in a queue once, so that taking it off is the
  contract's `TakeUp`) and `AwaitedInv` (a save on the main queue has its
  notification behind it, or a worker that will post it: the contract's `Save` is
  only of what is awaited). `NoticesAppend`, `NoticesTail` and `NoticesMember` say
  what the contract sees of the main queue when a block is posted or runs;
  `OwedKept`, `OwedAnswered` and `OwedEnded` what it sees of the jobs.
  `ContractStep` then has one lemma for each action of the contract
  (`RequestSeen`, `TakeUpSeen`, `AnswerSeen`, `DeleteSeen`, `MainBlockSeen`), and
  three for the steps it does not see.

`TwystDownloadProofs`, second part: what the records promise, the four properties of `DownloadStore`.

* `NumberingTheorem`: `Spec => []NumberingHolds`, from `NumberInv`. `SoundInv` says
  for a download, a block and a record what it may hold in relation to the server's
  list; `KeyInv` that a local reply has a place of its own in that list, so that a
  record can be sorted by reply and order (`Sortable`) and `Rank` numbers what a
  download takes over from it without a gap or a double (`RankNumbers`);
  `AloneInv` that a local reply is alone with its twyst, or that it is noted.
* `PresenceTheorem`: `Spec => []RepliesPresent`. `NewestInv`: a list that waits on
  the main queue is no older than what is downloaded, being saved or saved
  (`Ordered` carries this through the queue). Hence a download that begins knows
  no reply beyond its list, and `SoleInv` follows: one worker at a time has to do
  with a calm twyst, the record is as the worker found it, what it has passed of the
  record it has taken over, and a save on the main queue has no fewer replies than the
  record. `WholeInv` says that replies stay whole, `FilesInv` that the folder of
  every reply in use (`Needs`: in a record, a worker's hands, a save or a local
  reply) is there: the worker empties only folders that are not.
* `NothingLostTheorem`: `Spec => NoReplyLost`, an action property: the save that
  replaces a record is the one step that could take a reply from it, and there
  `SoleInv` says that it does not.
* `CompletenessTheorem`: `Spec => []NotifiedIsComplete`, from `CompleteInv`: a worker
  has no gap in what it has collected or nothing at all, and what it announces is
  in the record or in a save ahead (`Told`, with one lemma each for a block that is
  posted, one that runs, and a record that grows). Where the download is
  skipped, two counts are compared (`CountsSuffice`): with `NewestInv` the saved
  replies are among those of the list, and as there are as many, they are the same.
  The exception, a local reply during the download, is the finding of section 6.

`CaptureShareProofs`, about `ShareTwyst`: all four safety properties and the type
invariant from one inductive invariant `ShareInv`, whose parts are proved in order: `HoldsInv`
(which steps hold an id, and what the server says of it), `UploadInv` (a share
request, like a shared twyst, has both uploads), `FreshInv` (nothing mentions an
id that is free), `OwnInv` (no deletion of the current id is under way),
`AccountedInv` (every created id is held, awaited, to be deleted, or one of the
three exceptions), `AttemptInv` (the server answers an attempt once) and `OnceInv` (an id that is
shared, or may still be, is the current one, is to be deleted or was, or is one
of the exceptions). `NoOrphans` and `SharedOnce` speak only of quiet states;
the invariant accounts for the requests under way as well.

`TwystPreviewProofs`

* `PreviewTypeCorrect`: `Spec => []TypeOK`.
* `DismissedStaysIdle`: `Spec => []DismissedIsIdle`. The property speaks of a
  preview that is not `late`; `IdleInv` adds what holds before: one that was never
  opened has nothing; one that was dismissed has no wait, no timer and a view that
  stands still, which is there only while the dismissal is animated or a block is to
  load a frame.
* `ShownIsNotEmpty`: `Spec => []ShownHasFrames`. `FramesInv` says that records
  have frames, and that a preview in its check finds the record of its twyst or
  that the twyst was deleted; deletion is the step that needs the second part.
* `UsesContract`: `Spec => Download!ContractSpec`: each step of the previews is
  a step of the contract or leaves its variables alone. With `ImplementsContract`
  the contract stands between the two: what the previews take for granted is what
  the service is proved to do, and the previews ask for nothing else. (The preview
  uses one queue of each pair, the urgent one; the contract is for any queues.)

`FriendManageProofs`: from the invariant `FriendInv`

* `TypeCorrect`, `OwnListsTheorem`, `NoCrashTheorem`, `ListsTheorem`. The last
  speaks of a moment with nothing under way; `ListInv` says for every moment that
  a list is doubtful, is what the server has, or will be fetched by a task that is
  under way (`Later`), and `AnswerInv` the same of an answer that was given and is
  not yet applied. `TaskInv` ties the rest of a chain to its operation, `SafeInv`
  and `LoginInv` what is under way to the session. All four lists are in them; the
  followers leave `ListFor` only by the doubt that an acceptance leaves.

  The first attempt failed for a good reason: `ListsAreCurrent` was false beyond
  the run's former bound. An answer that belonged to another user's session replaced a list
  and made it certain, where the model should have made it doubtful. `FetchDone`
  now asks whose the answer was.

`VideoTwystProofs`: from the invariant `VideoInv`

* `TypeCorrect`: among others that the limits of `touchesMoved:`, applied in their
  order, always find a minimum or a maximum to take.
* `SessionTheorem` and `RepliesTheorem`: `EditsThisSession` and `RepliesAreRight`.
  The parts are `StackInv` (what is on the stack was recorded or picked),
  `RecorderInv` (an owned recording has a number of its own and its file),
  `FreshInv` (nothing mentions a number that is free), `SendingInv` (what is being
  sent is what the editor shows, and its export stays), `MovingInv` (a file is
  moved after its reply was sent), `RepliedInv` (an editor whose reply is on the
  server has been told so, or its export is in the way of another: why a retry
  does not send twice) and `TrimInv` (the part is within the video and legal).

`PhotoEditProofs`: from the invariant `EditInv`

* `TypeCorrect`, and one theorem for each property of the run: `MarksTheorem`,
  `EffectsTheorem`, `SavedTheorem`, `NoCrashTheorem`, `FinalTheorem`,
  `ReplyTheorem`. `ModelInv` relates the arrays that go by index to the files that
  go by photo (`Distinct`, `Flagged`, `BackedUp`, `SavedAs`), of frames with files
  of their own; each change of the model keeps that (`Kept`) whatever has happened
  before, and the history only grows (`KeptInv`); `MarksInv` adds to
  `MarksStay` what the view and the canvas hold, `FinalInv` to `FinalIsCurrent` the
  frames compiled so far.
* `DeleteFramesValue`: the loop of `deleteFrames`, which walks downwards and shifts
  the flags of the saved images by writing what it has just read, leaves the arrays
  of the frames that stay, in their order (`LeftStep`, one turn), with or without
  a file twice.

`CaptureShareProofs`, about `PhotoCapture`: from the invariant `CaptureInv`, which
TLC checked on the run's instance first

* `TypeCorrect`, `CountsTheorem`, `FramesTheorem`, `NoShotTheorem` (an action
  property). `CountsAgree` says nothing while an import runs or another screen is
  shown; `CountInv` does: the newest index counts what is held whatever the screen,
  the other counts follow between imports, and what is on its way is not cancelled.
  `BoundsInv` holds also after something came late: a shot is counted back once at
  most, so a count is never below the shots that failed. `PhotoInv` adds to
  `FramesKeepTheirPhoto` that no name is given out while a photo has it, and that a
  file still to be written is a frame's.
* `SelectionInRange`: of the two places where the delete screen could leave its
  arrays, `deleteFrames:` never does, since the counts only fall and the frames only
  grow under it. What can is the screen itself, when it opens over a late shot.
* `RemainingFrames`: what the loop of `deleteFrames:` leaves is some of the frames.

`NewsBoardProofs`

* `NewsBoardTyped`, `NoRowTwice` (the first conjunct of `BoardAgrees`),
  `TimerIsReleased`, `ReadOnlyIfTapped`, `BadgeIsEnough`, `GoneStaysGone`, and
  `BoardIsRight`, that the rows are what stands at the server.
* What rows come out of the loop over the news of a reply is said by `HandleFollows`
  for one item (`Follows`: each row is as before, shows another sender, or is written
  by the item; which rows go, and why) and carried through the loop by
  `HandledKeeps`. Each invariant of the rows is one use of it.
* `ItemsInv` is what `NoRowTwice` needs: a number names one event, whether it
  is met in news, in the feed, as the news of a row or as the object of one
  (`Known`, `OneEach`). Without it a row that comments have taken over could be
  found by the number of other news. It also says that the two blocks of a reply
  follow each other in the main queue (`Paired`).
* `TapInv` adds the selected row to `ReadWasTapped`; `BadgeInv` adds to
  `BadgeMissesNothing` that the rows news came for keep their mark, and that the open
  screen lists none of them.
* `ReviveInv` orders what is under way: news of a twyst were told before every
  reply that tells of its deletion, and before the user's own deletion of it; once
  the deletion is carried out, they are late (`Late`), and a late reply is a mishap.

* `AgreeInv` is the invariant of `BoardIsRight`. `BoardAgrees` speaks of the moments
  when nothing is under way; the invariant says of every other moment what is still
  to come. `RowInv`: what stands has its row, unless it is to be told, and what has a row
  stands, or is of a deleted twyst, or later news that undo it (`Kills`) are to be told.
  What is told is in the mailbox or in a reply that the server will not repeat
  (`Told`), and `TellInv` orders these: a reply tells of everything up to its time that
  the server had not told for good. `MailInv` and `ReplyInv` say of news in the
  mailbox and in a reply what `RowInv` says of rows, and `NotesInv` of deletions
  what it says of news. `FeedInv` is about the server alone: nothing that stands was
  undone, which is what the count in news of comments is compared with.
* The news of a reply are handled one by one; `Halfway` is the invariant of that loop:
  up to the item it has reached, the rows are as the reply's end of the story, and
  beyond it as they were. `HandledRows` carries it through the loop.
* `Onward` is what any step without a mishap keeps of what stands and is told
  (`OnwardStep`); the other parts are proved from it, so that each of them
  looks only at the actions that concern it.

  Two mistakes of the model were found on the way. A reply counted as
  handled (`applied`) when the first of its two blocks was run, so that `BoardAgrees`
  was false beyond the run's bounds if the app was killed between the two; now
  the last block counts. And `Handle` was a CASE whose guards overlap, which
  leaves the choice open; it is now the chain of tests that the code is.

`HomeFeedProofs`: the type invariant and all four properties of the run, from
invariants that TLC checked first

* `FeedTyped` and `ListsStaySorted`: `Spec => []TypeOK` and `Spec => []ListIsSorted`.
  `FeedInv` adds what the lists are filled from: `ServerInv` (complete twysts acted at
  different times, what is told has happened), `EntriesInv` and `ItemsInv` (lists and
  pages hold what belongs there, and no draft). `DescendingAdds` and `AscendingAdds` say
  of the app's two insertions that a sorted list with a twyst added is one,
  and `MergedAdds` says it of the loop over a page.
* `TablesAgree`: `Spec => []NoBadUpdate`, from `TableInv`: a table that nothing was
  done to behind its back has the rows that its array asks for, the loading row
  included. The animated deletion is the step that needs it, and it also needs the
  test for the last entry.
* `GhostsStayAway`: `Spec => []NoGhost`, from `GhostInv`: once the deletion of a twyst is
  handled and nothing else of it is to be told, it is only on pages that were made
  before and are marked, and in its list only if such a page has come or something
  was told after the deletion. Nothing is assumed of the order of notifications.
* `NothingIsMissing`: `Spec => []NoGap`. The property speaks of a list that is
  complete, with nothing under way; `GapInv` says for every moment where a twyst is that
  neither the list nor a notification has (`Missing`). `Covered`: after every cursor,
  that of the list and those of the requests under way (`Follows`). For friends'
  twysts this is a comparison of times. For private ones the cursor is a number of
  entries, and the invariant is that what is missing acted before every entry of the list.
  `NoRoom` then counts: a page that skips as many as the list has cannot skip what is
  missing. `PageInv` says of an answered page that what it does not bring is in the list
  or after its end, and then the page is full. `CursorInv` and `FreshInv` are about
  lists that start anew: their first page is asked for once, so that it cannot empty
  a list that has more than it.

  The last proof failed first, for a good reason: `NoGap` was false with two
  notifications under way, when the run had one. A private twyst is created and deleted,
  and before either is told the list is pulled anew; the creation that is handled then
  inserts an entry that the server does not list any more, and the start index
  counts it. Or a creation that is told late inserts its twyst before others that
  only a page can bring, and the index skips one of them. The model noted a
  shifted index when the server deleted, before the pull that forgets it. It notes it now
  when the app takes the entry out of its list, or inserts one out of turn: the code's
  weakness is the same ("shifted"), and the property holds without a bound.

*Induction.* The library's induction theorems are out of reach (they take an
operator), but not induction over a *set* of naturals: `SetInduction` follows from
the well-foundedness of `<`, and with it a recursive function exists
(`CollectExists`, `LoopExists`) and has a property at its end. `NoticesIn`,
`DeleteFrames`, `Remaining`, `Handled`, `Latest` and `Merged` are recursive functions
for this reason: of `SelectSeq` and the folds with a `LAMBDA` the prover can say
nothing.

Only model-checked: the liveness properties `EveryoneIsAnswered`, `PlaybackLoops`,
`LoadMoreEnds` and `SendEnds`; fairness and ENABLED are beyond the prover. Every
safety property of the passing runs, and the refinement, is a theorem.

## 8. Abstractions

* Replies are numbered as the server lists them; the number stands for
  ImageName, archive and folder. Archives have a number of frames, no contents.
* A Core Data operation is atomic and its save does not fail. A record that is
  deleted under a worker shows either nothing or what it showed before.
* `_isDownloading` is read without a lock: the reader sees the value before or
  after the write, which interleaving gives.
* The timer looks at the pairs in either order; they do not share a flag.
* *Preview*: no durations; a photo's time may be over at any moment. Frames are
  movies or photos by their index.
* *Share*: the server does not share a twyst that was deleted; what else it does
  is external. An upload has succeeded when its request did: the code looks at no
  HTTP status (`CloudURLRequest.m:159`), so "uploaded" is what the app believes.
* *Capture*: an asset is imported in one step, the arrays of paths change
  atomically, the frame limit is a constant (its header is not in the repository).
* *Edit*: effects over all frames run behind a covering view and are one step;
  saving to the camera roll succeeds, and its setting stays as it is for a session;
  thumbnails, the sun effect and the movie of several frames are left out. A frame
  whose file went with another's deletion is still told by its photo in `shown`, and
  blurring it writes a file anew.
* *Video*: lengths and positions are whole numbers; the second that a recording must
  last and `DEF_VIDEO_MIN_LEN` (its header is not in the repository) are the same.
  An editor is pushed at once, not after its transition. The photo editor is not on
  the stack. The exporter fails if its output path is not free when it begins or
  when it ends, and may fail at any time. A comment or a drawing is a change; the
  late keyboard notification (`EditVideoView.m:321`) is `PhotoEdit`'s. The bounce of
  the thumbnails beyond their ends, which sets the part for a moment, is left out.
* *Feed*: timestamps distinct, the first page starts at the
  newest; each notification is told once. More may be loaded whenever either table
  could have been scrolled to its end. The row check of the table view is UIKit's.
* *News*: the server decides what a check is told and whether it is told again; a
  comment's count is the one of the moment of the reply. The interval of the timer
  is left out (it may fire at any moment); release builds start no timer and check
  on a push, in the foreground and after a share (`AppDelegate.m:310`). What a
  download that the news ask for does is `TwystDownload`'s. A row of the list that
  is gone is not touched: what Core Data does with it is not modelled.
* *Friends*: one other person; a menu acts on the relationship of the moment.

## 9. What is not modelled

* *Video encoder*: the threads are AVFoundation's, its own state is the progress.
* *Video*: the copy for the camera roll, made in the background
  (`FlipframeVideoModel.m:142`) from the file that the reply's block moves
  (`TwystDownloadService.m:140`); the cover frame, whose time is that of the whole
  video; an import of less than a second, which nothing refuses
  (`CaptureViewController.m:734` is for recordings) and whose part may begin before
  the video (`RepliesAreRight` is about those that last the minimum). As the model
  has it, a video reply that failed after its export cannot be sent again before
  the next session, since the file of the first attempt stays; no property calls
  that wrong.
* *News*: a save that fails, after which a like inserts nil into the list
  (`NotificationsViewController.m:302`); a logout during a check, whose answer goes to
  delegates that are not retained (`IANoticeManageService.h`); pull to refresh; a
  `viewWillAppear:` that is cancelled before `viewDidAppear:`. News
  that arrive while the screen is open keep their badge mark and are counted later;
  after a start the badge is empty until news come or the screen is opened: both
  are what the model does, and no property calls them wrong. That all news arrive
  in the end is not stated: builds without the timer promise nothing of the kind.
* *Friends*: `acceptAllRequests` and `declineAllRequests`, which nothing calls
  (`FriendManageService.m:176`); the search, whose results are nobody's list; the
  badge of requests not seen.
* *Draft library*: sequential, on the main
  thread. *Landing, profile, contacts*: forms. *Views, transitions, utilities*:
  layout. *GTL, RestKit, zipzap and the bundled libraries*: third-party code.
* *Within the modelled parts*: a failing Core Data save
  (`TSavedTwystManager.m:143`), a second upload that resets the storage
  service's delegate (`ShareViewController.m:607`), the unlocked arrays of paths
  (`PhotoRegularService.m:102`), the asynchronous emptying of the temporary
  folders (`FlipframeFileService.m:47`), equal timestamps (`Models/Twyst.m:86`),
  answers to searches (`FriendManageService.m:414`).

## 10. Plan

The order was: the download service and its store, the contract, the preview
over it, sharing, capture, the home feed, friends and session, editing, news, video.
Next:
a model of one twyst end to end (share, notification, feed, download, reply), over
abstract specifications of the feed and of sharing as `DownloadContract` is one.
