---------------------------- MODULE TwystPreview ----------------------------
(***************************************************************************)
(* The screen that plays a twyst: TwystPreviewController, which waits for  *)
(* the download, and the TwystPreviewView it then creates, which plays the *)
(* frames.  The download service is its contract (DownloadContract), with  *)
(* the urgent queue of each pair; its notifications reach every controller *)
(* and view that observes them.                                            *)
(*                                                                         *)
(* Everything runs on the main thread.  What makes it hard is what comes   *)
(* late: the answer to a check made when the preview was opened, a         *)
(* notification meant for another preview of the same twyst, a frame that  *)
(* was to be loaded.                                                       *)
(***************************************************************************)
EXTENDS Naturals, Sequences, FiniteSets

CONSTANTS Twysts,      \* twyst ids
          Previews,    \* preview controllers, each opened at most once
          Of,          \* the twyst of each preview
          Pair,        \* "friend" if isFriendTwyst, else "own"
          MaxFrames,   \* the most frames a record has
          Movies,      \* the frames (by index) that are a movie
          MaxNotices,  \* bound: notifications on their way
          MaxIndex     \* bound: imageIndex of a view that is not complete

ASSUME OfAssumption == Of \in [Previews -> Twysts]
ASSUME PairAssumption == Pair \in [Previews -> {"own", "friend"}]
ASSUME MaxFramesAssumption == MaxFrames \in Nat \ {0}
ASSUME MoviesAssumption == Movies \subseteq 0 .. MaxFrames - 1
ASSUME BoundsAssumption == MaxNotices \in Nat /\ MaxIndex \in Nat

Pairs == {"own", "friend"}

VARIABLES
    queued, owed, notices, stored, deleted,   \* the download service
    recordSize,   \* how many frames each record has
    reported,     \* reportedReplies: the frames not to be shown
    step,         \* where each controller is
    closed,       \* previews that were dismissed
    leaving,      \* those whose dismissal is still being animated
    late,         \* history: dismissed while their check was out, or told of
                  \* a finished download when they were on their way out
    observing,    \* controllers that observe the notifications
    timer,        \* controllers whose _timerDownload is set
    view          \* _twystPreview of each

downloadVars == <<queued, owed, notices, stored, deleted>>
waitVars == <<step, closed, leaving, late, observing, timer>>
vars == <<downloadVars, recordSize, reported, waitVars, view>>

Download == INSTANCE DownloadContract WITH Queues <- Pairs

-----------------------------------------------------------------------------
(* A view                                                                  *)

\* `running' is the 0.05 second timer, `player' the movie player with the
\* observer of its end, `pending' a frame that the main queue is to load,
\* `loading' that more frames were asked for, `covered' that another
\* screen or panel lies over the view.
View == [up : BOOLEAN, total : 0..MaxFrames,
         index : 0 .. MaxFrames + MaxIndex,
         complete : BOOLEAN, running : BOOLEAN, covered : BOOLEAN,
         isMovie : BOOLEAN, player : {"none", "playing", "paused"},
         pending : BOOLEAN, loading : BOOLEAN]

NoView == [up |-> FALSE, total |-> 0, index |-> 0, complete |-> FALSE,
           running |-> FALSE, covered |-> FALSE, isMovie |-> FALSE,
           player |-> "none", pending |-> FALSE, loading |-> FALSE]

\* Mutant: _isMovie is not reset.
LoadFrame_KeepMovie(v) ==
    CASE v.index >= v.total -> v
      [] v.index < v.total /\ v.index \in Movies \ reported ->
            [v EXCEPT !.isMovie = TRUE, !.player = "playing"]
      [] OTHER -> [v EXCEPT !.player = "none"]

\* actionLoadFrame: nothing if there is no such frame; a reported frame
\* only takes the movie player away.
LoadFrame(v) ==
    CASE v.index >= v.total -> v
      [] v.index < v.total /\ v.index \in reported ->
            [v EXCEPT !.player = "none"]
      [] v.index < v.total /\ v.index \in Movies \ reported ->
            [v EXCEPT !.isMovie = TRUE, !.player = "playing"]
      [] OTHER -> [v EXCEPT !.isMovie = FALSE, !.player = "none"]

Paused(v) ==
    [v EXCEPT !.running = FALSE, !.covered = TRUE,
              !.player = IF @ = "playing" THEN "paused" ELSE @]

Played(v) ==
    [v EXCEPT !.running = TRUE, !.covered = FALSE,
              !.player = IF @ = "paused" THEN "playing" ELSE @]

\* setSelectedImageIndex.
Selected(v, i) == LoadFrame([v EXCEPT !.index = i])

\* addTwystPreviewView and actionShowTutorial: the first frame is loaded
\* and playing starts, at once or when the tutorial is over.
NewView(n, playing) ==
    Selected([NoView EXCEPT !.up = TRUE, !.total = n, !.complete = TRUE,
                            !.running = playing, !.covered = ~playing], 0)

\* What is left of the view of p.  Its controller keeps it until the dismissal
\* is complete; then it lives on only by its timer or by the block that is to
\* load a frame.
Retained(v) == v.running \/ v.pending

Kept(p, v) == IF p \in closed \ leaving /\ ~Retained(v) THEN NoView ELSE v

TypeOK ==
    /\ queued \in [Pairs -> SUBSET Twysts]
    /\ owed \in [Pairs -> SUBSET Twysts]
    /\ notices \in Seq(Download!Notice)
    /\ stored \in SUBSET Twysts
    /\ deleted \in SUBSET Twysts
    /\ recordSize \in [Twysts -> 0..MaxFrames]
    /\ reported \in SUBSET (0 .. MaxFrames - 1)
    /\ step \in [Previews -> {"unopened", "checking", "waiting", "shown",
                              "failed", "gone"}]
    /\ closed \in SUBSET Previews
    /\ leaving \in SUBSET closed
    /\ late \in SUBSET closed
    /\ observing \in SUBSET Previews
    /\ timer \in SUBSET Previews
    /\ view \in [Previews -> View]

Init ==
    /\ Download!ContractInit
    /\ recordSize = [t \in Twysts |-> 0]
    /\ reported = {}
    /\ step = [p \in Previews |-> "unopened"]
    /\ closed = {}
    /\ leaving = {}
    /\ late = {}
    /\ observing = {}
    /\ timer = {}
    /\ view = [p \in Previews |-> NoView]

-----------------------------------------------------------------------------
(* The controller: opening, waiting, showing                               *)

\* actionDownloadTwyst.
Await(p) ==
    /\ observing' = observing \cup {p}
    /\ timer' = timer \cup {p}
    /\ step' = [step EXCEPT ![p] = "waiting"]
    /\ Download!Request(Pair[p], Of[p])
    /\ UNCHANGED view

\* actionTwystDidDownload.  The record may be gone: then no frames.
Show(p) ==
    /\ observing' = observing \ {p}
    /\ timer' = timer \ {p}
    /\ step' = [step EXCEPT ![p] = "shown"]
    /\ \E playing \in BOOLEAN :
          view' = [view EXCEPT ![p] =
                      Kept(p, NewView(recordSize[Of[p]], playing))]
    /\ UNCHANGED downloadVars

\* viewDidLoad: a saved twyst is first checked for new replies.
Open(p) ==
    /\ step[p] = "unopened"
    /\ IF Of[p] \in stored
       THEN /\ step' = [step EXCEPT ![p] = "checking"]
            /\ UNCHANGED <<downloadVars, observing, timer, view>>
       ELSE Await(p)
    /\ UNCHANGED <<recordSize, reported, closed, leaving, late>>

\* The completion of checkReplyAndDownload.  It replaces the list of
\* reported replies and goes on whether or not the preview is still there.
CheckAnswered(p) ==
    /\ step[p] = "checking"
    /\ reported' \in SUBSET (0 .. MaxFrames - 1)
    /\ Show(p) \/ Await(p)
    /\ UNCHANGED <<recordSize, closed, leaving, late>>

\* onDownloadTimer, after 120 seconds.
Timeout(p) ==
    /\ p \in timer
    /\ timer' = timer \ {p}
    /\ observing' = observing \ {p}
    /\ step' = [step EXCEPT ![p] = "failed"]
    /\ UNCHANGED <<downloadVars, recordSize, reported, closed, leaving, late, view>>

\* Mutant: the view is not paused.
Close_Playing(p) ==
    /\ step[p] # "unopened"
    /\ p \notin closed
    /\ closed' = closed \cup {p}
    /\ leaving' = leaving \cup {p}
    /\ late' = IF step[p] = "checking" THEN late \cup {p} ELSE late
    /\ observing' = observing \ {p}
    /\ timer' = timer \ {p}
    /\ step' = [step EXCEPT ![p] = IF @ = "checking" THEN @ ELSE "gone"]
    /\ UNCHANGED <<downloadVars, recordSize, reported, view>>

\* actionClosePreview and viewWillDisappear: the controller stops its timer and
\* pauses its view, which goes on observing while the dismissal is animated.
Close(p) ==
    /\ step[p] # "unopened"
    /\ p \notin closed
    /\ closed' = closed \cup {p}
    /\ leaving' = leaving \cup {p}
    /\ late' = IF step[p] = "checking" THEN late \cup {p} ELSE late
    /\ observing' = observing \ {p}
    /\ timer' = timer \ {p}
    /\ step' = [step EXCEPT ![p] = IF @ = "checking" THEN @ ELSE "gone"]
    /\ view' = [view EXCEPT ![p] = IF @.up THEN Paused(@) ELSE @]
    /\ UNCHANGED <<downloadVars, recordSize, reported>>

\* The dismissal is complete: nothing keeps the controller, unless its check
\* is still out, and what nothing else retains of the view is gone.
Dismissed(p) ==
    /\ p \in leaving
    /\ leaving' = leaving \ {p}
    /\ view' = [view EXCEPT ![p] = IF Retained(@) THEN @ ELSE NoView]
    /\ UNCHANGED <<downloadVars, recordSize, reported, step, closed, late,
                   observing, timer>>

-----------------------------------------------------------------------------
(* The view: playing                                                       *)

SetView(p, v) ==
    /\ view' = [view EXCEPT ![p] = Kept(p, v)]
    /\ UNCHANGED <<downloadVars, recordSize, reported, waitVars>>

\* actionLoadNextImage: a complete view begins again after its last frame;
\* another asks for more.
AtEnd(v) == v.index + 1 >= v.total

NextFrame(p, v) ==
    /\ v.complete \/ ~AtEnd(v)
    /\ SetView(p, [v EXCEPT !.index = IF AtEnd(v) THEN 0 ELSE @ + 1,
                            !.pending = TRUE])

\* Mutant: no download is asked for.
LoadMore_Unasked(p, v) ==
    /\ AtEnd(v) /\ ~v.complete
    /\ v.index < MaxIndex
    /\ SetView(p, [v EXCEPT !.index = @ + 1, !.running = FALSE,
                            !.loading = TRUE])

LoadMore(p, v) ==
    /\ AtEnd(v) /\ ~v.complete
    /\ v.index < MaxIndex
    /\ view' = [view EXCEPT ![p] =
                   Kept(p, [v EXCEPT !.index = @ + 1, !.running = FALSE,
                                     !.loading = TRUE])]
    /\ Download!Request("friend", Of[p])
    /\ UNCHANGED <<recordSize, reported, waitVars>>

LoadNextImage(p, v) == NextFrame(p, v) \/ LoadMore(p, v)

\* handleTouchTimer, when a photo's time is over.
TouchTimer(p) ==
    /\ view[p].running
    /\ ~view[p].isMovie
    /\ LoadNextImage(p, view[p])

\* The observer of the movie's end, once for each time it is loaded.
MovieEnds(p) ==
    /\ view[p].player = "playing"
    /\ LoadNextImage(p, [view[p] EXCEPT !.player = "none"])

SinglePhoto(v) == v.total = 1 /\ 0 \notin Movies

TapPreview(p) ==
    /\ view[p].up
    /\ p \notin closed
    /\ ~view[p].covered
    /\ ~SinglePhoto(view[p])
    /\ LoadNextImage(p, view[p])

\* The block that loads _imageIndex as it is by then.
LoadPending(p) ==
    /\ view[p].pending
    /\ SetView(p, LoadFrame([view[p] EXCEPT !.pending = FALSE]))

\* A panel or another screen covers the preview and goes away again, which
\* takes longer than the pending block has to wait.
Pause(p) ==
    /\ view[p].up /\ p \notin closed /\ ~view[p].covered
    /\ SetView(p, Paused(view[p]))

Resume(p) ==
    /\ view[p].up /\ p \notin closed
    /\ view[p].covered /\ ~view[p].pending
    /\ SetView(p, Played(view[p]))

\* twystFrameDidSelect, from the list of the record's frames.
SelectFrame(p) ==
    /\ view[p].up /\ p \notin closed
    /\ view[p].covered /\ ~view[p].pending
    /\ \E i \in 0 .. recordSize[Of[p]] - 1 : SetView(p, Selected(view[p], i))

-----------------------------------------------------------------------------
(* Notifications                                                           *)

\* A view observes those of the friend queues only.  A finished download
\* renews its frames and always makes it incomplete, because no
\* notification carries "isComplete".
RenewedView(v, n, t) ==
    CASE ~v.up \/ n.q # "friend" \/ n.twyst # t -> v
      [] v.up /\ n.q = "friend" /\ n.twyst = t /\ n.kind = "did" ->
            [LoadFrame([v EXCEPT !.complete = FALSE,
                                 !.total = recordSize[t]])
             EXCEPT !.loading = FALSE, !.running = TRUE]
      [] OTHER -> [Selected(v, 0) EXCEPT !.loading = FALSE]

Told(n) == {p \in observing : Of[p] = n.twyst}

\* An observing controller shows the twyst or reports the failure; views
\* that are up, which are those of other previews, are renewed.
DeliverDid(n) ==
    /\ n.kind = "did"
    /\ observing' = observing \ Told(n)
    /\ timer' = timer \ Told(n)
    /\ step' = [p \in Previews |-> IF p \in Told(n) THEN "shown"
                                                    ELSE step[p]]
    /\ \E playing \in BOOLEAN :
          view' = [p \in Previews |->
                      IF p \in Told(n)
                      THEN Kept(p, NewView(recordSize[n.twyst], playing))
                      ELSE RenewedView(view[p], n, Of[p])]

\* Mutant: the view is shown after a failure as well.
DeliverFail_Shown(n) ==
    /\ n.kind = "fail"
    /\ observing' = observing \ Told(n)
    /\ timer' = timer \ Told(n)
    /\ step' = [p \in Previews |-> IF p \in Told(n) THEN "shown"
                                                    ELSE step[p]]
    /\ view' = [p \in Previews |->
                   IF p \in Told(n) THEN NewView(recordSize[n.twyst], TRUE)
                                    ELSE RenewedView(view[p], n, Of[p])]

DeliverFail(n) ==
    /\ n.kind = "fail"
    /\ observing' = observing \ Told(n)
    /\ timer' = timer \ Told(n)
    /\ step' = [p \in Previews |-> IF p \in Told(n) THEN "failed"
                                                    ELSE step[p]]
    /\ view' = [p \in Previews |-> RenewedView(view[p], n, Of[p])]

\* The dismissed previews whose view is still there to hear of a download: it
\* starts its timer, which nobody stops.
Revived(n) ==
    {p \in closed : view[p].up /\ n.kind = "did" /\ n.q = "friend"
                    /\ n.twyst = Of[p]}

Notify ==
    /\ notices # <<>>
    /\ Download!Deliver(Head(notices))
    /\ DeliverDid(Head(notices)) \/ DeliverFail(Head(notices))
    /\ late' = late \cup Revived(Head(notices))
    /\ UNCHANGED <<recordSize, reported, closed, leaving>>

-----------------------------------------------------------------------------
(* The download service and the store                                      *)

\* The home feed asks for own twysts, other previews for friends'.
Request(q, t) ==
    /\ t \notin queued[q]
    /\ Download!Request(q, t)
    /\ UNCHANGED <<recordSize, reported, waitVars, view>>

TakeUp(q, t) ==
    /\ Download!TakeUp(q, t)
    /\ UNCHANGED <<recordSize, reported, waitVars, view>>

Answer(q, t) ==
    /\ Len(notices) < MaxNotices
    /\ \E kind \in {"did", "fail"} : Download!Answer(q, t, kind)
    /\ UNCHANGED <<recordSize, reported, waitVars, view>>

Save(t) ==
    /\ Download!Save(t)
    /\ \E n \in 1..MaxFrames : recordSize' = [recordSize EXCEPT ![t] = n]
    /\ UNCHANGED <<reported, waitVars, view>>

Delete(t) ==
    /\ Download!Delete(t)
    /\ t \in deleted'
    /\ recordSize' = [recordSize EXCEPT ![t] = 0]
    /\ UNCHANGED <<reported, waitVars, view>>

\* The user reports a frame from the list of frames; the views load their
\* frame again.
ReportFrame(i) ==
    /\ \E p \in Previews : view[p].covered /\ i < view[p].total
    /\ i \notin reported
    /\ reported' = reported \cup {i}
    /\ view' = [p \in Previews |->
                   IF view[p].up /\ view[p].index = i
                   THEN [view[p] EXCEPT !.player = "none"]
                   ELSE IF view[p].up THEN LoadFrame(view[p]) ELSE view[p]]
    /\ UNCHANGED <<downloadVars, recordSize, waitVars>>

Service ==
    \E t \in Twysts :
        \/ \E q \in Pairs : Request(q, t) \/ TakeUp(q, t) \/ Answer(q, t)
        \/ Save(t) \/ Delete(t)

Preview(p) ==
    \/ Open(p) \/ CheckAnswered(p) \/ Timeout(p) \/ Close(p) \/ Dismissed(p)
    \/ TouchTimer(p) \/ MovieEnds(p) \/ TapPreview(p) \/ LoadPending(p)
    \/ Pause(p) \/ Resume(p) \/ SelectFrame(p)

Next ==
    \/ Service
    \/ \E p \in Previews : Preview(p)
    \/ \E i \in 0 .. MaxFrames - 1 : ReportFrame(i)
    \/ Notify

Spec == Init /\ [][Next]_vars

\* Timers fire, movies end, the main queue and the network answer; the
\* users do as they like.
Fairness ==
    /\ WF_vars(Notify)
    /\ \A p \in Previews :
          /\ WF_vars(CheckAnswered(p)) /\ WF_vars(Timeout(p))
          /\ WF_vars(TouchTimer(p)) /\ WF_vars(MovieEnds(p))
          /\ WF_vars(LoadPending(p))

\* The service keeps taking up and answering what it was asked for.
ServiceFairness ==
    \A q \in Pairs, t \in Twysts :
        WF_vars(TakeUp(q, t)) /\ SF_vars(Answer(q, t))

FairSpec == Spec /\ Fairness

-----------------------------------------------------------------------------
(* Safety                                                                  *)

\* A dismissed preview observes and plays nothing, and its view is gone when
\* the dismissal is complete and the last block has run.  Two are excepted.
\* One that was dismissed while its check was out goes on to download, show and
\* play.  The view of one that is told of a finished download on its way out
\* starts its timer, which retains it: it plays on with nobody to stop it.
DismissedIsIdle ==
    \A p \in closed \ late :
        /\ p \notin observing
        /\ ~view[p].running
        /\ p \notin leaving /\ ~view[p].pending => ~view[p].up

\* A preview that shows a twyst has frames to show: it looks for the record
\* only when it was told that it is there.  A deletion is the exception.
ShownHasFrames ==
    \A p \in Previews :
        view[p].up => view[p].total > 0 \/ Of[p] \in deleted

-----------------------------------------------------------------------------
(* Liveness                                                                *)

\* A complete view that plays comes back to its first frame again and
\* again, or stalls at a frame that is not shown: one that was reported, or
\* that was selected from a record newer than the view.  After a movie it
\* leaves _isMovie set with no player, and nothing moves on by itself.
Hidden(v) == v.index \in reported \/ v.index >= v.total

Stalled(v) == v.isMovie /\ v.player = "none" /\ Hidden(v)

Loops(p) ==
    []<>(\/ view[p].index = 0
         \/ ~view[p].running \/ ~view[p].complete \/ Stalled(view[p]))

PlaybackLoops == \A p \in Previews : Loops(p)

\* A view that asked for more frames hears of it, provided the service
\* serves every request in the end.
LoadMoreEnds ==
    ServiceFairness =>
        \A p \in Previews : view[p].loading ~> ~view[p].loading
=============================================================================
