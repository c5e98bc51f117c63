------------------------- MODULE TwystPreviewProofs -------------------------
(***************************************************************************)
(* Theorems about TwystPreview, for any twysts, previews, frames and       *)
(* movies, and any number of notifications on their way.                   *)
(***************************************************************************)
EXTENDS TwystPreview, TLAPS

USE OfAssumption, PairAssumption, MaxFramesAssumption, MoviesAssumption,
    BoundsAssumption

-----------------------------------------------------------------------------
(* Types                                                                   *)

\* What a step leaves of a view is a view.
LEMMA LoadFrameType ==
    ASSUME NEW v \in View
    PROVE  LoadFrame(v) \in View
BY DEF LoadFrame, View

LEMMA NoViewType == NoView \in View
BY DEF NoView, View

LEMMA SelectedType ==
    ASSUME NEW v \in View, NEW i \in 0 .. MaxFrames + MaxIndex
    PROVE  Selected(v, i) \in View
<1>1. [v EXCEPT !.index = i] \in View
    BY DEF View
<1> QED
    BY <1>1, LoadFrameType DEF Selected

LEMMA NewViewType ==
    ASSUME NEW n \in 0..MaxFrames, NEW playing \in BOOLEAN
    PROVE  NewView(n, playing) \in View
<1> DEFINE w(b, c) == [NoView EXCEPT !.up = TRUE, !.total = n,
                              !.complete = TRUE, !.running = b, !.covered = c]
<1>1. w(TRUE, FALSE) \in View /\ w(FALSE, TRUE) \in View
    BY NoViewType DEF View
<1>2. \/ playing = TRUE /\ (~playing) = FALSE
      \/ playing = FALSE /\ (~playing) = TRUE
    BY Zenon
<1> HIDE DEF w
<1>3. w(playing, ~playing) \in View
    BY <1>1, <1>2, Zenon
<1> QED
    BY <1>3, SelectedType DEF w, NewView

LEMMA KeptType ==
    ASSUME NEW p, NEW v \in View
    PROVE  Kept(p, v) \in View
BY NoViewType DEF Kept

LEMMA RenewedViewType ==
    ASSUME NEW v \in View, NEW n, NEW t \in Twysts,
           recordSize \in [Twysts -> 0..MaxFrames]
    PROVE  RenewedView(v, n, t) \in View
<1>1. [v EXCEPT !.complete = FALSE, !.total = recordSize[t]] \in View
    BY DEF View
<1> DEFINE w == LoadFrame([v EXCEPT !.complete = FALSE,
                                    !.total = recordSize[t]])
<1>2. w \in View
    BY <1>1, LoadFrameType
<1>3. [w EXCEPT !.loading = FALSE, !.running = TRUE] \in View
    BY <1>2 DEF View
<1>4. Selected(v, 0) \in View
    BY SelectedType
<1>5. [Selected(v, 0) EXCEPT !.loading = FALSE] \in View
    BY <1>4 DEF View
<1> QED
    BY <1>3, <1>5 DEF RenewedView

\* A step that changes one view, to a view.
LEMMA SetViewType ==
    ASSUME TypeOK, NEW p \in Previews, NEW v \in View,
           view' = [view EXCEPT ![p] = Kept(p, v)],
           UNCHANGED <<recordSize, reported, waitVars>>,
           notices' = notices /\ owed' = owed /\ stored' = stored,
           deleted' = deleted,
           queued' \in [Pairs -> SUBSET Twysts]
    PROVE  TypeOK'
BY KeptType DEF TypeOK, waitVars

LEMMA LoadNextImageType ==
    ASSUME TypeOK, NEW p \in Previews, NEW v \in View, LoadNextImage(p, v)
    PROVE  TypeOK'
<1>1. CASE NextFrame(p, v)
    <2> DEFINE i == IF AtEnd(v) THEN 0 ELSE v.index + 1
    <2>1. v.index \in Nat /\ v.total \in 0..MaxFrames
        BY DEF View
    <2>2. i \in 0 .. MaxFrames + MaxIndex
        BY <2>1 DEF AtEnd
    <2> HIDE DEF i
    <2>3. [v EXCEPT !.index = i, !.pending = TRUE] \in View
        BY <2>2 DEF View
    <2> QED
        BY <1>1, <2>3, SetViewType
        DEF i, NextFrame, SetView, downloadVars, TypeOK
<1>2. CASE LoadMore(p, v)
    <2>1. v.index + 1 \in 0 .. MaxFrames + MaxIndex
        BY <1>2 DEF LoadMore, View
    <2>3. [v EXCEPT !.index = @ + 1, !.running = FALSE,
                    !.loading = TRUE] \in View
        BY <2>1 DEF View
    <2>2. queued' \in [Pairs -> SUBSET Twysts]
        BY <1>2 DEF LoadMore, Download!Request, TypeOK, Pairs
    <2> QED
        BY <1>2, <2>2, <2>3, SetViewType DEF LoadMore, Download!Request
<1> QED
    BY <1>1, <1>2 DEF LoadNextImage

LEMMA TypeInit == Init => TypeOK
<1>1. <<>> \in Seq(Download!Notice)
    OBVIOUS
<1> QED
    BY <1>1, NoViewType
    DEF Init, TypeOK, Download!ContractInit, Pairs

LEMMA AwaitType ==
    ASSUME TypeOK, NEW p \in Previews, Await(p),
           recordSize' = recordSize,
           reported' \in SUBSET (0 .. MaxFrames - 1),
           UNCHANGED <<closed, leaving, late>>
    PROVE  TypeOK'
<1>1. queued' \in [Pairs -> SUBSET Twysts]
    BY DEF Await, Download!Request, TypeOK, Pairs
<1> QED
    BY <1>1 DEF Await, Download!Request, TypeOK

LEMMA ShowType ==
    ASSUME TypeOK, NEW p \in Previews, Show(p),
           recordSize' = recordSize,
           reported' \in SUBSET (0 .. MaxFrames - 1),
           UNCHANGED <<closed, leaving, late>>
    PROVE  TypeOK'
<1>1. PICK playing \in BOOLEAN :
          view' = [view EXCEPT ![p] =
                      Kept(p, NewView(recordSize[Of[p]], playing))]
    BY DEF Show
<1>2. recordSize[Of[p]] \in 0..MaxFrames
    BY DEF TypeOK
<1>3. view' \in [Previews -> View]
    BY <1>1, <1>2, NewViewType, KeptType DEF TypeOK
<1> QED
    BY <1>3 DEF Show, TypeOK, downloadVars

LEMMA PreviewType ==
    ASSUME TypeOK, NEW p \in Previews, Preview(p)
    PROVE  TypeOK'
<1>1. view[p] \in View
    BY DEF TypeOK
<1>2. CASE Open(p)
    <2>1. CASE Of[p] \in stored
        BY <1>2, <2>1 DEF Open, TypeOK, downloadVars
    <2>2. CASE Of[p] \notin stored
        BY <1>2, <2>2, AwaitType DEF Open, TypeOK
    <2> QED
        BY <2>1, <2>2
<1>3. CASE CheckAnswered(p)
    BY <1>3, AwaitType, ShowType DEF CheckAnswered
<1>4. CASE Timeout(p)
    BY <1>4 DEF Timeout, TypeOK, downloadVars
<1>5. CASE Close(p)
    <2>1. Paused(view[p]) \in View
        BY <1>1 DEF View, Paused
    <2> QED
        BY <1>5, <2>1 DEF Close, TypeOK, downloadVars
<1>14. CASE Dismissed(p)
    BY <1>14, NoViewType DEF Dismissed, TypeOK, downloadVars
<1>6. CASE TouchTimer(p)
    BY <1>1, <1>6, LoadNextImageType DEF TouchTimer
<1>7. CASE MovieEnds(p)
    <2>1. [view[p] EXCEPT !.player = "none"] \in View
        BY <1>1 DEF View
    <2> QED
        BY <1>7, <2>1, LoadNextImageType DEF MovieEnds
<1>8. CASE TapPreview(p)
    BY <1>1, <1>8, LoadNextImageType DEF TapPreview
<1>9. ASSUME NEW v \in View, SetView(p, v)
      PROVE  TypeOK'
    BY <1>9, SetViewType DEF SetView, downloadVars, TypeOK
<1>10. CASE LoadPending(p)
    <2>1. [view[p] EXCEPT !.pending = FALSE] \in View
        BY <1>1 DEF View
    <2> QED
        BY <1>9, <1>10, <2>1, LoadFrameType DEF LoadPending
<1>11. CASE Pause(p)
    <2>1. Paused(view[p]) \in View
        BY <1>1 DEF View, Paused
    <2> QED
        BY <1>9, <1>11, <2>1 DEF Pause
<1>12. CASE Resume(p)
    <2>1. Played(view[p]) \in View
        BY <1>1 DEF View, Played
    <2> QED
        BY <1>9, <1>12, <2>1 DEF Resume
<1>13. CASE SelectFrame(p)
    <2>1. PICK i \in 0 .. recordSize[Of[p]] - 1 :
              SetView(p, Selected(view[p], i))
        BY <1>13 DEF SelectFrame
    <2>2. recordSize[Of[p]] \in 0..MaxFrames
        BY DEF TypeOK
    <2>3. i \in 0 .. MaxFrames + MaxIndex
        BY <2>1, <2>2
    <2> QED
        BY <1>1, <1>9, <2>1, <2>3, SelectedType
<1> QED
    BY <1>2, <1>3, <1>4, <1>5, <1>6, <1>7, <1>8, <1>10, <1>11, <1>12, <1>13,
       <1>14 DEF Preview

LEMMA NotifyType ==
    ASSUME TypeOK, Notify
    PROVE  TypeOK'
<1> DEFINE n == Head(notices)
<1>1. n \in Download!Notice /\ notices' \in Seq(Download!Notice)
    BY DEF Notify, Download!Deliver, TypeOK
<1>2. n.twyst \in Twysts
    BY <1>1 DEF Download!Notice
<1>3. recordSize[n.twyst] \in 0..MaxFrames
    BY <1>2 DEF TypeOK
<1>4. \A p \in Previews : RenewedView(view[p], n, Of[p]) \in View
    BY RenewedViewType DEF TypeOK
<1>5. CASE DeliverDid(n)
    <2>1. PICK playing \in BOOLEAN :
              view' = [p \in Previews |->
                          IF p \in Told(n)
                          THEN Kept(p, NewView(recordSize[n.twyst], playing))
                          ELSE RenewedView(view[p], n, Of[p])]
        BY <1>5 DEF DeliverDid
    <2>2. view' \in [Previews -> View]
        BY <1>3, <1>4, <2>1, NewViewType, KeptType
    <2> QED
        BY <1>1, <1>5, <2>2
        DEF DeliverDid, Notify, Revived, Download!Deliver, TypeOK
<1>6. CASE DeliverFail(n)
    <2>1. view' \in [Previews -> View]
        BY <1>4, <1>6 DEF DeliverFail
    <2> QED
        BY <1>1, <1>6, <2>1
        DEF DeliverFail, Notify, Revived, Download!Deliver, TypeOK
<1> QED
    BY <1>5, <1>6 DEF Notify

LEMMA ServiceType ==
    ASSUME TypeOK, Service
    PROVE  TypeOK'
<1>1. PICK t \in Twysts :
          \/ \E q \in Pairs : Request(q, t) \/ TakeUp(q, t) \/ Answer(q, t)
          \/ Save(t) \/ Delete(t)
    BY DEF Service
<1>2. ASSUME NEW q \in Pairs, Request(q, t)
      PROVE  TypeOK'
    BY <1>2 DEF Request, Download!Request, TypeOK, waitVars
<1>3. ASSUME NEW q \in Pairs, TakeUp(q, t)
      PROVE  TypeOK'
    BY <1>3 DEF TakeUp, Download!TakeUp, TypeOK, waitVars
<1>4. ASSUME NEW q \in Pairs, Answer(q, t)
      PROVE  TypeOK'
    <2>1. PICK kind \in {"did", "fail"} : Download!Answer(q, t, kind)
        BY <1>4 DEF Answer
    <2>2. [kind |-> kind, q |-> q, twyst |-> t] \in Download!Notice
        BY DEF Download!Notice
    <2>3. notices' \in Seq(Download!Notice)
        BY <2>1, <2>2 DEF Download!Answer, TypeOK
    <2> QED
        BY <1>4, <2>1, <2>3 DEF Answer, Download!Answer, TypeOK, waitVars
<1>5. CASE Save(t)
    BY <1>5 DEF Save, Download!Save, TypeOK, waitVars
<1>6. CASE Delete(t)
    BY <1>6 DEF Delete, Download!Delete, TypeOK, waitVars
<1> QED
    BY <1>1, <1>2, <1>3, <1>4, <1>5, <1>6

LEMMA TypeStep == TypeOK /\ [Next]_vars => TypeOK'
<1> SUFFICES ASSUME TypeOK, [Next]_vars
             PROVE  TypeOK'
    OBVIOUS
<1>1. ASSUME NEW i \in 0 .. MaxFrames - 1, ReportFrame(i)
      PROVE  TypeOK'
    <2>1. \A v \in View : [v EXCEPT !.player = "none"] \in View
        BY DEF View
    <2>2. view' \in [Previews -> View]
        BY <1>1, <2>1, LoadFrameType DEF ReportFrame, TypeOK
    <2> QED
        BY <1>1, <2>2 DEF ReportFrame, TypeOK, downloadVars, waitVars
<1>2. CASE UNCHANGED vars
    BY <1>2 DEF vars, downloadVars, waitVars, TypeOK
<1> QED
    BY <1>1, <1>2, PreviewType, NotifyType, ServiceType DEF Next

\* Every reachable state of the previews and of the service they use is well
\* typed; in particular a view never has more frames than a record.
THEOREM PreviewTypeCorrect == Spec => []TypeOK
BY TypeInit, TypeStep, PTL DEF Spec

-----------------------------------------------------------------------------
(* Dismissed previews                                                      *)

\* DismissedIsIdle says what must not happen and not why.  Inductive is that
\* a dismissed preview has no timer and no observer by which it could come
\* back, and that its view, if it is still there, is paused and held by the
\* animation or by a block only; nor is there anything of a preview that was
\* not opened.  A view whose timer runs is one that is there to be paused.
Nothing(p) == p \notin observing /\ p \notin timer /\ view[p] = NoView

Idle(p) ==
    /\ step[p] = "gone" /\ p \notin observing /\ p \notin timer
    /\ ~view[p].running
    /\ view[p] = NoView \/ p \in leaving \/ view[p].pending

IdleInv ==
    /\ \A p \in closed \ late : Idle(p)
    /\ \A p \in Previews :
          step[p] = "unopened" => p \notin closed /\ Nothing(p)
    /\ \A p \in Previews : view[p] = NoView \/ view[p].up

LEMMA NoViewIsIdle ==
    /\ ~NoView.up /\ ~NoView.running /\ ~NoView.pending
    /\ NoView.player = "none"
BY DEF NoView

\* A step that concerns one preview, which is there to take it.
LEMMA OwnStepKeepsIdle ==
    ASSUME TypeOK, IdleInv, NEW p \in Previews,
           p \notin closed \ late,
           UNCHANGED <<closed, leaving, late>>,
           step[p] = "unopened" => step'[p] # "unopened",
           step'[p] = "unopened" => step[p] = "unopened",
           view'[p] = NoView \/ view'[p].up,
           \A o \in Previews \ {p} :
              /\ step'[o] = step[o] /\ view'[o] = view[o]
              /\ o \in observing' <=> o \in observing
              /\ o \in timer' <=> o \in timer
    PROVE  IdleInv'
BY DEF TypeOK, IdleInv, Idle, Nothing

\* Playing is up to a view that is there, and the view of a dismissed preview
\* does not start its timer by itself.
LEMMA SetViewKeepsIdle ==
    ASSUME TypeOK, IdleInv, NEW p \in Previews, NEW v \in View,
           view[p] # NoView,
           p \in closed \ late => ~v.running, v.up = view[p].up,
           view' = [view EXCEPT ![p] = Kept(p, v)], UNCHANGED waitVars
    PROVE  IdleInv'
<1>1. /\ step[p] # "unopened"
      /\ view'[p] = NoView \/ view'[p].up
    BY DEF IdleInv, Nothing, Kept, TypeOK
<1>2. CASE p \notin closed \ late
    BY <1>1, <1>2, OwnStepKeepsIdle DEF waitVars, TypeOK
<1>3. CASE p \in closed \ late
    <2>1. view'[p] = NoView \/ (view'[p] = v /\ (p \in leaving \/ v.pending))
        BY <1>3 DEF Kept, Retained, TypeOK
    <2>2. ~view'[p].running /\ (view'[p] = NoView \/ p \in leaving \/ view'[p].pending)
        BY <1>3, <2>1, NoViewIsIdle
    <2>3. \A o \in Previews \ {p} : view'[o] = view[o]
        BY DEF TypeOK
    <2> QED
        BY <1>1, <1>3, <2>2, <2>3 DEF waitVars, IdleInv, Idle, Nothing, TypeOK
<1> QED
    BY <1>2, <1>3

LEMMA LoadNextKeepsIdle ==
    ASSUME TypeOK, IdleInv, NEW p \in Previews, NEW v \in View,
           view[p] # NoView, p \in closed \ late => ~v.running,
           v.up = view[p].up, LoadNextImage(p, v)
    PROVE  IdleInv'
<1>1. CASE NextFrame(p, v)
    <2> DEFINE i == IF AtEnd(v) THEN 0 ELSE v.index + 1
    <2>1. v.index \in Nat /\ v.total \in 0..MaxFrames
        BY DEF View
    <2>2. i \in 0 .. MaxFrames + MaxIndex
        BY <1>1, <2>1 DEF AtEnd, NextFrame
    <2> HIDE DEF i
    <2> DEFINE w == [v EXCEPT !.index = i, !.pending = TRUE]
    <2>3. w \in View /\ w.running = v.running /\ w.up = v.up
        BY <2>2 DEF View
    <2>4. SetView(p, w)
        BY <1>1 DEF i, NextFrame
    <2> QED
        BY <2>3, <2>4, SetViewKeepsIdle DEF SetView
<1>2. CASE LoadMore(p, v)
    <2>1. v.index + 1 \in 0 .. MaxFrames + MaxIndex
        BY <1>2 DEF LoadMore, View
    <2> DEFINE w == [v EXCEPT !.index = @ + 1, !.running = FALSE,
                              !.loading = TRUE]
    <2>2. w \in View /\ ~w.running /\ w.up = v.up
        BY <2>1 DEF View
    <2> QED
        BY <1>2, <2>2, SetViewKeepsIdle DEF LoadMore
<1> QED
    BY <1>1, <1>2 DEF LoadNextImage

\* Loading a frame is no reason to start or stop the timer, nor to come or go.
SameLife(v, w) ==
    w.running = v.running /\ w.pending = v.pending /\ w.up = v.up

LEMMA LoadFrameLife ==
    ASSUME NEW v \in View
    PROVE  SameLife(v, LoadFrame(v))
BY DEF LoadFrame, SameLife, View

LEMMA NewViewUp ==
    ASSUME NEW n \in 0..MaxFrames, NEW playing \in BOOLEAN
    PROVE  NewView(n, playing).up
<1> DEFINE w(b, c) == [NoView EXCEPT !.up = TRUE, !.total = n,
                              !.complete = TRUE, !.running = b, !.covered = c]
<1> DEFINE x(b, c) == [w(b, c) EXCEPT !.index = 0]
<1>0. /\ w(TRUE, FALSE) \in View /\ w(TRUE, FALSE).up
      /\ w(FALSE, TRUE) \in View /\ w(FALSE, TRUE).up
    BY NoViewType DEF View
<1>5. \A v \in View : /\ [v EXCEPT !.index = 0] \in View
                      /\ [v EXCEPT !.index = 0].up = v.up
    BY DEF View
<1>1. /\ x(TRUE, FALSE) \in View /\ x(TRUE, FALSE).up
      /\ x(FALSE, TRUE) \in View /\ x(FALSE, TRUE).up
    <2> HIDE DEF w
    <2> QED
        BY <1>0, <1>5
<1>2. \/ playing = TRUE /\ (~playing) = FALSE
      \/ playing = FALSE /\ (~playing) = TRUE
    BY Zenon
<1> HIDE DEF x
<1>3. x(playing, ~playing) \in View /\ x(playing, ~playing).up
    BY <1>1, <1>2, Zenon
<1>4. LoadFrame(x(playing, ~playing)).up
    BY <1>3, LoadFrameLife DEF SameLife
<1> QED
    BY <1>4 DEF x, NewView, Selected

LEMMA RenewedUp ==
    ASSUME NEW v \in View, NEW n, NEW t \in Twysts,
           recordSize \in [Twysts -> 0..MaxFrames]
    PROVE  RenewedView(v, n, t).up = v.up
<1> DEFINE u == [v EXCEPT !.complete = FALSE, !.total = recordSize[t]]
           s == [v EXCEPT !.index = 0]
<1>4. u \in View /\ u.up = v.up
    BY DEF View
<1>5. s \in View /\ s.up = v.up
    BY DEF View
<1>1. u \in View /\ u.up = v.up /\ s \in View /\ s.up = v.up
    BY <1>4, <1>5
<1> HIDE DEF u, s
<1>2. \A w \in {u, s} : LoadFrame(w) \in View /\ LoadFrame(w).up = v.up
    BY <1>1, LoadFrameType, LoadFrameLife DEF SameLife
<1>3. \A w \in View :
          /\ [w EXCEPT !.loading = FALSE, !.running = TRUE].up = w.up
          /\ [w EXCEPT !.loading = FALSE].up = w.up
    BY DEF View
<1> QED
    BY <1>2, <1>3 DEF RenewedView, Selected, u, s

LEMMA PreviewKeepsIdle ==
    ASSUME TypeOK, IdleInv, NEW p \in Previews, Preview(p)
    PROVE  IdleInv'
<1>0. view[p] \in View
    BY DEF TypeOK
<1>1. CASE Open(p)
    <2>1. p \notin closed
        BY <1>1 DEF Open, IdleInv
    <2>2. view'[p] = view[p]
        BY <1>1 DEF Open, Await
    <2>3. view[p] = NoView \/ view[p].up
        BY DEF IdleInv
    <2> QED
        BY <1>1, <2>1, <2>2, <2>3, OwnStepKeepsIdle
        DEF Open, Await, TypeOK, downloadVars
<1>2. CASE CheckAnswered(p)
    <2>1. p \notin closed \ late
        BY <1>2 DEF CheckAnswered, IdleInv, Idle
    <2>2. view[p] = NoView \/ view[p].up
        BY DEF IdleInv
    <2>3. CASE Await(p)
        BY <1>2, <2>1, <2>2, <2>3, OwnStepKeepsIdle
        DEF CheckAnswered, Await, TypeOK
    <2>4. CASE Show(p)
        <3>1. PICK playing \in BOOLEAN :
                  view' = [view EXCEPT ![p] =
                              Kept(p, NewView(recordSize[Of[p]], playing))]
            BY <2>4 DEF Show
        <3>2. recordSize[Of[p]] \in 0..MaxFrames
            BY DEF TypeOK
        <3>3. view'[p] = NoView \/ view'[p].up
            BY <3>1, <3>2, NewViewUp DEF Kept, TypeOK
        <3> QED
            BY <1>2, <2>1, <2>4, <3>3, OwnStepKeepsIdle
            DEF CheckAnswered, Show, TypeOK
    <2> QED
        BY <1>2, <2>3, <2>4 DEF CheckAnswered
<1>3. CASE Timeout(p)
    <2>1. p \notin closed \ late
        BY <1>3 DEF Timeout, IdleInv, Idle
    <2> QED
        BY <1>3, <2>1, OwnStepKeepsIdle DEF Timeout, TypeOK, IdleInv, Nothing
<1>4. CASE Close(p)
    <2>1. \A o \in closed' \ late' : o = p \/ o \in closed \ late
        BY <1>4 DEF Close
    <2>2. p \in closed' \ late' => step'[p] = "gone"
        BY <1>4 DEF Close, TypeOK
    <2>3. \A o \in Previews \ {p} : /\ view'[o] = view[o] /\ step'[o] = step[o]
                                    /\ o \in leaving' <=> o \in leaving
        BY <1>4 DEF Close, TypeOK
    <2>4. /\ p \in leaving' /\ p \notin observing' /\ p \notin timer'
          /\ step'[p] # "unopened"
        BY <1>4 DEF Close, TypeOK
    <2>5. view[p].running => view[p].up
        BY NoViewIsIdle DEF IdleInv
    <2>8. view'[p] = NoView \/ view'[p].up
        BY <1>0, <1>4 DEF Close, Paused, TypeOK, View, IdleInv
    <2>6. ~view'[p].running
        BY <1>0, <1>4, <2>5 DEF Close, Paused, TypeOK, View
    <2>7. observing' \subseteq observing /\ timer' \subseteq timer
        BY <1>4 DEF Close
    <2> QED
        BY <1>4, <2>1, <2>2, <2>3, <2>4, <2>6, <2>7, <2>8
        DEF Close, TypeOK, IdleInv, Idle, Nothing
<1>5. CASE Dismissed(p)
    <2>1. step[p] # "unopened"
        BY <1>5 DEF Dismissed, IdleInv, TypeOK
    <2>2. \A o \in Previews \ {p} : /\ view'[o] = view[o]
                                    /\ o \in leaving' <=> o \in leaving
        BY <1>5 DEF Dismissed, TypeOK
    <2>3. \/ view'[p] = NoView
          \/ view'[p] = view[p] /\ (view[p].running \/ view[p].pending)
        BY <1>5 DEF Dismissed, Retained, TypeOK
    <2> QED
        BY <1>5, <2>1, <2>2, <2>3, NoViewIsIdle
        DEF Dismissed, TypeOK, IdleInv, Idle, Nothing
<1>6. CASE TouchTimer(p)
    <2>1. view[p] # NoView /\ p \notin closed \ late
        BY <1>6, NoViewIsIdle DEF TouchTimer, IdleInv, Idle
    <2> QED
        BY <1>0, <1>6, <2>1, LoadNextKeepsIdle DEF TouchTimer
<1>7. CASE MovieEnds(p)
    <2> DEFINE v == [view[p] EXCEPT !.player = "none"]
    <2>1. v \in View /\ v.running = view[p].running /\ v.up = view[p].up
        BY <1>0 DEF View
    <2>2. view[p] # NoView
        BY <1>7, NoViewIsIdle DEF MovieEnds
    <2>3. p \in closed \ late => ~v.running
        BY <2>1 DEF IdleInv, Idle
    <2> QED
        BY <1>7, <2>1, <2>2, <2>3, LoadNextKeepsIdle DEF MovieEnds
<1>8. CASE TapPreview(p)
    <2>1. view[p] # NoView /\ p \notin closed
        BY <1>8, NoViewIsIdle DEF TapPreview
    <2> QED
        BY <1>0, <1>8, <2>1, LoadNextKeepsIdle DEF TapPreview
<1>9. CASE LoadPending(p)
    <2> DEFINE v == [view[p] EXCEPT !.pending = FALSE]
    <2>1. v \in View /\ v.running = view[p].running /\ v.up = view[p].up
        BY <1>0 DEF View
    <2>2. /\ LoadFrame(v) \in View /\ LoadFrame(v).running = view[p].running
          /\ LoadFrame(v).up = view[p].up
        BY <2>1, LoadFrameType, LoadFrameLife DEF SameLife
    <2>3. view[p] # NoView
        BY <1>9, NoViewIsIdle DEF LoadPending
    <2>4. p \in closed \ late => ~LoadFrame(v).running
        BY <2>2 DEF IdleInv, Idle
    <2> QED
        BY <1>9, <2>2, <2>3, <2>4, SetViewKeepsIdle DEF LoadPending, SetView
<1>10. CASE Pause(p) \/ Resume(p) \/ SelectFrame(p)
    <2>1. p \notin closed /\ step[p] # "unopened"
        BY <1>10, NoViewIsIdle DEF Pause, Resume, SelectFrame, IdleInv, Nothing
    <2>2. PICK v : SetView(p, v) /\ v.up
        <3>1. Paused(view[p]).up = view[p].up /\ Played(view[p]).up = view[p].up
            BY <1>0 DEF Paused, Played, View
        <3>2. ASSUME SelectFrame(p)
              PROVE  \E v : SetView(p, v) /\ v.up
            <4>1. PICK i \in 0 .. recordSize[Of[p]] - 1 :
                      SetView(p, Selected(view[p], i))
                BY <3>2 DEF SelectFrame
            <4>2. recordSize[Of[p]] \in 0..MaxFrames
                BY DEF TypeOK
            <4>3. [view[p] EXCEPT !.index = i] \in View
                BY <1>0, <4>1, <4>2 DEF View
            <4>4. Selected(view[p], i).up = view[p].up
                BY <1>0, <4>3, LoadFrameLife DEF Selected, SameLife, View
            <4> QED
                BY <3>2, <4>1, <4>4 DEF SelectFrame
        <3> QED
            BY <1>10, <3>1, <3>2 DEF Pause, Resume
    <2>3. view'[p] = NoView \/ view'[p].up
        BY <2>2 DEF SetView, Kept, TypeOK
    <2> QED
        BY <2>1, <2>2, <2>3, OwnStepKeepsIdle DEF SetView, waitVars, TypeOK
<1> QED
    BY <1>1, <1>2, <1>3, <1>4, <1>5, <1>6, <1>7, <1>8, <1>9, <1>10 DEF Preview

\* A notification reaches the controllers that observe and the views that
\* are up, and no other; only a finished download starts a view's timer.
LEMMA NotifyKeepsIdle ==
    ASSUME TypeOK, IdleInv, Notify
    PROVE  IdleInv'
<1> DEFINE n == Head(notices)
<1>1. /\ observing' \subseteq observing /\ timer' \subseteq timer
      /\ closed' = closed /\ leaving' = leaving
      /\ late' = late \cup Revived(n)
      /\ \A p \in Previews : step'[p] = "unopened" => step[p] = "unopened"
    BY DEF Notify, DeliverDid, DeliverFail
<1>2. \A p \in Previews :
          p \notin observing =>
              /\ view'[p] = RenewedView(view[p], n, Of[p])
              /\ step'[p] = step[p]
    BY DEF Notify, DeliverDid, DeliverFail, Told
<1>3. \A v : ~v.up => RenewedView(v, n, n.twyst) = v
    BY DEF RenewedView
<1>4. ASSUME NEW p \in Previews, view[p] = NoView, p \notin observing
      PROVE  view'[p] = NoView
    BY <1>2, <1>4, NoViewIsIdle DEF RenewedView
<1>5. ASSUME NEW p \in closed \ late'
      PROVE  Idle(p)'
    <2>1. p \in Previews /\ Idle(p) /\ p \notin Revived(n)
        BY <1>1, <1>5 DEF TypeOK, IdleInv
    <2>2. view[p] \in View /\ p \notin observing
        BY <2>1 DEF TypeOK, Idle
    <2>3. [view[p] EXCEPT !.index = 0] \in View
        BY <2>2 DEF View
    <2> DEFINE w == Selected(view[p], 0)
    <2>4. w \in View /\ SameLife(view[p], w)
        BY <2>2, <2>3, LoadFrameType, LoadFrameLife DEF Selected, SameLife, View
    <2> HIDE DEF w
    <2>5. SameLife(view[p], [w EXCEPT !.loading = FALSE])
        BY <2>4 DEF SameLife, View
    <2>6. \/ view'[p] = view[p]
          \/ view[p].up /\ view'[p] = [w EXCEPT !.loading = FALSE]
        BY <1>2, <1>5, <2>1, <2>2 DEF RenewedView, Revived, w
    <2>7. view'[p] = NoView \/ SameLife(view[p], view'[p])
        BY <2>5, <2>6 DEF SameLife
    <2> QED
        BY <1>1, <1>2, <1>4, <2>1, <2>2, <2>7, NoViewIsIdle DEF Idle, SameLife
<1>8. n \in Download!Notice
    BY DEF Notify, Download!Deliver, TypeOK
<1>6. n.twyst \in Twysts
    BY <1>8 DEF Download!Notice
<1>7. ASSUME NEW p \in Previews
      PROVE  view'[p] = NoView \/ view'[p].up
    <2>1. CASE view'[p] = RenewedView(view[p], n, Of[p])
        <3>1. view[p] \in View /\ (view[p] = NoView \/ view[p].up)
            BY DEF TypeOK, IdleInv
        <3>2. RenewedView(NoView, n, Of[p]) = NoView
            BY NoViewIsIdle DEF RenewedView
        <3> QED
            BY <2>1, <3>1, <3>2, RenewedUp DEF TypeOK
    <2>2. CASE view'[p] # RenewedView(view[p], n, Of[p])
        <3>1. PICK playing \in BOOLEAN :
                  view'[p] = Kept(p, NewView(recordSize[n.twyst], playing))
            BY <2>2 DEF Notify, DeliverDid, DeliverFail
        <3>2. recordSize[n.twyst] \in 0..MaxFrames
            BY <1>6 DEF TypeOK
        <3> QED
            BY <3>1, <3>2, NewViewUp DEF Kept
    <2> QED
        BY <2>1, <2>2
<1> QED
    BY <1>1, <1>2, <1>4, <1>5, <1>7 DEF IdleInv, Nothing

LEMMA ReportKeepsIdle ==
    ASSUME TypeOK, IdleInv, NEW i, ReportFrame(i)
    PROVE  IdleInv'
<1>1. \A p \in Previews : view[p] = NoView => view'[p] = NoView
    BY NoViewIsIdle DEF ReportFrame
<1>2. \A p \in Previews : SameLife(view[p], view'[p])
    <2> SUFFICES ASSUME NEW p \in Previews
                 PROVE  SameLife(view[p], view'[p])
        OBVIOUS
    <2>1. view[p] \in View
        BY DEF TypeOK
    <2>2. SameLife(view[p], [view[p] EXCEPT !.player = "none"])
        BY <2>1 DEF View, SameLife
    <2> QED
        BY <2>1, <2>2, LoadFrameLife DEF ReportFrame, SameLife
<1> QED
    BY <1>1, <1>2 DEF ReportFrame, waitVars, TypeOK, IdleInv, Idle, Nothing, SameLife

\* A dismissed preview observes and plays nothing, and nothing is left of its
\* view after the animation and the last block.  Excepted are one dismissed
\* while the check of a saved twyst was out, and one that was told of a finished
\* download while it was still there (actionClosePreview, viewWillDisappear:,
\* handleTwystDidDownload:, startTimer).
THEOREM DismissedStaysIdle == Spec => []DismissedIsIdle
<1>1. Init => IdleInv
    BY DEF Init, IdleInv, Idle, Nothing
<1>2. TypeOK /\ IdleInv /\ [Next]_vars => IdleInv'
    <2> SUFFICES ASSUME TypeOK, IdleInv, [Next]_vars
                 PROVE  IdleInv'
        OBVIOUS
    <2>1. CASE UNCHANGED <<waitVars, view>>
        BY <2>1 DEF waitVars, IdleInv, Idle, Nothing
    <2>2. CASE Service
        BY <2>1, <2>2 DEF Service, Request, TakeUp, Answer, Save, Delete
    <2> QED
        BY <2>1, <2>2, PreviewKeepsIdle, NotifyKeepsIdle, ReportKeepsIdle
        DEF Next, vars
<1>3. TypeOK /\ IdleInv => DismissedIsIdle
    BY NoViewIsIdle DEF TypeOK, IdleInv, Idle, DismissedIsIdle
<1> QED
    BY TypeInit, TypeStep, <1>1, <1>2, <1>3, PTL DEF Spec

-----------------------------------------------------------------------------
(* Frames to show                                                          *)

\* ShownHasFrames is inductive only with what the controllers rely on: a
\* record has frames, and the record that was found when a preview was
\* opened is still there when the check ends, or was deleted.
FramesInv ==
    /\ \A t \in stored : recordSize[t] > 0
    /\ \A p \in Previews :
          step[p] = "checking" => Of[p] \in stored \/ Of[p] \in deleted
    /\ ShownHasFrames

\* Showing and playing a frame leave the number of frames alone.
SameFrames(v, w) == w.up = v.up /\ w.total = v.total

LEMMA LoadFrameSame ==
    ASSUME NEW v \in View
    PROVE  SameFrames(v, LoadFrame(v))
BY DEF LoadFrame, SameFrames, View

LEMMA SelectedSame ==
    ASSUME NEW v \in View, NEW i \in 0 .. MaxFrames + MaxIndex
    PROVE  SameFrames(v, Selected(v, i))
<1>1. /\ [v EXCEPT !.index = i] \in View
      /\ SameFrames(v, [v EXCEPT !.index = i])
    BY DEF SameFrames, View
<1> QED
    BY <1>1, LoadFrameSame DEF SameFrames, Selected

LEMMA NewViewTotal ==
    ASSUME NEW n \in 0..MaxFrames, NEW playing \in BOOLEAN
    PROVE  NewView(n, playing).total = n
<1> DEFINE w(b, c) == [NoView EXCEPT !.up = TRUE, !.total = n,
                              !.complete = TRUE, !.running = b, !.covered = c]
<1>1. /\ w(TRUE, FALSE) \in View /\ w(TRUE, FALSE).total = n
      /\ w(FALSE, TRUE) \in View /\ w(FALSE, TRUE).total = n
    BY NoViewType DEF View
<1>2. \/ playing = TRUE /\ (~playing) = FALSE
      \/ playing = FALSE /\ (~playing) = TRUE
    BY Zenon
<1> HIDE DEF w
<1>3. w(playing, ~playing) \in View /\ w(playing, ~playing).total = n
    BY <1>1, <1>2, Zenon
<1>4. Selected(w(playing, ~playing), 0).total = n
    BY <1>3, SelectedSame DEF SameFrames
<1> QED
    BY <1>4 DEF w, NewView

\* A step that does so for one view, and takes no record away.
LEMMA SetViewKeepsFrames ==
    ASSUME TypeOK, FramesInv, NEW p \in Previews, NEW v \in View,
           SameFrames(view[p], v),
           view' = [view EXCEPT ![p] = Kept(p, v)],
           UNCHANGED <<recordSize, step, stored, deleted>>
    PROVE  FramesInv'
BY NoViewIsIdle DEF TypeOK, FramesInv, ShownHasFrames, SameFrames, Kept

LEMMA LoadNextKeepsFrames ==
    ASSUME TypeOK, FramesInv, NEW p \in Previews, NEW v \in View,
           SameFrames(view[p], v), LoadNextImage(p, v)
    PROVE  FramesInv'
<1>1. CASE NextFrame(p, v)
    <2> DEFINE i == IF AtEnd(v) THEN 0 ELSE v.index + 1
    <2>1. v.index \in Nat /\ v.total \in 0..MaxFrames
        BY DEF View
    <2>2. i \in 0 .. MaxFrames + MaxIndex
        BY <2>1 DEF AtEnd
    <2> HIDE DEF i
    <2> DEFINE w == [v EXCEPT !.index = i, !.pending = TRUE]
    <2>3. w \in View /\ SameFrames(view[p], w)
        BY <2>2 DEF View, SameFrames
    <2>4. SetView(p, w)
        BY <1>1 DEF i, NextFrame
    <2> QED
        BY <2>3, <2>4, SetViewKeepsFrames
        DEF SetView, downloadVars, waitVars
<1>2. CASE LoadMore(p, v)
    <2>1. v.index + 1 \in 0 .. MaxFrames + MaxIndex
        BY <1>2 DEF LoadMore, View
    <2> DEFINE w == [v EXCEPT !.index = @ + 1, !.running = FALSE,
                              !.loading = TRUE]
    <2>2. w \in View /\ SameFrames(view[p], w)
        BY <2>1 DEF View, SameFrames
    <2> QED
        BY <1>2, <2>2, SetViewKeepsFrames
        DEF LoadMore, Download!Request, waitVars
<1> QED
    BY <1>1, <1>2 DEF LoadNextImage

LEMMA PreviewKeepsFrames ==
    ASSUME TypeOK, FramesInv, NEW p \in Previews, Preview(p)
    PROVE  FramesInv'
<1>1. view[p] \in View /\ recordSize[Of[p]] \in 0..MaxFrames
    BY DEF TypeOK
<1>2. CASE Open(p)
    BY <1>2 DEF Open, Await, Download!Request, downloadVars, TypeOK,
       FramesInv, ShownHasFrames
<1>3. CASE CheckAnswered(p)
    <2>1. CASE Await(p)
        BY <1>3, <2>1 DEF CheckAnswered, Await, Download!Request, TypeOK,
           FramesInv, ShownHasFrames
    <2>2. CASE Show(p)
        <3>1. PICK playing \in BOOLEAN :
                  view' = [view EXCEPT ![p] =
                              Kept(p, NewView(recordSize[Of[p]], playing))]
            BY <2>2 DEF Show
        <3>2. recordSize[Of[p]] > 0 \/ Of[p] \in deleted
            BY <1>3 DEF CheckAnswered, FramesInv
        <3>3. view'[p].up => view'[p].total > 0 \/ Of[p] \in deleted
            BY <1>1, <3>1, <3>2, NewViewTotal, NoViewIsIdle DEF Kept, TypeOK
        <3>4. \A o \in Previews \ {p} :
                  view'[o] = view[o] /\ step'[o] = step[o]
            BY <2>2, <3>1 DEF Show, TypeOK
        <3>5. step'[p] = "shown"
            BY <2>2 DEF Show, TypeOK
        <3> QED
            BY <1>3, <2>2, <3>3, <3>4, <3>5
            DEF CheckAnswered, Show, downloadVars, FramesInv, ShownHasFrames
    <2> QED
        BY <1>3, <2>1, <2>2 DEF CheckAnswered
<1>4. CASE Timeout(p)
    BY <1>4 DEF Timeout, downloadVars, TypeOK, FramesInv, ShownHasFrames
<1>5. CASE Close(p)
    <2>1. Paused(view[p]).up = view[p].up /\ Paused(view[p]).total = view[p].total
        BY <1>1 DEF Paused, View
    <2> QED
        BY <1>5, <2>1
        DEF Close, downloadVars, TypeOK, FramesInv, ShownHasFrames
<1>11. CASE Dismissed(p)
    BY <1>11, NoViewIsIdle
    DEF Dismissed, downloadVars, TypeOK, FramesInv, ShownHasFrames
<1>6. CASE TouchTimer(p) \/ MovieEnds(p) \/ TapPreview(p)
    <2>1. /\ [view[p] EXCEPT !.player = "none"] \in View
          /\ SameFrames(view[p], [view[p] EXCEPT !.player = "none"])
          /\ SameFrames(view[p], view[p])
        BY <1>1 DEF View, SameFrames
    <2> QED
        BY <1>1, <1>6, <2>1, LoadNextKeepsFrames
        DEF TouchTimer, MovieEnds, TapPreview
<1>7. ASSUME NEW v \in View, SameFrames(view[p], v), SetView(p, v)
      PROVE  FramesInv'
    BY <1>7, SetViewKeepsFrames DEF SetView, downloadVars, waitVars
<1>8. CASE LoadPending(p)
    <2> DEFINE v == [view[p] EXCEPT !.pending = FALSE]
    <2>1. v \in View /\ SameFrames(view[p], v)
        BY <1>1 DEF View, SameFrames
    <2>2. LoadFrame(v) \in View /\ SameFrames(view[p], LoadFrame(v))
        BY <2>1, LoadFrameType, LoadFrameSame DEF SameFrames
    <2> QED
        BY <1>7, <1>8, <2>2 DEF LoadPending
<1>9. CASE Pause(p) \/ Resume(p)
    <2>1. /\ Paused(view[p]) \in View /\ SameFrames(view[p], Paused(view[p]))
          /\ Played(view[p]) \in View /\ SameFrames(view[p], Played(view[p]))
        BY <1>1 DEF View, Paused, Played, SameFrames
    <2> QED
        BY <1>7, <1>9, <2>1 DEF Pause, Resume
<1>10. CASE SelectFrame(p)
    <2>1. PICK i \in 0 .. recordSize[Of[p]] - 1 :
              SetView(p, Selected(view[p], i))
        BY <1>10 DEF SelectFrame
    <2>2. i \in 0 .. MaxFrames + MaxIndex
        BY <1>1, <2>1
    <2> QED
        BY <1>1, <1>7, <2>1, <2>2, SelectedType, SelectedSame
<1> QED
    BY <1>2, <1>3, <1>4, <1>5, <1>6, <1>8, <1>9, <1>10, <1>11 DEF Preview

\* A view that a notification renews has the frames of the record, if it is
\* told of a finished download, and its own otherwise.
LEMMA RenewedFrames ==
    ASSUME TypeOK, NEW v \in View, NEW n, NEW t \in Twysts
    PROVE  LET w == RenewedView(v, n, t) IN
           \/ SameFrames(v, w)
           \/ n.kind = "did" /\ n.twyst = t /\ w.total = recordSize[t]
<1> DEFINE u == [v EXCEPT !.complete = FALSE, !.total = recordSize[t]]
<1>1. u \in View /\ u.total = recordSize[t]
    BY DEF TypeOK, View
<1>2. LoadFrame(u) \in View /\ LoadFrame(u).total = recordSize[t]
    BY <1>1, LoadFrameType, LoadFrameSame DEF SameFrames
<1> HIDE DEF u
<1>3. [LoadFrame(u) EXCEPT !.loading = FALSE, !.running = TRUE].total
      = recordSize[t]
    BY <1>2 DEF View
<1>4. Selected(v, 0) \in View /\ SameFrames(v, Selected(v, 0))
    BY SelectedType, SelectedSame
<1>5. SameFrames(v, [Selected(v, 0) EXCEPT !.loading = FALSE])
    BY <1>4 DEF SameFrames, View
<1>6. SameFrames(v, v)
    BY DEF SameFrames
<1> QED
    BY <1>3, <1>5, <1>6 DEF RenewedView, u

LEMMA NotifyKeepsFrames ==
    ASSUME TypeOK, FramesInv, Notify
    PROVE  FramesInv'
<1> DEFINE n == Head(notices)
<1>1. n \in Download!Notice
    BY DEF Notify, Download!Deliver, TypeOK
<1>2. n.twyst \in Twysts /\ recordSize[n.twyst] \in 0..MaxFrames
    BY <1>1 DEF Download!Notice, TypeOK
<1>3. n.kind = "did" => recordSize[n.twyst] > 0 \/ n.twyst \in deleted
    BY DEF Notify, Download!Deliver, FramesInv
<1>4. UNCHANGED <<recordSize, stored, deleted>>
    BY DEF Notify, Download!Deliver
<1>5. \A p \in Previews : step'[p] = "checking" => step[p] = "checking"
    BY DEF Notify, DeliverDid, DeliverFail
<1>6. ASSUME NEW p \in Previews, view'[p] = RenewedView(view[p], n, Of[p])
      PROVE  view'[p].up => view'[p].total > 0 \/ Of[p] \in deleted
    <2>1. view[p] \in View
        BY DEF TypeOK
    <2>2. \/ SameFrames(view[p], view'[p])
          \/ /\ n.kind = "did" /\ n.twyst = Of[p]
             /\ view'[p].total = recordSize[Of[p]]
        BY <1>6, <2>1, RenewedFrames
    <2> QED
        BY <1>3, <2>2 DEF FramesInv, ShownHasFrames, SameFrames
<1>7. CASE DeliverFail(n)
    BY <1>4, <1>5, <1>6, <1>7 DEF DeliverFail, FramesInv, ShownHasFrames
<1>8. CASE DeliverDid(n)
    <2>1. PICK playing \in BOOLEAN :
              view' = [p \in Previews |->
                          IF p \in Told(n)
                          THEN Kept(p, NewView(recordSize[n.twyst], playing))
                          ELSE RenewedView(view[p], n, Of[p])]
        BY <1>8 DEF DeliverDid
    <2>2. \A p \in Told(n) :
              view'[p].up => view'[p].total > 0 \/ Of[p] \in deleted
        <3>1. Told(n) \subseteq Previews
            BY DEF Told, TypeOK
        <3> QED
            BY <1>2, <1>3, <1>8, <2>1, <3>1, NewViewTotal, NoViewIsIdle
            DEF Told, Kept, DeliverDid
    <2>3. \A p \in Previews \ Told(n) :
              view'[p].up => view'[p].total > 0 \/ Of[p] \in deleted
        BY <1>6, <2>1
    <2> QED
        BY <1>4, <1>5, <2>2, <2>3 DEF FramesInv, ShownHasFrames
<1> QED
    BY <1>7, <1>8 DEF Notify

LEMMA ServiceKeepsFrames ==
    ASSUME TypeOK, FramesInv, Service
    PROVE  FramesInv'
<1>1. ASSUME NEW t \in Twysts, Save(t)
      PROVE  FramesInv'
    BY <1>1 DEF Save, Download!Save, waitVars, TypeOK, FramesInv,
       ShownHasFrames
<1>2. ASSUME NEW t \in Twysts, Delete(t)
      PROVE  FramesInv'
    <2>1. deleted \cup {t} \subseteq deleted'
        BY <1>2 DEF Delete, Download!Delete
    <2> QED
        BY <1>2, <2>1 DEF Delete, Download!Delete, waitVars, TypeOK,
           FramesInv, ShownHasFrames
<1>3. ASSUME UNCHANGED <<recordSize, step, view, stored, deleted>>
      PROVE  FramesInv'
    BY <1>3 DEF FramesInv, ShownHasFrames
<1> QED
    BY <1>1, <1>2, <1>3 DEF Service, Request, TakeUp, Answer,
       Download!Request, Download!TakeUp, Download!Answer, waitVars

LEMMA ReportKeepsFrames ==
    ASSUME TypeOK, FramesInv, NEW i, ReportFrame(i)
    PROVE  FramesInv'
<1>1. \A p \in Previews : SameFrames(view[p], view'[p])
    <2> SUFFICES ASSUME NEW p \in Previews
                 PROVE  SameFrames(view[p], view'[p])
        OBVIOUS
    <2>1. view[p] \in View
        BY DEF TypeOK
    <2>2. SameFrames(view[p], [view[p] EXCEPT !.player = "none"])
        BY <2>1 DEF View, SameFrames
    <2> QED
        BY <2>1, <2>2, LoadFrameSame DEF ReportFrame, SameFrames
<1> QED
    BY <1>1 DEF ReportFrame, downloadVars, waitVars, FramesInv,
       ShownHasFrames, SameFrames

\* A preview that shows a twyst has frames to show, unless the twyst was
\* deleted (addTwystPreviewView fetches the record when a notification or the
\* check says that it is there).
THEOREM ShownIsNotEmpty == Spec => []ShownHasFrames
<1>1. Init => FramesInv
    BY NoViewIsIdle
    DEF Init, Download!ContractInit, FramesInv, ShownHasFrames
<1>2. TypeOK /\ FramesInv /\ [Next]_vars => FramesInv'
    <2> SUFFICES ASSUME TypeOK, FramesInv, [Next]_vars
                 PROVE  FramesInv'
        OBVIOUS
    <2>1. CASE UNCHANGED vars
        BY <2>1 DEF vars, downloadVars, waitVars, FramesInv, ShownHasFrames
    <2> QED
        BY <2>1, PreviewKeepsFrames, NotifyKeepsFrames, ServiceKeepsFrames,
           ReportKeepsFrames DEF Next
<1>3. FramesInv => ShownHasFrames
    BY DEF FramesInv
<1> QED
    BY TypeInit, TypeStep, <1>1, <1>2, <1>3, PTL DEF Spec

-----------------------------------------------------------------------------
(* The previews as clients of the service                                  *)

\* The previews, and whoever else asks, use the download service as its
\* contract says: what is proved here, and of TwystDownload in
\* ImplementsContract, is about the same service.
THEOREM UsesContract == Spec => Download!ContractSpec
<1>1. Init => Download!ContractInit
    BY DEF Init
<1>2. TypeOK /\ [Next]_vars => [Download!ContractNext]_(Download!contractVars)
    <2> SUFFICES ASSUME TypeOK, [Next]_vars
                 PROVE  \/ Download!ContractNext
                        \/ UNCHANGED Download!contractVars
        OBVIOUS
    <2>1. ASSUME UNCHANGED downloadVars
          PROVE  UNCHANGED Download!contractVars
        BY <2>1 DEF downloadVars, Download!contractVars
    <2>2. ASSUME NEW q \in Pairs, NEW t \in Twysts, Download!Request(q, t)
          PROVE  Download!ContractNext
        BY <2>2 DEF Download!ContractNext
    <2>3. ASSUME NEW p \in Previews, Preview(p)
          PROVE  Download!ContractNext \/ UNCHANGED Download!contractVars
        <3>1. Of[p] \in Twysts /\ Pair[p] \in Pairs /\ "friend" \in Pairs
            BY DEF Pairs
        <3>2. ASSUME NEW v, LoadNextImage(p, v)
              PROVE  Download!ContractNext \/ UNCHANGED downloadVars
            BY <2>2, <3>1, <3>2 DEF LoadNextImage, NextFrame, LoadMore, SetView
        <3>3. ASSUME Await(p)
              PROVE  Download!ContractNext
            BY <2>2, <3>1, <3>3 DEF Await
        <3> QED
            BY <2>1, <2>3, <3>2, <3>3 DEF Preview, Open, CheckAnswered, Show,
               Timeout, Close, Dismissed, TouchTimer, MovieEnds, TapPreview, LoadPending,
               Pause, Resume, SelectFrame, SetView
    <2>4. CASE Service
        BY <2>4 DEF Service, Request, TakeUp, Answer, Save, Delete,
           Download!ContractNext
    <2>5. CASE Notify
        <3>1. Head(notices) \in Download!Notice
            BY <2>5 DEF Notify, Download!Deliver, TypeOK
        <3> QED
            BY <2>5, <3>1 DEF Notify, Download!ContractNext
    <2>6. ASSUME NEW i, ReportFrame(i)
          PROVE  UNCHANGED downloadVars
        BY <2>6 DEF ReportFrame
    <2> QED
        BY <2>1, <2>3, <2>4, <2>5, <2>6 DEF Next, vars
<1> QED
    BY TypeInit, TypeStep, <1>1, <1>2, PTL DEF Spec, Download!ContractSpec
=============================================================================
