--------------------------- MODULE VideoTwystProofs ---------------------------
(***************************************************************************)
(* Theorems about VideoTwyst, for any twysts, lengths, drags and bounds.   *)
(***************************************************************************)
EXTENDS VideoTwyst, SequenceTheorems, TLAPS

USE SessionsAssumption, LengthsAssumption, BoundsAssumption

-----------------------------------------------------------------------------
(* The operators of the editor                                             *)

\* The smaller and the larger of two numbers.
LEMMA MinOfTwo ==
    ASSUME NEW a \in Int, NEW b \in Int
    PROVE  Min({a, b}) = IF a <= b THEN a ELSE b
<1>1. \E x \in {a, b} : \A y \in {a, b} : x =< y
    OBVIOUS
<1> QED
    BY <1>1 DEF Min

\* The larger of two numbers.
LEMMA MaxOfTwo ==
    ASSUME NEW a \in Int, NEW b \in Int
    PROVE  Max({a, b}) = IF a >= b THEN a ELSE b
<1>1. \E x \in {a, b} : \A y \in {a, b} : x >= y
    OBVIOUS
<1> QED
    BY <1>1 DEF Max

\* Where a drag takes the left and the right selector.
LeftOf(e, drag) ==
    Min({e.start + Max({Max({drag, e.offset - e.start}), -e.start}),
         e.end - MinLen})
RightOf(e, drag) ==
    Max({e.end + Min({Min({drag, e.offset + MaxLen - e.end}),
                      e.duration - e.end}),
         e.start + MinLen})

\* The left selector is at its minimum before the right one or in the window.
LEMMA LeftOfValue ==
    ASSUME NEW e, NEW drag \in Int,
           e.start \in Int, e.end \in Int, e.offset \in Int
    PROVE  /\ LeftOf(e, drag) \in Int
           /\ LeftOf(e, drag) <= e.end - MinLen
           /\ LeftOf(e, drag) = e.end - MinLen \/ e.offset <= LeftOf(e, drag)
<1> DEFINE window == Max({drag, e.offset - e.start})
           begun == Max({window, -e.start})
<1>1. window \in Int /\ window >= e.offset - e.start
    BY MaxOfTwo
<1> HIDE DEF window
<1>2. begun \in Int /\ begun >= window
    BY <1>1, MaxOfTwo
<1> HIDE DEF begun
<1>3. Min({e.start + begun, e.end - MinLen})
        = IF e.start + begun <= e.end - MinLen THEN e.start + begun
          ELSE e.end - MinLen
    BY <1>2, MinOfTwo
<1>4. LeftOf(e, drag) = Min({e.start + begun, e.end - MinLen})
    BY DEF LeftOf, begun, window
<1> QED
    BY <1>1, <1>2, <1>3, <1>4

\* The right selector is at its minimum after the left one or in the window.
LEMMA RightOfValue ==
    ASSUME NEW e, NEW drag \in Int, e.start \in Int, e.end \in Int,
           e.offset \in Int, e.duration \in Int
    PROVE  /\ RightOf(e, drag) \in Int
           /\ e.start + MinLen <= RightOf(e, drag)
           /\ \/ RightOf(e, drag) = e.start + MinLen
              \/ RightOf(e, drag) <= e.offset + MaxLen
<1> DEFINE window == Min({drag, e.offset + MaxLen - e.end})
           ended == Min({window, e.duration - e.end})
<1>1. window \in Int /\ window <= e.offset + MaxLen - e.end
    BY MinOfTwo
<1> HIDE DEF window
<1>2. ended \in Int /\ ended <= window
    BY <1>1, MinOfTwo
<1> HIDE DEF ended
<1>3. Max({e.end + ended, e.start + MinLen})
        = IF e.end + ended >= e.start + MinLen THEN e.end + ended
          ELSE e.start + MinLen
    BY <1>2, MaxOfTwo
<1>4. RightOf(e, drag) = Max({e.end + ended, e.start + MinLen})
    BY DEF RightOf, ended, window
<1> QED
    BY <1>1, <1>2, <1>3, <1>4

\* The thumbnails of a video fill at least one window.
LEMMA ThumbnailsFillWindow ==
    ASSUME NEW length \in Nat
    PROVE  Thumbnails(length) \in Int /\ MaxLen <= Thumbnails(length)
<1> DEFINE cells == (length + Cell - 1) \div Cell
<1>1. cells \in Int
    OBVIOUS
<1>2. Cell * cells \in Int
    BY <1>1
<1> HIDE DEF cells
<1>3. Max({MaxLen, Cell * cells}) = IF MaxLen >= Cell * cells THEN MaxLen ELSE Cell * cells
    BY <1>2, MaxOfTwo
<1> QED
    BY <1>2, <1>3 DEF Thumbnails, cells

\* Contains is membership in a sequence.
LEMMA ContainsIsMember ==
    ASSUME NEW s \in Seq(Video), NEW v
    PROVE  Contains(s, v) <=> v \in ToSet(s)
BY DEF Contains, ToSet

\* An editor pushed on a stack is one more that is on it.
LEMMA ToSetOfAppend ==
    ASSUME NEW s \in Seq(Video), NEW v \in Video
    PROVE  /\ Append(s, v) \in Seq(Video)
           /\ ToSet(Append(s, v)) = ToSet(s) \cup {v}
<1>1. DOMAIN Append(s, v) = 1 .. Len(s) + 1
    OBVIOUS
<1>2. \A i \in 1 .. Len(s) + 1 :
          Append(s, v)[i] = IF i = Len(s) + 1 THEN v ELSE s[i]
    OBVIOUS
<1> QED
    BY <1>1, <1>2 DEF ToSet

-----------------------------------------------------------------------------
(* The invariant                                                           *)

OnStack == ToSet(stack)
Replied == {replies[i].shown.video : i \in DOMAIN replies}

Reply == [made : Content, shown : Content, length : Lengths \cup {0}]

\* A video that no editor was opened for.
Unused(v) ==
    /\ edit[v] = NoEditor
    /\ v \notin OnStack /\ v \notin moving /\ v \notin Replied

\* What is on the stack was recorded or picked.  An editor that came up
\* while the home screens were there is disturbed.
StackInv ==
    /\ \A v \in OnStack : v <= videos
    /\ home = "up" => OnStack \subseteq disturbed
    /\ picker => home = "away"

\* A recording has a number of its own, and its file while it is owned.
RecorderInv ==
    /\ recorder.state # "off" =>
          recorder.video \in 1..videos /\ Unused(recorder.video)
    /\ recorder.own =>
          recorder.state # "off" /\ files.capture = recorder.video

FreshInv == \A v \in Video : v > videos => Unused(v)

\* The export that is there is of this video.
HasFinal(v) == files.final # NoFile /\ files.final.video = v

\* What is being sent is what the editor shows, and its export stays.
SendingInv ==
    \A v \in Video :
        edit[v].phase \in {"uploading", "posting"} =>
            /\ edit[v].sending = Shown(v)
            /\ v \in OnStack \ disturbed => HasFinal(v)

\* A file is moved after its reply was sent, and the editor does no more.
MovingInv == \A v \in moving : edit[v].phase \in {"sent", "none"}

\* The editor of a reply that is on the server cannot send it again: either
\* it has been told so, or the file of its export is in the way of another.
Spent(v) ==
    /\ edit[v].phase \notin {"uploading", "posting"}
    /\ edit[v].phase \in {"creating", "exporting"} => ~edit[v].free
    /\ v \in OnStack => edit[v].phase \in {"sent", "none"} \/ HasFinal(v)

RepliedInv == \A v \in Replied \ disturbed : Spent(v)

\* The selectors of an editor are within its window, and that within the
\* thumbnails.
Trimmed(e) ==
    /\ e.offset + MaxLen <= Thumbnails(e.length)
    /\ e.length >= MinLen =>
          /\ e.offset <= e.start /\ e.start + MinLen <= e.end
          /\ e.end <= e.offset + MaxLen

TrimInv == \A v \in Video : edit[v].phase # "none" => Trimmed(edit[v])

Recorder ==
    [state : {"off", "on", "ending"}, video : 0..MaxVideos, own : BOOLEAN]
Files == [capture : 0..MaxVideos, final : Content \cup {NoFile}]

TypeInv ==
    /\ home \in {"away", "presenting", "up"} /\ session \in Sessions
    /\ photos \in BOOLEAN /\ holding \in BOOLEAN /\ picker \in BOOLEAN
    /\ recorder \in Recorder /\ files \in Files
    /\ stack \in Seq(Video) /\ edit \in [Video -> Editor]
    /\ videos \in 0..MaxVideos /\ moving \subseteq Video
    /\ replies \in Seq(Reply)
    /\ crashed \in BOOLEAN /\ disturbed \subseteq Video

EditInv ==
    /\ TypeInv /\ StackInv /\ RecorderInv /\ FreshInv
    /\ SendingInv /\ MovingInv /\ RepliedInv /\ TrimInv

-----------------------------------------------------------------------------
(* Types                                                                   *)

\* The empty place of an editor.
LEMMA NoEditorType == NoEditor \in Editor
BY DEF NoEditor, Editor, Quiet, Busy, Sessions, Content, NoFile

\* The numbers of an editor's part.
LEMMA EditorNumbers ==
    ASSUME NEW e \in Editor
    PROVE  /\ e.start \in Int /\ e.end \in Int /\ e.duration \in Int
           /\ e.offset \in Nat /\ e.length \in Nat
<1>1. e.length \in Lengths \cup {0}
    BY DEF Editor
<1>2. Lengths \cup {0} \subseteq Nat
    OBVIOUS
<1>3. e.start \in Int /\ e.end \in Int
    BY DEF Editor
<1>4. e.duration \in Int
    BY DEF Editor
<1>5. e.offset \in Nat
    BY DEF Editor
<1> QED
    BY <1>1, <1>2, <1>3, <1>4, <1>5

\* An editor in another phase.
LEMMA InPhaseType ==
    ASSUME edit \in [Video -> Editor], NEW v \in Video,
           NEW phase \in Quiet \cup Busy
    PROVE  InPhase(v, phase) \in Editor
BY NoEditorType DEF InPhase, Editor

\* The part that the trim view shows.
LEMMA ShownType ==
    ASSUME edit \in [Video -> Editor], NEW v \in Video
    PROVE  Shown(v) \in Content
BY DEF Shown, Editor, Content

\* One editor in another phase.
LEMMA SetPhaseType ==
    ASSUME edit \in [Video -> Editor], NEW v \in Video,
           NEW phase \in Quiet \cup Busy, SetPhase(v, phase)
    PROVE  edit' \in [Video -> Editor]
BY InPhaseType DEF SetPhase

\* Every editor off the stack.
LEMMA PopAllType ==
    ASSUME edit \in [Video -> Editor], PopAll
    PROVE  edit' \in [Video -> Editor] /\ stack' \in Seq(Video)
BY NoEditorType DEF PopAll

\* A new session of the camera.
LEMMA NewSessionType ==
    ASSUME NEW twyst \in Sessions, NewSession(twyst)
    PROVE  session' \in Sessions /\ photos' \in BOOLEAN /\ files' \in Files
<1>1. 0 \in 0..MaxVideos
    OBVIOUS
<1> QED
    BY <1>1 DEF NewSession, Files

\* An editor that was just made.
LEMMA NewEditorType ==
    ASSUME session \in Sessions, NEW captured \in BOOLEAN,
           NEW length \in Lengths
    PROVE  NewEditor(captured, length) \in Editor
<1>1. Min({length, MaxLen}) \in Int /\ length \in Int
    BY MinOfTwo
<1>2. 0 \in 0..MaxEdits /\ "editing" \in Quiet
    BY DEF Quiet
<1> QED
    BY <1>1, <1>2 DEF NewEditor, Editor

\* One that was pushed.
LEMMA OpenEditorType ==
    ASSUME TypeInv, NEW v \in Video, NEW captured \in BOOLEAN,
           NEW length \in Lengths, OpenEditor(v, captured, length)
    PROVE  edit' \in [Video -> Editor] /\ stack' \in Seq(Video)
BY NewEditorType, ToSetOfAppend DEF OpenEditor, TypeInv

\* The inductive form of the type invariant implies it.
LEMMA TypeInvIsStronger == TypeInv => TypeOK
<1> SUFFICES ASSUME TypeInv
             PROVE  TypeOK
    OBVIOUS
<1>1. ASSUME NEW i \in DOMAIN replies
      PROVE  replies[i].made \in Content
    <2>1. replies[i] \in Reply
        BY DEF TypeInv
    <2> QED
        BY <2>1 DEF Reply
<1> QED
    BY <1>1 DEF TypeInv, TypeOK, Recorder, Files

\* Types in the initial state.
LEMMA TypeInit == Init => TypeInv
<1> SUFFICES ASSUME Init
             PROVE  TypeInv
    OBVIOUS
<1>1. 0 \in 0..MaxVideos
    OBVIOUS
<1>2. <<>> \in Seq(Video) /\ <<>> \in Seq(Reply)
    OBVIOUS
<1>3. files \in Files /\ recorder \in Recorder
    BY <1>1 DEF Init, Files, Recorder
<1> QED
    BY <1>1, <1>2, <1>3, NoEditorType DEF Init, TypeInv, Sessions

\* Types after a step of the camera.
LEMMA CameraType ==
    ASSUME TypeInv, RecorderInv, Camera
    PROVE  TypeInv'
<1>1. Disowned \in Recorder
    BY DEF Disowned, TypeInv, Recorder
<1>2. ASSUME NEW t \in Sessions, GoToCamera(t)
      PROVE  TypeInv'
    BY <1>1, <1>2, NewSessionType DEF GoToCamera, TypeInv, serverVars
<1>3. CASE BackToHomeScreen
    BY <1>3 DEF BackToHomeScreen, TypeInv, recordVars, serverVars
<1>4. CASE HomeShown
    BY <1>4, PopAllType DEF HomeShown, TypeInv, recordVars, serverVars
<1>5. CASE TakePhoto
    BY <1>5 DEF TakePhoto, TypeInv, recordVars, serverVars
<1>6. CASE DiscardPhotos
    BY <1>1, <1>6, NewSessionType DEF DiscardPhotos, TypeInv, serverVars
<1>7. CASE OpenPicker \/ CancelPicker
    BY <1>7 DEF OpenPicker, CancelPicker, TypeInv, recordVars, serverVars
<1>8. CASE CaptureVideoStart
    <2>1. videos' \in 0..MaxVideos
        BY <1>8 DEF CaptureVideoStart, TypeInv
    <2>2. recorder' \in Recorder
        <3>1. [state |-> "on", video |-> videos', own |-> TRUE] \in Recorder
            BY <2>1 DEF Recorder
        <3> QED
            BY <1>8, <3>1 DEF CaptureVideoStart, TypeInv
    <2>3. files' \in Files
        BY <1>8, <2>1 DEF CaptureVideoStart, TypeInv, Files
    <2> QED
        BY <1>8, <2>1, <2>2, <2>3
        DEF CaptureVideoStart, TypeInv, cameraVars, serverVars
<1>9. CASE CaptureVideoEnd
    <2>1. recorder' \in Recorder
        BY <1>9 DEF CaptureVideoEnd, TypeInv, Recorder
    <2> QED
        BY <1>9, <2>1 DEF CaptureVideoEnd, TypeInv, cameraVars, serverVars
<1>10. ASSUME NEW l \in Lengths, PickVideo(l)
       PROVE  TypeInv'
    <2>1. videos' \in Video
        BY <1>10 DEF PickVideo, Video, TypeInv
    <2>2. edit' \in [Video -> Editor] /\ stack' \in Seq(Video)
        BY <1>10, <2>1, OpenEditorType DEF PickVideo
    <2>3. videos' \in 0..MaxVideos
        BY <2>1 DEF Video
    <2> QED
        BY <1>10, <2>2, <2>3 DEF PickVideo, TypeInv, serverVars
<1>11. ASSUME NEW l \in Lengths, RecordingFinished(l)
       PROVE  TypeInv'
    <2>1. recorder.video \in Video /\ 1..videos \subseteq Video
        BY <1>11 DEF RecordingFinished, RecorderInv, Video, TypeInv
    <2>2. session' \in Sessions /\ photos' \in BOOLEAN /\ files' \in Files
        <3>1. CASE NewSession(session)
            BY <3>1, NewSessionType DEF TypeInv
        <3>2. CASE UNCHANGED <<session, photos, files>>
            BY <3>2 DEF TypeInv
        <3> QED
            BY <1>11, <3>1, <3>2 DEF RecordingFinished
    <2>3. edit' \in [Video -> Editor] /\ stack' \in Seq(Video)
        BY <1>11, <2>1, OpenEditorType DEF RecordingFinished, TypeInv
    <2>4. recorder' \in Recorder
        BY <1>11 DEF RecordingFinished, Recorder
    <2>5. disturbed' \subseteq Video
        BY <1>11, <2>1 DEF RecordingFinished, TypeInv
    <2> QED
        BY <1>11, <2>2, <2>3, <2>4, <2>5
        DEF RecordingFinished, TypeInv, serverVars
<1> QED
    BY <1>2, <1>3, <1>4, <1>5, <1>6, <1>7, <1>8, <1>9, <1>10, <1>11 DEF Camera

\* After a step of an editor.
LEMMA EditType ==
    ASSUME TypeInv, NEW v \in Video, Edit(v)
    PROVE  TypeInv'
<1>1. edit[v] \in Editor
    BY DEF TypeInv
<1>2. ASSUME EditorOnly, edit' \in [Video -> Editor]
      PROVE  TypeInv'
    BY <1>2 DEF EditorOnly, TypeInv, cameraVars, recordVars, serverVars
<1>3. ASSUME EditorOnly, NEW e \in Editor, edit' = [edit EXCEPT ![v] = e]
      PROVE  TypeInv'
    BY <1>2, <1>3 DEF TypeInv
<1>4. ASSUME edit[v].changes < MaxEdits
      PROVE  edit[v].changes + 1 \in 0..MaxEdits
    BY <1>1, <1>4 DEF Editor
<1>5. CASE Change(v)
    BY <1>1, <1>3, <1>4, <1>5 DEF Change, Editor
<1>6. ASSUME NEW d \in Drags, TrimLeft(v, d)
      PROVE  TypeInv'
    <2>1. edit' = [edit EXCEPT ![v] =
                      [edit[v] EXCEPT !.start = LeftOf(edit[v], d),
                                      !.changes = @ + 1]]
        BY <1>6 DEF TrimLeft, LeftOf
    <2>2. /\ edit[v].start \in Int /\ edit[v].end \in Int
          /\ edit[v].offset \in Int /\ edit[v].duration \in Int /\ d \in Int
        BY <1>1 DEF Editor
    <2>3. LeftOf(edit[v], d) \in Int
        BY <2>2, LeftOfValue
    <2> QED
        BY <1>1, <1>3, <1>4, <1>6, <2>1, <2>3 DEF TrimLeft, Editor
<1>7. ASSUME NEW d \in Drags, TrimRight(v, d)
      PROVE  TypeInv'
    <2>1. edit' = [edit EXCEPT ![v] =
                      [edit[v] EXCEPT !.end = RightOf(edit[v], d),
                                      !.changes = @ + 1]]
        BY <1>7 DEF TrimRight, RightOf
    <2>2. /\ edit[v].start \in Int /\ edit[v].end \in Int
          /\ edit[v].offset \in Int /\ edit[v].duration \in Int /\ d \in Int
        BY <1>1 DEF Editor
    <2>3. RightOf(edit[v], d) \in Int
        BY <2>2, RightOfValue
    <2> QED
        BY <1>1, <1>3, <1>4, <1>7, <2>1, <2>3 DEF TrimRight, Editor
<1>8. ASSUME NEW o \in 0 .. Max(Lengths), Scroll(v, o)
      PROVE  TypeInv'
    <2>1. o \in Nat
        OBVIOUS
    <2> DEFINE by == o - edit[v].offset
    <2>2. by \in Int /\ edit[v].start + by \in Int /\ edit[v].end + by \in Int
        BY <1>1, <2>1 DEF Editor
    <2>3. edit[v].changes + 1 \in 0..MaxEdits
        BY <1>4, <1>8 DEF Scroll
    <2>4. /\ edit[v].start + o - edit[v].offset = edit[v].start + by
          /\ edit[v].end + o - edit[v].offset = edit[v].end + by
        BY <1>1, <2>1 DEF Editor
    <2> HIDE DEF by
    <2>5. [edit[v] EXCEPT !.start = @ + by, !.end = @ + by, !.offset = o,
                          !.changes = @ + 1] \in Editor
        BY <1>1, <2>1, <2>2, <2>3 DEF Editor
    <2> QED
        BY <1>3, <1>8, <2>4, <2>5 DEF Scroll
<1>9. CASE CloseEditor(v)
    <2>1. edit[v].twyst \in Sessions /\ Disowned \in Recorder
        BY <1>1 DEF Editor, Disowned, TypeInv, Recorder
    <2> QED
        BY <1>9, <2>1, PopAllType, NewSessionType
        DEF CloseEditor, TypeInv, Files, serverVars
<1>10. CASE Advance(v) \/ Cancel(v)
    BY <1>2, <1>10, SetPhaseType DEF Advance, Cancel, Quiet, TypeInv
<1> QED
    BY <1>5, <1>6, <1>7, <1>8, <1>9, <1>10 DEF Edit

\* After a step of a reply or of a share.
LEMMA SendType ==
    ASSUME TypeInv, SendingInv, NEW v \in Video, Send(v)
    PROVE  TypeInv'
<1>1. edit[v] \in Editor /\ Shown(v) \in Content
    BY ShownType DEF TypeInv
<1>2. ASSUME EditorOnly, edit' \in [Video -> Editor]
      PROVE  TypeInv'
    BY <1>2 DEF EditorOnly, TypeInv, cameraVars, recordVars, serverVars
<1>3. CASE Compile(v)
    <2>1. edit' \in [Video -> Editor]
        <3> DEFINE phase == IF edit[v].phase = "theme" THEN "creating"
                            ELSE "exporting"
                   free == files.final = NoFile
                   e == [edit[v] EXCEPT
                            !.phase = phase,
                            !.duration = edit[v].end - edit[v].start,
                            !.free = free]
        <3>1. phase \in Busy /\ free \in BOOLEAN
            BY DEF Busy
        <3>2. edit[v].end - edit[v].start \in Int
            BY <1>1 DEF Editor
        <3>3. \/ UNCHANGED edit
              \/ edit' = [edit EXCEPT ![v] = e]
            BY <1>3 DEF Compile
        <3> HIDE DEF phase, free
        <3>4. e \in Editor
            BY <1>1, <3>1, <3>2 DEF Editor
        <3> QED
            BY <3>3, <3>4 DEF TypeInv
    <2> QED
        BY <1>3, <2>1 DEF Compile, TypeInv, cameraVars, recordVars
<1>4. CASE Exported(v)
    <2>1. files' \in Files
        BY <1>1, <1>4 DEF Exported, TypeInv, Files
    <2>2. edit' \in [Video -> Editor]
        <3>1. [edit[v] EXCEPT !.phase = "uploading", !.sending = Shown(v)]
                \in Editor
            BY <1>1 DEF Editor, Busy
        <3>2. \/ SetPhase(v, "shared")
              \/ edit' = [edit EXCEPT ![v] = [@ EXCEPT !.phase = "uploading",
                                                      !.sending = Shown(v)]]
            BY <1>4 DEF Exported
        <3> QED
            BY <3>1, <3>2, SetPhaseType DEF TypeInv, Quiet
    <2>3. stack' \in Seq(Video)
        <3>1. stack' = stack \/ stack' = Append(stack, v)
            BY <1>4 DEF Exported
        <3> QED
            BY <3>1, ToSetOfAppend DEF TypeInv
    <2> QED
        BY <1>4, <2>1, <2>2, <2>3
        DEF Exported, TypeInv, cameraVars, recordVars, serverVars
<1>5. CASE ExportFailed(v)
    BY <1>2, <1>5, SetPhaseType DEF ExportFailed, Quiet, TypeInv
<1>6. CASE Uploaded(v)
    BY <1>2, <1>6, SetPhaseType DEF Uploaded, Quiet, Busy, TypeInv
<1>7. CASE Answered(v)
    <2>1. edit[v].sending \in Content
        BY <1>1, <1>7 DEF Answered, SendingInv
    <2> DEFINE r == [made |-> edit[v].sending, shown |-> Shown(v),
                     length |-> edit[v].length]
    <2>2. r \in Reply
        BY <1>1, <2>1 DEF Reply, Editor
    <2>3. edit' \in [Video -> Editor]
        BY <1>7, SetPhaseType DEF Answered, Quiet, TypeInv
    <2>4. replies' \in Seq(Reply)
        BY <1>7, <2>2 DEF Answered, TypeInv
    <2>5. moving' \subseteq Video
        BY <1>7 DEF Answered, TypeInv
    <2> QED
        BY <1>7, <2>3, <2>4, <2>5
        DEF Answered, TypeInv, cameraVars, recordVars
<1>8. CASE MoveFinal(v)
    <2>1. files' \in Files
        BY <1>8 DEF MoveFinal, TypeInv, Files
    <2>2. disturbed' \subseteq Video
        BY <1>8 DEF MoveFinal, TypeInv, Files, Content, NoFile
    <2> QED
        BY <1>8, <2>1, <2>2 DEF MoveFinal, TypeInv, cameraVars, recordVars
<1> QED
    BY <1>3, <1>4, <1>5, <1>6, <1>7, <1>8 DEF Send

-----------------------------------------------------------------------------
(* What the steps leave alone                                              *)

\* The editor on top is on the stack.
LEMMA TopIsOnStack ==
    ASSUME TypeInv, NEW v \in Video, OnTop(v)
    PROVE  v \in OnStack
<1>1. Len(stack) \in DOMAIN stack
    BY DEF TypeInv, OnTop
<1> QED
    BY <1>1 DEF OnTop, Last, OnStack, ToSet

\* What an editor does concerns no other one, nor the camera; and it was
\* opened, or its file is to be moved.
OwnStep(v) ==
    /\ \A u \in Video : u # v => edit'[u] = edit[u]
    /\ OnStack' = OnStack
    /\ UNCHANGED <<home, session, photos, picker>>
    /\ UNCHANGED <<holding, recorder, videos>>
    /\ files'.capture = files.capture /\ disturbed \subseteq disturbed'
    /\ v \in OnStack \/ edit[v] # NoEditor \/ v \in moving

\* Editors are made where none was.
LEMMA EditorStep ==
    ASSUME TypeInv, NEW v \in Video, Edit(v) \/ Send(v), ~CloseEditor(v)
    PROVE  OwnStep(v)
<1> USE DEF cameraVars, recordVars
<1>1. ASSUME NEW phases, AtEditor(v, phases)
      PROVE  v \in OnStack
    BY <1>1, TopIsOnStack DEF AtEditor
<1>2. ASSUME NEW e, edit' = [edit EXCEPT ![v] = e]
      PROVE  \A u \in Video : u # v => edit'[u] = edit[u]
    BY <1>2 DEF TypeInv
<1>3. ASSUME NEW phase, SetPhase(v, phase)
      PROVE  \A u \in Video : u # v => edit'[u] = edit[u]
    BY <1>2, <1>3 DEF SetPhase
<1>4. CASE Change(v)
    BY <1>1, <1>4 DEF Change, EditorOnly, OnStack, TypeInv, OwnStep
<1>5. ASSUME NEW d \in Drags, TrimLeft(v, d) \/ TrimRight(v, d)
      PROVE  OwnStep(v)
    BY <1>1, <1>2, <1>5 DEF TrimLeft, TrimRight, EditorOnly, OnStack, OwnStep
<1>6. ASSUME NEW o \in 0 .. Max(Lengths), Scroll(v, o)
      PROVE  OwnStep(v)
    BY <1>1, <1>2, <1>6 DEF Scroll, EditorOnly, OnStack, OwnStep
<1>7. CASE Advance(v) \/ Cancel(v)
    BY <1>1, <1>3, <1>7 DEF Advance, Cancel, EditorOnly, OnStack, OwnStep
<1>8. CASE Compile(v)
    BY <1>1, <1>2, <1>8 DEF Compile, OnStack, OwnStep
<1>9. CASE Exported(v)
    <2>1. edit[v] # NoEditor
        BY <1>9 DEF Exported, NoEditor
    <2>2. \A u \in Video : u # v => edit'[u] = edit[u]
        BY <1>2, <1>3, <1>9 DEF Exported
    <2>3. OnStack' = OnStack
        <3>1. CASE stack' = stack
            BY <3>1 DEF OnStack
        <3>2. CASE Contains(stack, v) /\ stack' = Append(stack, v)
            <4>1. stack \in Seq(Video)
                BY DEF TypeInv
            <4>2. v \in ToSet(stack)
                BY <3>2, <4>1, ContainsIsMember
            <4>3. ToSet(Append(stack, v)) = ToSet(stack) \cup {v}
                BY <4>1, ToSetOfAppend
            <4> QED
                BY <3>2, <4>2, <4>3 DEF OnStack
        <3> QED
            BY <1>9, <3>1, <3>2 DEF Exported
    <2> QED
        BY <1>9, <2>1, <2>2, <2>3 DEF Exported, TypeInv, Files, OwnStep
<1>10. CASE ExportFailed(v) \/ Uploaded(v)
    BY <1>3, <1>10
    DEF ExportFailed, Uploaded, EditorOnly, NoEditor, OnStack, OwnStep
<1>11. CASE Answered(v)
    BY <1>3, <1>11 DEF Answered, NoEditor, OnStack, OwnStep
<1>12. CASE MoveFinal(v)
    BY <1>12 DEF MoveFinal, TypeInv, Files, OnStack, OwnStep
<1> QED
    BY <1>4, <1>5, <1>6, <1>7, <1>8, <1>9, <1>10, <1>11, <1>12 DEF Edit, Send

\* An editor that is opened is one more on the stack.
LEMMA OpenEditorStep ==
    ASSUME TypeInv, NEW v \in Video, NEW captured, NEW length,
           OpenEditor(v, captured, length)
    PROVE  /\ OnStack' = OnStack \cup {v}
           /\ edit'[v] = NewEditor(captured, length)
           /\ \A u \in Video : u # v => edit'[u] = edit[u]
BY ToSetOfAppend DEF OpenEditor, OnStack, TypeInv

\* Nothing is on an empty stack.
LEMMA EmptyStack ==
    ASSUME stack = <<>>
    PROVE  OnStack = {}
BY DEF OnStack, ToSet

\* When all screens go, the editors that wait for nothing go with them.
LEMMA PopAllStep ==
    ASSUME TypeInv, PopAll
    PROVE  /\ OnStack' = {}
           /\ \A u \in Video :
                  edit'[u] = IF edit[u].phase \in Busy THEN edit[u] ELSE NoEditor
<1>1. OnStack' = {}
    BY DEF PopAll, OnStack, ToSet
<1>2. ASSUME NEW u \in Video
      PROVE  edit'[u] = IF edit[u].phase \in Busy THEN edit[u] ELSE NoEditor
    BY DEF PopAll
<1> QED
    BY <1>1, <1>2

-----------------------------------------------------------------------------
(* The stack and the recorder                                              *)

\* What is on the stack, after any step.
LEMMA StackStep ==
    ASSUME EditInv, Camera \/ \E v \in Video : Edit(v) \/ Send(v)
    PROVE  StackInv'
<1> USE DEF recordVars, cameraVars
<1>1. /\ TypeInv
      /\ \A v \in OnStack : v <= videos
      /\ home = "up" => OnStack \subseteq disturbed
      /\ picker => home = "away"
      /\ videos \in 0..MaxVideos /\ OnStack \subseteq Video
    BY DEF EditInv, StackInv, TypeInv, OnStack, ToSet
<1>2. ASSUME NEW t \in Sessions, GoToCamera(t)
      PROVE  StackInv'
    BY <1>1, <1>2 DEF GoToCamera, StackInv, OnStack
<1>3. CASE BackToHomeScreen
    BY <1>1, <1>3
    DEF BackToHomeScreen, AtCamera, OnTop, StackInv, OnStack
<1>4. CASE HomeShown
    BY <1>1, <1>4, PopAllStep DEF HomeShown, StackInv
<1>5. CASE TakePhoto \/ CaptureVideoEnd
    BY <1>1, <1>5 DEF TakePhoto, CaptureVideoEnd, StackInv, OnStack
<1>6. CASE DiscardPhotos
    BY <1>1, <1>6 DEF DiscardPhotos, StackInv, OnStack
<1>7. CASE OpenPicker \/ CancelPicker
    BY <1>1, <1>7 DEF OpenPicker, CancelPicker, AtCamera, StackInv, OnStack
<1>8. CASE CaptureVideoStart
    BY <1>1, <1>8 DEF CaptureVideoStart, StackInv, OnStack, Video
<1>9. ASSUME NEW l \in Lengths, PickVideo(l)
      PROVE  StackInv'
    <2>1. videos' \in Video /\ videos' = videos + 1
        BY <1>1, <1>9 DEF PickVideo, Video
    <2>2. OnStack' = OnStack \cup {videos'}
        BY <1>1, <1>9, <2>1, OpenEditorStep DEF PickVideo
    <2> QED
        BY <1>1, <1>9, <2>1, <2>2 DEF PickVideo, StackInv, Video
<1>10. ASSUME NEW l \in Lengths, RecordingFinished(l)
      PROVE  StackInv'
    <2>1. disturbed \subseteq disturbed' /\ UNCHANGED <<home, picker, videos>>
        BY <1>10 DEF RecordingFinished
    <2>2. CASE UNCHANGED stack
        BY <1>1, <2>1, <2>2 DEF StackInv, OnStack
    <2>3. CASE OpenEditor(recorder.video, TRUE, l)
        <3>1. recorder.video \in 1..videos
            BY <1>10 DEF RecordingFinished, EditInv, RecorderInv
        <3>2. recorder.video \in Video
            BY <1>1, <3>1 DEF Video
        <3>3. OnStack' = OnStack \cup {recorder.video}
            BY <1>1, <2>3, <3>2, OpenEditorStep
        <3>4. home = "up" => recorder.video \in disturbed'
            BY <1>10, <3>1 DEF RecordingFinished, AtCamera
        <3> QED
            BY <1>1, <2>1, <3>1, <3>3, <3>4 DEF StackInv
    <2> QED
        BY <1>10, <2>2, <2>3 DEF RecordingFinished
<1>11. ASSUME NEW v \in Video, CloseEditor(v)
       PROVE  StackInv'
    BY <1>1, <1>11, PopAllStep DEF CloseEditor, StackInv
<1>12. ASSUME NEW v \in Video, Edit(v) \/ Send(v), ~CloseEditor(v)
       PROVE  StackInv'
    BY <1>1, <1>12, EditorStep DEF OwnStep, StackInv
<1> QED
    BY <1>2, <1>3, <1>4, <1>5, <1>6, <1>8, <1>9, <1>10, <1>11, <1>12, <1>7
    DEF Camera

\* A video without an editor gets none from what others do.
LEMMA UnusedStep ==
    ASSUME EditInv, NEW u \in Video, Unused(u), NEW v \in Video,
           Edit(v) \/ Send(v)
    PROVE  Unused(u)'
<1>1. TypeInv /\ NoEditor.phase = "none"
    BY DEF EditInv, NoEditor
<1>2. CASE CloseEditor(v)
    <2>1. OnStack' = {} /\ edit'[u] = NoEditor
        BY <1>1, <1>2, PopAllStep DEF CloseEditor, Unused, Busy
    <2> QED
        BY <1>2, <2>1 DEF CloseEditor, Unused, Replied, serverVars
<1>3. CASE ~CloseEditor(v)
    <2>1. OwnStep(v)
        BY <1>1, <1>3, EditorStep
    <2>2. u # v
        BY <2>1 DEF OwnStep, Unused
    <2>3. edit'[u] = NoEditor /\ u \notin OnStack'
        BY <2>1, <2>2 DEF OwnStep, Unused
    <2>4. u \notin Replied' /\ u \notin moving'
        <3>1. CASE Edit(v) \/ Compile(v) \/ Exported(v) \/ ExportFailed(v) \/ Uploaded(v)
            BY <1>3, <3>1
            DEF Edit, Change, TrimLeft, TrimRight, Scroll, Advance, Cancel,
                Compile, Exported, ExportFailed, Uploaded, EditorOnly,
                serverVars, Unused, Replied
        <3>2. CASE Answered(v)
            <4>1. CASE UNCHANGED replies
                BY <2>2, <3>2, <4>1 DEF Answered, Unused, Replied
            <4>2. CASE replies' = Append(replies, [made |-> edit[v].sending,
                                                   shown |-> Shown(v),
                                                   length |-> edit[v].length])
                <5>1. \A i \in DOMAIN replies' :
                          \/ i \in DOMAIN replies /\ replies'[i] = replies[i]
                          \/ replies'[i].shown = Shown(v)
                    BY <1>1, <4>2 DEF TypeInv
                <5> QED
                    BY <2>2, <3>2, <5>1 DEF Answered, Unused, Replied, Shown
            <4> QED
                BY <3>2, <4>1, <4>2 DEF Answered
        <3>3. CASE MoveFinal(v)
            BY <3>3 DEF MoveFinal, Unused, Replied
        <3> QED
            BY <3>1, <3>2, <3>3 DEF Send
    <2> QED
        BY <2>3, <2>4 DEF Unused
<1> QED
    BY <1>2, <1>3

\* The recorder's session and the file of its recording, after any step.
LEMMA RecorderStep ==
    ASSUME EditInv, Camera \/ \E v \in Video : Edit(v) \/ Send(v)
    PROVE  RecorderInv' /\ FreshInv'
<1> USE DEF recordVars, cameraVars, serverVars
<1>1. TypeInv /\ RecorderInv /\ FreshInv /\ videos \in 0..MaxVideos
    BY DEF EditInv, TypeInv
<1>2. ASSUME NEW u \in Video, Unused(u), UNCHANGED <<moving, replies>>,
             u \notin OnStack', edit'[u] = NoEditor
      PROVE  Unused(u)'
    BY <1>2 DEF Unused, Replied
<1>3. ASSUME UNCHANGED <<stack, edit, moving, replies>>, NEW u \in Video,
             Unused(u)
      PROVE  Unused(u)'
    BY <1>3 DEF Unused, Replied, OnStack
<1>4. recorder.state # "off" => recorder.video \in Video
    BY <1>1 DEF RecorderInv, Video
<1>5. ASSUME NEW t \in Sessions, GoToCamera(t)
      PROVE  RecorderInv' /\ FreshInv'
    BY <1>1, <1>3, <1>4, <1>5
    DEF GoToCamera, Disowned, TypeInv, Recorder, RecorderInv, FreshInv
<1>6. CASE DiscardPhotos
    BY <1>1, <1>3, <1>4, <1>6
    DEF DiscardPhotos, Disowned, TypeInv, Recorder, RecorderInv, FreshInv
<1>7. CASE BackToHomeScreen \/ TakePhoto \/ OpenPicker \/ CancelPicker
    BY <1>1, <1>3, <1>4, <1>7
    DEF BackToHomeScreen, TakePhoto, OpenPicker, CancelPicker, RecorderInv,
        FreshInv
<1>8. CASE HomeShown
    <2>1. ASSUME NEW u \in Video, Unused(u)
          PROVE  Unused(u)'
        BY <1>1, <1>2, <1>8, <2>1, PopAllStep DEF HomeShown, Unused, NoEditor
    <2> QED
        BY <1>1, <1>4, <1>8, <2>1 DEF HomeShown, RecorderInv, FreshInv
<1>9. CASE CaptureVideoStart
    <2>1. CASE UNCHANGED <<videos, recorder, files>>
        BY <1>1, <1>3, <1>4, <1>9, <2>1
        DEF CaptureVideoStart, RecorderInv, FreshInv
    <2>2. CASE /\ videos < MaxVideos /\ videos' = videos + 1
               /\ recorder' = [state |-> "on", video |-> videos', own |-> TRUE]
               /\ files' = [files EXCEPT !.capture = videos']
        <3>1. PICK n \in Video : n = videos + 1
            BY <1>1, <2>2 DEF Video
        <3>2. Unused(n)'
            BY <1>1, <1>3, <1>9, <3>1 DEF CaptureVideoStart, FreshInv
        <3>3. \A u \in Video : u > videos' => u > videos
            BY <1>1, <2>2 DEF Video
        <3>4. FreshInv'
            BY <1>1, <1>3, <1>9, <3>3 DEF CaptureVideoStart, FreshInv
        <3>5. files'.capture = videos' /\ recorder'.video = videos'
            BY <2>2 DEF TypeInv, Files
        <3> QED
            BY <1>1, <2>2, <3>1, <3>2, <3>4, <3>5 DEF RecorderInv
    <2> QED
        BY <1>9, <2>1, <2>2 DEF CaptureVideoStart
<1>10. CASE CaptureVideoEnd
    <2>1. /\ recorder'.video = recorder.video /\ recorder'.own = recorder.own
          /\ recorder'.state = "off" <=> recorder.state = "off"
        BY <1>1, <1>10 DEF CaptureVideoEnd, TypeInv, Recorder
    <2> QED
        BY <1>1, <1>3, <1>4, <1>10, <2>1
        DEF CaptureVideoEnd, RecorderInv, FreshInv
<1>11. ASSUME NEW l \in Lengths, PickVideo(l)
       PROVE  RecorderInv' /\ FreshInv'
    <2>1. videos' \in Video /\ videos' = videos + 1
        BY <1>1, <1>11 DEF PickVideo, Video
    <2>2. ASSUME NEW u \in Video, Unused(u), u # videos'
          PROVE  Unused(u)'
        BY <1>1, <1>2, <1>11, <2>1, <2>2, OpenEditorStep DEF PickVideo, Unused
    <2>3. \A u \in Video : u > videos' => u > videos /\ u # videos'
        BY <1>1, <2>1 DEF Video
    <2>4. recorder.state # "off" =>
              recorder.video # videos' /\ recorder.video \in 1..videos'
        BY <1>1, <2>1 DEF RecorderInv
    <2> QED
        BY <1>1, <1>4, <1>11, <2>2, <2>3, <2>4
        DEF PickVideo, RecorderInv, FreshInv
<1>12. ASSUME NEW l \in Lengths, RecordingFinished(l)
       PROVE  RecorderInv' /\ FreshInv'
    <2>1. recorder'.state = "off" /\ recorder'.own = FALSE
        BY <1>12 DEF RecordingFinished
    <2>2. ASSUME NEW u \in Video, u > videos
          PROVE  Unused(u)'
        <3>1. Unused(u) /\ u # recorder.video /\ recorder.video \in Video
            BY <1>1, <1>4, <1>12, <2>2
            DEF RecordingFinished, RecorderInv, FreshInv
        <3>2. CASE UNCHANGED <<stack, edit>>
            BY <1>3, <1>12, <3>1, <3>2 DEF RecordingFinished
        <3>3. CASE OpenEditor(recorder.video, TRUE, l)
            BY <1>1, <1>2, <1>12, <3>1, <3>3, OpenEditorStep
            DEF RecordingFinished, Unused
        <3> QED
            BY <1>12, <3>2, <3>3 DEF RecordingFinished
    <2> QED
        BY <1>12, <2>1, <2>2 DEF RecordingFinished, RecorderInv, FreshInv
<1>13. ASSUME NEW v \in Video, Edit(v) \/ Send(v)
       PROVE  RecorderInv' /\ FreshInv'
    <2>1. ASSUME NEW u \in Video, Unused(u)
          PROVE  Unused(u)'
        BY <1>13, <2>1, UnusedStep
    <2>2. CASE CloseEditor(v)
        BY <1>1, <1>4, <2>1, <2>2
        DEF CloseEditor, Disowned, TypeInv, Recorder, RecorderInv, FreshInv
    <2>3. CASE ~CloseEditor(v)
        <3>1. OwnStep(v)
            BY <1>1, <1>13, <2>3, EditorStep
        <3> QED
            BY <1>1, <1>4, <2>1, <3>1 DEF OwnStep, RecorderInv, FreshInv
    <2> QED
        BY <2>2, <2>3
<1> QED
    BY <1>5, <1>6, <1>7, <1>8, <1>9, <1>10, <1>11, <1>12, <1>13 DEF Camera

-----------------------------------------------------------------------------
(* Editors and sessions                                                    *)

\* An editor of the session it was made in, after any step.
LEMMA SessionStep ==
    ASSUME EditInv, EditsThisSession,
           Camera \/ \E v \in Video : Edit(v) \/ Send(v)
    PROVE  EditsThisSession'
<1> USE DEF recordVars, cameraVars, serverVars
<1>1. TypeInv /\ StackInv /\ RecorderInv /\ videos \in 0..MaxVideos
    BY DEF EditInv, TypeInv
<1>2. ASSUME OnStack' = {}
      PROVE  EditsThisSession'
    BY <1>2 DEF EditsThisSession, OnStack
<1>3. ASSUME UNCHANGED <<stack, edit, session, files, disturbed>>
      PROVE  EditsThisSession'
    BY <1>3 DEF EditsThisSession
<1>4. ASSUME NEW t \in Sessions, GoToCamera(t)
      PROVE  EditsThisSession'
    BY <1>1, <1>4 DEF GoToCamera, StackInv, OnStack, EditsThisSession
<1>5. CASE DiscardPhotos \/ CaptureVideoStart
    <2>1. OnStack' = {}
        BY <1>5, EmptyStack DEF DiscardPhotos, CaptureVideoStart, AtCamera, OnStack
    <2> QED
        BY <1>2, <2>1
<1>6. CASE \/ BackToHomeScreen \/ TakePhoto \/ OpenPicker \/ CancelPicker
           \/ CaptureVideoEnd
    BY <1>3, <1>6
    DEF BackToHomeScreen, TakePhoto, OpenPicker, CancelPicker, CaptureVideoEnd
<1>7. CASE HomeShown
    BY <1>1, <1>2, <1>7, PopAllStep DEF HomeShown
<1>8. ASSUME NEW u \in Video, NEW captured \in BOOLEAN, NEW l,
             OpenEditor(u, captured, l), UNCHANGED <<session, files>>,
             disturbed \subseteq disturbed',
             u \in disturbed' \/ (captured => files.capture = u)
      PROVE  EditsThisSession'
    <2>1. /\ OnStack' = OnStack \cup {u}
          /\ edit'[u].twyst = session /\ edit'[u].captured = captured
          /\ \A v \in Video : v # u => edit'[v] = edit[v]
        <3>1. /\ NewEditor(captured, l).twyst = session
              /\ NewEditor(captured, l).captured = captured
            BY DEF NewEditor
        <3> QED
            BY <1>1, <1>8, <3>1, OpenEditorStep
    <2>2. OnStack \subseteq Video
        BY <1>1 DEF OnStack, ToSet, TypeInv
    <2>3. ASSUME NEW v \in OnStack' \ disturbed'
          PROVE  /\ edit'[v].twyst = session'
                 /\ edit'[v].captured => files'.capture = v
        <3>1. CASE v = u
            BY <1>8, <2>1, <2>3, <3>1
        <3>2. CASE v # u
            BY <1>8, <2>1, <2>2, <2>3, <3>2 DEF EditsThisSession, OnStack
        <3> QED
            BY <3>1, <3>2
    <2> QED
        BY <2>3 DEF EditsThisSession, OnStack
<1>9. ASSUME NEW l \in Lengths, PickVideo(l)
      PROVE  EditsThisSession'
    <2>1. videos' \in Video
        BY <1>1, <1>9 DEF PickVideo, Video
    <2> QED
        BY <1>8, <1>9, <2>1 DEF PickVideo
<1>10. ASSUME NEW l \in Lengths, RecordingFinished(l)
       PROVE  EditsThisSession'
    <2>1. recorder.video \in Video /\ recorder.video \in 1..videos
        BY <1>1, <1>10 DEF RecordingFinished, RecorderInv, Video
    <2>2. CASE l < MinLen
        <3>1. /\ UNCHANGED <<stack, edit>>
              /\ disturbed' = disturbed \cup
                    (IF ~(AtCamera /\ recorder.own) THEN 1..videos ELSE {})
            <4>1. ~(l >= MinLen)
                BY <2>2
            <4> QED
                BY <1>10, <4>1, Zenon DEF RecordingFinished
        <3>2. CASE AtCamera
            <4>1. OnStack' = {}
                BY <3>1, <3>2, EmptyStack DEF AtCamera, OnStack
            <4> QED
                BY <1>2, <4>1
        <3>3. CASE ~AtCamera
            <4>1. OnStack \subseteq 1..videos
                BY <1>1 DEF StackInv, OnStack, ToSet, TypeInv, Video
            <4>2. OnStack' \subseteq disturbed'
                BY <3>1, <3>3, <4>1 DEF OnStack
            <4> QED
                BY <4>2 DEF EditsThisSession, OnStack
        <3> QED
            BY <3>2, <3>3
    <2>3. CASE l >= MinLen
        <3>1. /\ OpenEditor(recorder.video, TRUE, l)
              /\ UNCHANGED <<session, files>>
              /\ disturbed' = disturbed \cup
                    (IF ~(AtCamera /\ recorder.own) THEN {recorder.video} ELSE {})
            <4>1. ~(l < MinLen)
                BY <2>3
            <4> QED
                BY <1>10, <4>1, Zenon DEF RecordingFinished
        <3>2. \/ recorder.video \in disturbed'
              \/ files.capture = recorder.video
            BY <1>1, <3>1 DEF RecorderInv
        <3> QED
            BY <1>8, <2>1, <3>1, <3>2
    <2> QED
        BY <2>2, <2>3
<1>11. ASSUME NEW v \in Video, CloseEditor(v)
       PROVE  EditsThisSession'
    BY <1>1, <1>2, <1>11, PopAllStep DEF CloseEditor
<1>12. ASSUME NEW v \in Video, Edit(v) \/ Send(v), ~CloseEditor(v)
       PROVE  EditsThisSession'
    <2>1. OwnStep(v)
        BY <1>1, <1>12, EditorStep
    <2>2. ASSUME v \in OnStack
          PROVE  /\ edit'[v].twyst = edit[v].twyst
                 /\ edit'[v].captured = edit[v].captured
        <3>1. Contains(stack, v) /\ edit[v] \in Editor
            BY <1>1, <2>2, ContainsIsMember DEF OnStack, TypeInv
        <3>2. ASSUME NEW phase, SetPhase(v, phase)
              PROVE  /\ edit'[v].twyst = edit[v].twyst
                     /\ edit'[v].captured = edit[v].captured
            BY <1>1, <3>1, <3>2 DEF SetPhase, InPhase, TypeInv, Editor
        <3>3. CASE Change(v)
            BY <1>1, <3>1, <3>3 DEF Change, TypeInv, Editor
        <3>4. ASSUME NEW d, TrimLeft(v, d)
              PROVE  /\ edit'[v].twyst = edit[v].twyst
                     /\ edit'[v].captured = edit[v].captured
            BY <1>1, <3>1, <3>4 DEF TrimLeft, TypeInv, Editor
        <3>5. ASSUME NEW d, TrimRight(v, d)
               PROVE  /\ edit'[v].twyst = edit[v].twyst
                      /\ edit'[v].captured = edit[v].captured
            BY <1>1, <3>1, <3>5 DEF TrimRight, TypeInv, Editor
        <3>6. ASSUME NEW o, Scroll(v, o)
              PROVE  /\ edit'[v].twyst = edit[v].twyst
                     /\ edit'[v].captured = edit[v].captured
            BY <1>1, <3>1, <3>6 DEF Scroll, TypeInv, Editor
        <3>7. CASE Compile(v)
            <4> DEFINE phase == IF edit[v].phase = "theme" THEN "creating"
                                ELSE "exporting"
                       free == files.final = NoFile
                       part == edit[v].end - edit[v].start
            <4>1. \/ UNCHANGED edit
                  \/ edit' = [edit EXCEPT ![v] = [edit[v] EXCEPT
                         !.phase = phase, !.duration = part, !.free = free]]
                BY <3>7 DEF Compile
            <4> HIDE DEF phase, free, part
            <4> DEFINE e == [edit[v] EXCEPT !.phase = phase, !.duration = part,
                                            !.free = free]
            <4>2. e.twyst = edit[v].twyst /\ e.captured = edit[v].captured
                BY <3>1 DEF Editor
            <4>3. edit' = edit \/ edit' = [edit EXCEPT ![v] = e]
                BY <4>1
            <4> HIDE DEF e
            <4> QED
                BY <1>1, <4>2, <4>3 DEF TypeInv
        <3>8. CASE Exported(v)
            <4>1. CASE SetPhase(v, "shared")
                BY <3>2, <4>1
            <4>2. CASE edit' = [edit EXCEPT ![v] =
                       [@ EXCEPT !.phase = "uploading", !.sending = Shown(v)]]
                BY <1>1, <3>1, <4>2 DEF TypeInv, Editor
            <4> QED
                BY <3>8, <4>1, <4>2 DEF Exported
        <3>9. CASE MoveFinal(v)
            BY <3>9 DEF MoveFinal
        <3>10. CASE \/ Advance(v) \/ Cancel(v) \/ ExportFailed(v)
                   \/ Uploaded(v) \/ Answered(v)
            BY <3>2, <3>10
            DEF Advance, Cancel, ExportFailed, Uploaded, Answered
        <3> QED
            BY <1>12, <3>3, <3>4, <3>6, <3>7, <3>10, <3>8, <3>9, <3>5 DEF Edit, Send
    <2> QED
        BY <1>1, <2>1, <2>2 DEF OwnStep, EditsThisSession, OnStack, ToSet, TypeInv
<1> QED
    BY <1>4, <1>5, <1>6, <1>7, <1>9, <1>10, <1>11, <1>12 DEF Camera

-----------------------------------------------------------------------------
(* Sending and trimming                                                    *)

\* What is known of replies and of what becomes one.
SendInv == SendingInv /\ MovingInv /\ RepliedInv /\ TrimInv /\ RepliesAreRight

\* A video keeps what is trimmed and drawn.
SameVideo(v) ==
    /\ edit'[v].length = edit[v].length /\ edit'[v].offset = edit[v].offset
    /\ edit'[v].start = edit[v].start /\ edit'[v].end = edit[v].end
    /\ edit'[v].changes = edit[v].changes

\* An editor that goes on to another phase, or is gone.
PhaseStep(v, phase) ==
    \/ edit'[v] = NoEditor /\ phase \notin Busy /\ v \notin OnStack
    \/ /\ edit'[v].phase = phase /\ SameVideo(v)
       /\ edit'[v].sending = edit[v].sending /\ edit'[v].free = edit[v].free

\* A phase that is set leaves the part of a video as it was.
LEMMA SetPhaseStep ==
    ASSUME TypeInv, NEW v \in Video, NEW phase, SetPhase(v, phase)
    PROVE  PhaseStep(v, phase)
<1>1. edit[v] \in Editor /\ edit'[v] = InPhase(v, phase)
    BY DEF SetPhase, TypeInv
<1>2. CASE InPhase(v, phase) = NoEditor /\ phase \notin Busy /\ ~Contains(stack, v)
    BY <1>1, <1>2, ContainsIsMember DEF PhaseStep, OnStack, TypeInv
<1>3. CASE InPhase(v, phase) = [edit[v] EXCEPT !.phase = phase]
    BY <1>1, <1>3 DEF PhaseStep, SameVideo, Editor
<1> QED
    BY <1>2, <1>3 DEF InPhase

\* Only videos are replied with.
LEMMA RepliedAreVideos ==
    ASSUME TypeInv
    PROVE  Replied \subseteq Video
<1> SUFFICES ASSUME NEW i \in DOMAIN replies
             PROVE  replies[i].shown.video \in Video
    BY DEF Replied
<1>1. replies[i] \in Reply
    BY DEF TypeInv
<1> QED
    BY <1>1 DEF Reply, Content

\* A step of an editor that sends nothing and makes no file.
LEMMA QuietStep ==
    ASSUME EditInv, RepliesAreRight, NEW v \in Video, OwnStep(v),
           files'.final = files.final, UNCHANGED <<moving, replies, disturbed>>,
           edit'[v].phase \in {"uploading", "posting"} =>
               /\ edit'[v].sending = Shown(v)'
               /\ v \in OnStack \ disturbed => HasFinal(v),
           v \in moving => edit'[v].phase \in {"sent", "none"},
           v \in Replied \ disturbed => Spent(v)',
           edit'[v].phase # "none" => Trimmed(edit'[v])
    PROVE  SendInv'
<1>1. /\ OnStack' = OnStack /\ Replied' = Replied
      /\ \A u \in Video : u # v => edit'[u] = edit[u]
      /\ \A u : HasFinal(u)' <=> HasFinal(u)
    BY DEF OwnStep, Replied, HasFinal
<1>2. SendingInv'
    BY <1>1 DEF SendingInv, EditInv, Shown
<1>3. MovingInv'
    BY <1>1 DEF MovingInv, EditInv, TypeInv
<1>4. RepliedInv'
    <2>1. ASSUME NEW u \in Replied \ disturbed
          PROVE  Spent(u)'
        <3>1. u \in Video
            BY RepliedAreVideos DEF EditInv
        <3>2. CASE u = v
            BY <3>2
        <3>3. CASE u # v
            BY <1>1, <3>1, <3>3 DEF RepliedInv, EditInv, Spent
        <3> QED
            BY <3>2, <3>3
    <2> QED
        BY <1>1, <2>1 DEF RepliedInv
<1>5. TrimInv'
    BY <1>1 DEF TrimInv, EditInv, Trimmed
<1>6. RepliesAreRight'
    BY DEF RepliesAreRight
<1> QED
    BY <1>2, <1>3, <1>4, <1>5, <1>6 DEF SendInv

\* A new editor is for a video that had none; others stay, or go.
Opened(v) ==
    /\ Unused(v)
    /\ \E captured \in BOOLEAN, length \in Lengths :
          edit'[v] = NewEditor(captured, length)

Aside ==
    /\ UNCHANGED <<moving, replies>> /\ disturbed \subseteq disturbed'
    /\ files'.final = files.final \/ OnStack' \subseteq disturbed'
    /\ \A v \in Video :
          \/ edit'[v] = edit[v] /\ (v \in OnStack' => v \in OnStack)
          \/ edit'[v] = NoEditor /\ v \notin OnStack'
          \/ Opened(v)

\* What the camera does, and what is closed, concerns no video being sent.
LEMMA CameraStep ==
    ASSUME EditInv, Camera \/ \E v \in Video : CloseEditor(v)
    PROVE  Aside
<1> USE DEF recordVars, cameraVars, serverVars
<1>1. TypeInv /\ StackInv /\ RecorderInv /\ FreshInv /\ videos \in 0..MaxVideos
    BY DEF EditInv, TypeInv
<1>2. ASSUME UNCHANGED <<moving, replies, stack, edit>>,
             disturbed \subseteq disturbed',
             files'.final = files.final \/ OnStack' \subseteq disturbed'
      PROVE  Aside
    BY <1>2 DEF Aside, OnStack
<1>3. ASSUME PopAll, UNCHANGED <<moving, replies, disturbed>>
      PROVE  Aside
    BY <1>1, <1>3, PopAllStep DEF Aside
<1>4. ASSUME NEW u \in Video, Unused(u), NEW captured \in BOOLEAN,
             NEW l \in Lengths, OpenEditor(u, captured, l),
             UNCHANGED <<moving, replies, files>>,
             disturbed \subseteq disturbed'
      PROVE  Aside
    <2>1. /\ OnStack' = OnStack \cup {u}
          /\ edit'[u] = NewEditor(captured, l)
          /\ \A v \in Video : v # u => edit'[v] = edit[v]
        BY <1>1, <1>4, OpenEditorStep
    <2> QED
        BY <1>4, <2>1 DEF Aside, Opened
<1>5. ASSUME NEW t \in Sessions, GoToCamera(t)
      PROVE  Aside
    <2>1. OnStack' \subseteq disturbed'
        BY <1>1, <1>5 DEF GoToCamera, StackInv, OnStack
    <2> QED
        BY <1>2, <1>5, <2>1 DEF GoToCamera
<1>6. CASE DiscardPhotos
    <2>1. OnStack' = {}
        BY <1>6, EmptyStack DEF DiscardPhotos, AtCamera, OnStack
    <2> QED
        BY <1>2, <1>6, <2>1 DEF DiscardPhotos
<1>7. CASE \/ BackToHomeScreen \/ TakePhoto \/ OpenPicker \/ CancelPicker
           \/ CaptureVideoEnd
    BY <1>2, <1>7
    DEF BackToHomeScreen, TakePhoto, OpenPicker, CancelPicker, CaptureVideoEnd
<1>8. CASE HomeShown
    BY <1>3, <1>8 DEF HomeShown
<1>9. CASE CaptureVideoStart
    <2>1. files'.final = files.final
        BY <1>1, <1>9 DEF CaptureVideoStart, TypeInv, Files
    <2> QED
        BY <1>2, <1>9, <2>1 DEF CaptureVideoStart
<1>10. ASSUME NEW l \in Lengths, PickVideo(l)
       PROVE  Aside
    <2>1. PICK n \in Video : n = videos' /\ n > videos
        BY <1>1, <1>10 DEF PickVideo, Video
    <2> QED
        BY <1>1, <1>4, <1>10, <2>1 DEF PickVideo, FreshInv
<1>11. ASSUME NEW l \in Lengths, RecordingFinished(l)
       PROVE  Aside
    <2>1. recorder.video \in Video /\ Unused(recorder.video)
        BY <1>1, <1>11 DEF RecordingFinished, RecorderInv, Video
    <2>2. disturbed \subseteq disturbed'
        BY <1>11 DEF RecordingFinished
    <2>3. CASE l < MinLen
        <3>1. /\ UNCHANGED <<stack, edit>>
              /\ disturbed' = disturbed \cup
                    (IF ~(AtCamera /\ recorder.own) THEN 1..videos ELSE {})
            <4>1. ~(l >= MinLen)
                BY <2>3
            <4> QED
                BY <1>11, <4>1, Zenon DEF RecordingFinished
        <3>2. OnStack' \subseteq disturbed'
            <4>1. CASE AtCamera
                BY <3>1, <4>1, EmptyStack DEF AtCamera, OnStack
            <4>2. CASE ~AtCamera
                <5>1. OnStack \subseteq 1..videos
                    BY <1>1 DEF StackInv, OnStack, ToSet, TypeInv, Video
                <5> QED
                    BY <3>1, <4>2, <5>1 DEF OnStack
            <4> QED
                BY <4>1, <4>2
        <3> QED
            BY <1>2, <1>11, <2>2, <3>1, <3>2 DEF RecordingFinished
    <2>4. CASE l >= MinLen
        <3>1. OpenEditor(recorder.video, TRUE, l) /\ UNCHANGED files
            <4>1. ~(l < MinLen)
                BY <2>4
            <4> QED
                BY <1>11, <4>1, Zenon DEF RecordingFinished
        <3> QED
            BY <1>4, <1>11, <2>1, <2>2, <3>1 DEF RecordingFinished
    <2> QED
        BY <2>3, <2>4
<1>12. ASSUME NEW v \in Video, CloseEditor(v)
       PROVE  Aside
    BY <1>3, <1>12 DEF CloseEditor
<1> QED
    BY <1>5, <1>6, <1>7, <1>8, <1>9, <1>10, <1>11, <1>12 DEF Camera

\* The whole video, or a window of it, is selected at first.
LEMMA NewEditorTrimmed ==
    ASSUME session \in Sessions, NEW captured, NEW length \in Lengths
    PROVE  Trimmed(NewEditor(captured, length))
<1>1. length \in Nat
    OBVIOUS
<1>2. Min({length, MaxLen}) = IF length <= MaxLen THEN length ELSE MaxLen
    BY <1>1, MinOfTwo
<1> DEFINE e == NewEditor(captured, length)
<1>3. /\ e.offset = 0 /\ e.start = 0 /\ e.length = length
      /\ e.end = Min({length, MaxLen})
    BY DEF NewEditor
<1> HIDE DEF e
<1>4. Trimmed(e)
    BY <1>1, <1>2, <1>3, ThumbnailsFillWindow DEF Trimmed
<1> QED
    BY <1>4 DEF e

\* What the camera does takes nothing from what is sent.
LEMMA AsideStep ==
    ASSUME EditInv, RepliesAreRight, Aside
    PROVE  SendInv'
<1>1. ASSUME NEW captured \in BOOLEAN, NEW length
      PROVE  NewEditor(captured, length).phase = "editing"
    BY DEF NewEditor
<1>2. NoEditor.phase = "none"
    BY DEF NoEditor
<1>3. SendingInv'
    BY <1>1, <1>2 DEF SendingInv, EditInv, Aside, Opened, Shown, HasFinal
<1>4. MovingInv'
    BY <1>2 DEF MovingInv, EditInv, TypeInv, Aside, Opened, Unused
<1>5. RepliedInv'
    <2>1. Replied' = Replied /\ Replied \subseteq Video
        BY RepliedAreVideos DEF Replied, Aside, EditInv
    <2>2. ASSUME NEW u \in Replied \ disturbed'
          PROVE  Spent(u)'
        BY <1>2, <2>1, <2>2
        DEF RepliedInv, EditInv, Spent, Aside, Opened, Unused, HasFinal
    <2> QED
        BY <2>1, <2>2 DEF RepliedInv
<1>6. TrimInv'
    <2>1. session \in Sessions
        BY DEF EditInv, TypeInv
    <2> QED
        BY <1>2, <2>1, NewEditorTrimmed DEF TrimInv, EditInv, Aside, Opened
<1>7. RepliesAreRight'
    BY DEF RepliesAreRight, Aside
<1> QED
    BY <1>3, <1>4, <1>5, <1>6, <1>7 DEF SendInv

\* A trim or a change: the editor stays one, on top.
LEMMA EditingStep ==
    ASSUME EditInv, RepliesAreRight, NEW v \in Video,
           OnTop(v), edit[v].phase = "editing", EditorOnly, OwnStep(v),
           edit'[v].phase = "editing", Trimmed(edit'[v])
    PROVE  SendInv'
<1> USE DEF serverVars
<1>1. v \in OnStack
    BY TopIsOnStack DEF EditInv
<1>2. v \notin moving
    BY DEF EditInv, MovingInv
<1>3. ASSUME v \in Replied \ disturbed
      PROVE  Spent(v)'
    BY <1>1, <1>3 DEF EditInv, RepliedInv, Spent, HasFinal, EditorOnly
<1> QED
    BY <1>2, <1>3, QuietStep DEF EditorOnly

\* A change of a video does not disturb what is being sent.
LEMMA TrimStep ==
    ASSUME EditInv, RepliesAreRight, NEW v \in Video,
           \/ Change(v)
           \/ \E d \in Drags : TrimLeft(v, d) \/ TrimRight(v, d)
           \/ \E o \in 0 .. Max(Lengths) : Scroll(v, o)
    PROVE  SendInv'
<1> DEFINE e == edit[v]
<1>1. /\ e \in Editor /\ OwnStep(v) /\ OnTop(v) /\ EditorOnly
      /\ e.phase = "editing"
    <2>1. Edit(v) /\ ~CloseEditor(v) => OwnStep(v)
        BY EditorStep DEF EditInv
    <2>2. EditorOnly /\ AtEditor(v, {"editing"})
        BY DEF Change, TrimLeft, TrimRight, Scroll
    <2>3. ~CloseEditor(v)
        BY <2>2 DEF CloseEditor, PopAll, AtEditor, OnTop, EditorOnly
    <2> QED
        BY <2>1, <2>2, <2>3 DEF Edit, AtEditor, EditInv, TypeInv
<1>2. /\ e.start \in Int /\ e.end \in Int /\ e.duration \in Int
      /\ e.offset \in Nat /\ e.length \in Nat
    BY <1>1, EditorNumbers
<1>3. Trimmed(e)
    BY <1>1 DEF EditInv, TrimInv
<1>4. CASE Change(v)
    <2>1. /\ edit'[v].length = e.length /\ edit'[v].offset = e.offset
          /\ edit'[v].start = e.start /\ edit'[v].end = e.end
          /\ edit'[v].phase = "editing"
        BY <1>1, <1>4 DEF Change, EditInv, TypeInv, Editor
    <2> QED
        BY <1>1, <1>3, <2>1, EditingStep DEF Trimmed
<1>5. ASSUME NEW d \in Drags, TrimLeft(v, d)
      PROVE  SendInv'
    <2>1. /\ edit'[v].length = e.length /\ edit'[v].offset = e.offset
          /\ edit'[v].start = LeftOf(e, d) /\ edit'[v].end = e.end
          /\ edit'[v].phase = "editing"
        BY <1>1, <1>5 DEF TrimLeft, LeftOf, EditInv, TypeInv, Editor
    <2>2. d \in Int
        OBVIOUS
    <2> HIDE DEF e
    <2>3. Trimmed(edit'[v])
        BY <1>2, <1>3, <2>1, <2>2, LeftOfValue DEF Trimmed
    <2> QED
        BY <1>1, <2>1, <2>3, EditingStep DEF e
<1>6. ASSUME NEW d \in Drags, TrimRight(v, d)
      PROVE  SendInv'
    <2>1. /\ edit'[v].length = e.length /\ edit'[v].offset = e.offset
          /\ edit'[v].end = RightOf(e, d) /\ edit'[v].start = e.start
          /\ edit'[v].phase = "editing"
        BY <1>1, <1>6 DEF TrimRight, RightOf, EditInv, TypeInv, Editor
    <2>2. d \in Int
        OBVIOUS
    <2> HIDE DEF e
    <2>3. Trimmed(edit'[v])
        BY <1>2, <1>3, <2>1, <2>2, RightOfValue DEF Trimmed
    <2> QED
        BY <1>1, <2>1, <2>3, EditingStep DEF e
<1>7. ASSUME NEW o \in 0 .. Max(Lengths), Scroll(v, o)
      PROVE  SendInv'
    <2>1. /\ edit'[v].length = e.length /\ edit'[v].offset = o
          /\ edit'[v].start = e.start + o - e.offset
          /\ edit'[v].end = e.end + o - e.offset
          /\ edit'[v].phase = "editing"
        <3> DEFINE start == e.start + o - e.offset
                   end == e.end + o - e.offset
                   n == e.changes + 1
                   f == [e EXCEPT !.start = start, !.end = end, !.offset = o,
                                  !.changes = n]
        <3>1. edit' = [edit EXCEPT ![v] = f]
            BY <1>7 DEF Scroll
        <3> HIDE DEF start, end, n
        <3>2. /\ f.length = e.length /\ f.offset = o /\ f.start = start
              /\ f.end = end /\ f.phase = "editing"
            BY <1>1 DEF Editor
        <3> HIDE DEF f, e
        <3>3. edit'[v] = f
            BY <3>1 DEF EditInv, TypeInv
        <3> QED
            BY <3>2, <3>3 DEF start, end
    <2>2. o \in Int
        OBVIOUS
    <2>3. o + MaxLen <= Thumbnails(e.length)
        BY <1>7, Zenon DEF Scroll
    <2> HIDE DEF e
    <2>4. Trimmed(edit'[v])
        BY <1>2, <1>3, <2>1, <2>2, <2>3 DEF Trimmed
    <2> QED
        BY <1>1, <2>1, <2>4, EditingStep DEF e
<1> QED
    BY <1>4, <1>5, <1>6, <1>7

\* The dialogs, and answers that end or go on with a sending.
LEMMA PhasesStep ==
    ASSUME EditInv, RepliesAreRight, NEW v \in Video, OwnStep(v),
           UNCHANGED <<files, moving, replies, disturbed>>,
           edit[v].phase \notin {"sent", "none"},
           NEW phase \in (Quiet \ {"sent"}) \cup {"posting"},
           SetPhase(v, phase), phase = "posting" => edit[v].phase = "uploading"
    PROVE  SendInv'
<1>1. PhaseStep(v, phase)
    BY SetPhaseStep DEF EditInv
<1>2. NoEditor.phase = "none"
    BY DEF NoEditor
<1>3. phase \notin {"uploading", "creating", "exporting", "none"}
    BY DEF Quiet
<1>4. /\ HasFinal(v)' <=> HasFinal(v)
      /\ OnStack' = OnStack
    BY DEF HasFinal, OwnStep
<1>5. ASSUME edit'[v].phase \in {"uploading", "posting"}
      PROVE  /\ edit'[v].sending = Shown(v)'
             /\ v \in OnStack \ disturbed => HasFinal(v)
    <2>1. /\ SameVideo(v) /\ edit'[v].sending = edit[v].sending
          /\ edit[v].phase = "uploading"
        BY <1>1, <1>2, <1>3, <1>5 DEF PhaseStep
    <2> QED
        BY <2>1 DEF EditInv, SendingInv, Shown, SameVideo
<1>6. v \notin moving
    BY DEF EditInv, MovingInv
<1>7. ASSUME v \in Replied \ disturbed
      PROVE  Spent(v)'
    <2>1. Spent(v)
        BY <1>7 DEF EditInv, RepliedInv
    <2> QED
        BY <1>1, <1>2, <1>3, <1>4, <2>1 DEF PhaseStep, Spent
<1>8. edit'[v].phase # "none" => Trimmed(edit'[v])
    BY <1>1, <1>2 DEF PhaseStep, SameVideo, Trimmed, EditInv, TrimInv
<1>9. files'.final = files.final
    OBVIOUS
<1> QED
    BY <1>5, <1>6, <1>7, <1>8, <1>9, QuietStep

\* Nor does the beginning of an export, which takes the part that is shown.
LEMMA CompileStep ==
    ASSUME EditInv, RepliesAreRight, NEW v \in Video, Compile(v)
    PROVE  SendInv'
<1>1. /\ OwnStep(v) /\ v \in OnStack /\ edit[v] \in Editor
      /\ edit[v].phase \in {"theme", "asking"}
      /\ UNCHANGED <<files, moving, replies, disturbed>>
    <2>1. ~CloseEditor(v)
        BY DEF Compile, CloseEditor, AtEditor
    <2> QED
        BY <2>1, EditorStep, TopIsOnStack
        DEF Send, Compile, AtEditor, EditInv, TypeInv
<1>2. \/ edit'[v] = edit[v]
      \/ /\ edit'[v].phase \in {"creating", "exporting"}
         /\ edit'[v].free => files.final = NoFile
         /\ SameVideo(v)
    <2> DEFINE phase == IF edit[v].phase = "theme" THEN "creating"
                        ELSE "exporting"
               free == files.final = NoFile
               part == edit[v].end - edit[v].start
               e == [edit[v] EXCEPT !.phase = phase, !.duration = part,
                                    !.free = free]
    <2>1. UNCHANGED edit \/ edit' = [edit EXCEPT ![v] = e]
        BY DEF Compile
    <2>2. phase \in {"creating", "exporting"} /\ (free => files.final = NoFile)
        OBVIOUS
    <2> HIDE DEF phase, free, part
    <2>3. /\ e.phase = phase /\ e.free = free /\ e.length = edit[v].length
          /\ e.offset = edit[v].offset /\ e.start = edit[v].start
          /\ e.end = edit[v].end /\ e.changes = edit[v].changes
        BY <1>1 DEF Editor
    <2> HIDE DEF e
    <2>4. CASE edit' = [edit EXCEPT ![v] = e]
        <3>1. edit'[v] = e
            BY <2>4 DEF EditInv, TypeInv
        <3> QED
            BY <2>2, <2>3, <3>1 DEF SameVideo
    <2> QED
        BY <2>1, <2>4
<1>3. edit'[v].phase \in {"theme", "asking", "creating", "exporting"}
    BY <1>1, <1>2
<1>4. v \notin moving
    BY <1>1 DEF EditInv, MovingInv
<1>5. ASSUME v \in Replied \ disturbed
      PROVE  Spent(v)'
    <2>1. HasFinal(v)
        BY <1>1, <1>5 DEF EditInv, RepliedInv, Spent
    <2>2. HasFinal(v)' /\ files.final # NoFile
        BY <1>1, <2>1 DEF HasFinal
    <2>3. edit'[v].phase \in {"creating", "exporting"} => ~edit'[v].free
        BY <1>1, <1>2, <2>2
    <2> QED
        BY <1>3, <2>2, <2>3 DEF Spent
<1>6. Trimmed(edit'[v])
    BY <1>1, <1>2 DEF SameVideo, Trimmed, EditInv, TrimInv
<1>7. files'.final = files.final
    BY <1>1
<1> QED
    BY <1>1, <1>3, <1>4, <1>5, <1>6, <1>7, QuietStep

\* The exporter found no file, and the one it made is of this video.
LEMMA ExportedStep ==
    ASSUME EditInv, RepliesAreRight, NEW v \in Video, Exported(v)
    PROVE  SendInv'
<1> USE DEF serverVars
<1>1. /\ OwnStep(v) /\ edit[v] \in Editor
      /\ edit[v].free /\ files.final = NoFile
      /\ edit[v].phase \in {"creating", "exporting"}
      /\ UNCHANGED <<moving, replies, disturbed>>
    <2>1. ~CloseEditor(v)
        BY DEF Exported, CloseEditor, AtEditor
    <2> QED
        BY <2>1, EditorStep DEF Send, Exported, EditInv, TypeInv
<1>2. files'.final = Shown(v) /\ Shown(v).video = v /\ Shown(v) # NoFile
    <2>1. files'.final = Shown(v)
        BY DEF Exported, EditInv, TypeInv, Files
    <2>2. Shown(v).video = v /\ NoFile.video = 0
        BY DEF Shown, NoFile
    <2> QED
        BY <2>1, <2>2 DEF Video
<1>3. HasFinal(v)'
    BY <1>2 DEF HasFinal
<1>4. NoEditor.phase = "none"
    BY DEF NoEditor
<1>5. \/ PhaseStep(v, "shared")
      \/ /\ edit'[v].phase = "uploading" /\ edit'[v].sending = Shown(v)
         /\ SameVideo(v)
    <2>1. CASE SetPhase(v, "shared")
        BY <2>1, SetPhaseStep DEF EditInv
    <2>2. CASE edit' = [edit EXCEPT ![v] = [@ EXCEPT !.phase = "uploading",
                                                     !.sending = Shown(v)]]
        BY <1>1, <2>2 DEF EditInv, TypeInv, Editor, SameVideo
    <2> QED
        BY <2>1, <2>2 DEF Exported
<1>6. /\ \A u \in Video : u # v => edit'[u] = edit[u]
      /\ OnStack' = OnStack /\ Replied' = Replied /\ Replied \subseteq Video
    BY <1>1, RepliedAreVideos DEF OwnStep, Replied, EditInv
<1>7. SendingInv'
    <2>1. ASSUME NEW u \in Video, edit'[u].phase \in {"uploading", "posting"}
          PROVE  /\ edit'[u].sending = Shown(u)'
                 /\ u \in OnStack \ disturbed => HasFinal(u)'
        <3>1. CASE u = v
            BY <1>3, <1>4, <1>5, <2>1, <3>1 DEF PhaseStep, SameVideo, Shown
        <3>2. CASE u # v
            BY <1>1, <1>6, <2>1, <3>2
            DEF EditInv, SendingInv, HasFinal, Shown
        <3> QED
            BY <3>1, <3>2
    <2> QED
        BY <1>1, <1>6, <2>1 DEF SendingInv
<1>8. MovingInv'
    BY <1>1, <1>6 DEF MovingInv, EditInv, TypeInv
<1>9. RepliedInv'
    <2>1. v \notin Replied \ disturbed
        BY <1>1 DEF EditInv, RepliedInv, Spent
    <2>2. ASSUME NEW u \in Replied \ disturbed
          PROVE  Spent(u)'
        BY <1>1, <1>6, <2>1, <2>2 DEF EditInv, RepliedInv, Spent, HasFinal
    <2> QED
        BY <1>1, <1>6, <2>2 DEF RepliedInv
<1>10. TrimInv'
    <2>1. edit'[v].phase # "none" => Trimmed(edit'[v])
        BY <1>1, <1>4, <1>5
        DEF PhaseStep, SameVideo, Trimmed, EditInv, TrimInv
    <2> QED
        BY <1>6, <2>1 DEF TrimInv, EditInv
<1>11. RepliesAreRight'
    BY <1>1 DEF RepliesAreRight
<1> QED
    BY <1>7, <1>8, <1>9, <1>10, <1>11 DEF SendInv

\* A file that is moved is of an editor that does no more, or the video it
\* is of is disturbed.
LEMMA MoveStep ==
    ASSUME EditInv, RepliesAreRight, NEW v \in Video, MoveFinal(v)
    PROVE  SendInv'
<1>1. /\ moving' \subseteq moving /\ UNCHANGED <<replies, edit, stack>>
      /\ edit[v].phase \in {"sent", "none"} /\ disturbed \subseteq disturbed'
    BY DEF MoveFinal, EditInv, MovingInv
<1>2. ASSUME NEW u \in Video, u \notin disturbed', u # v, HasFinal(u)
      PROVE  HasFinal(u)'
    BY <1>2 DEF MoveFinal, HasFinal
<1>3. Replied' = Replied /\ Replied \subseteq Video /\ OnStack' = OnStack
    BY <1>1, RepliedAreVideos DEF Replied, OnStack, EditInv
<1>4. SendingInv'
    BY <1>1, <1>2, <1>3 DEF EditInv, SendingInv, Shown
<1>5. MovingInv'
    BY <1>1 DEF EditInv, MovingInv
<1>6. RepliedInv'
    <2>1. ASSUME NEW u \in Replied \ disturbed'
          PROVE  Spent(u)'
        BY <1>1, <1>2, <1>3, <2>1 DEF EditInv, RepliedInv, Spent
    <2> QED
        BY <1>3, <2>1 DEF RepliedInv
<1>7. TrimInv'
    BY <1>1 DEF EditInv, TrimInv
<1>8. RepliesAreRight'
    BY <1>1 DEF RepliesAreRight
<1> QED
    BY <1>4, <1>5, <1>6, <1>7, <1>8 DEF SendInv

\* A reply that the server takes is what the editor shows, within its
\* bounds, and the first of its video.
LEMMA AnsweredStep ==
    ASSUME EditInv, RepliesAreRight, NEW v \in Video, Answered(v)
    PROVE  SendInv'
<1> USE DEF serverVars
<1>1. /\ OwnStep(v) /\ edit[v] \in Editor /\ edit[v].phase = "posting"
      /\ UNCHANGED <<files, disturbed>>
    <2>1. ~CloseEditor(v)
        BY DEF Answered, CloseEditor, AtEditor
    <2> QED
        BY <2>1, EditorStep DEF Send, Answered, EditInv, TypeInv
<1> DEFINE new == [made |-> edit[v].sending, shown |-> Shown(v),
                   length |-> edit[v].length]
<1>2. CASE /\ \E phase \in {"failed", "editing"} : SetPhase(v, phase)
           /\ UNCHANGED <<moving, replies>>
    BY <1>1, <1>2, PhasesStep DEF Quiet
<1>3. CASE /\ \E phase \in {"sent", "failed"} :
                  /\ SetPhase(v, phase)
                  /\ moving' = IF phase = "sent" THEN moving \cup {v} ELSE moving
           /\ replies' = Append(replies, new)
    <2>1. PICK phase \in {"sent", "failed"} :
              /\ PhaseStep(v, phase)
              /\ moving' = IF phase = "sent" THEN moving \cup {v} ELSE moving
        BY <1>3, SetPhaseStep DEF EditInv
    <2>2. NoEditor.phase = "none"
        BY DEF NoEditor
    <2>3. edit'[v].phase \in {phase, "none"} /\ (phase = "failed" => v \notin moving)
        BY <1>1, <2>1, <2>2 DEF PhaseStep, EditInv, MovingInv
    <2>4. /\ OnStack' = OnStack
          /\ \A u \in Video : u # v => edit'[u] = edit[u]
          /\ \A u : HasFinal(u)' <=> HasFinal(u)
        BY <1>1 DEF OwnStep, HasFinal
    <2>5. /\ DOMAIN replies' = DOMAIN replies \cup {Len(replies) + 1}
          /\ Len(replies) + 1 \notin DOMAIN replies
          /\ \A i \in DOMAIN replies : replies'[i] = replies[i]
          /\ replies'[Len(replies) + 1] = new
        BY <1>3 DEF EditInv, TypeInv
    <2>6. new.shown = Shown(v) /\ new.shown.video = v
        BY DEF Shown
    <2>7. Replied' = Replied \cup {v} /\ Replied \subseteq Video
        BY <2>5, <2>6, RepliedAreVideos DEF Replied, EditInv
    <2>8. SendingInv'
        BY <1>1, <2>3, <2>4 DEF EditInv, SendingInv, Shown
    <2>9. MovingInv'
        BY <2>1, <2>3, <2>4 DEF EditInv, MovingInv, TypeInv
    <2>10. RepliedInv'
        <3>1. ASSUME v \notin disturbed
              PROVE  Spent(v)'
            BY <1>1, <2>3, <2>4, <3>1 DEF EditInv, SendingInv, Spent
        <3>2. ASSUME NEW u \in Replied \ disturbed, u # v
              PROVE  Spent(u)'
            BY <2>4, <2>7, <3>2 DEF EditInv, RepliedInv, Spent
        <3> QED
            BY <1>1, <2>7, <3>1, <3>2 DEF RepliedInv
    <2>11. TrimInv'
        <3>1. edit'[v].phase # "none" => Trimmed(edit'[v])
            BY <1>1, <2>1, <2>2
            DEF PhaseStep, SameVideo, Trimmed, EditInv, TrimInv
        <3> QED
            BY <2>4, <3>1 DEF TrimInv, EditInv
    <2>12. RepliesAreRight'
        <3>1. new.made = Shown(v) /\ new.length = edit[v].length
            BY <1>1 DEF EditInv, SendingInv
        <3>2. ASSUME NEW i \in DOMAIN replies, v \notin disturbed
              PROVE  replies[i].shown.video # v
            BY <1>1, <3>2 DEF EditInv, RepliedInv, Spent, Replied
        <3>3. ASSUME edit[v].length >= MinLen
              PROVE  /\ 0 <= new.made.start
                     /\ new.made.start + MinLen <= new.made.end
                     /\ new.made.end <= Thumbnails(edit[v].length)
            <4>1. /\ new.made.start = edit[v].start
                  /\ new.made.end = edit[v].end
                BY <3>1 DEF Shown
            <4>2. /\ edit[v].start \in Int /\ edit[v].end \in Int
                  /\ edit[v].offset \in Nat /\ edit[v].length \in Nat
                BY <1>1, EditorNumbers
            <4>3. Trimmed(edit[v])
                BY <1>1 DEF EditInv, TrimInv
            <4> HIDE DEF new
            <4> QED
                BY <3>3, <4>1, <4>2, <4>3, ThumbnailsFillWindow DEF Trimmed
        <3> HIDE DEF new
        <3>4. ASSUME NEW i \in DOMAIN replies', replies'[i].shown.video \notin disturbed
              PROVE  /\ replies'[i].made = replies'[i].shown
                     /\ \A j \in DOMAIN replies' \ {i} :
                           replies'[j].shown.video # replies'[i].shown.video
                     /\ replies'[i].length >= MinLen =>
                           /\ 0 <= replies'[i].made.start
                           /\ replies'[i].made.start + MinLen <= replies'[i].made.end
                           /\ replies'[i].made.end <= Thumbnails(replies'[i].length)
            <4>1. CASE i = Len(replies) + 1
                BY <2>5, <2>6, <3>1, <3>2, <3>3, <3>4, <4>1
            <4>2. CASE i \in DOMAIN replies
                <5>1. replies'[i].shown.video = v => v \notin disturbed
                    BY <3>4
                <5>2. replies[i].shown.video # v
                    BY <2>5, <3>2, <4>2, <5>1
                <5> QED
                    BY <2>5, <2>6, <3>4, <4>2, <5>2 DEF RepliesAreRight
            <4> QED
                BY <2>5, <4>1, <4>2
        <3> QED
            BY <1>1, <3>4 DEF RepliesAreRight
    <2> QED
        BY <2>8, <2>9, <2>10, <2>11, <2>12 DEF SendInv
<1> QED
    BY <1>2, <1>3 DEF Answered

-----------------------------------------------------------------------------
(* The theorems                                                            *)

VideoInv == EditInv /\ EditsThisSession /\ RepliesAreRight

\* The invariant holds initially.
LEMMA InvInit == Init => VideoInv
<1> SUFFICES ASSUME Init
             PROVE  VideoInv
    OBVIOUS
<1>1. TypeInv
    BY TypeInit
<1>2. OnStack = {} /\ Replied = {}
    BY DEF Init, OnStack, ToSet, Replied
<1>3. \A v \in Video : edit[v] = NoEditor /\ edit[v].phase = "none"
    BY DEF Init, NoEditor
<1>4. StackInv /\ RecorderInv
    BY <1>2 DEF Init, StackInv, RecorderInv
<1>5. FreshInv
    BY <1>2, <1>3 DEF Init, FreshInv, Unused
<1>6. SendingInv /\ MovingInv /\ RepliedInv /\ TrimInv
    BY <1>2, <1>3 DEF Init, SendingInv, MovingInv, RepliedInv, TrimInv
<1>7. EditsThisSession /\ RepliesAreRight
    BY <1>2 DEF Init, EditsThisSession, RepliesAreRight, OnStack
<1> QED
    BY <1>1, <1>4, <1>5, <1>6, <1>7 DEF VideoInv, EditInv

\* It is kept by every step.
LEMMA InvNext == VideoInv /\ [Next]_vars => VideoInv'
<1> SUFFICES ASSUME VideoInv, [Next]_vars
             PROVE  VideoInv'
    OBVIOUS
<1>1. EditInv /\ EditsThisSession /\ RepliesAreRight
    BY DEF VideoInv
<1>2. TypeInv /\ RecorderInv /\ SendingInv
    BY <1>1 DEF EditInv
<1>3. CASE Camera \/ \E v \in Video : Edit(v) \/ Send(v)
    <2>1. TypeInv'
        BY <1>2, <1>3, CameraType, EditType, SendType
    <2>2. StackInv' /\ RecorderInv' /\ FreshInv' /\ EditsThisSession'
        BY <1>1, <1>3, StackStep, RecorderStep, SessionStep
    <2>3. SendInv'
        <3>1. CASE Camera \/ \E v \in Video : CloseEditor(v)
            BY <1>1, <3>1, CameraStep, AsideStep
        <3>2. ASSUME NEW v \in Video, Advance(v) \/ Cancel(v) \/ ExportFailed(v)
                       \/ Uploaded(v)
              PROVE  SendInv'
            <4>1. OwnStep(v)
                <5>1. ~CloseEditor(v)
                    BY <3>2
                    DEF Advance, Cancel, ExportFailed, Uploaded, CloseEditor,
                        PopAll, AtEditor, OnTop, EditorOnly
                <5> QED
                    BY <1>2, <3>2, <5>1, EditorStep DEF Edit, Send
            <4>2. PICK phase \in (Quiet \ {"sent"}) \cup {"posting"} :
                      /\ SetPhase(v, phase)
                      /\ phase = "posting" => edit[v].phase = "uploading"
                BY <3>2 DEF Advance, Cancel, ExportFailed, Uploaded, Quiet
            <4>3. /\ UNCHANGED <<files, moving, replies, disturbed>>
                  /\ edit[v].phase \notin {"sent", "none"}
                BY <3>2
                DEF Advance, Cancel, ExportFailed, Uploaded, AtEditor,
                    EditorOnly, serverVars
            <4> QED
                BY <1>1, <4>1, <4>2, <4>3, PhasesStep
        <3> QED
            BY <1>1, <1>3, <3>1, <3>2, TrimStep, CompileStep, ExportedStep,
               AnsweredStep, MoveStep
            DEF Edit, Send
    <2> QED
        BY <2>1, <2>2, <2>3 DEF VideoInv, EditInv, SendInv
<1>4. CASE UNCHANGED vars
    <2> USE <1>1, <1>4 DEF vars, cameraVars, recordVars, serverVars, OnStack, Replied
    <2>1. TypeInv' /\ StackInv'
        BY DEF EditInv, TypeInv, StackInv
    <2>2. RecorderInv' /\ FreshInv'
        BY DEF EditInv, RecorderInv, FreshInv, Unused
    <2>3. SendingInv' /\ MovingInv'
        BY DEF EditInv, SendingInv, MovingInv, HasFinal, Shown
    <2>4. RepliedInv' /\ TrimInv'
        BY DEF EditInv, RepliedInv, TrimInv, Spent, HasFinal
    <2>5. EditsThisSession' /\ RepliesAreRight'
        BY DEF EditsThisSession, RepliesAreRight
    <2> QED
        BY <2>1, <2>2, <2>3, <2>4, <2>5 DEF VideoInv, EditInv
<1> QED
    BY <1>3, <1>4 DEF Next

\* It always holds.
LEMMA InvHolds == Spec => []VideoInv
BY InvInit, InvNext, PTL DEF Spec

\* The variables of CameraManager, the camera screen, its editors and their
\* exports stay of their types.
THEOREM TypeCorrect == Spec => []TypeOK
<1>1. VideoInv => TypeOK
    BY TypeInvIsStronger DEF VideoInv, EditInv
<1> QED
    BY <1>1, InvHolds, PTL

\* For any twysts, lengths and drags, however many videos are recorded and
\* changed: an editor on the controller is of the camera's session and finds
\* its recording in the folder, unless it was opened late.
THEOREM SessionTheorem == Spec => []EditsThisSession
<1>1. VideoInv => EditsThisSession
    BY DEF VideoInv
<1> QED
    BY <1>1, InvHolds, PTL

\* And a reply is on the server once, with what the editor shows and within
\* the bounds of its video, unless a late recording or move concerned it.
THEOREM RepliesTheorem == Spec => []RepliesAreRight
<1>1. VideoInv => RepliesAreRight
    BY DEF VideoInv
<1> QED
    BY <1>1, InvHolds, PTL
===============================================================================
