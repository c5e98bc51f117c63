----------------------------- MODULE VideoTwyst -----------------------------
(***************************************************************************)
(* From the shutter to a video on the server: CameraManager's recording,   *)
(* the camera screen and the navigation controller it is the root of, the  *)
(* video editor with its trimming, the export of a FlipframeVideoModel,    *)
(* and the reply.  All recordings share one file of the temporary folder,  *)
(* and all exports another; a new camera session empties the folder.       *)
(*                                                                         *)
(* AVFoundation's recorder and exporter run beside the main thread, and    *)
(* the camera's buttons stay enabled while a recording ends.  Times are in *)
(* units of which a cell of the trim view shows Cell, and its window       *)
(* MaxLen.                                                                 *)
(***************************************************************************)
EXTENDS Integers, Sequences, SequencesExt

CONSTANTS
    Twysts,      \* twysts one can reply to
    NoTwyst,     \* the session of a new twyst
    Lengths,     \* lengths of recordings and of the videos in the camera roll
    MinLen,      \* DEF_VIDEO_MIN_LEN, and the second a recording has to last
    MaxLen,      \* DEF_VIDEO_MAX_LEN, the end of every recording
    Cell,        \* what a cell of the trim view shows
    Drags,       \* distances a finger moves
    MaxVideos,   \* bound: videos recorded or imported
    MaxEdits     \* bound: changes to a video

ASSUME SessionsAssumption == NoTwyst \notin Twysts

ASSUME LengthsAssumption ==
    /\ MinLen \in Nat \ {0} /\ MaxLen \in Nat /\ MinLen < MaxLen
    /\ Lengths \subseteq Nat \ {0} /\ Drags \subseteq Int
    /\ Cell \in Nat \ {0} /\ MaxLen % Cell = 0

ASSUME BoundsAssumption == MaxVideos \in Nat /\ MaxEdits \in Nat

VARIABLES
    home,        \* the home screens are away, being presented over, or up
    session,     \* _twystId of the camera
    photos,      \* a photo was taken: no video any more
    holding,     \* _buttonState is CameraButtonStateVideo
    recorder,    \* the movie output, and _isMovieRecording
    picker,      \* the image picker is over the camera
    stack,       \* the screens above the camera: numbers of videos
    edit,        \* the editor and the model of each video
    files,       \* capturingVideo.mov and FinalVideo.mp4
    videos,      \* videos so far
    moving,      \* replies of which a background block moves the file
    replies,     \* replies on the server
    crashed,     \* an exception was raised
    disturbed    \* history: videos that a late recording, or move, concerned

cameraVars == <<home, session, photos, picker>>
recordVars == <<holding, recorder, videos>>
serverVars == <<moving, replies, crashed>>

vars == <<cameraVars, recordVars, serverVars, stack, edit, files, disturbed>>

Video == 1 .. MaxVideos
Sessions == Twysts \cup {NoTwyst}

\* A screen that waits for nothing but the user, and one that does not.
Quiet == {"editing", "theme", "asking", "failed", "sent", "shared"}
Busy == {"creating", "exporting", "uploading", "posting"}

\* What an export makes: a part of a video, with its changes.
Content ==
    [video : Video, changes : 0..MaxEdits, start : Int, end : Int]
NoFile == [video |-> 0]

Editor ==
    [phase : Quiet \cup Busy \cup {"none"}, twyst : Sessions,
     captured : BOOLEAN, length : Lengths \cup {0}, duration : Int,
     start : Int, end : Int, offset : Nat, changes : 0..MaxEdits,
     free : BOOLEAN, sending : Content \cup {NoFile}]
NoEditor ==
    [phase |-> "none", twyst |-> NoTwyst, captured |-> FALSE, length |-> 0,
     duration |-> 0, start |-> 0, end |-> 0, offset |-> 0, changes |-> 0,
     free |-> FALSE, sending |-> NoFile]

TypeOK ==
    /\ home \in {"away", "presenting", "up"} /\ session \in Sessions
    /\ photos \in BOOLEAN /\ holding \in BOOLEAN /\ picker \in BOOLEAN
    /\ recorder \in [state : {"off", "on", "ending"}, video : 0..MaxVideos,
                     own : BOOLEAN]
    /\ stack \in Seq(Video) /\ edit \in [Video -> Editor]
    /\ files \in [capture : 0..MaxVideos, final : Content \cup {NoFile}]
    /\ videos \in 0..MaxVideos /\ moving \subseteq Video
    /\ \A i \in DOMAIN replies : replies[i].made \in Content
    /\ crashed \in BOOLEAN /\ disturbed \subseteq Video

Init ==
    /\ home = "up" /\ session = NoTwyst /\ photos = FALSE
    /\ holding = FALSE /\ picker = FALSE
    /\ recorder = [state |-> "off", video |-> 0, own |-> FALSE]
    /\ stack = <<>> /\ edit = [v \in Video |-> NoEditor]
    /\ files = [capture |-> 0, final |-> NoFile] /\ videos = 0
    /\ moving = {} /\ replies = <<>> /\ crashed = FALSE /\ disturbed = {}

AtCamera == home = "away" /\ ~picker /\ stack = <<>>
OnTop(v) == home = "away" /\ ~picker /\ stack # <<>> /\ Last(stack) = v

-----------------------------------------------------------------------------
(* The camera screen, its sessions, and the home screen over it            *)

\* A new session empties the folder; a recording goes on.
NewSession(twyst) ==
    /\ session' = twyst
    /\ photos' = FALSE
    /\ files' = [capture |-> 0, final |-> NoFile]

Disowned == [recorder EXCEPT !.own = FALSE]

\* The screens above the camera go.  An editor that waits for an answer
\* lives on in the block that will be given it.
PopAll ==
    /\ stack' = <<>>
    /\ edit' = [v \in Video |->
                   IF edit[v].phase \in Busy THEN edit[v] ELSE NoEditor]

GoToCamera(twyst) ==
    /\ home = "up"
    /\ home' = "away"
    /\ NewSession(twyst)
    /\ recorder' = Disowned
    /\ UNCHANGED <<holding, picker, videos, stack, edit, serverVars, disturbed>>

\* The home screens come back: from the camera, after a reply was sent, or
\* from the share screen.
BackToHomeScreen ==
    /\ \/ AtCamera
       \/ \E v \in Video : OnTop(v) /\ edit[v].phase \in {"sent", "shared"}
    /\ home' = "presenting"
    /\ UNCHANGED <<session, photos, picker, recordVars, stack, edit, files,
                   serverVars, disturbed>>

\* Mutant: the editor stays on the controller.
HomeShown_Keep ==
    /\ home = "presenting"
    /\ home' = "up"
    /\ UNCHANGED <<session, photos, picker, recordVars, stack, edit, files,
                   serverVars, disturbed>>

\* The presentation is complete: the camera is alone on its controller.
HomeShown ==
    /\ home = "presenting"
    /\ home' = "up"
    /\ PopAll
    /\ UNCHANGED <<session, photos, picker, recordVars, files, serverVars,
                   disturbed>>

\* A photo ends the enabling of videos for the session.
TakePhoto ==
    /\ AtCamera /\ ~holding /\ ~photos
    /\ photos' = TRUE
    /\ UNCHANGED <<home, session, picker, recordVars, stack, edit, files,
                   serverVars, disturbed>>

\* Discard All: the session begins again.
DiscardPhotos ==
    /\ AtCamera /\ photos
    /\ NewSession(session)
    /\ recorder' = Disowned
    /\ UNCHANGED <<home, holding, picker, videos, stack, edit, serverVars,
                   disturbed>>

OpenPicker ==
    /\ AtCamera
    /\ picker' = TRUE
    /\ UNCHANGED <<home, session, photos, recordVars, stack, edit, files,
                   serverVars, disturbed>>

CancelPicker ==
    /\ picker
    /\ picker' = FALSE
    /\ UNCHANGED <<home, session, photos, recordVars, stack, edit, files,
                   serverVars, disturbed>>

\* The whole video is selected, or as much as the window takes.
NewEditor(isCapture, length) ==
    [phase |-> "editing", twyst |-> session, captured |-> isCapture,
     length |-> length, duration |-> length, start |-> 0,
     end |-> Min({length, MaxLen}), offset |-> 0, changes |-> 0,
     free |-> FALSE, sending |-> NoFile]

\* The editor is made for the session of the moment and pushed, whatever
\* screen is on top.
OpenEditor(v, isCapture, length) ==
    /\ edit' = [edit EXCEPT ![v] = NewEditor(isCapture, length)]
    /\ stack' = Append(stack, v)

PickVideo(length) ==
    /\ picker /\ videos < MaxVideos
    /\ picker' = FALSE
    /\ videos' = videos + 1
    /\ OpenEditor(videos', FALSE, length)
    /\ UNCHANGED <<home, session, photos, holding, recorder, files, serverVars,
                   disturbed>>

-----------------------------------------------------------------------------
(* Recording                                                               *)

\* The long press: the old file is removed, unless a recording runs.
CaptureVideoStart ==
    /\ AtCamera /\ ~holding /\ ~photos
    /\ holding' = TRUE
    /\ \/ /\ recorder.state = "off" /\ videos < MaxVideos
          /\ videos' = videos + 1
          /\ recorder' = [state |-> "on", video |-> videos', own |-> TRUE]
          /\ files' = [files EXCEPT !.capture = videos']
       \/ recorder.state # "off" /\ UNCHANGED <<videos, recorder, files>>
    /\ UNCHANGED <<cameraVars, stack, edit, serverVars, disturbed>>

\* Its end, or its cancellation by what comes over the camera.
CaptureVideoEnd ==
    /\ holding
    /\ holding' = FALSE
    /\ recorder' = [recorder EXCEPT
                       !.state = IF @ = "on" THEN "ending" ELSE @]
    /\ UNCHANGED <<cameraVars, videos, stack, edit, files, serverVars, disturbed>>

\* The recorder is done: told to be, at its maximum, or stopped with the
\* camera.  The screen is taken for the one it was.
RecordingFinished(length) ==
    LET late == ~(AtCamera /\ recorder.own) IN
    /\ recorder.state # "off" /\ length <= MaxLen
    /\ holding' = FALSE
    /\ \/ /\ length < MinLen
          /\ NewSession(session)
          /\ disturbed' = disturbed \cup (IF late THEN 1..videos ELSE {})
          /\ UNCHANGED <<stack, edit>>
       \/ /\ length >= MinLen
          /\ OpenEditor(recorder.video, TRUE, length)
          /\ disturbed' = disturbed \cup
                             (IF late THEN {recorder.video} ELSE {})
          /\ UNCHANGED <<session, photos, files>>
    /\ recorder' = [state |-> "off", video |-> 0, own |-> FALSE]
    /\ UNCHANGED <<home, picker, videos, serverVars>>

-----------------------------------------------------------------------------
(* The editor                                                              *)

\* The next phase of an editor, which is gone after the last answer that it
\* waited for if its screen is.
InPhase(v, phase) ==
    IF phase \in Busy \/ Contains(stack, v)
      THEN [edit[v] EXCEPT !.phase = phase] ELSE NoEditor

SetPhase(v, phase) == edit' = [edit EXCEPT ![v] = InPhase(v, phase)]

\* The user does something in the editor on top.
AtEditor(v, phases) == OnTop(v) /\ edit[v].phase \in phases

EditorOnly ==
    UNCHANGED <<cameraVars, recordVars, stack, files, serverVars, disturbed>>

\* A comment or a drawing.
Change(v) ==
    /\ AtEditor(v, {"editing"}) /\ edit[v].changes < MaxEdits
    /\ edit' = [edit EXCEPT ![v].changes = @ + 1]
    /\ EditorOnly

\* The thumbnails of a video take whole cells, at least a window of them.
Thumbnails(length) == Max({MaxLen, Cell * ((length + Cell - 1) \div Cell)})

\* The left selector moves: not beyond the window, nor the beginning, nor
\* closer than the minimum to the right one; in this order.
TrimLeft(v, drag) ==
    LET e == edit[v]
        window == Max({drag, e.offset - e.start})
        begun == Max({window, -e.start})
    IN  /\ AtEditor(v, {"editing"}) /\ e.changes < MaxEdits
        /\ edit' = [edit EXCEPT ![v] =
                       [e EXCEPT !.start = Min({@ + begun, e.end - MinLen}),
                                 !.changes = @ + 1]]
        /\ EditorOnly

\* And the right one: nor beyond the duration, which an export has set to
\* that of the part it made.
TrimRight(v, drag) ==
    LET e == edit[v]
        window == Min({drag, e.offset + MaxLen - e.end})
        ended == Min({window, e.duration - e.end})
    IN  /\ AtEditor(v, {"editing"}) /\ e.changes < MaxEdits
        /\ edit' = [edit EXCEPT ![v] =
                       [e EXCEPT !.end = Max({@ + ended, e.start + MinLen}),
                                 !.changes = @ + 1]]
        /\ EditorOnly

\* The thumbnails are scrolled under the selectors.
Scroll(v, offset) ==
    LET e == edit[v] IN
    /\ AtEditor(v, {"editing"}) /\ e.changes < MaxEdits
    /\ offset # e.offset /\ offset + MaxLen <= Thumbnails(e.length)
    /\ edit' = [edit EXCEPT ![v] =
                   [e EXCEPT !.start = @ + offset - e.offset,
                             !.end = @ + offset - e.offset,
                             !.offset = offset,
                             !.changes = @ + 1]]
    /\ EditorOnly

\* The close button: all screens go, and a session begins for the twyst of
\* the editor.
CloseEditor(v) ==
    /\ AtEditor(v, {"editing"})
    /\ PopAll
    /\ NewSession(edit[v].twyst)
    /\ recorder' = Disowned
    /\ UNCHANGED <<home, holding, picker, videos, serverVars, disturbed>>

\* The advance button asks for a theme, or whether to send the reply.
Advance(v) ==
    /\ AtEditor(v, {"editing"})
    /\ SetPhase(v, IF edit[v].twyst = NoTwyst THEN "theme" ELSE "asking")
    /\ EditorOnly

\* Back to the editor: before sending, or after it failed.
Cancel(v) ==
    /\ AtEditor(v, {"theme", "asking", "failed"})
    /\ SetPhase(v, "editing")
    /\ EditorOnly

-----------------------------------------------------------------------------
(* Exporting and sending                                                   *)

\* The model takes the duration of its part before anything is made, and
\* the first track of a file that may be gone.  The exporter looks whether
\* the path of its output is free.
Compile(v) ==
    LET e == edit[v] IN
    /\ AtEditor(v, {"theme", "asking"})
    /\ \/ /\ e.captured /\ files.capture = 0
          /\ crashed' = TRUE
          /\ UNCHANGED edit
       \/ /\ e.captured => files.capture # 0
          /\ edit' = [edit EXCEPT ![v] =
                [e EXCEPT !.phase = IF @ = "theme" THEN "creating"
                                    ELSE "exporting",
                          !.duration = e.end - e.start,
                          !.free = files.final = NoFile]]
          /\ UNCHANGED crashed
    /\ UNCHANGED <<cameraVars, recordVars, moving, replies, stack, files,
                   disturbed>>

\* What the editor of a video shows.
Shown(v) ==
    [video |-> v, changes |-> edit[v].changes, start |-> edit[v].start,
     end |-> edit[v].end]

\* The exporter does not write over a file, be it of another export that
\* began with it.  What it has made is uploaded as it is now, or shared.
Exported(v) ==
    /\ edit[v].free /\ files.final = NoFile
    /\ files' = [files EXCEPT !.final = Shown(v)]
    /\ \/ /\ edit[v].phase = "creating"
          /\ SetPhase(v, "shared")
          /\ stack' = IF Contains(stack, v) THEN Append(stack, v) ELSE stack
       \/ /\ edit[v].phase = "exporting"
          /\ edit' = [edit EXCEPT ![v] = [@ EXCEPT !.phase = "uploading",
                                                   !.sending = Shown(v)]]
          /\ UNCHANGED stack
    /\ UNCHANGED <<cameraVars, recordVars, serverVars, disturbed>>

\* Mutant: the exporter's status is not looked at.
ExportFailed_Sent(v) ==
    /\ edit[v].phase \in {"creating", "exporting"}
    /\ edit' = [edit EXCEPT ![v].phase =
                   IF @ = "creating" THEN "editing" ELSE
                   IF files.final = NoFile THEN "failed" ELSE "uploading",
                            ![v].sending = files.final]
    /\ EditorOnly

\* It fails, as it always does where there is a file already.
ExportFailed(v) ==
    /\ edit[v].phase \in {"creating", "exporting"}
    /\ SetPhase(v, IF edit[v].phase = "creating" THEN "editing" ELSE "failed")
    /\ EditorOnly

Uploaded(v) ==
    /\ edit[v].phase = "uploading"
    /\ \E phase \in {"posting", "failed"} : SetPhase(v, phase)
    /\ EditorOnly

\* The server takes the reply and says so; then the file is moved to the
\* saved twyst later.  Or its answer is lost; or it takes nothing; or the
\* twyst is deleted.
Answered(v) ==
    /\ edit[v].phase = "posting"
    /\ \/ /\ \E phase \in {"sent", "failed"} :
              /\ SetPhase(v, phase)
              /\ moving' = IF phase = "sent" THEN moving \cup {v} ELSE moving
          /\ replies' = Append(replies,
                               [made |-> edit[v].sending, shown |-> Shown(v),
                                length |-> edit[v].length])
       \/ /\ \E phase \in {"failed", "editing"} : SetPhase(v, phase)
          /\ UNCHANGED <<moving, replies>>
    /\ UNCHANGED <<cameraVars, recordVars, crashed, stack, files, disturbed>>

\* The background block moves the file that is there, if the twyst is saved.
MoveFinal(v) ==
    /\ v \in moving
    /\ moving' = moving \ {v}
    /\ \/ /\ files.final # NoFile
          /\ files' = [files EXCEPT !.final = NoFile]
          /\ disturbed' = disturbed \cup ({files.final.video} \ {v})
       \/ UNCHANGED <<files, disturbed>>
    /\ UNCHANGED <<cameraVars, recordVars, replies, crashed, stack, edit>>

-----------------------------------------------------------------------------
Camera ==
    \/ \E t \in Sessions : GoToCamera(t)
    \/ BackToHomeScreen \/ HomeShown
    \/ TakePhoto \/ DiscardPhotos \/ OpenPicker \/ CancelPicker
    \/ CaptureVideoStart \/ CaptureVideoEnd
    \/ \E l \in Lengths : PickVideo(l) \/ RecordingFinished(l)

Edit(v) ==
    \/ Change(v)
    \/ \E d \in Drags : TrimLeft(v, d) \/ TrimRight(v, d)
    \/ \E o \in 0 .. Max(Lengths) : Scroll(v, o)
    \/ CloseEditor(v) \/ Advance(v) \/ Cancel(v)

Send(v) ==
    \/ Compile(v) \/ Exported(v) \/ ExportFailed(v)
    \/ Uploaded(v) \/ Answered(v) \/ MoveFinal(v)

Next == ~crashed /\ (Camera \/ \E v \in Video : Edit(v) \/ Send(v))

Spec == Init /\ [][Next]_vars

-----------------------------------------------------------------------------
(* Properties                                                              *)

\* An editor on the controller is of the camera's session, and finds its
\* video in the folder that every session empties: a compile does not ask
\* for the track of a video that is gone, and a reply goes to the twyst
\* that the camera was opened for.  Not so if a recording finished when the
\* camera was closed, covered, or opened anew: its editor comes up in the
\* next session.
EditsThisSession ==
    \A v \in ToSet(stack) \ disturbed :
        /\ edit[v].twyst = session
        /\ edit[v].captured => files.capture = v

\* A reply is on the server once, with the changes that the editor shows;
\* and is a part, of at least the minimum, of a video that is that long.
\* All of it, although sending can fail at every step, all exports share a
\* file, and failed attempts leave it behind.
RepliesAreRight ==
    \A i \in DOMAIN replies :
        LET r == replies[i] IN
            r.shown.video \notin disturbed =>
                /\ r.made = r.shown
                /\ \A j \in DOMAIN replies \ {i} :
                      replies[j].shown.video # r.shown.video
                /\ r.length >= MinLen =>
                      /\ 0 <= r.made.start
                      /\ r.made.start + MinLen <= r.made.end
                      /\ r.made.end <= Thumbnails(r.length)
=============================================================================
