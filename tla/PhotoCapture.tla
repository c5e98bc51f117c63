---------------------------- MODULE PhotoCapture ----------------------------
(***************************************************************************)
(* Taking the photos of a twyst: CaptureViewController and its             *)
(* PhotoRegularService.  The main thread counts a shot when the user taps  *)
(* the shutter; the camera answers on a thread of its own, writes the raw  *)
(* photo to a file named by the shot's index, and a serial queue crops it  *)
(* and adds it to the frames; background queues write the cropped photo    *)
(* over the raw one.  Meanwhile the user may delete frames, discard them,  *)
(* import photos, or leave and come back.                                  *)
(***************************************************************************)
EXTENDS Integers, Sequences, FiniteSets, SequencesExt

CONSTANTS MaxFrames,   \* DEF_COUNT_MAX_FRAME
          MaxShots     \* bound: photos taken or imported

ASSUME MaxFramesAssumption == MaxFrames \in Nat \ {0}
ASSUME MaxShotsAssumption == MaxShots \in Nat

VARIABLES
    curIndex,      \* _curIndex: the index of the newest photo
    totalImages,   \* how many photos the service counts
    frameCounter,  \* _frameCounter: how many the screen shows
    frames,        \* arrFullImagePaths (and arrThumbPaths): the photos
    disk,          \* the photo in each file "<index>.jpg", or NoShot
    taking,        \* shots that the camera has not answered
    burst,         \* _queueBurstPhotos: shots to be cropped and added
    writes,        \* cropped photos to be written to their files
    importing,     \* whether an import runs, and how many photos it lacks
    cancelled,     \* isCancelCameraProcessing
    started,       \* _isRegularStarted
    buttons,       \* whether Delete and Advance can be tapped
    screen,        \* "camera", "delete", "edit" or "home"
    selectable,    \* how many frames the delete screen lets one select
    crashed,       \* an array was indexed out of its range
    taken,         \* history: the photos taken or imported so far
    hazards        \* history: what this session has met, see below

counts == <<curIndex, totalImages, frameCounter>>
background == <<taking, burst, writes>>
ui == <<started, buttons, screen, selectable, crashed>>
captureVars == <<counts, frames, disk, background, importing, cancelled, ui,
                 taken, hazards>>

Shots == 1..MaxShots
NoShot == 0
Indexes == -MaxShots .. MaxShots

\* A shot on its way, and a frame: the index that names its file and the
\* photo that belongs in it.
Shot == [index : Indexes, shot : Shots]

\* What the properties except.  "late": the user deleted frames, or left or
\* began a session, while a shot was on its way or a file was still to be
\* written; "stray": a later deletion counted the frames that came late;
\* "failed": a shot failed after a newer one was counted; "gap": a deletion
\* left a frame whose name _curIndex will give out again.
HazardKinds == {"late", "stray", "failed", "gap"}

Meets(hs) == hazards' = hazards \cup hs

InFlight == taking # {} \/ burst # <<>>

Pending == InFlight \/ writes # {}

WhenInFlight == IF InFlight THEN {"late"} ELSE {}
WhenPending == IF Pending THEN {"late"} ELSE {}

CaptureTypeOK ==
    /\ curIndex \in -1 - MaxShots .. MaxShots
    /\ totalImages \in -MaxShots .. MaxShots
    /\ frameCounter \in -MaxShots .. MaxShots
    /\ frames \in Seq(Shot) /\ Len(frames) <= MaxShots
    /\ disk \in [Indexes -> Shots \cup {NoShot}]
    /\ taking \in SUBSET Shot
    /\ burst \in Seq(Shot)
    /\ writes \in SUBSET Shot
    /\ importing \in [on : BOOLEAN, left : 0..MaxShots]
    /\ cancelled \in BOOLEAN
    /\ started \in BOOLEAN
    /\ buttons \in BOOLEAN
    /\ screen \in {"camera", "delete", "edit", "home"}
    /\ selectable \in -MaxShots .. MaxShots
    /\ crashed \in BOOLEAN
    /\ taken \in 0..MaxShots
    /\ hazards \in SUBSET HazardKinds

NoFiles == [i \in Indexes |-> NoShot]

CaptureInit ==
    /\ curIndex = -1 /\ totalImages = 0 /\ frameCounter = 0
    /\ frames = <<>>
    /\ disk = NoFiles
    /\ taking = {} /\ burst = <<>> /\ writes = {}
    /\ importing = [on |-> FALSE, left |-> 0]
    /\ cancelled \in BOOLEAN
    /\ started = FALSE
    /\ buttons = FALSE
    /\ screen = "camera"
    /\ selectable = 0
    /\ crashed = FALSE
    /\ taken = 0
    /\ hazards = {}

-----------------------------------------------------------------------------
(* Taking a photo                                                          *)

OnCamera == screen = "camera" /\ ~importing.on

\* Mutant: the cancel flag is not reset.
CapturePhoto_StayCancelled ==
    /\ OnCamera
    /\ frameCounter < MaxFrames
    /\ taken < MaxShots
    /\ taken' = taken + 1
    /\ curIndex' = curIndex + 1
    /\ totalImages' = curIndex + 2
    /\ frameCounter' = curIndex + 2
    /\ taking' = taking \cup {[index |-> curIndex + 1, shot |-> taken + 1]}
    /\ started' = TRUE
    /\ buttons' = (buttons \/ ~started)
    /\ UNCHANGED <<frames, disk, burst, writes, importing, cancelled, screen,
                   selectable, crashed, hazards>>

\* CameraCapturePhoto and captureRegularPhoto: counted before it is taken.
CapturePhoto ==
    /\ OnCamera
    /\ frameCounter < MaxFrames
    /\ taken < MaxShots
    /\ taken' = taken + 1
    /\ cancelled' = FALSE
    /\ curIndex' = curIndex + 1
    /\ totalImages' = curIndex + 2
    /\ frameCounter' = curIndex + 2
    /\ taking' = taking \cup {[index |-> curIndex + 1, shot |-> taken + 1]}
    /\ started' = TRUE
    /\ buttons' = (buttons \/ ~started)
    /\ UNCHANGED <<frames, disk, burst, writes, importing, screen,
                   selectable, crashed, hazards>>

\* The camera has taken the photo.
ShotArrives(s) ==
    /\ taking' = taking \ {s}
    /\ disk' = [disk EXCEPT ![s.index] = s.shot]
    /\ burst' = Append(burst, s)
    /\ UNCHANGED <<counts, frames, writes, importing, cancelled, ui, taken,
                   hazards>>

\* Mutant: one of the counts does not go back.
ShotFails_KeepTotal(s) ==
    /\ taking' = taking \ {s}
    /\ curIndex' = curIndex - 1
    /\ frameCounter' = curIndex
    /\ Meets(IF s.index = curIndex THEN {} ELSE {"failed"})
    /\ UNCHANGED <<totalImages, frames, disk, burst, writes, importing,
                   cancelled, ui, taken>>

\* The camera failed: the counts go back.
ShotFails(s) ==
    /\ taking' = taking \ {s}
    /\ curIndex' = curIndex - 1
    /\ totalImages' = totalImages - 1
    /\ frameCounter' = curIndex
    /\ Meets(IF s.index = curIndex THEN {} ELSE {"failed"})
    /\ UNCHANGED <<frames, disk, burst, writes, importing, cancelled, ui,
                   taken>>

\* cropAndSave: the photo is read from its file, to be written back by a
\* background queue, and becomes a frame; or it is dropped.
CropAndSave ==
    /\ burst # <<>>
    /\ burst' = Tail(burst)
    /\ LET s == Head(burst) IN
       IF cancelled
       THEN UNCHANGED <<frames, writes>>
       ELSE /\ frames' = Append(frames, s)
            /\ writes' = writes \cup
                  {[index |-> s.index, shot |-> p] :
                      p \in {disk[s.index]} \ {NoShot}}
    /\ UNCHANGED <<counts, disk, taking, importing, cancelled, ui, taken,
                   hazards>>

WriteCropped(w) ==
    /\ disk' = [disk EXCEPT ![w.index] = w.shot]
    /\ writes' = writes \ {w}
    /\ UNCHANGED <<counts, frames, taking, burst, importing, cancelled, ui,
                   taken, hazards>>

-----------------------------------------------------------------------------
(* Importing photos                                                        *)

\* uploadPhotoDidTouch and fetchPhotosFromCameraRoll: at most as many as
\* there is room for.
StartImport ==
    /\ OnCamera
    /\ frameCounter < MaxFrames
    /\ \E n \in 1 .. MaxFrames - frameCounter :
          /\ n <= MaxShots - taken
          /\ importing' = [on |-> TRUE, left |-> n]
    /\ UNCHANGED <<counts, frames, disk, background, cancelled, ui, taken,
                   hazards>>

\* Mutant: the index is not counted up.
ImportPhoto_SameIndex ==
    /\ importing.left > 0
    /\ taken' = taken + 1
    /\ importing' = [importing EXCEPT !.left = @ - 1]
    /\ disk' = [disk EXCEPT ![curIndex] = taken + 1]
    /\ frames' = Append(frames, [index |-> curIndex, shot |-> taken + 1])
    /\ UNCHANGED <<counts, background, cancelled, ui, hazards>>

ImportPhoto ==
    /\ importing.left > 0
    /\ taken' = taken + 1
    /\ importing' = [importing EXCEPT !.left = @ - 1]
    /\ curIndex' = curIndex + 1
    /\ disk' = [disk EXCEPT ![curIndex + 1] = taken + 1]
    /\ frames' = Append(frames, [index |-> curIndex + 1, shot |-> taken + 1])
    /\ UNCHANGED <<totalImages, frameCounter, background, cancelled, ui,
                   hazards>>

ImportDone ==
    /\ importing = [on |-> TRUE, left |-> 0]
    /\ importing' = [importing EXCEPT !.on = FALSE]
    /\ totalImages' = curIndex + 1
    /\ frameCounter' = curIndex + 1
    /\ buttons' = TRUE
    /\ UNCHANGED <<curIndex, frames, disk, background, cancelled, started,
                   screen, selectable, crashed, taken, hazards>>

-----------------------------------------------------------------------------
(* Deleting frames, leaving and beginning anew                             *)

\* actionCameraRegularResetAll and prepareNewRegularCapture.
ResetAll ==
    /\ curIndex' = -1
    /\ totalImages' = 0
    /\ frameCounter' = 0
    /\ frames' = <<>>
    /\ disk' = NoFiles
    /\ started' = FALSE
    /\ buttons' = FALSE
    /\ hazards' = WhenPending

DeleteAllFrames ==
    /\ OnCamera
    /\ buttons
    /\ cancelled' = TRUE
    /\ ResetAll
    /\ UNCHANGED <<background, importing, screen, selectable, crashed, taken>>

\* The delete screen shows a row for every photo that is counted, with the
\* thumbnail from the array of the frames.
OpenDelete ==
    /\ OnCamera
    /\ buttons
    /\ screen' = "delete"
    /\ selectable' = totalImages
    /\ crashed' = (Len(frames) < totalImages)
    /\ Meets(WhenInFlight)
    /\ UNCHANGED <<counts, frames, disk, background, importing, cancelled,
                   started, buttons, taken>>

CloseDelete ==
    /\ screen = "delete"
    /\ screen' = "camera"
    /\ UNCHANGED <<counts, frames, disk, background, importing, cancelled,
                   started, buttons, selectable, crashed, taken, hazards>>

\* The frames without those of the selected rows, counted from 0.
Remaining(selected) ==
    LET kept[i \in 0 .. Len(frames)] ==
            IF i = 0 THEN <<>>
            ELSE IF i - 1 \in selected THEN kept[i - 1]
            ELSE Append(kept[i - 1], frames[i])
    IN  kept[Len(frames)]

OutOfRange(selected) ==
    \/ totalImages > selectable
    \/ \E i \in selected : i < totalImages /\ i >= Len(frames)

\* After a deletion the counts follow the number of frames, whatever their
\* names and wherever they come from.
After(rest) ==
    {"gap" : f \in {g \in ToSet(rest) : g.index >= Len(rest)}}
        \cup {"stray" : h \in hazards \cap {"late"}}

\* deleteFrames.
DeleteFrames ==
    /\ screen = "delete"
    /\ screen' = "camera"
    /\ cancelled' = TRUE
    /\ \E selected \in SUBSET (0 .. selectable - 1) :
          LET rest == Remaining({i \in selected : i < totalImages}) IN
          /\ crashed' = OutOfRange(selected)
          /\ IF rest = <<>> THEN ResetAll
             ELSE /\ frames' = rest
                  /\ curIndex' = Len(rest) - 1
                  /\ totalImages' = Len(rest)
                  /\ frameCounter' = Len(rest)
                  /\ hazards' = (hazards \ {"late"}) \cup WhenPending
                                 \cup After(rest)
                  /\ UNCHANGED <<disk, started, buttons>>
    /\ UNCHANGED <<background, importing, selectable, taken>>

GoHome ==
    /\ OnCamera
    /\ screen' = "home"
    /\ cancelled' = TRUE
    /\ Meets(WhenInFlight)
    /\ UNCHANGED <<counts, frames, disk, background, importing, started,
                   buttons, selectable, crashed, taken>>

\* handleBtnAdvanceTouch: the edit screen takes over the frames.
Advance ==
    /\ OnCamera
    /\ buttons
    /\ screen' = "edit"
    /\ UNCHANGED <<counts, frames, disk, background, importing, cancelled,
                   started, buttons, selectable, crashed, taken, hazards>>

StartNewSession ==
    /\ screen \in {"home", "edit"}
    /\ screen' = "camera"
    /\ ResetAll
    /\ UNCHANGED <<background, importing, cancelled, selectable, crashed,
                   taken>>

User ==
    \/ CapturePhoto \/ StartImport \/ DeleteAllFrames
    \/ OpenDelete \/ CloseDelete \/ DeleteFrames
    \/ GoHome \/ Advance \/ StartNewSession

Queues ==
    \/ \E s \in taking : ShotArrives(s) \/ ShotFails(s)
    \/ CropAndSave
    \/ \E w \in writes : WriteCropped(w)
    \/ ImportPhoto \/ ImportDone

CaptureNext == ~crashed /\ (User \/ Queues)

CaptureSpec == CaptureInit /\ [][CaptureNext]_captureVars

-----------------------------------------------------------------------------
(* Properties                                                              *)

\* A twyst has at most as many frames as are allowed, however taps, failures
\* and imports mix.
AtMostMaxFrames ==
    hazards \cap {"late", "stray"} = {}
        => Len(frames) + Cardinality(taking) + Len(burst) + importing.left
              <= MaxFrames

\* The delete screen stays within its arrays.
NoCrash == crashed => "late" \in hazards

\* The three counts of two objects agree, and count the frames and the
\* shots on their way: nothing is lost or counted twice between the tap on
\* the shutter and the serial queue; and so the limit holds, and the delete
\* screen stays within its arrays.
CountsAgree ==
    /\ screen \in {"camera", "delete"} /\ ~importing.on /\ "late" \notin hazards
          => /\ totalImages = curIndex + 1
             /\ frameCounter = totalImages
             /\ totalImages = Len(frames) + Cardinality(taking) + Len(burst)
    /\ AtMostMaxFrames
    /\ NoCrash

\* Every frame's file holds its own photo, raw or cropped, although names
\* are given out again after deletions and failures.
FramesKeepTheirPhoto ==
    hazards = {} => \A f \in ToSet(frames) : disk[f.index] = f.shot

\* A photo that the camera has taken becomes a frame: a cancelled capture
\* does not take later shots along.
NoShotDropped ==
    [][\A s \in ToSet(burst) :
          s \in ToSet(burst') \cup ToSet(frames') \/ "late" \in hazards']_captureVars
=============================================================================
