----------------------------- MODULE PhotoEdit -----------------------------
(***************************************************************************)
(* Editing the photos of a twyst or of a reply: FlipframePhotoModel (the   *)
(* photos and what was done to each), EditPhotoViewController with its     *)
(* EditLargeImageView, EditCommentView and EditBlurView, the frames screen *)
(* (EditFramesViewController) that saves and deletes, and the compilation  *)
(* of the final images that are shared or sent as a reply.                 *)
(*                                                                         *)
(* Everything that was done to a photo is kept by its index, and what the  *)
(* screen shows is loaded by blocks and keyboard notifications that come   *)
(* later than the tap that caused them.                                    *)
(***************************************************************************)
EXTENDS Naturals, Sequences, SequencesExt, FiniteSets

CONSTANTS MaxPhotos,   \* bound: photos taken
          Filters,     \* filter indexes, 0 among them
          Kinds,       \* the kinds of changes the user makes
          IsSaveVideo, \* the setting: save to the camera roll
          MaxEdits,    \* bound: changes made by the user
          MaxLoads     \* bound: load blocks on the main queue

ASSUME MaxPhotosAssumption == MaxPhotos \in Nat \ {0}
ASSUME FiltersAssumption == 0 \in Filters /\ Filters \subseteq Nat
ASSUME KindsAssumption ==
    Kinds \subseteq {"comment", "filter", "draw", "blur", "save", "trash",
                     "finish"}
ASSUME IsSaveVideoAssumption == IsSaveVideo \in BOOLEAN
ASSUME BoundsAssumption == MaxEdits \in Nat /\ MaxLoads \in Nat \ {0}

\* A photo is known by its file, and a file by the first frame that has it.
Photos == 1..MaxPhotos

\* What is in the full image file of a photo, or in its backup.
Contents == {"original", "blurred", "none"}

\* What a comment or a stroke is known by: the photo the user saw when
\* writing it.  0 is no comment, and a stroke that is to be on every photo.
Mark == 0..MaxPhotos

VARIABLES
    model,        \* the FlipframePhotoModel
    drawing,      \* the drawing file of each photo, {} if there is none
    content,      \* the full image file of each photo
    backup,       \* the backup file of each photo
    album,        \* <<filter, photo>> that are in the camera roll
    final,        \* the final image files
    view,         \* the EditLargeImageView
    screen,       \* what is on the screen
    canvas,       \* the strokes of the drawing view, {} if not isChanged
    selected,     \* _selectedIndexes of the frames screen
    deselecting,  \* deselectAll blocks on the main queue
    current,      \* the frame that is shown singly, blurred or compiled, else 1
    isReply,      \* the photos are a reply to a twyst
    encoding,     \* blocks of serviceEncodeFlipframe on the global queue
    replies,      \* server: the replies it took, each with its images
    edits,        \* bounded by MaxEdits
    hazards       \* history: what has happened that the code does not handle

fileVars == <<drawing, content, backup, album, final>>
framesVars == <<selected, deselecting>>
replyVars == <<isReply, encoding, replies>>
vars == <<model, fileVars, view, screen, canvas, framesVars, current,
          replyVars, edits, hazards>>

-----------------------------------------------------------------------------
(* The model                                                               *)

\* Everything but the photos is kept by index; `saved' is dictImageSaved
\* and `comments' is dictComment.
Model == [photos : BoundedSeq(Photos, MaxPhotos),
          drawApplied : BoundedSeq(BOOLEAN, MaxPhotos),
          blurApplied : BoundedSeq(BOOLEAN, MaxPhotos),
          saved : [Filters -> SUBSET Photos],
          comments : [Photos -> Mark],
          filter : Filters]

NewModel(s) ==
    [photos |-> s,
     drawApplied |-> [i \in DOMAIN s |-> FALSE],
     blurApplied |-> [i \in DOMAIN s |-> FALSE],
     saved |-> [f \in Filters |-> {}],
     comments |-> [i \in Photos |-> 0],
     filter |-> 0]

Count(m) == Len(m.photos)

\* Mutant: the save flags stay where they are.
RemoveCurrentImage_KeepSaved(m, i) ==
    [m EXCEPT !.photos = RemoveAt(@, i),
              !.drawApplied = RemoveAt(@, i),
              !.blurApplied = RemoveAt(@, i)]

\* removeCurrentImage.  The comments stay where they are; the file of the
\* frame goes too (Gone).
RemoveCurrentImage(m, i) ==
    [m EXCEPT
        !.photos = RemoveAt(@, i),
        !.drawApplied = RemoveAt(@, i),
        !.blurApplied = RemoveAt(@, i),
        !.saved = [f \in Filters |->
                      {k \in @[f] : k < i} \cup {k - 1 : k \in {l \in @[f] : l > i}}]]

\* deleteFrames: from the last to the first.
DeleteFrames(m, I) ==
    LET from[i \in 1 .. Count(m) + 1] ==
            IF i > Count(m) THEN m
            ELSE IF i \in I THEN RemoveCurrentImage(from[i + 1], i)
            ELSE from[i + 1]
    IN  from[1]

\* The files of the photos after the frames of I were deleted: by path, so a
\* frame that has the same photo loses its image.
Gone(I) == [p \in Photos |-> IF \E i \in I : model.photos[i] = p THEN "none"
                             ELSE content[p]]

\* What the user sees of the frame at i once it is compiled; without content
\* it has no final file.
NoImage == [photo |-> 0, content |-> "none", filter |-> 0, strokes |-> {},
            comment |-> 0]

Render(i) ==
    LET p == model.photos[i] IN
    [photo |-> p, content |-> content[p], filter |-> model.filter,
     strokes |-> IF model.drawApplied[i] THEN drawing[p] ELSE {},
     comment |-> model.comments[i]]

-----------------------------------------------------------------------------
(* The view                                                                *)

\* `shown' is the photo of the image in _previewView, `label' and `text'
\* the texts of the EditCommentView, `typing' that its text field is the
\* first responder, `editing' is _isEditingComment, `loads' the blocks of
\* actionLoadNextImage on the main queue.  The keyboard belongs to it or to
\* the theme view.
View == [index : Photos, shown : Mark, label : Mark, text : Mark,
         typing : BOOLEAN, editing : BOOLEAN,
         keyboard : {"down", "up", "hiding"}, loads : 0..MaxLoads]

NewView == [index |-> 1, shown |-> 1, label |-> 0, text |-> 0,
            typing |-> FALSE, editing |-> FALSE, keyboard |-> "down",
            loads |-> 0]

PhotoAt(m, i) == IF i <= Count(m) THEN m.photos[i] ELSE 0

\* resignFirstResponder, with textFieldDidEndEditing; the keyboard goes.
Resigned(v) ==
    IF ~v.typing THEN v
    ELSE [v EXCEPT !.typing = FALSE, !.keyboard = "hiding",
                   !.label = IF v.text # 0 THEN v.text ELSE @,
                   !.text = 0]

\* reloadImageEffect.  Its delegate asks for isBlurAppliedAtIndex:, which
\* raises an exception for an index out of range.
Reloaded(v, m) == [v EXCEPT !.shown = PhotoAt(m, v.index)]

Screens == {"edit", "draw", "blur", "theme", "frames", "single", "confirm",
            "compiling", "share", "upload", "post", "failed", "sent",
            "crashed"}

Hazards == {"shifted", "stale", "crossed", "dangling", "twice", "lost",
            "late", "shared", "encoded"}

Edit(kind) ==
    /\ kind \in Kinds
    /\ edits < MaxEdits
    /\ edits' = edits + 1

TypeOK ==
    /\ model \in Model
    /\ Len(model.drawApplied) = Count(model)
    /\ Len(model.blurApplied) = Count(model)
    /\ drawing \in [Photos -> SUBSET Mark]
    /\ content \in [Photos -> Contents]
    /\ backup \in [Photos -> Contents]
    /\ album \subseteq Filters \X Photos
    /\ DOMAIN final = Photos
    /\ view \in View
    /\ screen \in Screens
    /\ canvas \in SUBSET Photos
    /\ selected \in BoundedSeq(BOOLEAN, MaxPhotos)
    /\ deselecting \in BOOLEAN
    /\ current \in 1 .. MaxPhotos + 1
    /\ isReply \in BOOLEAN
    /\ encoding \in Nat
    /\ edits \in 0..MaxEdits
    /\ hazards \subseteq Hazards

\* No photo is there twice.
Distinct(m) ==
    \A i, j \in 1 .. Count(m) : m.photos[i] = m.photos[j] => i = j

\* A session begins with the photos that were taken or imported; their
\* folder is empty but for them.  The camera may hand over one file twice: a
\* deletion sets its counter back to the photos that are left, and the next
\* photo takes a name that is in use.
Init ==
    /\ \E s \in BoundedSeq(Photos, MaxPhotos) :
          /\ s # <<>> /\ \A i \in DOMAIN s : s[i] <= i
          /\ model = NewModel(s)
    /\ hazards = IF Distinct(model) THEN {} ELSE {"shared"}
    /\ drawing = [p \in Photos |-> {}]
    /\ content = [p \in Photos |-> "original"]
    /\ backup = [p \in Photos |-> "none"]
    /\ album = {}
    /\ final = [i \in Photos |-> NoImage]
    /\ view = NewView
    /\ screen = "edit"
    /\ canvas = {}
    /\ selected = <<>>
    /\ deselecting = FALSE
    /\ current = 1
    /\ isReply \in BOOLEAN
    /\ encoding = 0
    /\ replies = <<>>
    /\ edits = 0

-----------------------------------------------------------------------------
(* The preview and its comment                                             *)

NothingElse == UNCHANGED <<fileVars, canvas, framesVars, current, replyVars>>

\* actionLoadNextImage: the index moves on, the image and the comment
\* follow with a block on the main queue.
NextImage(v) ==
    [v EXCEPT !.index = IF @ < Count(model) THEN @ + 1 ELSE 1,
              !.loads = @ + 1]

\* handleTapPreview.
TapPreview ==
    /\ screen = "edit"
    /\ \/ view.editing /\ view' = Resigned(view)
       \/ ~view.editing /\ view.loads < MaxLoads /\ view' = NextImage(view)
    /\ UNCHANGED <<model, screen, edits, hazards>> /\ NothingElse

\* The touch timer of a long press, or its end at the last frame: neither
\* asks whether a comment is being edited or what has been opened meanwhile.
HoldPreview ==
    /\ screen # "crashed"
    /\ view.loads < MaxLoads
    /\ view' = NextImage(view)
    /\ hazards' = IF screen = "draw" /\ canvas # {} THEN hazards \cup {"crossed"}
                  ELSE hazards
    /\ UNCHANGED <<model, screen, edits>> /\ NothingElse

\* Mutant: actionLoadComment is left out.
LoadImage_NoComment ==
    /\ screen # "crashed"
    /\ view.loads > 0
    /\ view' = [Resigned(view) EXCEPT !.shown = PhotoAt(model, view.index),
                                      !.loads = @ - 1]
    /\ UNCHANGED <<model, screen, edits, hazards>> /\ NothingElse

\* The block of actionLoadNextImage, with actionLoadComment.
LoadImage ==
    /\ screen # "crashed"
    /\ view.loads > 0
    /\ view' = [Resigned(view) EXCEPT !.shown = PhotoAt(model, view.index),
                                      !.label = model.comments[view.index],
                                      !.text = 0,
                                      !.loads = @ - 1]
    /\ UNCHANGED <<model, screen, edits, hazards>> /\ NothingElse

\* handleSwipeDownPreview, with textFieldDidBeginEditing.
SwipeDown ==
    /\ screen = "edit"
    /\ view' = [view EXCEPT !.typing = TRUE, !.editing = TRUE,
                            !.keyboard = "up",
                            !.text = IF view.label # 0 THEN view.label ELSE @,
                            !.label = 0]
    /\ UNCHANGED <<model, screen, edits, hazards>> /\ NothingElse

\* The user writes about the photo on the screen, or deletes the text.
TypeComment ==
    /\ screen = "edit" /\ view.typing
    /\ Edit("comment")
    /\ \E t \in {0, view.shown} : view' = [view EXCEPT !.text = t]
    /\ UNCHANGED <<model, screen, hazards>> /\ NothingElse

\* The final images are being made or used.
Compiled == {"compiling", "share", "upload", "post", "sent"}

\* setCommentAtIndex: with the label, at the index of now.
StoreComment ==
    /\ model' = [model EXCEPT !.comments[view.index] = view.label]
    /\ hazards' = hazards
          \cup (IF view.loads > 0 THEN {"crossed"} ELSE {})
          \cup (IF screen \in Compiled /\ model' # model THEN {"late"} ELSE {})

\* keyboardDidHide: of the comment's keyboard or of any other.
KeyboardDidHide ==
    /\ screen # "crashed"
    /\ view.keyboard = "hiding"
    /\ StoreComment
    /\ view' = [view EXCEPT !.keyboard = "down", !.editing = FALSE]
    /\ UNCHANGED <<screen, edits>> /\ NothingElse

\* touchesEnded of a comment that was dragged.
DragComment ==
    /\ screen = "edit" /\ ~view.editing /\ view.label # 0
    /\ StoreComment
    /\ UNCHANGED <<view, screen, edits>> /\ NothingElse

-----------------------------------------------------------------------------
(* Filters, drawing and blur                                               *)

InRange == view.index <= Count(model)

\* A handler that asks the model for a flag of the frame at an index beyond
\* the last raises an exception, and the app is gone.
Crash ==
    /\ ~InRange
    /\ screen' = "crashed"
    /\ UNCHANGED <<model, view, edits, hazards>> /\ NothingElse

SelectFilter(f) ==
    /\ screen = "edit" /\ view.keyboard # "up"
    /\ f # model.filter
    /\ InRange /\ Edit("filter")
    /\ model' = [model EXCEPT !.filter = f]
    /\ view' = Reloaded(view, model)
    /\ UNCHANGED <<screen, hazards>> /\ NothingElse

\* handleBtnDrawTouch, which begins with reloadDrawingButtonStatus; the
\* filter and blur buttons ask for a flag just as well.
BeginDrawing ==
    /\ screen = "edit" /\ view.keyboard # "up"
    /\ InRange
    /\ screen' = "draw"
    /\ canvas' = {}
    /\ UNCHANGED <<model, fileVars, view, framesVars, current, replyVars,
                   edits, hazards>>

TouchCrashes == screen = "edit" /\ view.keyboard # "up" /\ Crash

Stroke ==
    /\ screen = "draw" /\ view.shown # 0
    /\ Edit("draw")
    /\ canvas' = canvas \cup {view.shown}
    /\ hazards' = IF view.loads > 0 THEN hazards \cup {"crossed"} ELSE hazards
    /\ UNCHANGED <<model, fileVars, view, screen, framesVars, current,
                   replyVars>>

\* applyDrawingAtIndex: over the drawing file that is there.
AppliedTo(m, i) == [m EXCEPT !.drawApplied[i] = TRUE]

EndDrawing ==
    /\ screen = "draw"
    /\ screen' = "edit"
    /\ IF canvas # {}
       THEN /\ model' = AppliedTo(model, view.index)
            /\ drawing' = [drawing EXCEPT
                              ![model.photos[view.index]] = @ \cup canvas]
            /\ view' = Reloaded(view, model)
       ELSE UNCHANGED <<model, drawing, view>>
    /\ UNCHANGED <<content, backup, album, final, canvas, framesVars, current,
                   replyVars, edits, hazards>>

CancelDrawing ==
    /\ screen = "draw"
    /\ screen' = "edit"
    /\ canvas' = {}
    /\ UNCHANGED <<model, fileVars, view, framesVars, current, replyVars,
                   edits, hazards>>

\* Mutant: the file is removed and the flag is not reset.
RestoreOrigin_KeepFlag ==
    /\ screen = "draw"
    /\ drawing' = [drawing EXCEPT ![model.photos[view.index]] = {}]
    /\ canvas' = {}
    /\ view' = Reloaded(view, model)
    /\ UNCHANGED <<model, content, backup, album, final, screen, framesVars,
                   current, replyVars, edits, hazards>>

\* removeDrawingAtIndex: the file goes only with a flag that is set.
RestoreOrigin ==
    /\ screen = "draw"
    /\ IF model.drawApplied[view.index]
       THEN /\ drawing' = [drawing EXCEPT ![model.photos[view.index]] = {}]
            /\ model' = [model EXCEPT !.drawApplied[view.index] = FALSE]
       ELSE UNCHANGED <<drawing, model>>
    /\ canvas' = {}
    /\ view' = Reloaded(view, model)
    /\ UNCHANGED <<content, backup, album, final, screen, framesVars, current,
                   replyVars, edits, hazards>>

\* applyDrawingToAll and removeAllDrawing run in the background; a view
\* covers the screen until they are done, and nothing else that can happen
\* meanwhile touches a drawing.
ApplyToAll ==
    /\ screen = "draw" /\ canvas # {}
    /\ model' = [model EXCEPT !.drawApplied = [i \in DOMAIN @ |-> TRUE]]
    /\ drawing' = [p \in Photos |-> IF p \in ToSet(model.photos)
                                    THEN drawing[p] \cup {0} ELSE drawing[p]]
    /\ canvas' = {}
    /\ view' = Reloaded(view, model)
    /\ UNCHANGED <<content, backup, album, final, screen, framesVars, current,
                   replyVars, edits, hazards>>

RemoveAllDrawing ==
    /\ screen = "draw"
    /\ model' = [model EXCEPT !.drawApplied = [i \in DOMAIN @ |-> FALSE]]
    /\ drawing' = [p \in Photos |-> IF p \in ToSet(model.photos)
                                    THEN {} ELSE drawing[p]]
    /\ canvas' = {}
    /\ view' = Reloaded(view, model)
    /\ UNCHANGED <<content, backup, album, final, screen, framesVars, current,
                   replyVars, edits, hazards>>

\* handleBtnBlurTouch for a frame that is not blurred: the blur view keeps
\* the index of now.
BeginBlur ==
    /\ screen = "edit" /\ view.keyboard # "up"
    /\ InRange /\ ~model.blurApplied[view.index]
    /\ screen' = "blur"
    /\ current' = view.index
    /\ UNCHANGED <<model, fileVars, view, canvas, framesVars, replyVars, edits,
                   hazards>>

CancelBlur ==
    /\ screen = "blur"
    /\ screen' = "edit"
    /\ current' = 1
    /\ UNCHANGED <<model, fileVars, view, canvas, framesVars, replyVars, edits,
                   hazards>>

\* handleBtnApplyTouch: backUpOriginalFullImageAtIndex keeps the file only
\* if it has not kept one yet.
ApplyBlur ==
    /\ screen = "blur"
    /\ Edit("blur")
    /\ LET p == model.photos[current] IN
          /\ backup' = [backup EXCEPT ![p] = IF @ = "none" THEN content[p] ELSE @]
          /\ content' = [content EXCEPT ![p] = "blurred"]
    /\ model' = [model EXCEPT !.blurApplied[current] = TRUE]
    /\ view' = Reloaded(view, model)
    /\ screen' = "edit"
    /\ current' = 1
    /\ UNCHANGED <<drawing, album, final, canvas, framesVars, replyVars,
                   hazards>>

\* actionRemoveBlurEffect.
RemoveBlur ==
    /\ screen = "edit" /\ view.keyboard # "up"
    /\ InRange /\ model.blurApplied[view.index]
    /\ LET p == model.photos[view.index] IN
          content' = [content EXCEPT ![p] = IF backup[p] = "none" THEN @
                                            ELSE backup[p]]
    /\ model' = [model EXCEPT !.blurApplied[view.index] = FALSE]
    /\ view' = Reloaded(view, model)
    /\ UNCHANGED <<drawing, backup, album, final, screen, canvas, framesVars,
                   current, replyVars, edits, hazards>>

-----------------------------------------------------------------------------
(* The frames screen                                                       *)

NoneSelected(m) == [i \in 1 .. Count(m) |-> FALSE]

OpenFrames ==
    /\ screen = "edit" /\ view.keyboard # "up"
    /\ screen' = "frames"
    /\ selected' = NoneSelected(model)
    /\ UNCHANGED <<model, fileVars, view, canvas, deselecting, current,
                   replyVars, edits, hazards>>

CloseFrames ==
    /\ screen = "frames"
    /\ screen' = "edit"
    /\ selected' = <<>>
    /\ deselecting' = FALSE
    /\ UNCHANGED <<model, fileVars, view, canvas, current, replyVars, edits,
                   hazards>>

SelectFrame(i) ==
    /\ screen = "frames"
    /\ i \in DOMAIN selected /\ i <= Count(model)
    /\ selected' = [selected EXCEPT ![i] = ~@]
    /\ UNCHANGED <<model, fileVars, view, screen, canvas, deselecting, current,
                   replyVars, edits, hazards>>

\* The block of deselectAll.
DeselectAll ==
    /\ deselecting
    /\ selected' = NoneSelected(model)
    /\ deselecting' = FALSE
    /\ UNCHANGED <<model, fileVars, view, screen, canvas, current, replyVars,
                   edits, hazards>>

CanSaveFrame(i) == i \notin model.saved[model.filter]

HasImage(i) == content[model.photos[i]] # "none"

\* saveSingleFrameAtIndex and notifySavedImage.
Save(I) ==
    /\ album' = album \cup {<<model.filter, model.photos[i]>> :
                               i \in {j \in I : HasImage(j)}}
    /\ model' = [model EXCEPT !.saved[model.filter] = @ \cup I]

\* saveFrames, and deselectAll after it.
SaveSelected ==
    /\ IsSaveVideo /\ screen = "frames"
    /\ LET I == {i \in 1 .. Count(model) : selected[i] /\ CanSaveFrame(i)} IN
          /\ I # {}
          /\ Save(I)
    /\ Edit("save")
    /\ deselecting' = TRUE
    /\ UNCHANGED <<drawing, content, backup, final, view, screen, canvas,
                   selected, current, replyVars, hazards>>

\* Deleting a frame at or before one that has a comment.
Shifts(I) ==
    IF \E i \in I : \E j \in i..MaxPhotos : model.comments[j] # 0
    THEN {"shifted"} ELSE {}

\* What the view shows is no longer what is at its index.
IsStale(v, m) ==
    IF v.shown # PhotoAt(m, v.index) \/ v.label # m.comments[v.index]
    THEN {"stale"} ELSE {}

\* Mutant: the view keeps its index.
TrashSelected_KeepIndex ==
    /\ screen = "frames"
    /\ TRUE \in ToSet(selected) /\ FALSE \in ToSet(selected)
    /\ Edit("trash")
    /\ LET I == {i \in 1 .. Count(model) : selected[i]}
           m == DeleteFrames(model, I)
           v == Reloaded(view, m)
       IN
          /\ model' = m
          /\ content' = Gone(I)
          /\ view' = v
          /\ screen' = IF Count(m) = 0 THEN "crashed" ELSE screen
          /\ hazards' = hazards \cup Shifts(I) \cup IsStale(v, m)
                            \cup (IF deselecting THEN {"twice"} ELSE {})
    /\ deselecting' = TRUE
    /\ UNCHANGED <<drawing, backup, album, final, canvas, selected, current,
                   replyVars>>

\* handleBtnTrashTouch.  Its button and its selection are those of before
\* the last deletion until the block of deselectAll has run; the full image
\* of the first frame is shown then, but not its comment.
TrashSelected ==
    /\ screen = "frames"
    /\ TRUE \in ToSet(selected) /\ FALSE \in ToSet(selected)
    /\ Edit("trash")
    /\ LET I == {i \in 1 .. Count(model) : selected[i]}
           m == DeleteFrames(model, I)
           v == [view EXCEPT !.index = 1, !.shown = PhotoAt(m, 1)]
       IN
          /\ model' = m
          /\ content' = Gone(I)
          /\ view' = v
          /\ screen' = IF Count(m) = 0 THEN "crashed" ELSE screen
          /\ hazards' = hazards \cup Shifts(I) \cup IsStale(v, m)
                            \cup (IF deselecting THEN {"twice"} ELSE {})
    /\ deselecting' = TRUE
    /\ UNCHANGED <<drawing, backup, album, final, canvas, selected, current,
                   replyVars>>

OpenSingle(i) ==
    /\ screen = "frames"
    /\ i <= Count(model)
    /\ TRUE \notin ToSet(selected)
    /\ screen' = "single"
    /\ current' = i
    /\ UNCHANGED <<model, fileVars, view, canvas, framesVars, replyVars, edits,
                   hazards>>

NextSingle ==
    /\ screen = "single"
    /\ current' = IF current < Count(model) THEN current + 1 ELSE 1
    /\ UNCHANGED <<model, fileVars, view, screen, canvas, framesVars,
                   replyVars, edits, hazards>>

SaveSingle ==
    /\ IsSaveVideo /\ screen = "single"
    /\ Edit("save")
    /\ Save({current})
    /\ UNCHANGED <<drawing, content, backup, final, view, screen, canvas,
                   framesVars, current, replyVars, hazards>>

\* handleBtnSingleTrashTouch: the view behind is not told.
TrashSingle ==
    /\ screen = "single"
    /\ Count(model) > 1
    /\ Edit("trash")
    /\ LET m == RemoveCurrentImage(model, current) IN
          /\ model' = m
          /\ content' = Gone({current})
          /\ current' = IF current > Count(m) THEN 1 ELSE current
          /\ hazards' = hazards \cup Shifts({current}) \cup IsStale(view, m)
                            \cup (IF view.index > Count(m) THEN {"dangling"}
                                  ELSE {})
    /\ UNCHANGED <<drawing, backup, album, final, view, screen, canvas,
                   framesVars, replyVars>>

CloseSingle ==
    /\ screen = "single"
    /\ screen' = "frames"
    /\ current' = 1
    /\ deselecting' = TRUE
    /\ UNCHANGED <<model, fileVars, view, canvas, selected, replyVars, edits,
                   hazards>>

-----------------------------------------------------------------------------
(* From the theme or the reply panel to the final images                   *)

\* handleBtnAdvanceTouch.
Advance ==
    /\ screen = "edit" /\ view.keyboard # "up"
    /\ screen' = IF isReply THEN "confirm" ELSE "theme"
    /\ UNCHANGED <<model, view, edits, hazards>> /\ NothingElse

\* The caption is typed, and its keyboard sent away.
ThemeBegins ==
    /\ screen = "theme" /\ ~view.typing
    /\ view' = [view EXCEPT !.keyboard = "up"]
    /\ UNCHANGED <<model, screen, edits, hazards>> /\ NothingElse

ThemeEnds ==
    /\ screen = "theme" /\ view.keyboard = "up"
    /\ view' = [view EXCEPT !.keyboard = "hiding"]
    /\ UNCHANGED <<model, screen, edits, hazards>> /\ NothingElse

\* Mutant: the reply panel can be left when the reply was sent.
GoBack_FromSent ==
    /\ screen \in {"theme", "confirm", "failed", "share", "sent"}
    /\ view.keyboard # "up"
    /\ screen' = "edit"
    /\ UNCHANGED <<model, view, edits, hazards>> /\ NothingElse

\* handleBtnCloseTouch of the theme, handleBtnReplyCancelTouch, and the way
\* back from the share screen.
GoBack ==
    /\ screen \in {"theme", "confirm", "failed", "share"}
    /\ view.keyboard # "up"
    /\ screen' = "edit"
    /\ UNCHANGED <<model, view, edits, hazards>> /\ NothingElse

\* handleBtnDoneTouch, handleBtnReplySendTouch: serviceCompileFlipframe
\* begins on a thread of its own.
BeginCompile ==
    /\ screen \in {"theme", "confirm"}
    /\ view.keyboard # "up"
    /\ Edit("finish")
    /\ screen' = "compiling"
    /\ current' = 1
    /\ UNCHANGED <<model, fileVars, view, canvas, framesVars, replyVars,
                   hazards>>

\* Mutant: a final image that is there is not made again.
CompileFrame_OnlyNew ==
    /\ screen = "compiling"
    /\ current <= Count(model)
    /\ final' = [final EXCEPT ![current] = IF @ = NoImage THEN Render(current)
                                           ELSE @]
    /\ current' = current + 1
    /\ UNCHANGED <<model, drawing, content, backup, album, view, screen, canvas,
                   framesVars, replyVars, edits, hazards>>

CompileFrame ==
    /\ screen = "compiling"
    /\ current <= Count(model)
    /\ final' = [final EXCEPT ![current] = Render(current)]
    /\ current' = current + 1
    /\ UNCHANGED <<model, drawing, content, backup, album, view, screen, canvas,
                   framesVars, replyVars, edits, hazards>>

\* With the images compiled; those of a twyst go to the camera roll as well.
CompileDone ==
    /\ screen = "compiling"
    /\ current > Count(model)
    /\ screen' = IF isReply THEN "upload" ELSE "share"
    /\ current' = 1
    /\ encoding' = IF IsSaveVideo /\ ~isReply THEN encoding + 1 ELSE encoding
    /\ UNCHANGED <<model, fileVars, view, canvas, framesVars, isReply, replies,
                   edits, hazards>>

\* The block of serviceEncodeFlipframe, some time later: the final image of
\* the only frame is saved, without notifySavedImage; of more frames a movie
\* is made.
EncodeFlipframe ==
    /\ screen # "crashed"
    /\ encoding > 0
    /\ encoding' = encoding - 1
    /\ IF Count(model) = 1 /\ final[1].content # "none"
       THEN /\ album' = album \cup {<<final[1].filter, final[1].photo>>}
            /\ hazards' = IF /\ final[1].photo = model.photos[1]
                             /\ 1 \notin model.saved[final[1].filter]
                          THEN hazards \cup {"encoded"} ELSE hazards
       ELSE UNCHANGED <<album, hazards>>
    /\ UNCHANGED <<model, drawing, content, backup, final, view, screen, canvas,
                   framesVars, current, isReply, replies, edits>>

Images == SubSeq(final, 1, Count(model))

\* uploadTwyst of the archive.
Upload ==
    /\ screen = "upload"
    /\ screen' \in {"post", "failed"}
    /\ UNCHANGED <<model, view, edits, hazards>> /\ NothingElse

\* addReplyToTwyst: accepted, refused because the twyst is deleted, or
\* failed; an answer may be lost after the server has taken the reply.
PostReply ==
    /\ screen = "post"
    /\ \/ /\ replies' = Append(replies, Images)
          /\ \/ screen' = "sent" /\ UNCHANGED hazards
             \/ screen' = "failed" /\ hazards' = hazards \cup {"lost"}
       \/ /\ screen' \in {"edit", "failed"}
          /\ UNCHANGED <<replies, hazards>>
    /\ UNCHANGED <<model, fileVars, view, canvas, framesVars, current, isReply,
                   encoding, edits>>

-----------------------------------------------------------------------------
(* The specification                                                       *)

Preview ==
    \/ TapPreview \/ HoldPreview \/ LoadImage \/ SwipeDown \/ TypeComment
    \/ KeyboardDidHide \/ DragComment

Effects ==
    \/ \E f \in Filters : SelectFilter(f)
    \/ TouchCrashes
    \/ BeginDrawing \/ Stroke \/ EndDrawing \/ CancelDrawing
    \/ RestoreOrigin \/ ApplyToAll \/ RemoveAllDrawing
    \/ BeginBlur \/ CancelBlur \/ ApplyBlur \/ RemoveBlur

Frames ==
    \/ OpenFrames \/ CloseFrames \/ DeselectAll
    \/ \E i \in Photos : SelectFrame(i) \/ OpenSingle(i)
    \/ SaveSelected \/ TrashSelected
    \/ NextSingle \/ SaveSingle \/ TrashSingle \/ CloseSingle

Finish ==
    \/ Advance \/ ThemeBegins \/ ThemeEnds \/ GoBack
    \/ BeginCompile \/ CompileFrame \/ CompileDone \/ EncodeFlipframe
    \/ Upload \/ PostReply

Next == Preview \/ Effects \/ Frames \/ Finish

Spec == Init /\ [][Next]_vars

-----------------------------------------------------------------------------
(* Safety                                                                  *)

Frame == 1 .. Count(model)

\* A comment and a stroke stay on the photo they were made on (a stroke
\* may be meant for all), through every deletion, late block and late
\* notification; the exceptions are those of the code: the comments are not
\* moved when a frame before them is deleted, and what the view holds of
\* one frame is stored for another if that one is not loaded yet or at all.
MarksStay ==
    hazards \cap {"stale", "crossed"} = {} =>
        /\ \A p \in Photos : drawing[p] \subseteq {0, p}
        /\ \/ "shifted" \in hazards
           \/ \A i \in Frame : model.comments[i] \in {0, model.photos[i]}

\* What the buttons say of a frame is true, whatever was deleted: it has a
\* drawing, none is left behind for the next; it is blurred, any other is
\* as it was taken, however often it was blurred.  The exception is that of
\* the code: the camera handed over two frames with one file, and what is
\* done to one is done to the other.
EffectsAreFlagged ==
    "shared" \notin hazards =>
        \A i \in Frame :
            /\ model.drawApplied[i] <=> drawing[model.photos[i]] # {}
            /\ content[model.photos[i]] =
                   IF model.blurApplied[i] THEN "blurred" ELSE "original"

\* A frame that shows as saved is in the camera roll with the filter of now;
\* and one that is there shows as saved, unless it went there when the twyst
\* was compiled, for which the code sets no flag.
SavedIsInAlbum ==
    "shared" \notin hazards =>
        \A f \in Filters, i \in Frame :
            /\ i \in model.saved[f] => <<f, model.photos[i]>> \in album
            /\ <<f, model.photos[i]>> \in album /\ "encoded" \notin hazards =>
                  i \in model.saved[f]

\* No handler asks for a frame that is not there, unless the single-frame
\* preview has deleted the one behind it.
NoCrash ==
    hazards \cap {"twice", "dangling"} = {} => screen # "crashed" /\ InRange

\* What is shared, uploaded or was sent is what the editor shows, unless the
\* keyboard that brings the last comment was still going away.
FinalIsCurrent ==
    screen \in Compiled \ {"compiling"} /\ "late" \notin hazards =>
        \A i \in Frame : final[i] = Render(i)

\* The server has a reply once, and as it was when it was sent, unless the
\* answer to an earlier attempt was lost.
ReplySentOnce ==
    "lost" \notin hazards =>
        /\ Len(replies) <= 1
        /\ replies # <<>> =>
              screen = "sent" /\ Len(replies[1]) = Count(model)
=============================================================================
