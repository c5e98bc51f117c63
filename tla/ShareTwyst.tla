----------------------------- MODULE ShareTwyst -----------------------------
(***************************************************************************)
(* Sending a new twyst from the share screen: the app server creates it,   *)
(* the blob store takes its thumbnail and its archive (or movie), the app  *)
(* server shares it with the friends, and the app saves it locally.  Every *)
(* failure asks the server to delete the twyst, without waiting for the    *)
(* answer, and lets the user send again, which creates another twyst.      *)
(*                                                                         *)
(* A request may be lost, and the app may give up on one that the server   *)
(* has carried out, or will carry out later: the connection error of a     *)
(* request says nothing of its effect.                                     *)
(***************************************************************************)
EXTENDS Naturals, FiniteSets

CONSTANTS Ids,          \* the ids that the server gives out
          NoId,         \* the app has none
          MaxAttempts   \* bound: how often the user taps Send

ASSUME NoIdAssumption == NoId \notin Ids
ASSUME MaxAttemptsAssumption == MaxAttempts \in Nat

VARIABLES
    server,      \* server: what has become of each id
    thumbs,      \* blob store: thumbnails
    archives,    \* blob store: archives and movies
    requests,    \* requests on their way to the app server
    answer,      \* the twyst in the answer that is on its way to the app
    movie,       \* whether the draft is a movie
    step,        \* _stepSharing, by the name of the step
    twyst,       \* twyst1: what the server has created for this attempt
    attempts,    \* bounded by MaxAttempts
    saved,       \* the twysts that have a TSavedTwyst
    unheard,     \* history: created for a request the app had given up
    undeleted,   \* history: the request to delete it was lost
    abandoned    \* history: the app was killed while sending it

serverVars == <<server, thumbs, archives>>
appVars == <<movie, step, twyst, attempts, saved>>
history == <<unheard, undeleted, abandoned>>
vars == <<serverVars, requests, answer, appVars, history>>

\* `attempt' tells the create requests apart.
Request ==
    [kind : {"create"}, id : {NoId}, attempt : 1..MaxAttempts]
        \cup [kind : {"share", "delete"}, id : Ids, attempt : {0}]

CreateRequest(n) == [kind |-> "create", id |-> NoId, attempt |-> n]
ShareRequest(i) == [kind |-> "share", id |-> i, attempt |-> 0]
DeleteRequest(i) == [kind |-> "delete", id |-> i, attempt |-> 0]

TypeOK ==
    /\ server \in [Ids -> {"free", "created", "shared", "deleted"}]
    /\ thumbs \in SUBSET Ids
    /\ archives \in SUBSET Ids
    /\ requests \in SUBSET Request
    /\ answer \in Ids \cup {NoId}
    /\ movie \in BOOLEAN
    /\ step \in {"idle", "create", "zip", "thumb", "archive", "share",
                 "save", "done", "left"}
    /\ twyst \in Ids \cup {NoId}
    /\ attempts \in 0..MaxAttempts
    /\ saved \in SUBSET Ids
    /\ unheard \in SUBSET Ids
    /\ undeleted \in SUBSET Ids
    /\ abandoned \in SUBSET Ids

Init ==
    /\ server = [i \in Ids |-> "free"]
    /\ thumbs = {}
    /\ archives = {}
    /\ requests = {}
    /\ answer = NoId
    /\ movie \in BOOLEAN
    /\ step = "idle"
    /\ twyst = NoId
    /\ attempts = 0
    /\ saved = {}
    /\ unheard = {}
    /\ undeleted = {}
    /\ abandoned = {}

-----------------------------------------------------------------------------
(* The app server                                                          *)

Awaits(r) ==
    \/ r.kind = "create" /\ step = "create" /\ r.attempt = attempts
    \/ r.kind = "share" /\ step = "share" /\ r.id = twyst

ServerCreates(r, i) ==
    /\ r.kind = "create"
    /\ server[i] = "free"
    /\ server' = [server EXCEPT ![i] = "created"]
    /\ requests' = requests \ {r}
    /\ answer' = IF Awaits(r) THEN i ELSE answer
    /\ unheard' = IF Awaits(r) THEN unheard ELSE unheard \cup {i}
    /\ UNCHANGED <<thumbs, archives, appVars, undeleted, abandoned>>

\* A twyst that was deleted meanwhile is not shared any more.
ServerShares(r) ==
    /\ r.kind = "share"
    /\ requests' = requests \ {r}
    /\ IF server[r.id] = "created"
       THEN /\ server' = [server EXCEPT ![r.id] = "shared"]
            /\ answer' = IF Awaits(r) THEN r.id ELSE answer
       ELSE UNCHANGED <<server, answer>>
    /\ UNCHANGED <<thumbs, archives, appVars, history>>

ServerDeletes(r) ==
    /\ r.kind = "delete"
    /\ requests' = requests \ {r}
    /\ server' = [server EXCEPT ![r.id] = "deleted"]
    /\ UNCHANGED <<thumbs, archives, answer, appVars, history>>

RequestLost(r) ==
    /\ requests' = requests \ {r}
    /\ undeleted' = IF r.kind = "delete" THEN undeleted \cup {r.id}
                                         ELSE undeleted
    /\ UNCHANGED <<serverVars, answer, appVars, unheard, abandoned>>

-----------------------------------------------------------------------------
(* The share screen                                                        *)

\* Mutant: the deletion is not asked for.
Failed_KeepTwyst ==
    /\ step' = "idle"
    /\ twyst' = NoId
    /\ answer' = NoId
    /\ UNCHANGED requests

\* handleShareTwystFailed: with an id, ask for its deletion and forget it.
Failed ==
    /\ step' = "idle"
    /\ twyst' = NoId
    /\ answer' = NoId
    /\ requests' = IF twyst = NoId THEN requests
                   ELSE requests \cup {DeleteRequest(twyst)}

Goes(next) == step' = next /\ UNCHANGED <<twyst, answer, requests>>

HandleBtnSend ==
    /\ step = "idle"
    /\ attempts < MaxAttempts
    /\ attempts' = attempts + 1
    /\ step' = "create"
    /\ requests' = requests \cup {CreateRequest(attempts + 1)}
    /\ UNCHANGED <<serverVars, answer, movie, twyst, saved, history>>

CreateAnswered ==
    /\ step = "create"
    /\ answer # NoId
    /\ twyst' = answer
    /\ answer' = NoId
    /\ step' = IF movie THEN "thumb" ELSE "zip"
    /\ UNCHANGED <<serverVars, requests, movie, attempts, saved, history>>

\* Whatever the server did or will do with the request.
CreateFails ==
    /\ step = "create"
    /\ Failed
    /\ unheard' = IF answer = NoId THEN unheard ELSE unheard \cup {answer}
    /\ UNCHANGED <<serverVars, movie, attempts, saved, undeleted, abandoned>>

ZipFiles ==
    /\ step = "zip"
    /\ Goes("thumb") \/ Failed
    /\ UNCHANGED <<serverVars, movie, attempts, saved, history>>

\* An upload that fails may have reached the store all the same.
UploadThumb ==
    /\ step = "thumb"
    /\ \/ thumbs' = thumbs \cup {twyst} /\ Goes("archive")
       \/ thumbs' \in {thumbs, thumbs \cup {twyst}} /\ Failed
    /\ UNCHANGED <<server, archives, movie, attempts, saved, history>>

\* Mutant: a failed upload goes unnoticed.
UploadTwyst_ShareAnyway ==
    /\ step = "archive"
    /\ archives' \in {archives, archives \cup {twyst}}
    /\ step' = "share"
    /\ requests' = requests \cup {ShareRequest(twyst)}
    /\ UNCHANGED <<server, thumbs, answer, movie, twyst, attempts, saved,
                   history>>

UploadTwyst ==
    /\ step = "archive"
    /\ \/ /\ archives' = archives \cup {twyst}
          /\ step' = "share"
          /\ requests' = requests \cup {ShareRequest(twyst)}
          /\ UNCHANGED <<twyst, answer>>
       \/ archives' \in {archives, archives \cup {twyst}} /\ Failed
    /\ UNCHANGED <<server, thumbs, movie, attempts, saved, history>>

ShareAnswered ==
    /\ step = "share"
    /\ answer = twyst
    /\ step' = "save"
    /\ answer' = NoId
    /\ UNCHANGED <<serverVars, requests, movie, twyst, attempts, saved,
                   history>>

\* Mutant: the twyst is saved although sharing it failed.
ShareFails_Saved ==
    /\ step = "share"
    /\ step' = "save"
    /\ answer' = NoId
    /\ UNCHANGED <<serverVars, requests, movie, twyst, attempts, saved,
                   history>>

\* Mutant: the failure leaves the step as it is.
ShareFails_Silent ==
    /\ step = "share"
    /\ requests' = requests \cup {DeleteRequest(twyst)}
    /\ UNCHANGED <<serverVars, answer, appVars, history>>

\* Whatever the server did or will do with the request.
ShareFails ==
    /\ step = "share"
    /\ Failed
    /\ UNCHANGED <<serverVars, movie, attempts, saved, history>>

\* actionSaveTwyst, on a thread of its own.  If the movie cannot be copied
\* nothing is saved, but the app says "created successfully" and closes
\* the screen as ever.
SaveTwyst ==
    /\ step = "save"
    /\ \/ saved' = saved \cup {twyst}
       \/ movie /\ UNCHANGED saved
    /\ Goes("done")
    /\ UNCHANGED <<serverVars, movie, attempts, history>>

\* actionCloseShareScreen without sending, or the app is killed.
Leave ==
    /\ step \notin {"done", "left"}
    /\ abandoned' = abandoned \cup ({twyst, answer} \ {NoId})
    /\ step' = "left"
    /\ twyst' = NoId
    /\ answer' = NoId
    /\ UNCHANGED <<serverVars, requests, movie, attempts, saved, unheard,
                   undeleted>>

Sending ==
    \/ CreateAnswered \/ CreateFails \/ ZipFiles \/ UploadThumb
    \/ UploadTwyst \/ ShareAnswered \/ ShareFails \/ SaveTwyst

Server ==
    \E r \in requests :
        \/ \E i \in Ids : ServerCreates(r, i)
        \/ ServerShares(r) \/ ServerDeletes(r) \/ RequestLost(r)

Next == Server \/ HandleBtnSend \/ Sending \/ Leave

Spec == Init /\ [][Next]_vars

\* Every request and every upload of the app ends, if only by a timeout.
FairSpec == Spec /\ WF_vars(Sending)

-----------------------------------------------------------------------------
(* Properties                                                              *)

\* What the friends are told of is there for them to download, although
\* the uploads and the server's twyst are on different machines.
SharedIsUploaded ==
    \A i \in Ids : server[i] = "shared" => i \in thumbs \cap archives

\* A twyst that the app has saved, or has told the user was created, is
\* shared and stays so: no deletion of an earlier attempt hits it.
SuccessIsShared ==
    \A i \in saved \cup (IF step = "done" THEN {twyst} ELSE {}) :
        server[i] = "shared" /\ DeleteRequest(i) \notin requests

Quiet == requests = {} /\ step \in {"idle", "done", "left"}

\* Nothing is left on the server of a failed attempt, once all is quiet,
\* except where the app did not hear of it, was killed, or its deletion,
\* which is never repeated, was lost.
NoOrphans ==
    Quiet => \A i \in Ids :
                server[i] = "created" => i \in unheard \cup undeleted
                                                 \cup abandoned

\* A draft that was sent again is shared once, with the same exceptions.
SharedOnce ==
    Quiet => Cardinality({i \in Ids : server[i] = "shared"}
                            \ (undeleted \cup abandoned)) <= 1

\* Sending comes to an end, and the screen is free again.
SendEnds == (step = "create") ~> (step \in {"idle", "done", "left"})
=============================================================================
