------------------------ MODULE TwystDownloadProofs ------------------------
(***************************************************************************)
(* Theorems about TwystDownload, for any twysts, queues, lists of replies  *)
(* and frame counts.                                                       *)
(*                                                                         *)
(* The first part is about the service: its types, its queues, its         *)
(* notifications and the contract.  The second is about the records that   *)
(* it, the user's own replies and the deletions leave in the store: how    *)
(* their frames are numbered, that each reply in them is whole and has its *)
(* files, that no reply is lost, and that a notification finds every reply *)
(* it announces.  The invariants of the second part build on each other:   *)
(* NumberInv (who numbers what, and that a local reply is alone unless     *)
(* noted), RecordInv and FetchInv (what a download knows), NewestInv (no   *)
(* list on the main queue is older than what is saved), SoleInv (one       *)
(* worker has to do with a calm twyst, and saves no less than is there),   *)
(* WholeInv and FilesInv (what a record shows), CompleteInv (what a        *)
(* notification announces).                                                *)
(***************************************************************************)
EXTENDS TwystDownload, SequenceTheorems, FiniteSetTheorems,
        WellFoundedInduction, TLAPS

\* A sorted position is a natural number.
LEMMA RankType ==
    ASSUME NEW F \in FrameSet, NEW f
    PROVE  Rank(f, F) \in Nat
<1>1. {g \in F : SortsBefore(g, f)} \subseteq F
    OBVIOUS
<1>2. IsFiniteSet({g \in F : SortsBefore(g, f)})
    BY <1>1, FS_Subset DEF FrameSet
<1> QED
    BY <1>2, FS_CardinalityType DEF Rank

\* Frames taken over from a saved set of frames are a set of frames.
LEMMA ReusedFramesType ==
    ASSUME NEW F \in FrameSet, NEW r \in Replies, NEW n \in Nat
    PROVE  ReusedFrames(F, r, n) \in FrameSet
<1> DEFINE G == FramesOf(F, r)
           new(f) == [reply |-> r, order |-> n + Rank(f, G),
                      replyIndex |-> r - 1, local |-> FALSE]
<1>1. G \in FrameSet
    BY FS_Subset DEF FramesOf, FrameSet
<1>2. \A f \in G : new(f) \in Frame
    BY <1>1, RankType DEF Frame, Replies
<1>3. [f \in G |-> new(f)] \in Surjection(G, {new(f) : f \in G})
    BY DEF Surjection
<1>4. IsFiniteSet({new(f) : f \in G})
    BY <1>1, <1>3, FS_Surjection DEF FrameSet
<1> QED
    BY <1>2, <1>4 DEF ReusedFrames, FrameSet

\* So are the frames of an archive ...
LEMMA FetchedFramesType ==
    ASSUME NEW r \in Replies, NEW n \in Nat
    PROVE  FetchedFrames(r, n) \in FrameSet
<1> DEFINE new(k) == [reply |-> r, order |-> n + k, replyIndex |-> r - 1,
                      local |-> FALSE]
           D == 0 .. FrameCount[r] - 1
<1>1. IsFiniteSet(D)
    <2>1. 0 \in Int /\ FrameCount[r] - 1 \in Int
        BY FrameCountAssumption DEF Replies
    <2> QED
        BY <2>1, FS_Interval
<1>2. [k \in D |-> new(k)] \in Surjection(D, {new(k) : k \in D})
    BY DEF Surjection
<1>4. IsFiniteSet({new(k) : k \in D})
    BY <1>1, <1>2, FS_Surjection
<1>3. \A k \in D : new(k) \in Frame
    BY DEF Frame, Replies
<1> QED
    BY <1>3, <1>4 DEF FetchedFrames, FrameSet

\* ... and those of a local reply.
LEMMA LocalFramesType ==
    ASSUME NEW r \in Replies, NEW n \in Nat, NEW i \in Nat
    PROVE  LocalFrames(r, n, i) \in FrameSet
<1> DEFINE new(k) == [reply |-> r, order |-> n + k, replyIndex |-> i,
                      local |-> TRUE]
           D == 0 .. FrameCount[r] - 1
<1>1. IsFiniteSet(D)
    <2>1. 0 \in Int /\ FrameCount[r] - 1 \in Int
        BY FrameCountAssumption DEF Replies
    <2> QED
        BY <2>1, FS_Interval
<1>2. [k \in D |-> new(k)] \in Surjection(D, {new(k) : k \in D})
    BY DEF Surjection
<1>4. IsFiniteSet({new(k) : k \in D})
    BY <1>1, <1>2, FS_Surjection
<1>3. \A k \in D : new(k) \in Frame
    BY DEF Frame, Replies
<1> QED
    BY <1>3, <1>4 DEF LocalFrames, FrameSet

\* Sets of frames are closed under union: frames are collected reply by reply.
LEMMA FrameSetUnion ==
    ASSUME NEW F \in FrameSet, NEW G \in FrameSet
    PROVE  F \cup G \in FrameSet /\ Cardinality(F) \in Nat
    BY FS_Union, FS_CardinalityType DEF FrameSet

\* A record and a collection begin with no frames.
LEMMA EmptyFrameSet == {} \in FrameSet
    BY FS_EmptySet DEF FrameSet

\* Queueing a twyst gives a queue of twysts.
LEMMA EnqueuedType ==
    ASSUME NEW s \in Seq(Twysts), NEW t \in Twysts, NEW u \in BOOLEAN
    PROVE  Enqueued(s, t, u) \in Seq(Twysts)
<1>1. CASE \E i \in 1..Len(s) : s[i] = t
    <2> DEFINE i == CHOOSE i \in 1..Len(s) : s[i] = t
    <2>1. i \in 1..Len(s)
        BY <1>1
    <2> HIDE DEF i
    <2>2. i \in Int /\ Len(s) \in Nat
        BY <2>1
    <2>3. SubSeq(s, 1, i - 1) \in Seq(Twysts)
        <3>1. \A k \in 1 .. i - 1 : s[k] \in Twysts
            BY <2>1, ElementOfSeq
        <3> QED
            BY <2>2, <3>1, SubSeqProperties
    <2>4. SubSeq(s, i + 1, Len(s)) \in Seq(Twysts)
        <3>1. \A k \in i + 1 .. Len(s) : s[k] \in Twysts
            BY <2>1, ElementOfSeq
        <3> QED
            BY <2>2, <3>1, SubSeqProperties
    <2>5. RemoveAt(s, i) \in Seq(Twysts)
        BY <2>3, <2>4, ConcatProperties DEF RemoveAt
    <2>6. <<t>> \o RemoveAt(s, i) \in Seq(Twysts)
        BY <2>5, ConcatProperties
    <2> QED
        BY <1>1, <2>6 DEF Enqueued, i
<1>2. CASE ~\E i \in 1..Len(s) : s[i] = t
    BY <1>2 DEF Enqueued
<1> QED
    BY <1>1, <1>2

-----------------------------------------------------------------------------
(* Type correctness                                                        *)

\* What is put on the main queue is a block.
LEMMA BlockTypes ==
    ASSUME NEW j \in Job, NEW n \in 0..MaxReplies
    PROVE  /\ ListBlock(j, n) \in Block
           /\ NilBlock(j) \in Block
           /\ SaveBlock(j) \in Block
           /\ DidBlock(j.q, j.twyst, n) \in Block
           /\ FailBlock(j.q, j.twyst) \in Block
    BY EmptyFrameSet, MaxRepliesAssumption
    DEF Job, Block, ListBlock, NilBlock, SaveBlock, DidBlock, FailBlock

\* One turn of the worker's loop leaves the downloads well typed.
LEMMA NextReplyType ==
    ASSUME TypeOK, NEW j \in jobs, NEW new \in FrameSet, j.at <= j.list,
           NextReply(j, new)
    PROVE  jobs' \in SUBSET Job
<1>1. j \in Job /\ j.at + 1 \in 1 .. MaxReplies + 1
    BY MaxRepliesAssumption DEF TypeOK, Job
<1>2. j.arr \cup new \in FrameSet
    BY <1>1, FrameSetUnion DEF Job
<1>3. [j EXCEPT !.phase = "open", !.at = @ + 1, !.arr = @ \cup new] \in Job
    BY <1>1, <1>2 DEF Job
<1> QED
    BY <1>3 DEF TypeOK, NextReply

\* The next place in arrFrames is a natural number.
LEMMA ArrLength ==
    ASSUME NEW j \in Job
    PROVE  Cardinality(j.arr) \in Nat
    BY EmptyFrameSet, FrameSetUnion DEF Job

\* The history of hazards stays well typed.
LEMMA MeetsType ==
    ASSUME TypeOK, NEW t, NEW H \in SUBSET Hazard, Meets(t, H)
    PROVE  hazards' \in [Twysts -> SUBSET Hazard]
<1>1. hazards \in [Twysts -> SUBSET Hazard]
    BY DEF TypeOK
<1>2. \A x \in Twysts : hazards[x] \cup H \in SUBSET Hazard
    BY <1>1
<1> QED
    BY <1>1, <1>2 DEF Meets

\* A worker in its loop or fetching a reply is inside the list.
WorkerInList ==
    \A j \in jobs : j.phase = "fetch" => j.at <= j.list

TypeInv == TypeOK /\ WorkerInList

\* The service begins well typed and with no worker.
THEOREM TypeInit == Init => TypeInv
<1> SUFFICES ASSUME Init PROVE TypeInv
    OBVIOUS
<1>1. {} \in FrameSet /\ 1 \in 1..MaxReplies /\ 0 \in 0..MaxRequests
    BY EmptyFrameSet, MaxRepliesAssumption, MaxRequestsAssumption
<1>2. jobs = {} /\ localReplies = {} /\ mainQueue = <<>>
    BY DEF Init
<1>3. WorkerInList /\ jobs \in SUBSET Job
      /\ localReplies \in SUBSET LocalReply /\ mainQueue \in Seq(Block)
    BY <1>2 DEF WorkerInList
<1>4. queue \in [Queues -> Seq(Twysts)]
    BY DEF Init
<1> QED
    BY <1>1, <1>3, <1>4 DEF Init, TypeInv, TypeOK

\* A download is replaced by another of the right type.
LEMMA ReplaceJob ==
    ASSUME TypeInv, NEW j, NEW k \in Job,
           k.phase = "fetch" => k.at <= k.list,
           jobs' = (jobs \ {j}) \cup {k}
    PROVE  jobs' \in SUBSET Job /\ WorkerInList'
    BY DEF TypeInv, TypeOK, WorkerInList

\* Users, the server and the session keep the types.
LEMMA TypeEnvironment ==
    ASSUME TypeInv, Environment
    PROVE  TypeInv'
<1> USE DEF TypeInv
<1>1. CASE StartDownloadService \/ StopDownloadService
    BY <1>1 DEF StartDownloadService, StopDownloadService, TypeOK,
       WorkerInList, storeVars, recordVars, userVars
<1>2. ASSUME NEW p \in Pairs, NEW t \in Twysts, NEW u \in BOOLEAN,
             DownloadTwyst(p, t, u)
      PROVE  TypeInv'
    <2> DEFINE q == <<p, IF u THEN "principal" ELSE "normal">>
    <2>1. q \in Queues
        BY DEF Queues
    <2>2. Enqueued(queue[q], t, u) \in Seq(Twysts)
        BY <2>1, EnqueuedType DEF TypeOK
    <2>3. queue' \in [Queues -> Seq(Twysts)]
        BY <1>2, <2>1, <2>2 DEF DownloadTwyst, TypeOK
    <2>4. requests' \in 0..MaxRequests /\ observing' \in SUBSET Twysts
        BY <1>2, MaxRequestsAssumption DEF DownloadTwyst, TypeOK
    <2> QED
        BY <1>2, <2>3, <2>4 DEF DownloadTwyst, TypeOK, WorkerInList, storeVars,
           recordVars
<1>3. ASSUME NEW t \in Twysts, ServerReply(t)
      PROVE  TypeInv'
    BY <1>3, MaxRepliesAssumption
       DEF ServerReply, TypeOK, WorkerInList, serviceVars, storeVars,
       recordVars, userVars
<1>4. ASSUME NEW t \in Twysts, DeleteSavedTwyst(t)
      PROVE  TypeInv'
    <2>1. \A j \in jobs : Orphaned(j) \in Job /\ Orphaned(j).phase = j.phase
                /\ Orphaned(j).at = j.at /\ Orphaned(j).list = j.list
        BY DEF TypeOK, Orphaned, Job
    <2>2. jobs' \in SUBSET Job /\ WorkerInList'
        BY <1>4, <2>1 DEF DeleteSavedTwyst, TypeOK, WorkerInList
    <2>3. \A l \in localReplies : Orphaned(l) \in LocalReply
        BY DEF TypeOK, Orphaned, LocalReply
    <2>4. localReplies' \in SUBSET LocalReply
        BY <1>4, <2>3 DEF DeleteSavedTwyst, TypeOK
    <2>5. hazards' \in [Twysts -> SUBSET Hazard]
        BY <1>4 DEF DeleteSavedTwyst, TypeOK, Meets, Hazard
    <2>6. /\ frames' \in [Twysts -> FrameSet]
          /\ stored' \in SUBSET Twysts
          /\ total' \in [Twysts -> Nat]
        BY <1>4, EmptyFrameSet DEF DeleteSavedTwyst, TypeOK
    <2>7. files' \in SUBSET (Twysts \X Replies)
        BY <1>4 DEF DeleteSavedTwyst, TypeOK
    <2> QED
        BY <1>4, <2>2, <2>4, <2>5, <2>6, <2>7 DEF DeleteSavedTwyst, TypeOK,
           serviceVars
<1>5. ASSUME NEW t \in Twysts, SendReply(t)
      PROVE  TypeInv'
    <2>1. hazards' \in [Twysts -> SUBSET Hazard]
        BY <1>5 DEF SendReply, TypeOK, Meets, Hazard
    <2>2. replyCount' \in [Twysts -> 1..MaxReplies]
        BY <1>5, MaxRepliesAssumption DEF SendReply, TypeOK
    <2>3. localReplies' \in SUBSET LocalReply
        BY <1>5, MaxRepliesAssumption DEF SendReply, TypeOK, LocalReply, Replies
    <2> QED
        BY <1>5, <2>1, <2>2, <2>3 DEF SendReply, TypeOK, WorkerInList,
           serviceVars, storeVars, recordVars
<1> QED
    BY <1>1, <1>2, <1>3, <1>4, <1>5 DEF Environment

\* The timer call keeps the types: it takes a twyst off a queue that has one.
LEMMA TypeTimer ==
    ASSUME TypeInv, Timer
    PROVE  TypeInv'
<1> USE DEF TypeInv
<1>1. CASE Tick
    BY <1>1 DEF Tick, TypeOK, WorkerInList, storeVars, recordVars, userVars
<1>2. ASSUME NEW q \in Queues, PassOver(q)
      PROVE  TypeInv'
    BY <1>2 DEF PassOver, TypeOK, WorkerInList, storeVars, recordVars,
       userVars
<1>3. ASSUME NEW q \in Queues, StartDownload(q)
      PROVE  TypeInv'
    <2>1. queue[q] \in Seq(Twysts) /\ queue[q] # <<>>
        BY <1>3 DEF StartDownload, CanStart, TypeOK
    <2>2. Head(queue[q]) \in Twysts /\ Tail(queue[q]) \in Seq(Twysts)
        BY <2>1, HeadTailProperties
    <2>3. NewJob(q, Head(queue[q])) \in Job
        BY <2>2, EmptyFrameSet, MaxRepliesAssumption DEF NewJob, Job
    <2> DEFINE n == NewJob(q, Head(queue[q]))
    <2>4. n.phase = "request" /\ jobs' = jobs \cup {n}
        BY <1>3 DEF StartDownload, NewJob
    <2> HIDE DEF n
    <2>6. jobs' \in SUBSET Job /\ WorkerInList'
        BY <2>3, <2>4 DEF n, TypeOK, WorkerInList
    <2>5. queue' \in [Queues -> Seq(Twysts)]
        BY <1>3, <2>2 DEF StartDownload, TypeOK
    <2> QED
        BY <1>3, <2>5, <2>6 DEF StartDownload, TypeOK, storeVars, recordVars,
           userVars
<1> QED
    BY <1>1, <1>2, <1>3 DEF Timer

\* The end of a request keeps the types.
LEMMA TypeNetwork ==
    ASSUME TypeInv, NEW j \in jobs, Network(j)
    PROVE  TypeInv'
<1>1. j \in Job /\ replyCount[j.twyst] \in 0..MaxReplies
    BY DEF TypeInv, TypeOK, Job
<1>2. ASSUME NEW b \in Block, Answer(j, b)
      PROVE  TypeInv'
    <2> DEFINE k == [j EXCEPT !.phase = "answered"]
    <2>1. k \in Job /\ k.phase = "answered" /\ jobs' = (jobs \ {j}) \cup {k}
        BY <1>1, <1>2 DEF Answer, Job
    <2> HIDE DEF k
    <2>2. jobs' \in SUBSET Job /\ WorkerInList'
        BY <2>1, ReplaceJob
    <2>3. mainQueue' \in Seq(Block)
        BY <1>2, AppendProperties DEF Answer, TypeInv, TypeOK
    <2> QED
        BY <1>2, <2>2, <2>3 DEF Answer, TypeInv, TypeOK, serviceVars,
           storeVars, recordVars, userVars
<1>3. /\ ListBlock(j, replyCount[j.twyst]) \in Block
      /\ NilBlock(j) \in Block
    BY <1>1, BlockTypes
<1> QED
    BY <1>2, <1>3 DEF Network, RepliesArrive, RepliesFail

\* The worker keeps the types, and stays within its list.
LEMMA TypeWorker ==
    ASSUME TypeInv, NEW j \in jobs, Worker(j)
    PROVE  TypeInv'
<1>1. j \in Job
    BY DEF TypeInv, TypeOK
<1>2. Cardinality(j.arr) \in Nat /\ {} \in FrameSet
    BY <1>1, ArrLength, EmptyFrameSet
<1> USE DEF TypeInv
<1>3. CASE ReuseReply(j)
    <2>1. PICK F \in IF j.saved = "live" THEN {frames[j.twyst]}
                                         ELSE {{}, j.known} :
              NextReply(j, ReusedFrames(F, j.at, Cardinality(j.arr)))
        BY <1>3 DEF ReuseReply
    <2>2. F \in FrameSet
        <3>1. frames[j.twyst] \in FrameSet /\ j.known \in FrameSet
            BY <1>1 DEF TypeOK, Job
        <3> QED
            BY <1>2, <2>1, <3>1
    <2>3. j.at <= j.list /\ j.at \in Replies
        BY <1>1, <1>3, MaxRepliesAssumption DEF ReuseReply, Job, Replies
    <2>4. ReusedFrames(F, j.at, Cardinality(j.arr)) \in FrameSet
        BY <1>2, <2>2, <2>3, ReusedFramesType
    <2>5. jobs' \in SUBSET Job
        BY <2>1, <2>3, <2>4, NextReplyType
    <2>6. WorkerInList'
        BY <1>1, <2>1 DEF WorkerInList, NextReply, Job
    <2> QED
        BY <1>3, <2>5, <2>6 DEF ReuseReply, TypeOK, serviceVars, storeVars,
           recordVars, userVars
<1>4. CASE OpenFolder(j)
    <2> DEFINE k == [j EXCEPT !.phase = "fetch"]
    <2>1. /\ k \in Job
          /\ k.at <= k.list
          /\ jobs' = (jobs \ {j}) \cup {k}
        BY <1>1, <1>4 DEF OpenFolder, Job
    <2> HIDE DEF k
    <2>2. jobs' \in SUBSET Job /\ WorkerInList'
        BY <2>1, ReplaceJob
    <2> QED
        BY <1>4, <2>2 DEF OpenFolder, TypeOK, serviceVars, recordVars, userVars
<1>5. ASSUME NEW new \in FrameSet, j.phase = "fetch", NextReply(j, new)
      PROVE  jobs' \in SUBSET Job /\ WorkerInList'
    <2>1. j.at <= j.list
        BY <1>5 DEF WorkerInList
    <2>2. jobs' \in SUBSET Job
        BY <1>5, <2>1, NextReplyType
    <2>3. WorkerInList'
        BY <1>1, <1>5 DEF WorkerInList, NextReply, Job
    <2> QED
        BY <2>2, <2>3
<1>6. j.phase = "fetch" =>
          /\ FetchedFrames(j.at, Cardinality(j.arr)) \in FrameSet
          /\ <<j.twyst, j.at>> \in Twysts \X Replies
    <2>1. j.phase = "fetch" => j.at \in Replies
        BY <1>1, MaxRepliesAssumption DEF WorkerInList, Job, Replies
    <2> QED
        BY <1>1, <1>2, <2>1, FetchedFramesType DEF Job
<1>7. CASE FetchReply(j)
    <2>1. jobs' \in SUBSET Job /\ WorkerInList'
        BY <1>5, <1>6, <1>7 DEF FetchReply
    <2>2. files' \in SUBSET (Twysts \X Replies)
        BY <1>6, <1>7 DEF FetchReply, TypeOK
    <2> QED
        BY <1>7, <2>1, <2>2 DEF FetchReply, TypeOK, serviceVars, recordVars,
           userVars
<1>8. CASE FetchNothing(j)
    <2> DEFINE k == [j EXCEPT !.phase = "open", !.at = j.list + 1, !.arr = {}]
    <2>1. k \in Job
        <3>1. j.list + 1 \in 1 .. MaxReplies + 1
            BY <1>1, MaxRepliesAssumption DEF Job
        <3> QED
            BY <1>1, <1>2, <3>1 DEF Job
    <2>2. k.phase = "open" /\ jobs' = (jobs \ {j}) \cup {k}
        BY <1>1, <1>8 DEF FetchNothing, Job
    <2> HIDE DEF k
    <2>3. jobs' \in SUBSET Job /\ WorkerInList'
        BY <2>1, <2>2, ReplaceJob
    <2> QED
        BY <1>8, <2>3 DEF FetchNothing, TypeOK, serviceVars, storeVars,
           recordVars, userVars
<1>9. CASE FetchBadEntry(j) \/ FetchCorrupt(j)
    <2>1. jobs' \in SUBSET Job /\ WorkerInList'
        BY <1>2, <1>5, <1>6, <1>9 DEF FetchBadEntry, FetchCorrupt
    <2>2. hazards' \in [Twysts -> SUBSET Hazard]
        <3>1. {"badEntry"} \in SUBSET Hazard /\ {"corrupt"} \in SUBSET Hazard
            BY DEF Hazard
        <3> QED
            BY <1>9, <3>1, MeetsType DEF FetchBadEntry, FetchCorrupt
    <2> QED
        BY <1>9, <2>1, <2>2 DEF FetchBadEntry, FetchCorrupt, TypeOK,
           serviceVars, storeVars, recordVars, userVars
<1>10. ASSUME NEW b \in Block, NEW ph \in {"notify", "clear"},
              WorkerPosts(j, b, ph)
       PROVE  TypeInv'
    <2> DEFINE k == [j EXCEPT !.phase = ph]
    <2>1. k \in Job /\ k.phase # "fetch" /\ jobs' = (jobs \ {j}) \cup {k}
        BY <1>1, <1>10 DEF WorkerPosts, Job
    <2> HIDE DEF k
    <2>2. jobs' \in SUBSET Job /\ WorkerInList'
        BY <2>1, ReplaceJob
    <2>3. mainQueue' \in Seq(Block)
        BY <1>10, AppendProperties DEF WorkerPosts, TypeOK
    <2> QED
        BY <1>10, <2>2, <2>3 DEF WorkerPosts, TypeOK, serviceVars, storeVars,
           recordVars, userVars
<1>11. /\ SaveBlock(j) \in Block
       /\ DidBlock(j.q, j.twyst, j.list) \in Block
       /\ FailBlock(j.q, j.twyst) \in Block
    BY <1>1, BlockTypes DEF Job
<1>12. CASE PostSave(j) \/ PostDid(j) \/ PostFail(j)
    BY <1>10, <1>11, <1>12 DEF PostSave, PostDid, PostFail
<1>13. CASE EndDownload(j)
    BY <1>13 DEF EndDownload, Ends, TypeOK, WorkerInList, storeVars,
       recordVars, userVars
<1> QED
    BY <1>3, <1>4, <1>7, <1>8, <1>9, <1>12, <1>13 DEF Worker

\* Each block of the main queue keeps the types.
LEMMA TypeMainBlock ==
    ASSUME TypeInv, MainBlock
    PROVE  TypeInv'
<1> DEFINE b == Head(mainQueue)
<1> USE DEF TypeInv
<1>1. mainQueue \in Seq(Block) /\ mainQueue # <<>>
    BY DEF MainBlock, TypeOK
<1>2. b \in Block /\ Tail(mainQueue) \in Seq(Block)
    BY <1>1, HeadTailProperties
<1> HIDE DEF b
<1>3. ASSUME NEW j \in jobs, NEW kind, NEW n \in Block,
             EndsAtOnce(b, j, kind, n)
      PROVE  TypeInv'
    <2>1. mainQueue' \in Seq(Block)
        BY <1>2, <1>3, AppendProperties DEF EndsAtOnce
    <2> QED
        BY <1>3, <2>1 DEF EndsAtOnce, Ends, TypeOK, WorkerInList, storeVars,
           recordVars, userVars
<1>4. ASSUME NEW j \in jobs, GiveUp(b, j) \/ SkipDownload(b, j)
      PROVE  TypeInv'
    <2>1. FailBlock(b.q, b.twyst) \in Block
          /\ DidBlock(b.q, b.twyst, b.list) \in Block
        BY <1>2, EmptyFrameSet, MaxRepliesAssumption
           DEF FailBlock, DidBlock, Block
    <2> QED
        BY <1>3, <1>4, <2>1 DEF GiveUp, SkipDownload
<1>5. ASSUME NEW j \in jobs, BeginDownload(b, j)
      PROVE  TypeInv'
    <2> DEFINE k == [j EXCEPT !.phase = "open", !.list = b.list,
                              !.known = frames[b.twyst],
                              !.saved = IF b.twyst \in stored THEN "live"
                                                              ELSE "none"]
    <2>1. frames[b.twyst] \in FrameSet /\ b.list \in 0..MaxReplies
        BY <1>2 DEF TypeOK, Block
    <2>2. k \in Job /\ k.phase = "open"
        BY <1>5, <2>1 DEF TypeOK, Job
    <2>3. jobs' = (jobs \ {j}) \cup {k}
        BY <1>5 DEF BeginDownload
    <2> HIDE DEF k
    <2>4. jobs' \in SUBSET Job /\ WorkerInList'
        BY <2>2, <2>3, ReplaceJob
    <2>5. hazards' \in [Twysts -> SUBSET Hazard]
        BY <1>5 DEF BeginDownload, TypeOK, Meets, Hazard
    <2>6. mainQueue' \in Seq(Block)
        BY <1>2, <1>5 DEF BeginDownload, b
    <2> QED
        BY <1>5, <2>4, <2>5, <2>6 DEF BeginDownload, TypeOK, serviceVars,
           storeVars, recordVars, userVars
<1>6. CASE ConfirmDownloadedTwyst(b)
    <2>1. b.arr \in FrameSet /\ b.twyst \in Twysts
        BY <1>2 DEF Block
    <2>2. Cardinality(b.arr) \in Nat
        BY <2>1, EmptyFrameSet, FrameSetUnion
    <2>3. mainQueue' \in Seq(Block)
        BY <1>2, <1>6 DEF ConfirmDownloadedTwyst, b
    <2>4. /\ stored' \in SUBSET Twysts
          /\ frames' \in [Twysts -> FrameSet]
          /\ total' \in [Twysts -> Nat]
        BY <1>6, <2>1, <2>2 DEF ConfirmDownloadedTwyst, TypeOK
    <2> QED
        BY <1>6, <2>3, <2>4 DEF ConfirmDownloadedTwyst, TypeOK, WorkerInList,
           serviceVars, userVars
<1>7. CASE DeliverDid(b) \/ DeliverFail(b)
    <2>1. mainQueue' \in Seq(Block)
        BY <1>2, <1>7 DEF DeliverDid, DeliverFail, Deliver, b
    <2> QED
        BY <1>7, <2>1 DEF DeliverDid, DeliverFail, Deliver, TypeOK,
           WorkerInList, serviceVars, storeVars, recordVars
<1> QED
    BY <1>4, <1>5, <1>6, <1>7 DEF MainBlock, b

\* The thread that adds a local reply keeps the types.
LEMMA TypeReplyThread ==
    ASSUME TypeInv, NEW l \in localReplies, ReplyThread(l)
    PROVE  TypeInv'
<1>1. l \in LocalReply
    BY DEF TypeInv, TypeOK
<1> USE DEF TypeInv
<1>2. CASE AddReplySuccess(l)
    BY <1>1, <1>2 DEF AddReplySuccess, TypeOK, WorkerInList, LocalReply,
       serviceVars, storeVars, recordVars
<1>3. CASE AddReplyFails(l) \/ DropReply(l)
    BY <1>3 DEF AddReplyFails, DropReply, TypeOK, WorkerInList, serviceVars,
       storeVars, recordVars
<1>4. CASE MoveReplyFiles(l)
    <2>1. localReplies' \in SUBSET LocalReply
        BY <1>1, <1>4 DEF MoveReplyFiles, TypeOK, LocalReply
    <2>2. files' \in SUBSET (Twysts \X Replies)
        BY <1>1, <1>4 DEF MoveReplyFiles, TypeOK, LocalReply
    <2> QED
        BY <1>4, <2>1, <2>2 DEF MoveReplyFiles, TypeOK, WorkerInList,
           serviceVars, recordVars
<1>5. CASE ReadRecord(l)
    <2>1. l.twyst \in Twysts /\ frames[l.twyst] \in FrameSet
          /\ total[l.twyst] \in Nat
        BY <1>1 DEF TypeOK, LocalReply
    <2>2. \A i \in NextReplyIndexes(frames[l.twyst]) : i \in Nat
        BY <2>1 DEF NextReplyIndexes, LastFrames, FrameSet, Frame
    <2>3. localReplies' \in SUBSET LocalReply
        BY <1>1, <1>5, <2>1, <2>2 DEF ReadRecord, TypeOK, LocalReply
    <2> QED
        BY <1>5, <2>3 DEF ReadRecord, TypeOK, WorkerInList, serviceVars,
           storeVars, recordVars
<1>6. CASE CommitReply(l)
    <2>1. /\ l.twyst \in Twysts /\ l.reply \in Replies
          /\ l.total \in Nat /\ l.replyIndex \in Nat
          /\ frames[l.twyst] \in FrameSet
        BY <1>1 DEF TypeOK, LocalReply
    <2>2. frames[l.twyst] \cup LocalFrames(l.reply, l.total, l.replyIndex)
              \in FrameSet
        BY <2>1, LocalFramesType, FrameSetUnion
    <2>3. l.total + FrameCount[l.reply] \in Nat
        BY <2>1, FrameCountAssumption DEF Replies
    <2>4. frames' \in [Twysts -> FrameSet] /\ total' \in [Twysts -> Nat]
        BY <1>6, <2>1, <2>2, <2>3 DEF CommitReply, TypeOK
    <2> QED
        BY <1>6, <2>4 DEF CommitReply, TypeOK, WorkerInList, serviceVars
<1> QED
    BY <1>2, <1>3, <1>4, <1>5, <1>6 DEF ReplyThread

\* Hence so does every step.
LEMMA TypeStep == TypeInv /\ [Next]_vars => TypeInv'
<1> SUFFICES ASSUME TypeInv, [Next]_vars PROVE TypeInv'
    OBVIOUS
<1>1. CASE UNCHANGED vars
    BY <1>1 DEF vars, TypeInv, TypeOK, WorkerInList, serviceVars, storeVars,
       recordVars, userVars
<1>2. CASE Next
    BY <1>2, TypeEnvironment, TypeTimer, TypeNetwork, TypeWorker,
       TypeMainBlock, TypeReplyThread DEF Next
<1> QED
    BY <1>1, <1>2

\* The state of the service is always well typed: for any numbers of twysts,
\* replies and frames, arrFrames and every record remain finite sets of
\* frames, and a worker never looks beyond its list.
THEOREM TypeCorrect == Spec => []TypeOK
<1>1. TypeInv => TypeOK
    BY DEF TypeInv
<1> QED
    BY TypeInit, TypeStep, <1>1, PTL DEF Spec

-----------------------------------------------------------------------------
(* One download per queue                                                  *)

\* A job that changes its phase changes nothing for its queue.
LEMMA FlightReplace ==
    ASSUME SingleFlight, NEW j \in jobs, NEW k, k.q = j.q,
           jobs' = (jobs \ {j}) \cup {k}, isDownloading' = isDownloading
    PROVE  SingleFlight'
    BY DEF SingleFlight

\* A job that ends lowers the flag of its queue, and of no other.
LEMMA FlightEnds ==
    ASSUME TypeOK, SingleFlight, NEW j \in jobs, Ends(j)
    PROVE  SingleFlight'
<1>1. j.q \in Queues
    BY DEF TypeOK, Job
<1>2. \A k \in jobs' : k \in jobs /\ k.q # j.q
    BY DEF Ends, SingleFlight
<1>3. \A q \in Queues : isDownloading'[q] <=> q # j.q /\ isDownloading[q]
    BY <1>1 DEF Ends, TypeOK
<1>4. \A k \in jobs : k.q # j.q => k \in jobs'
    BY DEF Ends
<1> QED
    BY <1>2, <1>3, <1>4 DEF SingleFlight

\* Each queue runs at most one download, and _isDownloading says whether it
\* runs one, however the timer, the completion blocks and the workers
\* interleave.
THEOREM OneDownloadPerQueue == Spec => []SingleFlight
<1>1. Init => SingleFlight
    BY DEF Init, SingleFlight
<1>2. TypeOK /\ SingleFlight /\ [Next]_vars => SingleFlight'
    <2> SUFFICES ASSUME TypeOK, SingleFlight, [Next]_vars
                 PROVE  SingleFlight'
        OBVIOUS
    <2>1. CASE UNCHANGED <<jobs, isDownloading>>
        BY <2>1 DEF SingleFlight
    <2>2. ASSUME NEW t \in Twysts, DeleteSavedTwyst(t)
          PROVE  SingleFlight'
        <3> DEFINE new(j) == IF j.twyst = t THEN Orphaned(j) ELSE j
        <3>1. jobs' = {new(j) : j \in jobs} /\ isDownloading' = isDownloading
            BY <2>2 DEF DeleteSavedTwyst, serviceVars
        <3>2. \A j \in jobs : new(j).q = j.q
            BY DEF Orphaned, TypeOK, Job
        <3> HIDE DEF new
        <3> QED
            BY <3>1, <3>2 DEF SingleFlight
    <2>3. CASE Environment
        BY <2>1, <2>2, <2>3 DEF Environment, StartDownloadService,
           StopDownloadService, DownloadTwyst, ServerReply, SendReply,
           serviceVars
    <2>4. ASSUME NEW q \in Queues, StartDownload(q)
          PROVE  SingleFlight'
        <3> DEFINE n == NewJob(q, Head(queue[q]))
        <3>1. n.q = q /\ jobs' = jobs \cup {n}
            BY <2>4 DEF StartDownload, NewJob
        <3> HIDE DEF n
        <3>2. ~isDownloading[q]
            BY <2>4 DEF StartDownload, CanStart
        <3>3. \A p \in Queues : isDownloading'[p] <=> p = q \/ isDownloading[p]
            BY <2>4 DEF StartDownload, TypeOK
        <3> QED
            BY <3>1, <3>2, <3>3 DEF SingleFlight
    <2>5. CASE Timer
        BY <2>1, <2>4, <2>5 DEF Timer, Tick, PassOver
    <2>6. ASSUME NEW j \in jobs, Network(j) \/ Worker(j)
          PROVE  SingleFlight'
        <3>1. j \in Job
            BY DEF TypeOK
        <3>2. CASE EndDownload(j)
            BY <3>2, FlightEnds DEF EndDownload
        <3>3. CASE ~EndDownload(j)
            <4>1. PICK k : k.q = j.q /\ jobs' = (jobs \ {j}) \cup {k}
                <5>1. CASE Network(j)
                    BY <3>1, <5>1 DEF Network, RepliesArrive, RepliesFail,
                       Answer, Job
                <5>2. CASE OpenFolder(j) \/ FetchNothing(j)
                    BY <3>1, <5>2 DEF OpenFolder, FetchNothing, Job
                <5>3. ASSUME NEW new, NextReply(j, new)
                      PROVE  \E k : k.q = j.q /\ jobs' = (jobs \ {j}) \cup {k}
                    BY <3>1, <5>3 DEF NextReply, Job
                <5>4. CASE \/ ReuseReply(j) \/ FetchReply(j)
                           \/ FetchBadEntry(j) \/ FetchCorrupt(j)
                    BY <5>3, <5>4 DEF ReuseReply, FetchReply, FetchBadEntry,
                       FetchCorrupt
                <5>5. CASE PostSave(j) \/ PostDid(j) \/ PostFail(j)
                    BY <3>1, <5>5 DEF PostSave, PostDid, PostFail, WorkerPosts,
                       Job
                <5> QED
                    BY <2>6, <3>3, <5>1, <5>2, <5>4, <5>5 DEF Worker
            <4>2. isDownloading' = isDownloading
                BY <2>6, <3>3 DEF Network, RepliesArrive, RepliesFail, Answer,
                   Worker, ReuseReply, OpenFolder, FetchReply, FetchNothing,
                   FetchBadEntry, FetchCorrupt, PostSave, PostDid, PostFail,
                   WorkerPosts, serviceVars
            <4> QED
                BY <4>1, <4>2, FlightReplace
        <3> QED
            BY <3>2, <3>3
    <2>7. ASSUME NEW b, NEW j \in jobs,
                 GiveUp(b, j) \/ SkipDownload(b, j) \/ BeginDownload(b, j)
          PROVE  SingleFlight'
        <3>1. CASE GiveUp(b, j) \/ SkipDownload(b, j)
            BY <3>1, FlightEnds DEF GiveUp, SkipDownload, EndsAtOnce
        <3>2. CASE BeginDownload(b, j)
            <4> DEFINE k == [j EXCEPT !.phase = "open", !.list = b.list,
                               !.known = frames[b.twyst],
                               !.saved = IF b.twyst \in stored THEN "live"
                                                               ELSE "none"]
            <4>1. k.q = j.q
                BY DEF TypeOK, Job
            <4>2. jobs' = (jobs \ {j}) \cup {k} /\ isDownloading' = isDownloading
                BY <3>2 DEF BeginDownload, serviceVars
            <4> HIDE DEF k
            <4> QED
                BY <4>1, <4>2, FlightReplace
        <3> QED
            BY <2>7, <3>1, <3>2
    <2>8. CASE MainBlock
        BY <2>1, <2>7, <2>8 DEF MainBlock, ConfirmDownloadedTwyst, DeliverDid,
           DeliverFail, Deliver, serviceVars
    <2>9. ASSUME NEW l \in localReplies, ReplyThread(l)
          PROVE  SingleFlight'
        BY <2>1, <2>9 DEF ReplyThread, AddReplySuccess, AddReplyFails,
           MoveReplyFiles, ReadRecord, CommitReply, DropReply, serviceVars
    <2>10. CASE UNCHANGED vars
        BY <2>1, <2>10 DEF vars, serviceVars
    <2> QED
        BY <2>3, <2>5, <2>6, <2>8, <2>9, <2>10 DEF Next
<1> QED
    BY <1>1, <1>2, TypeCorrect, PTL DEF Spec

-----------------------------------------------------------------------------
(* Saved before notified                                                   *)

\* What a notification of t at position i of the main queue may rely on.
Promised(t, i) == SavedOrSaving(t, i) \/ "deleted" \in hazards[t]

\* The same after a step.
PromisedNext(t, i) ==
    \/ t \in stored'
    \/ \E k \in 1 .. i - 1 : mainQueue'[k].kind = "save"
                             /\ mainQueue'[k].twyst = t
    \/ "deleted" \in hazards'[t]

\* The strengthening of NotifiedIsSaved: a worker that is about to post the
\* notification has its save on the main queue already, or it has run.
NotifiedInv ==
    /\ NotifiedIsSaved
    /\ \A j \in jobs : j.phase = "notify"
                          => Promised(j.twyst, Len(mainQueue) + 1)

\* A step takes d (0 or 1) blocks from the head of the main queue; the blocks
\* behind them keep their order.
Shifts(d) ==
    /\ d \in {0, 1}
    /\ mainQueue \in Seq(Block) /\ mainQueue' \in Seq(Block)
    /\ Len(mainQueue') \in {Len(mainQueue) - d, Len(mainQueue) - d + 1}
    /\ \A k \in 1..Len(mainQueue) : k > d => mainQueue'[k - d] = mainQueue[k]
    /\ d = 1 => /\ mainQueue # <<>>
                /\ mainQueue[1].kind = "save" => mainQueue[1].twyst \in stored'

NothingForgotten ==
    /\ stored \subseteq stored'
    /\ \A t \in Twysts : hazards[t] \subseteq hazards'[t]

\* Unless a record is deleted, what was promised of a place in the main
\* queue holds of that place as it moves towards the head.
LEMMA PromiseMoves ==
    ASSUME NEW d, Shifts(d), NothingForgotten, NEW t \in Twysts,
           NEW i \in 1 .. Len(mainQueue) + 1, i > d, Promised(t, i)
    PROVE  PromisedNext(t, i - d)
<1>1. CASE t \in stored \/ "deleted" \in hazards[t]
    BY <1>1 DEF NothingForgotten, PromisedNext
<1>2. ASSUME NEW k \in 1 .. i - 1, mainQueue[k].kind = "save",
             mainQueue[k].twyst = t
      PROVE  PromisedNext(t, i - d)
    <2>1. d \in {0, 1} /\ Len(mainQueue) \in Nat /\ k \in 1..Len(mainQueue)
        BY DEF Shifts
    <2>2. CASE k > d
        <3>1. mainQueue'[k - d] = mainQueue[k] /\ k - d \in 1 .. (i - d) - 1
            BY <2>1, <2>2 DEF Shifts
        <3> QED
            BY <1>2, <3>1 DEF PromisedNext
    <2>3. CASE ~(k > d)
        <3>1. k = 1 /\ d = 1
            BY <2>1, <2>3
        <3>2. t \in stored'
            BY <1>2, <3>1 DEF Shifts
        <3> QED
            BY <3>2 DEF PromisedNext
    <2> QED
        BY <2>2, <2>3
<1> QED
    BY <1>1, <1>2 DEF Promised, SavedOrSaving

\* A step that forgets nothing keeps the invariant if a notification that it
\* posts is promised, and if a worker that it lets notify has just posted
\* its save.
LEMMA NotifiedStep ==
    ASSUME NotifiedInv, NEW d, Shifts(d), NothingForgotten,
           jobs \in SUBSET Job, jobs' \in SUBSET Job,
           Len(mainQueue') = Len(mainQueue) - d + 1
               /\ mainQueue'[Len(mainQueue')].kind = "did"
               => Promised(mainQueue'[Len(mainQueue')].twyst,
                           Len(mainQueue) + 1),
           \A k \in jobs' : k.phase = "notify" =>
               \/ \E j \in jobs : j.phase = "notify" /\ j.twyst = k.twyst
               \/ /\ Len(mainQueue') = Len(mainQueue) - d + 1
                  /\ mainQueue'[Len(mainQueue')].kind = "save"
                  /\ mainQueue'[Len(mainQueue')].twyst = k.twyst
    PROVE  NotifiedInv'
<1>1. /\ d \in {0, 1}
      /\ Len(mainQueue) \in Nat
      /\ Len(mainQueue') \in Nat
      /\ d <= Len(mainQueue)
    BY DEF Shifts
<1>2. \A i \in 1..Len(mainQueue') : mainQueue'[i].twyst \in Twysts
    <2> SUFFICES ASSUME NEW i \in 1..Len(mainQueue')
                 PROVE  mainQueue'[i].twyst \in Twysts
        OBVIOUS
    <2>1. mainQueue' \in Seq(Block)
        BY DEF Shifts
    <2>2. mainQueue'[i] \in Block
        BY <2>1, ElementOfSeq
    <2> QED
        BY <2>2 DEF Block
<1>3. ASSUME NEW i \in 1..Len(mainQueue'), mainQueue'[i].kind = "did"
      PROVE  PromisedNext(mainQueue'[i].twyst, i)
    <2>1. CASE i + d <= Len(mainQueue)
        <3>1. i + d \in 1..Len(mainQueue) /\ i + d > d /\ (i + d) - d = i
            BY <1>1, <2>1
        <3>2. mainQueue'[i] = mainQueue[i + d]
            BY <3>1 DEF Shifts
        <3>3. Promised(mainQueue[i + d].twyst, i + d)
            BY <1>3, <3>1, <3>2 DEF NotifiedInv, NotifiedIsSaved, Promised
        <3> DEFINE t == mainQueue[i + d].twyst
        <3>4. t \in Twysts /\ Promised(t, i + d)
            BY <1>2, <3>2, <3>3
        <3> HIDE DEF t
        <3>5. PromisedNext(t, (i + d) - d)
            BY <3>1, <3>4, PromiseMoves
        <3> QED
            BY <3>1, <3>2, <3>5 DEF t
    <2>2. CASE i + d > Len(mainQueue)
        <3>1. /\ i = Len(mainQueue')
              /\ Len(mainQueue') = Len(mainQueue) - d + 1
              /\ (Len(mainQueue) + 1) - d = i
            BY <1>1, <2>2 DEF Shifts
        <3>2. Promised(mainQueue'[i].twyst, Len(mainQueue) + 1)
            BY <1>3, <3>1
        <3> DEFINE t == mainQueue'[i].twyst
        <3>3. t \in Twysts /\ Promised(t, Len(mainQueue) + 1)
            BY <1>2, <3>2
        <3>4. /\ Len(mainQueue) + 1 \in 1 .. Len(mainQueue) + 1
              /\ Len(mainQueue) + 1 > d
            BY <1>1
        <3> HIDE DEF t
        <3>5. PromisedNext(t, (Len(mainQueue) + 1) - d)
            BY <3>3, <3>4, PromiseMoves
        <3> QED
            BY <3>1, <3>5 DEF t
    <2> QED
        BY <1>1, <2>1, <2>2
<1>4. ASSUME NEW k \in jobs', k.phase = "notify"
      PROVE  PromisedNext(k.twyst, Len(mainQueue') + 1)
    <2>1. k.twyst \in Twysts
        BY DEF Job
    <2>2. CASE \E j \in jobs : j.phase = "notify" /\ j.twyst = k.twyst
        <3> DEFINE t == k.twyst
        <3>1. Promised(t, Len(mainQueue) + 1) /\ t \in Twysts
            BY <2>1, <2>2 DEF NotifiedInv
        <3>2. /\ Len(mainQueue) + 1 \in 1 .. Len(mainQueue) + 1
              /\ Len(mainQueue) + 1 > d
            BY <1>1
        <3> HIDE DEF t
        <3>3. PromisedNext(t, (Len(mainQueue) + 1) - d)
            BY <3>1, <3>2, PromiseMoves
        <3>4. (Len(mainQueue) + 1) - d <= Len(mainQueue') + 1
            BY <1>1 DEF Shifts
        <3>5. \A n \in 1 .. ((Len(mainQueue) + 1) - d) - 1 :
                  n \in 1 .. (Len(mainQueue') + 1) - 1
            BY <1>1, <3>4
        <3> QED
            BY <3>3, <3>5 DEF PromisedNext, t
    <2>3. CASE /\ mainQueue'[Len(mainQueue')].kind = "save"
               /\ mainQueue'[Len(mainQueue')].twyst = k.twyst
               /\ Len(mainQueue') = Len(mainQueue) - d + 1
        <3>1. Len(mainQueue') \in 1 .. (Len(mainQueue') + 1) - 1
            BY <1>1, <2>3
        <3> QED
            BY <2>3, <3>1 DEF PromisedNext
    <2> QED
        BY <1>4, <2>2, <2>3
<1> QED
    BY <1>3, <1>4 DEF NotifiedInv, NotifiedIsSaved, Promised, PromisedNext,
       SavedOrSaving

\* Posting a block leaves all others where they are.
LEMMA AppendShifts ==
    ASSUME mainQueue \in Seq(Block), NEW b \in Block,
           mainQueue' = Append(mainQueue, b)
    PROVE  /\ Shifts(0)
           /\ Len(mainQueue') = Len(mainQueue) + 1
           /\ mainQueue'[Len(mainQueue')] = b
    BY AppendProperties DEF Shifts

\* Taking a block moves the others one place to the head.
LEMMA TailShifts ==
    ASSUME mainQueue \in Seq(Block), mainQueue # <<>>,
           Head(mainQueue).kind = "save" => Head(mainQueue).twyst \in stored',
           mainQueue' = Tail(mainQueue)
    PROVE  Shifts(1) /\ Len(mainQueue') = Len(mainQueue) - 1
<1>1. /\ Tail(mainQueue) \in Seq(Block)
      /\ Len(Tail(mainQueue)) = Len(mainQueue) - 1
      /\ \A i \in 1..Len(Tail(mainQueue)) : Tail(mainQueue)[i] = mainQueue[i + 1]
    BY HeadTailProperties
<1>2. Len(mainQueue) \in Nat /\ Head(mainQueue) = mainQueue[1]
    OBVIOUS
<1>3. \A k \in 1..Len(mainQueue) : k > 1 =>
          mainQueue'[k - 1] = mainQueue[k]
    BY <1>1, <1>2
<1> QED
    BY <1>1, <1>2, <1>3 DEF Shifts

\* A completion block does both.
LEMMA TailAppendShifts ==
    ASSUME mainQueue \in Seq(Block), mainQueue # <<>>, NEW b \in Block,
           Head(mainQueue).kind # "save",
           mainQueue' = Append(Tail(mainQueue), b)
    PROVE  /\ Shifts(1)
           /\ Len(mainQueue') = Len(mainQueue)
           /\ mainQueue'[Len(mainQueue')] = b
<1>1. /\ Tail(mainQueue) \in Seq(Block)
      /\ Len(Tail(mainQueue)) = Len(mainQueue) - 1
      /\ \A i \in 1..Len(Tail(mainQueue)) : Tail(mainQueue)[i] = mainQueue[i + 1]
    BY HeadTailProperties
<1>2. Len(mainQueue) \in Nat /\ Head(mainQueue) = mainQueue[1]
    OBVIOUS
<1>3. /\ mainQueue' \in Seq(Block)
      /\ Len(mainQueue') = Len(mainQueue)
      /\ mainQueue'[Len(mainQueue')] = b
      /\ \A i \in 1 .. Len(mainQueue) - 1 : mainQueue'[i] = mainQueue[i + 1]
    BY <1>1, <1>2, AppendProperties
<1>4. \A k \in 1..Len(mainQueue) : k > 1 =>
          mainQueue'[k - 1] = mainQueue[k]
    BY <1>2, <1>3
<1> QED
    BY <1>2, <1>3, <1>4 DEF Shifts

\* A step that leaves the main queue alone.
LEMMA NotifiedQuiet ==
    ASSUME TypeInv, TypeInv', NotifiedInv, NothingForgotten,
           mainQueue' = mainQueue,
           \A k \in jobs' : k.phase = "notify" =>
               \E j \in jobs : j.phase = "notify" /\ j.twyst = k.twyst
    PROVE  NotifiedInv'
<1>1. Shifts(0) /\ Len(mainQueue') # Len(mainQueue) + 1
    BY DEF TypeInv, TypeOK, Shifts
<1>2. jobs \in SUBSET Job /\ jobs' \in SUBSET Job
    BY DEF TypeInv, TypeOK
<1>3. Len(mainQueue) - 0 + 1 = Len(mainQueue) + 1
    BY DEF TypeInv, TypeOK
<1> QED
    BY <1>1, <1>2, <1>3, NotifiedStep

\* Deleting a record breaks promises only to a twyst that is marked.
LEMMA NotifiedDelete ==
    ASSUME TypeInv, TypeInv', NotifiedInv, NEW t \in Twysts,
           DeleteSavedTwyst(t)
    PROVE  NotifiedInv'
<1>1. mainQueue' = mainQueue /\ stored' = stored \ {t}
    BY DEF DeleteSavedTwyst
<1>2. InFlight(t) => "deleted" \in hazards'[t]
    BY DEF DeleteSavedTwyst, Meets, TypeInv, TypeOK
<1>3. \A u \in Twysts : hazards[u] \subseteq hazards'[u]
    BY DEF DeleteSavedTwyst, Meets, TypeInv, TypeOK
<1>4. \A k \in jobs' : \E j \in jobs : j.phase = k.phase /\ j.twyst = k.twyst
    <2> DEFINE new(j) == IF j.twyst = t THEN Orphaned(j) ELSE j
    <2>1. jobs' = {new(j) : j \in jobs}
        BY DEF DeleteSavedTwyst
    <2>2. \A j \in jobs : new(j).phase = j.phase /\ new(j).twyst = j.twyst
        BY DEF Orphaned, TypeInv, TypeOK, Job
    <2> HIDE DEF new
    <2> QED
        BY <2>1, <2>2
<1>5. \A u \in Twysts, i \in 1 .. Len(mainQueue) + 1 :
          Promised(u, i) /\ (u = t => InFlight(t)) => PromisedNext(u, i)
    BY <1>1, <1>2, <1>3 DEF Promised, PromisedNext, SavedOrSaving
<1>6. ASSUME NEW i \in 1..Len(mainQueue), mainQueue[i].kind = "did"
      PROVE  PromisedNext(mainQueue[i].twyst, i)
    <2>1. mainQueue[i].twyst \in Twysts
        <3>1. mainQueue[i] \in Block
            BY ElementOfSeq DEF TypeInv, TypeOK
        <3> QED
            BY <3>1 DEF Block
    <2>2. mainQueue[i].twyst = t => InFlight(t)
        BY DEF InFlight
    <2>3. Promised(mainQueue[i].twyst, i)
        BY <1>6 DEF NotifiedInv, NotifiedIsSaved, Promised
    <2>4. i \in 1 .. Len(mainQueue) + 1
        BY DEF TypeInv, TypeOK
    <2> QED
        BY <1>5, <2>1, <2>2, <2>3, <2>4
<1>7. ASSUME NEW k \in jobs', k.phase = "notify"
      PROVE  PromisedNext(k.twyst, Len(mainQueue) + 1)
    <2>1. PICK j \in jobs : j.phase = "notify" /\ j.twyst = k.twyst
        BY <1>4, <1>7
    <2>2. j.twyst \in Twysts /\ (j.twyst = t => InFlight(t))
        BY DEF InFlight, TypeInv, TypeOK, Job
    <2>3. Promised(j.twyst, Len(mainQueue) + 1)
        BY <2>1 DEF NotifiedInv
    <2>4. Len(mainQueue) + 1 \in 1 .. Len(mainQueue) + 1
        BY DEF TypeInv, TypeOK
    <2> QED
        BY <1>5, <2>1, <2>2, <2>3, <2>4
<1> QED
    BY <1>1, <1>6, <1>7 DEF NotifiedInv, NotifiedIsSaved, Promised,
       PromisedNext, SavedOrSaving

\* A worker posts its notification only after its save.
LEMMA NotifiedWorker ==
    ASSUME TypeInv, TypeInv', NotifiedInv, NEW j \in jobs,
           Network(j) \/ Worker(j)
    PROVE  NotifiedInv'
<1>1. /\ j \in Job
      /\ mainQueue \in Seq(Block)
      /\ jobs \in SUBSET Job
      /\ jobs' \in SUBSET Job
      /\ Len(mainQueue) \in Nat
    BY DEF TypeInv, TypeOK
<1>2. NothingForgotten
    <2>1. CASE FetchBadEntry(j) \/ FetchCorrupt(j)
        <3>1. stored' = stored
            BY <2>1 DEF FetchBadEntry, FetchCorrupt, storeVars, recordVars
        <3>2. \E N : Meets(j.twyst, N)
            BY <2>1 DEF FetchBadEntry, FetchCorrupt
        <3>3. \A t \in Twysts : hazards[t] \subseteq hazards'[t]
            BY <1>1, <3>2 DEF Meets, Job, TypeInv, TypeOK
        <3> QED
            BY <3>1, <3>3 DEF NothingForgotten
    <2>2. CASE ~(FetchBadEntry(j) \/ FetchCorrupt(j))
        <3>1. UNCHANGED <<stored, hazards>>
            BY <2>2 DEF Network, RepliesArrive, RepliesFail, Answer, Worker,
               ReuseReply, OpenFolder, FetchReply, FetchNothing, PostSave,
               PostDid, PostFail, WorkerPosts, EndDownload, storeVars,
               recordVars
        <3> QED
            BY <3>1 DEF NothingForgotten
    <2> QED
        BY <2>1, <2>2
<1>3. ASSUME NEW b \in Block, NEW ph, b.kind # "did",
             ph = "notify" => b.kind = "save" /\ b.twyst = j.twyst,
             mainQueue' = Append(mainQueue, b),
             jobs' = (jobs \ {j}) \cup {[j EXCEPT !.phase = ph]}
      PROVE  NotifiedInv'
    <2>1. /\ Shifts(0)
          /\ Len(mainQueue') = Len(mainQueue) - 0 + 1
          /\ mainQueue'[Len(mainQueue')] = b
        BY <1>1, <1>3, AppendShifts
    <2>2. \A k \in jobs' : k.phase = "notify" =>
              \/ \E i \in jobs : i.phase = "notify" /\ i.twyst = k.twyst
              \/ b.kind = "save" /\ b.twyst = k.twyst
        BY <1>1, <1>3 DEF Job
    <2> QED
        BY <1>1, <1>2, <1>3, <2>1, <2>2, NotifiedStep
<1>4. /\ SaveBlock(j) \in Block
      /\ DidBlock(j.q, j.twyst, j.list) \in Block
      /\ FailBlock(j.q, j.twyst) \in Block
      /\ NilBlock(j) \in Block
      /\ ListBlock(j, replyCount[j.twyst]) \in Block
    <2>1. j.list \in 0..MaxReplies /\ replyCount[j.twyst] \in 0..MaxReplies
        BY <1>1 DEF Job, TypeInv, TypeOK
    <2> QED
        BY <1>1, <2>1, BlockTypes
<1>5. CASE Network(j)
    BY <1>3, <1>4, <1>5 DEF Network, RepliesArrive, RepliesFail, Answer,
       NilBlock, ListBlock
<1>6. CASE PostSave(j)
    BY <1>3, <1>4, <1>6 DEF PostSave, WorkerPosts, SaveBlock
<1>7. CASE PostFail(j)
    BY <1>3, <1>4, <1>7 DEF PostFail, WorkerPosts, FailBlock
<1>8. CASE PostDid(j)
    <2> DEFINE b == DidBlock(j.q, j.twyst, j.list)
    <2>1. /\ mainQueue' = Append(mainQueue, b)
          /\ jobs' = (jobs \ {j}) \cup {[j EXCEPT !.phase = "clear"]}
          /\ j.phase = "notify"
        BY <1>8 DEF PostDid, WorkerPosts
    <2>2. b.twyst = j.twyst /\ b \in Block
        BY <1>4 DEF DidBlock
    <2> HIDE DEF b
    <2>3. /\ Shifts(0)
          /\ Len(mainQueue') = Len(mainQueue) - 0 + 1
          /\ mainQueue'[Len(mainQueue')] = b
        BY <1>1, <2>1, <2>2, AppendShifts
    <2>4. Promised(b.twyst, Len(mainQueue) + 1)
        BY <2>1, <2>2 DEF NotifiedInv
    <2>5. \A k \in jobs' : k.phase = "notify" => k \in jobs
        BY <1>1, <2>1 DEF Job
    <2> QED
        BY <1>1, <1>2, <2>3, <2>4, <2>5, NotifiedStep
<1>9. CASE \/ ReuseReply(j) \/ OpenFolder(j) \/ FetchReply(j)
           \/ FetchNothing(j) \/ FetchBadEntry(j) \/ FetchCorrupt(j)
           \/ EndDownload(j)
    <2>1. mainQueue' = mainQueue
        BY <1>9 DEF ReuseReply, OpenFolder, FetchReply, FetchNothing,
           FetchBadEntry, FetchCorrupt, EndDownload
    <2>2. \A k \in jobs' : k.phase = "notify" => k \in jobs
        <3>1. ASSUME NEW new, NextReply(j, new)
              PROVE  \A k \in jobs' : k.phase = "notify" => k \in jobs
            BY <1>1, <3>1 DEF NextReply, Job
        <3>2. CASE ReuseReply(j)
            BY <3>1, <3>2 DEF ReuseReply
        <3>3. CASE FetchReply(j) \/ FetchBadEntry(j) \/ FetchCorrupt(j)
            BY <3>1, <3>3 DEF FetchReply, FetchBadEntry, FetchCorrupt
        <3>4. CASE OpenFolder(j)
            BY <1>1, <3>4 DEF OpenFolder, Job
        <3>5. CASE FetchNothing(j)
            BY <1>1, <3>5 DEF FetchNothing, Job
        <3>6. CASE EndDownload(j)
            BY <3>6 DEF EndDownload, Ends
        <3> QED
            BY <1>9, <3>2, <3>3, <3>4, <3>5, <3>6
    <2> QED
        BY <1>2, <2>1, <2>2, NotifiedQuiet
<1> QED
    BY <1>5, <1>6, <1>7, <1>8, <1>9 DEF Worker

\* A block that runs leaves the promises of those behind it.
LEMMA NotifiedMainBlock ==
    ASSUME TypeInv, TypeInv', NotifiedInv, MainBlock
    PROVE  NotifiedInv'
<1> DEFINE b == Head(mainQueue)
<1>1. /\ mainQueue \in Seq(Block)
      /\ mainQueue # <<>>
      /\ jobs \in SUBSET Job
      /\ jobs' \in SUBSET Job
    BY DEF MainBlock, TypeInv, TypeOK
<1>2. b \in Block /\ Len(mainQueue) \in Nat
    BY <1>1, HeadTailProperties
<1>3. ASSUME mainQueue' = Tail(mainQueue), NothingForgotten,
             b.kind = "save" => b.twyst \in stored',
             \A k \in jobs' : k.phase = "notify" => k \in jobs
      PROVE  NotifiedInv'
    <2>1. Shifts(1) /\ Len(mainQueue') # Len(mainQueue) - 1 + 1
        BY <1>1, <1>2, <1>3, TailShifts
    <2> QED
        BY <1>1, <1>3, <2>1, NotifiedStep
<1>4. ASSUME NEW n \in Block, NEW j \in jobs, NEW kind,
             kind # "save", EndsAtOnce(b, j, kind, n),
             n.kind = "did" => n.twyst \in stored
      PROVE  NotifiedInv'
    <2>1. /\ mainQueue' = Append(Tail(mainQueue), n)
          /\ b.kind # "save"
          /\ jobs' \subseteq jobs
          /\ NothingForgotten
        BY <1>4 DEF EndsAtOnce, MainRuns, Ends, NothingForgotten, storeVars,
           recordVars
    <2>2. /\ Shifts(1)
          /\ Len(mainQueue') = Len(mainQueue) - 1 + 1
          /\ mainQueue'[Len(mainQueue')] = n
        BY <1>1, <1>2, <2>1, TailAppendShifts
    <2>3. n.kind = "did" => Promised(n.twyst, Len(mainQueue) + 1)
        BY <1>4 DEF Promised, SavedOrSaving
    <2> QED
        BY <1>1, <2>1, <2>2, <2>3, NotifiedStep
<1>5. /\ FailBlock(b.q, b.twyst) \in Block
      /\ FailBlock(b.q, b.twyst).kind = "fail"
      /\ DidBlock(b.q, b.twyst, b.list) \in Block
      /\ DidBlock(b.q, b.twyst, b.list).twyst = b.twyst
    BY <1>2, EmptyFrameSet, MaxRepliesAssumption DEF FailBlock, DidBlock, Block
<1> HIDE DEF b
<1>6. ASSUME NEW j \in jobs, GiveUp(b, j) \/ SkipDownload(b, j)
      PROVE  NotifiedInv'
    BY <1>4, <1>5, <1>6 DEF GiveUp, SkipDownload, AllRepliesSaved
<1>7. ASSUME NEW j \in jobs, BeginDownload(b, j)
      PROVE  NotifiedInv'
    <2>1. mainQueue' = Tail(mainQueue) /\ b.kind = "list"
        BY <1>7 DEF BeginDownload, MainRuns
    <2>2. NothingForgotten
        BY <1>7 DEF BeginDownload, NothingForgotten, storeVars, recordVars,
           Meets, TypeInv, TypeOK
    <2>3. \A k \in jobs' : k.phase = "notify" => k \in jobs
        BY <1>1, <1>7 DEF BeginDownload, Job
    <2> QED
        BY <1>3, <2>1, <2>2, <2>3
<1>8. CASE ConfirmDownloadedTwyst(b)
    BY <1>3, <1>8 DEF ConfirmDownloadedTwyst, NothingForgotten
<1>9. CASE DeliverDid(b) \/ DeliverFail(b)
    BY <1>3, <1>9 DEF DeliverDid, DeliverFail, Deliver, MainRuns,
       NothingForgotten, storeVars, recordVars
<1> QED
    BY <1>6, <1>7, <1>8, <1>9 DEF MainBlock, b

\* A did-download notification is delivered only when the record of its
\* twyst can be fetched, or was deleted while the notification was under
\* way.  It holds because the worker puts the save on the main queue before
\* the notification, and the main queue runs its blocks in order.
THEOREM SavedBeforeNotified == Spec => []NotifiedIsSaved
<1>1. Init => NotifiedInv
    BY DEF Init, NotifiedInv, NotifiedIsSaved
<1>2. TypeInv /\ TypeInv' /\ NotifiedInv /\ [Next]_vars => NotifiedInv'
    <2> SUFFICES ASSUME TypeInv, TypeInv', NotifiedInv, [Next]_vars
                 PROVE  NotifiedInv'
        OBVIOUS
    <2>1. ASSUME mainQueue' = mainQueue, stored' = stored, jobs' = jobs,
                 \A t \in Twysts : hazards[t] \subseteq hazards'[t]
          PROVE  NotifiedInv'
        BY <2>1, NotifiedQuiet DEF NothingForgotten
    <2>2. CASE UNCHANGED vars
        BY <2>1, <2>2 DEF vars, storeVars, recordVars
    <2>3. CASE Environment
        <3>1. ASSUME NEW t \in Twysts, SendReply(t)
              PROVE  NotifiedInv'
            BY <2>1, <3>1 DEF SendReply, Meets, storeVars, recordVars, TypeInv,
               TypeOK
        <3> QED
            BY <2>1, <2>3, <3>1, NotifiedDelete DEF Environment,
               StartDownloadService, StopDownloadService, DownloadTwyst,
               ServerReply, storeVars, recordVars
    <2>4. ASSUME NEW q \in Queues, StartDownload(q)
          PROVE  NotifiedInv'
        <3>1. \A k \in jobs' : k.phase = "notify" => k \in jobs
            BY <2>4 DEF StartDownload, NewJob
        <3>2. mainQueue' = mainQueue /\ NothingForgotten
            BY <2>4 DEF StartDownload, NothingForgotten, storeVars, recordVars
        <3> QED
            BY <3>1, <3>2, NotifiedQuiet
    <2>5. CASE Timer
        BY <2>1, <2>4, <2>5 DEF Timer, Tick, PassOver, storeVars, recordVars
    <2>6. ASSUME NEW l \in localReplies, ReplyThread(l)
          PROVE  NotifiedInv'
        BY <2>1, <2>6 DEF ReplyThread, AddReplySuccess, AddReplyFails,
           MoveReplyFiles, ReadRecord, CommitReply, DropReply, storeVars,
           recordVars
    <2> QED
        BY <2>2, <2>3, <2>5, <2>6, NotifiedWorker, NotifiedMainBlock DEF Next
<1>3. TypeInv /\ [Next]_vars => TypeInv'
    BY TypeStep
<1>4. NotifiedInv => NotifiedIsSaved
    BY DEF NotifiedInv
<1> QED
    BY TypeInit, <1>1, <1>2, <1>3, <1>4, PTL DEF Spec

-----------------------------------------------------------------------------
(* The notifications among the blocks of the main queue                    *)

\* Induction over the natural numbers, for a set of them.
LEMMA SetInduction ==
    ASSUME NEW T \in SUBSET Nat, 0 \in T, \A n \in T : n + 1 \in T
    PROVE  T = Nat
<1> DEFINE less == {p \in Nat \X Nat : p[1] < p[2]}
<1> SUFFICES ASSUME Nat \ T # {}
             PROVE  FALSE
    OBVIOUS
<1>1. IsWellFoundedOn(less, Nat)
    BY NatLessThanWellFounded DEF OpToRel
<1>2. PICK x \in Nat \ T : \A y \in Nat \ T : <<y, x>> \notin less
    <2> HIDE DEF less
    <2> QED
        BY <1>1, WFMin
<1>3. x # 0 /\ x - 1 \in Nat /\ x - 1 < x /\ (x - 1) + 1 = x
    OBVIOUS
<1>4. <<x - 1, x>> \in less
    BY <1>3
<1>5. x - 1 \in T
    BY <1>2, <1>3, <1>4
<1> QED
    BY <1>3, <1>5

\* What NoticesIn has collected of s after its first n blocks.
Collect(s, f, n) ==
    IF n = 0 THEN <<>>
    ELSE IF IsNotice(s[n]) THEN Append(f[n - 1], NoticeOf(s[n]))
    ELSE f[n - 1]

\* A function with what is collected after each block exists, ...
LEMMA CollectExists ==
    ASSUME NEW s, NEW m \in Nat
    PROVE  \E f : f = [n \in 0 .. m |-> Collect(s, f, n)]
<1> DEFINE IsCollected(f, k) == f = [n \in 0 .. k |-> Collect(s, f, n)]
           T == {k \in Nat : \E f : IsCollected(f, k)}
<1>1. 0 \in T
    <2> DEFINE f == [n \in 0 .. 0 |-> <<>>]
    <2>1. \A n \in 0 .. 0 : Collect(s, f, n) = <<>>
        BY DEF Collect
    <2> HIDE DEF f
    <2>2. IsCollected(f, 0)
        BY <2>1 DEF f
    <2> HIDE DEF IsCollected
    <2> QED
        BY <2>2
<1>2. ASSUME NEW k \in T
      PROVE  k + 1 \in T
    <2>1. PICK f : IsCollected(f, k)
        OBVIOUS
    <2> DEFINE g == [n \in 0 .. k + 1 |->
                        IF n = k + 1 THEN Collect(s, f, n) ELSE f[n]]
    <2>2. ASSUME NEW n \in 0 .. k + 1
          PROVE  g[n] = Collect(s, g, n)
        <3>1. k \in Nat
            OBVIOUS
        <3>2. n # k + 1 => n \in 0 .. k /\ f[n] = Collect(s, f, n)
            BY <2>1, <3>1
        <3>3. n # 0 => n - 1 \in 0 .. k + 1 /\ n - 1 # k + 1
            BY <3>1
        <3>4. n # 0 => g[n - 1] = f[n - 1]
            BY <3>3
        <3>5. Collect(s, g, n) = Collect(s, f, n)
            BY <3>4 DEF Collect
        <3> QED
            BY <3>2, <3>5
    <2>3. IsCollected(g, k + 1)
        BY <2>2
    <2> HIDE DEF g, IsCollected
    <2> QED
        BY <2>3
<1>3. m \in T
    <2>1. T \in SUBSET Nat
        OBVIOUS
    <2> HIDE DEF T
    <2> QED
        BY <1>1, <1>2, <2>1, SetInduction
<1> QED
    BY <1>3

\* ... and NoticesIn is what it has after the last.
LEMMA NoticesCollected ==
    ASSUME NEW s, Len(s) \in Nat
    PROVE  \E f : /\ \A n \in 0 .. Len(s) : f[n] = Collect(s, f, n)
                  /\ NoticesIn(s) = f[Len(s)]
<1> DEFINE upTo == CHOOSE f : f = [n \in 0 .. Len(s) |-> Collect(s, f, n)]
<1>1. upTo = [n \in 0 .. Len(s) |-> Collect(s, upTo, n)]
    BY CollectExists
<1>2. NoticesIn(s) = upTo[Len(s)]
    BY DEF NoticesIn, Collect
<1>3. \A n \in 0 .. Len(s) : upTo[n] = Collect(s, upTo, n)
    <2> HIDE DEF upTo
    <2> QED
        BY <1>1
<1> HIDE DEF upTo
<1> QED
    BY <1>2, <1>3

\* The notifications of blocks are notices of the contract, ...
LEMMA NoticesTyped ==
    ASSUME NEW s \in Seq(Block)
    PROVE  NoticesIn(s) \in Seq(Contract!Notice)
<1>1. PICK f : /\ \A n \in 0 .. Len(s) : f[n] = Collect(s, f, n)
               /\ NoticesIn(s) = f[Len(s)]
    BY NoticesCollected
<1>2. f[0] \in Seq(Contract!Notice)
    <2>1. f[0] = <<>>
        BY <1>1 DEF Collect
    <2> QED
        BY <2>1
<1>3. ASSUME NEW n \in Nat, n + 1 <= Len(s), f[n] \in Seq(Contract!Notice)
      PROVE  f[n + 1] \in Seq(Contract!Notice)
    <2>1. /\ n + 1 # 0 /\ (n + 1) - 1 = n /\ n + 1 \in 1 .. Len(s)
          /\ f[n + 1] = Collect(s, f, n + 1)
        BY <1>1, <1>3
    <2>2. s[n + 1] \in Block
        BY <2>1, ElementOfSeq
    <2>3. IsNotice(s[n + 1]) => NoticeOf(s[n + 1]) \in Contract!Notice
        BY <2>2 DEF IsNotice, NoticeOf, Block, Contract!Notice
    <2> QED
        BY <1>3, <2>1, <2>3, AppendProperties DEF Collect
<1> DEFINE T == {n \in Nat : n <= Len(s) => f[n] \in Seq(Contract!Notice)}
<1>4. Len(s) \in T
    <2>1. T \in SUBSET Nat /\ 0 \in T
        BY <1>2
    <2>2. \A n \in T : n + 1 \in T
        BY <1>3
    <2> HIDE DEF T
    <2> QED
        BY <2>1, <2>2, SetInduction
<1> QED
    BY <1>1, <1>4

\* ... a block that is posted adds its notice behind the others, ...
LEMMA NoticesAppend ==
    ASSUME NEW s \in Seq(Block), NEW b \in Block
    PROVE  NoticesIn(Append(s, b)) =
               IF IsNotice(b) THEN Append(NoticesIn(s), NoticeOf(b))
               ELSE NoticesIn(s)
<1> DEFINE r == Append(s, b)
<1>1. /\ r \in Seq(Block) /\ Len(r) = Len(s) + 1 /\ r[Len(s) + 1] = b
      /\ \A i \in 1 .. Len(s) : r[i] = s[i]
    BY AppendProperties
<1> HIDE DEF r
<1>2. PICK f : /\ \A n \in 0 .. Len(s) : f[n] = Collect(s, f, n)
               /\ NoticesIn(s) = f[Len(s)]
    BY NoticesCollected
<1>3. PICK g : /\ \A n \in 0 .. Len(r) : g[n] = Collect(r, g, n)
               /\ NoticesIn(r) = g[Len(r)]
    BY <1>1, NoticesCollected
<1>4. f[0] = <<>> /\ g[0] = <<>>
    BY <1>1, <1>2, <1>3 DEF Collect
<1>5. ASSUME NEW n \in Nat, n + 1 <= Len(s), f[n] = g[n]
      PROVE  f[n + 1] = g[n + 1]
    <2>1. /\ n + 1 # 0 /\ (n + 1) - 1 = n /\ n + 1 \in 1 .. Len(s)
          /\ f[n + 1] = Collect(s, f, n + 1)
        BY <1>2, <1>5
    <2>2. n + 1 \in 0 .. Len(r) /\ r[n + 1] = s[n + 1]
        BY <1>1, <2>1
    <2>3. g[n + 1] = Collect(r, g, n + 1)
        BY <1>3, <2>2
    <2> QED
        BY <1>5, <2>1, <2>2, <2>3 DEF Collect
<1> DEFINE T == {n \in Nat : n <= Len(s) => f[n] = g[n]}
<1>6. Len(s) \in T
    <2>1. T \in SUBSET Nat /\ 0 \in T
        BY <1>4
    <2>2. \A n \in T : n + 1 \in T
        BY <1>5
    <2> HIDE DEF T
    <2> QED
        BY <2>1, <2>2, SetInduction
<1>7. /\ g[Len(s) + 1] = Collect(r, g, Len(s) + 1)
      /\ Len(s) + 1 # 0 /\ (Len(s) + 1) - 1 = Len(s)
    BY <1>1, <1>3
<1>8. g[Len(s)] = NoticesIn(s)
    BY <1>2, <1>6
<1> QED
    BY <1>1, <1>3, <1>7, <1>8 DEF Collect, r

\* ... the block that runs takes its notice from the head of them, ...
LEMMA NoticesTail ==
    ASSUME NEW s \in Seq(Block), s # <<>>
    PROVE  IF IsNotice(Head(s))
           THEN /\ NoticesIn(s) # <<>>
                /\ Head(NoticesIn(s)) = NoticeOf(Head(s))
                /\ Tail(NoticesIn(s)) = NoticesIn(Tail(s))
           ELSE NoticesIn(s) = NoticesIn(Tail(s))
<1> DEFINE r == Tail(s)
           Follows(x, y) == IF IsNotice(Head(s))
                            THEN /\ x # <<>> /\ Head(x) = NoticeOf(Head(s))
                                 /\ Tail(x) = y
                            ELSE x = y
<1>1. /\ r \in Seq(Block) /\ Len(r) \in Nat /\ Len(s) = Len(r) + 1
      /\ Head(s) = s[1]
      /\ \A i \in 1 .. Len(r) : r[i] = s[i + 1]
    BY HeadTailProperties
<1> HIDE DEF r
<1>2. PICK f : /\ \A n \in 0 .. Len(s) : f[n] = Collect(s, f, n)
               /\ NoticesIn(s) = f[Len(s)]
    BY NoticesCollected
<1>3. PICK g : /\ \A n \in 0 .. Len(r) : g[n] = Collect(r, g, n)
               /\ NoticesIn(r) = g[Len(r)]
    BY <1>1, NoticesCollected
<1> DEFINE N == Contract!Notice
           P(n) == /\ g[n] \in Seq(N) /\ f[n + 1] \in Seq(N)
                   /\ Follows(f[n + 1], g[n])
<1>4. P(0)
    <2>1. f[0] = <<>> /\ g[0] = <<>>
        BY <1>1, <1>2, <1>3 DEF Collect
    <2>2. f[1] = Collect(s, f, 1)
        <3>1. 1 \in 0 .. Len(s)
            BY <1>1
        <3> QED
            BY <1>2, <3>1
    <2>3. f[1] = IF IsNotice(Head(s)) THEN <<NoticeOf(Head(s))>> ELSE <<>>
        <3>1. f[1] = IF IsNotice(s[1]) THEN Append(f[0], NoticeOf(s[1]))
                                       ELSE f[0]
            BY <2>2, 1 # 0, 1 - 1 = 0 DEF Collect
        <3> QED
            BY <1>1, <2>1, <3>1
    <2>4. s[1] \in Block
        BY ElementOfSeq, <1>1
    <2>5. IsNotice(s[1]) => NoticeOf(s[1]) \in N
        BY <2>4 DEF IsNotice, NoticeOf, Block, Contract!Notice
    <2>6. Follows(f[1], g[0])
        BY <2>1, <2>3
    <2> HIDE DEF N
    <2>7. f[1] \in Seq(N) /\ g[0] \in Seq(N)
        BY <1>1, <2>1, <2>3, <2>5
    <2> HIDE DEF Follows
    <2> QED
        BY <2>6, <2>7
<1>5. ASSUME NEW n \in Nat, n + 1 <= Len(r), P(n)
      PROVE  P(n + 1)
    <2> DEFINE x == f[n + 1]
               y == g[n]
               b == s[n + 2]
    <2>1. y \in Seq(N) /\ x \in Seq(N) /\ Follows(x, y)
        <3> HIDE DEF Follows, N
        <3> QED
            BY <1>5
    <2>2. /\ n + 2 \in 1 .. Len(s) /\ n + 1 \in 1 .. Len(r)
          /\ (n + 2) - 1 = n + 1 /\ (n + 1) - 1 = n
          /\ n + 2 # 0 /\ n + 1 # 0 /\ (n + 1) + 1 = n + 2
        BY <1>1, <1>5
    <2>3. f[n + 2] = Collect(s, f, n + 2) /\ g[n + 1] = Collect(r, g, n + 1)
        BY <1>2, <1>3, <2>2
    <2>4. r[n + 1] = b
        BY <1>1, <2>2
    <2>5. b \in Block
        BY <2>2, ElementOfSeq
    <2>6. IsNotice(b) => NoticeOf(b) \in N
        BY <2>5 DEF IsNotice, NoticeOf, Block, Contract!Notice
    <2>7. /\ f[n + 2] = IF IsNotice(b) THEN Append(x, NoticeOf(b)) ELSE x
          /\ g[n + 1] = IF IsNotice(b) THEN Append(y, NoticeOf(b)) ELSE y
        BY <2>2, <2>3, <2>4 DEF Collect
    <2> HIDE DEF x, y, b, N
    <2>8. CASE ~IsNotice(b)
        <3>1. f[n + 2] = x /\ g[n + 1] = y
            BY <2>7, <2>8
        <3>2. (n + 1) + 1 = n + 2
            BY <2>2
        <3> HIDE DEF Follows
        <3> QED
            BY <2>1, <3>1, <3>2
    <2>9. CASE IsNotice(b)
        <3>1. /\ Append(x, NoticeOf(b)) \in Seq(N)
              /\ Append(x, NoticeOf(b)) # <<>>
              /\ Append(y, NoticeOf(b)) \in Seq(N)
            BY <2>1, <2>6, <2>9, AppendProperties
        <3>2. /\ Head(Append(x, NoticeOf(b))) =
                     IF x = <<>> THEN NoticeOf(b) ELSE Head(x)
              /\ Tail(Append(x, NoticeOf(b))) =
                     IF x = <<>> THEN <<>> ELSE Append(Tail(x), NoticeOf(b))
            BY <2>1, HeadTailAppend
        <3>3. Follows(f[n + 2], g[n + 1])
            BY <2>1, <2>7, <2>9, <3>1, <3>2
        <3> HIDE DEF Follows
        <3> QED
            BY <2>2, <2>7, <2>9, <3>1, <3>3
    <2> QED
        BY <2>8, <2>9
<1> DEFINE T == {n \in Nat : n <= Len(r) => P(n)}
<1>6. Len(r) \in T
    <2> HIDE DEF P
    <2>1. T \in SUBSET Nat /\ 0 \in T
        BY <1>4
    <2>2. \A n \in T : n + 1 \in T
        BY <1>1, <1>5
    <2>3. Len(r) \in Nat
        BY <1>1
    <2> HIDE DEF T
    <2> QED
        BY <2>1, <2>2, <2>3, SetInduction
<1>7. Follows(f[Len(r) + 1], g[Len(r)])
    <2> HIDE DEF Follows
    <2> QED
        BY <1>1, <1>6
<1> QED
    BY <1>1, <1>2, <1>3, <1>7 DEF r

\* ... and a twyst has a notice if and only if a notification of it waits.
LEMMA NoticesMember ==
    ASSUME NEW s \in Seq(Block), NEW t
    PROVE  (\E k \in 1 .. Len(NoticesIn(s)) : NoticesIn(s)[k].twyst = t)
               <=> \E i \in 1 .. Len(s) : IsNotice(s[i]) /\ s[i].twyst = t
<1>1. PICK f : /\ \A n \in 0 .. Len(s) : f[n] = Collect(s, f, n)
               /\ NoticesIn(s) = f[Len(s)]
    BY NoticesCollected
<1> DEFINE N == Contract!Notice
           In(n) == \E k \in 1 .. Len(f[n]) : f[n][k].twyst = t
           Waits(n) == \E i \in 1 .. n : IsNotice(s[i]) /\ s[i].twyst = t
           P(n) == f[n] \in Seq(N) /\ (In(n) <=> Waits(n))
<1>2. P(0)
    <2>1. f[0] = <<>>
        BY <1>1 DEF Collect
    <2> HIDE DEF N
    <2> QED
        BY <2>1
<1>3. ASSUME NEW n \in Nat, n + 1 <= Len(s), P(n)
      PROVE  P(n + 1)
    <2> DEFINE x == f[n]
               b == s[n + 1]
    <2>1. n + 1 # 0 /\ (n + 1) - 1 = n /\ n + 1 \in 1 .. Len(s)
        BY <1>3
    <2>2. f[n + 1] = IF IsNotice(b) THEN Append(x, NoticeOf(b)) ELSE x
        <3>1. f[n + 1] = Collect(s, f, n + 1)
            BY <1>1, <2>1
        <3> QED
            BY <2>1, <3>1 DEF Collect
    <2>3. b \in Block
        BY <2>1, ElementOfSeq
    <2>4. IsNotice(b) => NoticeOf(b) \in N /\ NoticeOf(b).twyst = b.twyst
        BY <2>3 DEF IsNotice, NoticeOf, Block, Contract!Notice
    <2>5. Waits(n + 1) <=> Waits(n) \/ (IsNotice(b) /\ b.twyst = t)
        <3>1. \A i \in 1 .. n + 1 : i \in 1 .. n \/ i = n + 1
            BY <1>3
        <3>2. n + 1 \in 1 .. n + 1 /\ \A i \in 1 .. n : i \in 1 .. n + 1
            BY <1>3
        <3> QED
            BY <3>1, <3>2
    <2>6. x \in Seq(N) /\ (In(n) <=> Waits(n))
        BY <1>3
    <2> HIDE DEF b, N, Waits
    <2>7. CASE ~IsNotice(b)
        <3>1. f[n + 1] = f[n]
            BY <2>2, <2>7
        <3>2. In(n + 1) <=> In(n)
            BY <3>1
        <3>3. f[n + 1] \in Seq(N)
            BY <2>6, <3>1
        <3>4. In(n + 1) <=> Waits(n + 1)
            <4> HIDE DEF In
            <4> QED
                BY <2>5, <2>6, <2>7, <3>2
        <3> HIDE DEF In
        <3> QED
            BY <3>3, <3>4
    <2>8. CASE IsNotice(b)
        <3> DEFINE y == Append(x, NoticeOf(b))
        <3>1. /\ y \in Seq(N) /\ Len(y) = Len(x) + 1
              /\ \A k \in 1 .. Len(x) : y[k] = x[k]
              /\ y[Len(x) + 1] = NoticeOf(b)
            BY <2>4, <2>6, <2>8, AppendProperties
        <3>2. Len(x) \in Nat
            BY <2>6
        <3>3. f[n + 1] = y
            BY <2>2, <2>8
        <3> HIDE DEF x, y
        <3>4. \A k : k \in 1 .. Len(y) <=> k \in 1 .. Len(x) \/ k = Len(x) + 1
            BY <3>1, <3>2
        <3>5. (\E k \in 1 .. Len(y) : y[k].twyst = t) <=>
                  \/ \E k \in 1 .. Len(x) : x[k].twyst = t
                  \/ b.twyst = t
            BY <2>4, <2>8, <3>1, <3>4
        <3>6. In(n) <=> \E k \in 1 .. Len(x) : x[k].twyst = t
            BY DEF x
        <3>7. In(n + 1) <=> \E k \in 1 .. Len(y) : y[k].twyst = t
            BY <3>3
        <3>8. f[n + 1] \in Seq(N)
            BY <3>1, <3>3
        <3>9. In(n + 1) <=> Waits(n + 1)
            <4> HIDE DEF In
            <4> QED
                BY <2>5, <2>6, <2>8, <3>5, <3>6, <3>7
        <3> HIDE DEF In
        <3> QED
            BY <3>8, <3>9
    <2> QED
        BY <2>7, <2>8
<1> DEFINE T == {n \in Nat : n <= Len(s) => P(n)}
<1>4. Len(s) \in T
    <2> HIDE DEF P
    <2>1. T \in SUBSET Nat /\ 0 \in T
        BY <1>2
    <2>2. \A n \in T : n + 1 \in T
        BY <1>3
    <2>3. Len(s) \in Nat
        OBVIOUS
    <2> HIDE DEF T
    <2> QED
        BY <2>1, <2>2, <2>3, SetInduction
<1> QED
    BY <1>1, <1>4

-----------------------------------------------------------------------------
(* What waits in a queue                                                   *)

\* What is left when one element of a sequence is removed.
LEMMA RemoveAtValue ==
    ASSUME NEW S, NEW s \in Seq(S), NEW i \in DOMAIN s
    PROVE  /\ RemoveAt(s, i) \in Seq(S) /\ Len(RemoveAt(s, i)) = Len(s) - 1
           /\ \A j \in 1 .. Len(s) - 1 :
                  RemoveAt(s, i)[j] = IF j < i THEN s[j] ELSE s[j + 1]
<1> DEFINE left == SubSeq(s, 1, i - 1)
           right == SubSeq(s, i + 1, Len(s))
<1>1. i \in 1 .. Len(s) /\ Len(s) \in Nat
    OBVIOUS
<1>2. /\ left \in Seq(S) /\ Len(left) = i - 1
      /\ \A j \in 1 .. i - 1 : left[j] = s[j]
    BY <1>1
<1>3. /\ right \in Seq(S) /\ Len(right) = Len(s) - i
      /\ \A j \in 1 .. Len(s) - i : right[j] = s[j + i]
    BY <1>1
<1>4. RemoveAt(s, i) = left \o right
    BY DEF RemoveAt
<1> HIDE DEF left, right
<1>5. /\ left \o right \in Seq(S) /\ Len(left \o right) = Len(s) - 1
      /\ \A j \in 1 .. Len(s) - 1 :
            (left \o right)[j] = IF j < i THEN left[j] ELSE right[j - (i - 1)]
    BY <1>1, <1>2, <1>3, ConcatProperties
<1>6. ASSUME NEW j \in 1 .. Len(s) - 1
      PROVE  (left \o right)[j] = IF j < i THEN s[j] ELSE s[j + 1]
    <2>1. CASE j < i
        BY <1>1, <1>2, <1>5, <2>1
    <2>2. CASE ~(j < i)
        <3>1. j - (i - 1) \in 1 .. Len(s) - i /\ (j - (i - 1)) + i = j + 1
            BY <1>1, <2>2
        <3> QED
            BY <1>3, <1>5, <2>2, <3>1
    <2> QED
        BY <2>1, <2>2
<1> QED
    BY <1>4, <1>5, <1>6

\* The elements of a sequence.
LEMMA InToSet ==
    ASSUME NEW S, NEW s \in Seq(S), NEW x
    PROVE  x \in ToSet(s) <=> \E i \in 1 .. Len(s) : s[i] = x
    BY LenProperties DEF ToSet

\* A twyst is in a queue once, ...
Once(s) == \A i, k \in 1 .. Len(s) : s[i] = s[k] => i = k

\* ... so that the one taken off is no longer in it, ...
LEMMA OnceTail ==
    ASSUME NEW s \in Seq(Twysts), s # <<>>, Once(s)
    PROVE  Once(Tail(s)) /\ ToSet(Tail(s)) = ToSet(s) \ {Head(s)}
<1>1. /\ Len(Tail(s)) = Len(s) - 1 /\ Len(s) \in Nat
      /\ \A i \in 1 .. Len(Tail(s)) : Tail(s)[i] = s[i + 1]
      /\ Head(s) = s[1] /\ Tail(s) \in Seq(Twysts)
    BY HeadTailProperties
<1>2. Once(Tail(s))
    <2> SUFFICES ASSUME NEW i \in 1 .. Len(Tail(s)), NEW k \in 1 .. Len(Tail(s)),
                        Tail(s)[i] = Tail(s)[k]
                 PROVE  i = k
        BY DEF Once
    <2>1. i + 1 \in 1 .. Len(s) /\ k + 1 \in 1 .. Len(s) /\ s[i + 1] = s[k + 1]
        BY <1>1
    <2>2. i + 1 = k + 1
        BY <2>1 DEF Once
    <2> QED
        BY <2>2
<1>3. ASSUME NEW i \in 1 .. Len(Tail(s))
      PROVE  Tail(s)[i] \in ToSet(s) /\ Tail(s)[i] # Head(s)
    <2>1. i + 1 \in 1 .. Len(s) /\ 1 \in 1 .. Len(s) /\ i + 1 # 1
        BY <1>1
    <2>2. Tail(s)[i] = s[i + 1]
        BY <1>1
    <2> QED
        BY <1>1, <2>1, <2>2, InToSet DEF Once
<1>4. ASSUME NEW i \in 1 .. Len(s), s[i] # Head(s)
      PROVE  s[i] \in ToSet(Tail(s))
    <2>1. i # 1 /\ i - 1 \in 1 .. Len(Tail(s)) /\ (i - 1) + 1 = i
        BY <1>1, <1>4
    <2>2. Tail(s)[i - 1] = s[i]
        BY <1>1, <2>1
    <2> QED
        BY <1>1, <2>1, <2>2, InToSet
<1>5. \A x : x \in ToSet(Tail(s)) <=> x \in ToSet(s) /\ x # Head(s)
    <2> SUFFICES ASSUME NEW x
                 PROVE  x \in ToSet(Tail(s)) <=> x \in ToSet(s) /\ x # Head(s)
        OBVIOUS
    <2>1. x \in ToSet(Tail(s)) => x \in ToSet(s) /\ x # Head(s)
        <3>1. x \in ToSet(Tail(s)) <=> \E i \in 1 .. Len(Tail(s)) : Tail(s)[i] = x
            BY <1>1, InToSet
        <3> QED
            BY <1>3, <3>1
    <2>2. x \in ToSet(s) /\ x # Head(s) => x \in ToSet(Tail(s))
        BY <1>4, InToSet
    <2> QED
        BY <2>1, <2>2
<1> QED
    BY <1>2, <1>5

\* ... and a request adds it if it is not there, and else moves it at most.
LEMMA OnceEnqueued ==
    ASSUME NEW s \in Seq(Twysts), NEW t \in Twysts, NEW u \in BOOLEAN, Once(s)
    PROVE  /\ Once(Enqueued(s, t, u))
           /\ ToSet(Enqueued(s, t, u)) = ToSet(s) \cup {t}
<1>1. ASSUME NEW r \in Seq(Twysts), Once(r), t \notin ToSet(r)
      PROVE  /\ Once(<<t>> \o r) /\ ToSet(<<t>> \o r) = ToSet(r) \cup {t}
             /\ Once(Append(r, t)) /\ ToSet(Append(r, t)) = ToSet(r) \cup {t}
    <2> DEFINE c == <<t>> \o r
               a == Append(r, t)
    <2>1. /\ c \in Seq(Twysts) /\ Len(c) = Len(r) + 1 /\ Len(r) \in Nat
          /\ \A i \in 1 .. Len(r) + 1 : c[i] = IF i <= 1 THEN t ELSE r[i - 1]
        <3>1. <<t>> \in Seq(Twysts) /\ Len(<<t>>) = 1 /\ <<t>>[1] = t
            OBVIOUS
        <3>2. /\ c \in Seq(Twysts) /\ Len(c) = 1 + Len(r)
              /\ \A i \in 1 .. 1 + Len(r) :
                     c[i] = IF i <= 1 THEN <<t>>[i] ELSE r[i - 1]
            BY <3>1, ConcatProperties
        <3> QED
            BY <3>1, <3>2
    <2>2. /\ a \in Seq(Twysts) /\ Len(a) = Len(r) + 1
          /\ \A i \in 1 .. Len(r) : a[i] = r[i]
          /\ a[Len(r) + 1] = t
        BY AppendProperties
    <2> HIDE DEF a, c
    <2>3. \A i \in 1 .. Len(r) : r[i] # t
        BY <1>1, InToSet
    <2>4. Once(c)
        <3> SUFFICES ASSUME NEW i \in 1 .. Len(c), NEW k \in 1 .. Len(c),
                            c[i] = c[k]
                     PROVE  i = k
            BY DEF Once
        <3>1. i # 1 => i - 1 \in 1 .. Len(r) /\ c[i] = r[i - 1]
            BY <2>1
        <3>2. k # 1 => k - 1 \in 1 .. Len(r) /\ c[k] = r[k - 1]
            BY <2>1
        <3>3. c[1] = t
            BY <2>1
        <3>4. i # 1 /\ k # 1 => i - 1 = k - 1
            BY <1>1, <3>1, <3>2 DEF Once
        <3> QED
            BY <2>1, <2>3, <3>1, <3>2, <3>3, <3>4
    <2>5. Once(a)
        <3> SUFFICES ASSUME NEW i \in 1 .. Len(a), NEW k \in 1 .. Len(a),
                            a[i] = a[k]
                     PROVE  i = k
            BY DEF Once
        <3>1. i # Len(a) => i \in 1 .. Len(r) /\ a[i] = r[i]
            BY <2>1, <2>2
        <3>2. k # Len(a) => k \in 1 .. Len(r) /\ a[k] = r[k]
            BY <2>1, <2>2
        <3>3. a[Len(a)] = t
            BY <2>2
        <3>4. i # Len(a) /\ k # Len(a) => i = k
            BY <1>1, <3>1, <3>2 DEF Once
        <3> QED
            BY <2>3, <3>1, <3>2, <3>3, <3>4
    <2>6. ToSet(c) = ToSet(r) \cup {t}
        <3>1. \A i \in 1 .. Len(r) : i + 1 \in 1 .. Len(c) /\ c[i + 1] = r[i]
            BY <2>1
        <3>2. \A i \in 1 .. Len(c) : i = 1 \/ i - 1 \in 1 .. Len(r)
            BY <2>1
        <3>3. 1 \in 1 .. Len(c) /\ c[1] = t
            BY <2>1
        <3>4. \A x : x \in ToSet(c) <=> x \in ToSet(r) \/ x = t
            <4> SUFFICES ASSUME NEW x
                         PROVE  x \in ToSet(c) <=> x \in ToSet(r) \/ x = t
                OBVIOUS
            <4>1. x \in ToSet(c) <=> \E i \in 1 .. Len(c) : c[i] = x
                BY <2>1, InToSet
            <4>2. x \in ToSet(r) <=> \E i \in 1 .. Len(r) : r[i] = x
                BY InToSet
            <4>3. \A i \in 1 .. Len(c) : i # 1 => c[i] = r[i - 1]
                BY <2>1
            <4> QED
                BY <3>1, <3>2, <3>3, <4>1, <4>2, <4>3
        <3> QED
            BY <3>4
    <2>7. ToSet(a) = ToSet(r) \cup {t}
        <3>1. \A i \in 1 .. Len(a) : i = Len(r) + 1 \/ i \in 1 .. Len(r)
            BY <2>1, <2>2
        <3>2. \A i \in 1 .. Len(r) : i \in 1 .. Len(a)
            BY <2>1, <2>2
        <3>3. Len(r) + 1 \in 1 .. Len(a)
            BY <2>1, <2>2
        <3>4. \A x : x \in ToSet(a) <=> x \in ToSet(r) \/ x = t
            BY <2>2, <3>1, <3>2, <3>3, InToSet
        <3> QED
            BY <3>4
    <2> QED
        BY <2>4, <2>5, <2>6, <2>7 DEF a, c
<1>2. CASE ~\E i \in 1 .. Len(s) : s[i] = t
    <2>1. t \notin ToSet(s)
        BY <1>2, InToSet
    <2> QED
        BY <1>1, <1>2, <2>1 DEF Enqueued
<1>3. CASE \E i \in 1 .. Len(s) : s[i] = t
    <2>1. t \in ToSet(s)
        BY <1>3, InToSet
    <2>2. CASE u
        <3> DEFINE i == CHOOSE i \in 1 .. Len(s) : s[i] = t
        <3>1. i \in 1 .. Len(s) /\ s[i] = t
            BY <1>3
        <3>2. Enqueued(s, t, u) = <<t>> \o RemoveAt(s, i)
            BY <1>3, <2>2 DEF Enqueued
        <3> HIDE DEF i
        <3> DEFINE r == RemoveAt(s, i)
        <3>3. /\ r \in Seq(Twysts) /\ Len(r) = Len(s) - 1
              /\ \A k \in 1 .. Len(s) - 1 :
                     r[k] = IF k < i THEN s[k] ELSE s[k + 1]
            <4>1. i \in DOMAIN s
                BY <3>1
            <4> QED
                BY <4>1, RemoveAtValue
        <3> HIDE DEF r
        <3>4. Len(s) \in Nat /\ i \in Nat
            BY <3>1
        <3>5. Once(r)
            <4> SUFFICES ASSUME NEW k \in 1 .. Len(r), NEW m \in 1 .. Len(r),
                                r[k] = r[m]
                         PROVE  k = m
                BY DEF Once
            <4> DEFINE x(n) == IF n < i THEN n ELSE n + 1
            <4>1. \A n \in 1 .. Len(r) : x(n) \in 1 .. Len(s) /\ r[n] = s[x(n)]
                BY <3>3, <3>4
            <4>2. x(k) = x(m)
                BY <4>1 DEF Once
            <4> QED
                BY <3>4, <4>2
        <3>6. t \notin ToSet(r)
            <4> SUFFICES ASSUME NEW k \in 1 .. Len(r), r[k] = t
                         PROVE  FALSE
                BY <3>3, InToSet
            <4> DEFINE x == IF k < i THEN k ELSE k + 1
            <4>1. x \in 1 .. Len(s) /\ r[k] = s[x] /\ x # i
                BY <3>3, <3>4
            <4> QED
                BY <3>1, <4>1 DEF Once
        <3>7. ToSet(r) \cup {t} = ToSet(s) \cup {t}
            <4>1. \A k \in 1 .. Len(r) : \E m \in 1 .. Len(s) : r[k] = s[m]
                BY <3>3, <3>4
            <4>2. ASSUME NEW m \in 1 .. Len(s), s[m] # t
                  PROVE  \E k \in 1 .. Len(r) : r[k] = s[m]
                <5>1. CASE m < i
                    <6>1. m \in 1 .. Len(r) /\ r[m] = s[m]
                        BY <3>1, <3>3, <3>4, <5>1
                    <6> QED
                        BY <6>1
                <5>2. CASE ~(m < i)
                    <6>1. m # i
                        BY <3>1, <4>2
                    <6>2. /\ m - 1 \in 1 .. Len(r) /\ ~(m - 1 < i)
                          /\ (m - 1) + 1 = m
                        BY <3>1, <3>3, <3>4, <5>2, <6>1
                    <6>3. r[m - 1] = s[m]
                        BY <3>3, <6>2
                    <6> QED
                        BY <6>2, <6>3
                <5> QED
                    BY <5>1, <5>2
            <4>3. ASSUME NEW x, x # t
                  PROVE  x \in ToSet(r) <=> x \in ToSet(s)
                <5>1. x \in ToSet(r) <=> \E k \in 1 .. Len(r) : r[k] = x
                    BY <3>3, InToSet
                <5>2. x \in ToSet(s) <=> \E m \in 1 .. Len(s) : s[m] = x
                    BY InToSet
                <5> QED
                    BY <4>1, <4>2, <4>3, <5>1, <5>2
            <4> QED
                BY <4>3
        <3> QED
            BY <1>1, <3>2, <3>3, <3>5, <3>6, <3>7 DEF r
    <2>3. CASE ~u
        BY <1>3, <2>1, <2>3 DEF Enqueued
    <2> QED
        BY <2>2, <2>3
<1> QED
    BY <1>2, <1>3

-----------------------------------------------------------------------------
(* The service implements its contract                                     *)

QueuedOnce == \A q \in Queues : Once(queue[q])

\* A record that is about to be saved is awaited: the worker has its
\* notification still to post, or it stands behind the save.
SaveAwaited(t, i) ==
    \/ \E j \in jobs : j.twyst = t /\ j.phase = "notify"
    \/ \E k \in i + 1 .. Len(mainQueue) : mainQueue[k].kind = "did"
                                          /\ mainQueue[k].twyst = t

AwaitedInv ==
    \A i \in 1 .. Len(mainQueue) :
        mainQueue[i].kind = "save" => SaveAwaited(mainQueue[i].twyst, i)

\* What the refinement needs of the service.
ServiceInv ==
    TypeInv /\ SingleFlight /\ NotifiedIsSaved /\ QueuedOnce /\ AwaitedInv

\* A twyst is in a queue once, whatever is requested or started.
LEMMA QueuedOnceStep ==
    ASSUME TypeInv, QueuedOnce, [Next]_vars
    PROVE  QueuedOnce'
<1>1. CASE queue' = queue
    BY <1>1 DEF QueuedOnce
<1>2. ASSUME NEW p \in Pairs, NEW t \in Twysts, NEW u \in BOOLEAN,
             DownloadTwyst(p, t, u)
      PROVE  QueuedOnce'
    <2> DEFINE q == <<p, IF u THEN "principal" ELSE "normal">>
    <2>1. q \in Queues /\ queue[q] \in Seq(Twysts)
        BY DEF Queues, TypeInv, TypeOK
    <2>2. queue' = [queue EXCEPT ![q] = Enqueued(@, t, u)]
        BY <1>2 DEF DownloadTwyst
    <2> HIDE DEF q
    <2>3. Once(Enqueued(queue[q], t, u))
        BY <2>1, OnceEnqueued DEF QueuedOnce
    <2> QED
        BY <2>1, <2>2, <2>3 DEF QueuedOnce, TypeInv, TypeOK
<1>3. ASSUME NEW q \in Queues, StartDownload(q)
      PROVE  QueuedOnce'
    <2>1. queue[q] \in Seq(Twysts) /\ queue[q] # <<>>
        BY <1>3 DEF StartDownload, CanStart, TypeInv, TypeOK
    <2>2. Once(Tail(queue[q]))
        BY <2>1, OnceTail DEF QueuedOnce
    <2> QED
        BY <1>3, <2>2 DEF StartDownload, QueuedOnce, TypeInv, TypeOK
<1>4. CASE Environment
    BY <1>1, <1>2, <1>4 DEF Environment, StartDownloadService,
       StopDownloadService, ServerReply, DeleteSavedTwyst, SendReply, serviceVars
<1>5. CASE Timer
    BY <1>1, <1>3, <1>5 DEF Timer, Tick, PassOver
<1>6. ASSUME NEW j \in jobs, Network(j) \/ Worker(j)
      PROVE  queue' = queue
    BY <1>6 DEF Network, RepliesArrive, RepliesFail, Answer, Worker, ReuseReply,
       OpenFolder, FetchReply, FetchNothing, FetchBadEntry, FetchCorrupt,
       PostSave, PostDid, PostFail, WorkerPosts, EndDownload, serviceVars
<1>7. CASE MainBlock
    BY <1>1, <1>7 DEF MainBlock, GiveUp, SkipDownload, EndsAtOnce,
       BeginDownload, ConfirmDownloadedTwyst, DeliverDid, DeliverFail, Deliver,
       serviceVars
<1>8. ASSUME NEW l \in localReplies, ReplyThread(l)
      PROVE  queue' = queue
    BY <1>8 DEF ReplyThread, AddReplySuccess, AddReplyFails, MoveReplyFiles,
       ReadRecord, CommitReply, DropReply, serviceVars
<1>9. CASE UNCHANGED vars
    BY <1>1, <1>9 DEF vars, serviceVars
<1> QED
    BY <1>1, <1>4, <1>5, <1>6, <1>7, <1>8, <1>9 DEF Next

\* A step keeps what is awaited if a worker that was about to notify still
\* is, or posts its notification, and if a save that is posted has such a
\* worker.
LEMMA AwaitedStep ==
    ASSUME AwaitedInv, NEW d, Shifts(d),
           \A j \in jobs : j.phase = "notify" =>
               \/ \E k \in jobs' : k.twyst = j.twyst /\ k.phase = "notify"
               \/ /\ Len(mainQueue') = Len(mainQueue) - d + 1
                  /\ mainQueue'[Len(mainQueue')].kind = "did"
                  /\ mainQueue'[Len(mainQueue')].twyst = j.twyst,
           Len(mainQueue') = Len(mainQueue) - d + 1
               /\ mainQueue'[Len(mainQueue')].kind = "save"
               => \E k \in jobs' : /\ k.twyst = mainQueue'[Len(mainQueue')].twyst
                                   /\ k.phase = "notify"
    PROVE  AwaitedInv'
<1>1. d \in {0, 1} /\ Len(mainQueue) \in Nat /\ Len(mainQueue') \in Nat
    BY DEF Shifts
<1> DEFINE Awaits(t, i) ==
               \/ \E j \in jobs' : j.twyst = t /\ j.phase = "notify"
               \/ \E k \in i + 1 .. Len(mainQueue') :
                     mainQueue'[k].kind = "did" /\ mainQueue'[k].twyst = t
<1> SUFFICES ASSUME NEW i \in 1 .. Len(mainQueue'), mainQueue'[i].kind = "save"
             PROVE  Awaits(mainQueue'[i].twyst, i)
    BY DEF AwaitedInv, SaveAwaited
<1>2. CASE i + d <= Len(mainQueue)
    <2>1. i + d \in 1 .. Len(mainQueue) /\ i + d > d /\ (i + d) - d = i
        BY <1>1, <1>2
    <2>2. mainQueue'[i] = mainQueue[i + d]
        BY <2>1 DEF Shifts
    <2> DEFINE t == mainQueue[i + d].twyst
    <2>3. SaveAwaited(t, i + d)
        BY <2>1, <2>2 DEF AwaitedInv
    <2> HIDE DEF t
    <2>4. CASE \E j \in jobs : j.twyst = t /\ j.phase = "notify"
        <3>1. CASE \E k \in jobs' : k.twyst = t /\ k.phase = "notify"
            BY <2>2, <3>1 DEF t
        <3>2. CASE ~\E k \in jobs' : k.twyst = t /\ k.phase = "notify"
            <4>1. /\ Len(mainQueue') = Len(mainQueue) - d + 1
                  /\ mainQueue'[Len(mainQueue')].kind = "did"
                  /\ mainQueue'[Len(mainQueue')].twyst = t
                BY <2>4, <3>2
            <4>2. Len(mainQueue') \in i + 1 .. Len(mainQueue')
                BY <1>1, <1>2, <4>1
            <4> QED
                BY <2>2, <4>1, <4>2 DEF t
        <3> QED
            BY <3>1, <3>2
    <2>5. ASSUME NEW k \in (i + d) + 1 .. Len(mainQueue),
                 mainQueue[k].kind = "did", mainQueue[k].twyst = t
          PROVE  Awaits(t, i)
        <3>1. /\ k \in 1 .. Len(mainQueue) /\ k > d
              /\ k - d \in i + 1 .. Len(mainQueue')
            BY <1>1 DEF Shifts
        <3>2. mainQueue'[k - d] = mainQueue[k]
            BY <3>1 DEF Shifts
        <3> QED
            BY <2>5, <3>1, <3>2
    <2> QED
        BY <2>2, <2>3, <2>4, <2>5 DEF SaveAwaited, t
<1>3. CASE i + d > Len(mainQueue)
    <2>1. i = Len(mainQueue') /\ Len(mainQueue') = Len(mainQueue) - d + 1
        BY <1>1, <1>3 DEF Shifts
    <2> QED
        BY <2>1
<1> QED
    BY <1>1, <1>2, <1>3

\* A step that leaves the main queue alone.
LEMMA AwaitedQuiet ==
    ASSUME TypeInv, AwaitedInv, mainQueue' = mainQueue,
           \A j \in jobs : j.phase = "notify" =>
               \E k \in jobs' : k.twyst = j.twyst /\ k.phase = "notify"
    PROVE  AwaitedInv'
<1>1. Shifts(0) /\ Len(mainQueue') # Len(mainQueue) - 0 + 1
    BY DEF TypeInv, TypeOK, Shifts
<1> QED
    BY <1>1, AwaitedStep

\* A worker posts its save, and then its notification.
LEMMA AwaitedWorker ==
    ASSUME TypeInv, AwaitedInv, NEW j \in jobs, Network(j) \/ Worker(j)
    PROVE  AwaitedInv'
<1>1. /\ j \in Job /\ jobs \in SUBSET Job
      /\ mainQueue \in Seq(Block) /\ Len(mainQueue) \in Nat
    BY DEF TypeInv, TypeOK
<1>2. ASSUME NEW b \in Block, NEW ph,
             b.kind = "save" => ph = "notify" /\ b.twyst = j.twyst,
             j.phase = "notify" => b.kind = "did" /\ b.twyst = j.twyst,
             mainQueue' = Append(mainQueue, b),
             jobs' = (jobs \ {j}) \cup {[j EXCEPT !.phase = ph]}
      PROVE  AwaitedInv'
    <2> DEFINE n == [j EXCEPT !.phase = ph]
    <2>1. n.phase = ph /\ n.twyst = j.twyst /\ n \in jobs'
        BY <1>1, <1>2 DEF Job
    <2> HIDE DEF n
    <2>2. /\ Shifts(0) /\ Len(mainQueue') = Len(mainQueue) - 0 + 1
          /\ mainQueue'[Len(mainQueue')] = b
        BY <1>1, <1>2, AppendShifts
    <2>3. \A k \in jobs : k.phase = "notify" =>
              \/ \E m \in jobs' : m.twyst = k.twyst /\ m.phase = "notify"
              \/ k = j
        BY <1>2
    <2>4. b.kind = "save" =>
              \E k \in jobs' : k.twyst = b.twyst /\ k.phase = "notify"
        BY <1>2, <2>1
    <2> QED
        BY <1>2, <2>2, <2>3, <2>4, AwaitedStep
<1>3. /\ SaveBlock(j) \in Block
      /\ DidBlock(j.q, j.twyst, j.list) \in Block
      /\ FailBlock(j.q, j.twyst) \in Block
      /\ NilBlock(j) \in Block
      /\ ListBlock(j, replyCount[j.twyst]) \in Block
    <2>1. j.list \in 0..MaxReplies /\ replyCount[j.twyst] \in 0..MaxReplies
        BY <1>1 DEF Job, TypeInv, TypeOK
    <2> QED
        BY <1>1, <2>1, BlockTypes
<1>4. CASE Network(j)
    BY <1>2, <1>3, <1>4 DEF Network, RepliesArrive, RepliesFail, Answer,
       NilBlock, ListBlock
<1>5. CASE PostSave(j)
    BY <1>2, <1>3, <1>5 DEF PostSave, LoopDone, WorkerPosts, SaveBlock
<1>6. CASE PostFail(j)
    BY <1>2, <1>3, <1>6 DEF PostFail, LoopDone, WorkerPosts, FailBlock
<1>7. CASE PostDid(j)
    BY <1>2, <1>3, <1>7 DEF PostDid, WorkerPosts, DidBlock
<1>8. CASE \/ ReuseReply(j) \/ OpenFolder(j) \/ FetchReply(j)
           \/ FetchNothing(j) \/ FetchBadEntry(j) \/ FetchCorrupt(j)
           \/ EndDownload(j)
    <2>1. mainQueue' = mainQueue /\ j.phase # "notify"
        BY <1>8 DEF ReuseReply, OpenFolder, FetchReply, FetchNothing,
           FetchBadEntry, FetchCorrupt, EndDownload
    <2>2. \A k \in jobs : k # j => k \in jobs'
        BY <1>8 DEF ReuseReply, OpenFolder, FetchReply, FetchNothing,
           FetchBadEntry, FetchCorrupt, EndDownload, Ends, NextReply
    <2> QED
        BY <2>1, <2>2, AwaitedQuiet
<1> QED
    BY <1>4, <1>5, <1>6, <1>7, <1>8 DEF Worker

\* The main queue runs a save before the notification behind it.
LEMMA AwaitedMainBlock ==
    ASSUME TypeInv, AwaitedInv, MainBlock
    PROVE  AwaitedInv'
<1> DEFINE b == Head(mainQueue)
<1>1. /\ mainQueue \in Seq(Block) /\ mainQueue # <<>>
      /\ b \in Block /\ Len(mainQueue) \in Nat
    BY HeadTailProperties DEF MainBlock, TypeInv, TypeOK
<1>2. ASSUME mainQueue' = Tail(mainQueue), b.kind = "save" => b.twyst \in stored',
             \A k \in jobs : k.phase = "notify" => k \in jobs'
      PROVE  AwaitedInv'
    <2>1. Shifts(1) /\ Len(mainQueue') # Len(mainQueue) - 1 + 1
        BY <1>1, <1>2, TailShifts
    <2> QED
        BY <1>2, <2>1, AwaitedStep
<1>3. ASSUME NEW n \in Block, n.kind # "save", b.kind # "save",
             mainQueue' = Append(Tail(mainQueue), n),
             \A k \in jobs : k.phase = "notify" => k \in jobs'
      PROVE  AwaitedInv'
    <2>1. /\ Shifts(1) /\ Len(mainQueue') = Len(mainQueue) - 1 + 1
          /\ mainQueue'[Len(mainQueue')] = n
        BY <1>1, <1>3, TailAppendShifts
    <2> QED
        BY <1>3, <2>1, AwaitedStep
<1> HIDE DEF b
<1>4. /\ FailBlock(b.q, b.twyst) \in Block
      /\ FailBlock(b.q, b.twyst).kind = "fail"
      /\ DidBlock(b.q, b.twyst, b.list) \in Block
      /\ DidBlock(b.q, b.twyst, b.list).kind = "did"
    <2>1. b.q \in Queues /\ b.twyst \in Twysts /\ b.list \in 0 .. MaxReplies
        BY <1>1 DEF Block
    <2>2. 0 \in 0 .. MaxReplies
        BY MaxRepliesAssumption
    <2>3. \A q \in Queues, x \in Twysts, n \in 0 .. MaxReplies :
             /\ FailBlock(q, x) \in Block /\ FailBlock(q, x).kind = "fail"
             /\ DidBlock(q, x, n) \in Block /\ DidBlock(q, x, n).kind = "did"
        BY <2>2, EmptyFrameSet DEF FailBlock, DidBlock, Block
    <2> QED
        BY <2>1, <2>3
<1>5. ASSUME NEW j \in jobs, GiveUp(b, j) \/ SkipDownload(b, j)
      PROVE  AwaitedInv'
    <2>1. /\ j.phase = "answered" /\ b.kind # "save"
          /\ \A k \in jobs : k.phase = "notify" => k \in jobs'
        BY <1>5 DEF GiveUp, SkipDownload, EndsAtOnce, MainRuns, Answered, Ends
    <2> QED
        BY <1>3, <1>4, <1>5, <2>1 DEF GiveUp, SkipDownload, EndsAtOnce
<1>6. ASSUME NEW j \in jobs, BeginDownload(b, j)
      PROVE  AwaitedInv'
    <2>1. mainQueue' = Tail(mainQueue) /\ b.kind = "list" /\ j.phase = "answered"
        BY <1>6 DEF BeginDownload, MainRuns, Answered
    <2>2. \A k \in jobs : k # j => k \in jobs'
        BY <1>6 DEF BeginDownload
    <2> QED
        BY <1>2, <2>1, <2>2
<1>7. CASE ConfirmDownloadedTwyst(b)
    BY <1>2, <1>7 DEF ConfirmDownloadedTwyst
<1>8. CASE DeliverDid(b) \/ DeliverFail(b)
    BY <1>2, <1>8 DEF DeliverDid, DeliverFail, Deliver, MainRuns
<1> QED
    BY <1>5, <1>6, <1>7, <1>8 DEF MainBlock, b

\* A record that is about to be saved is awaited.
LEMMA AwaitedInvStep ==
    ASSUME TypeInv, AwaitedInv, [Next]_vars
    PROVE  AwaitedInv'
<1>1. CASE mainQueue' = mainQueue /\ jobs' = jobs
    BY <1>1, AwaitedQuiet
<1>2. ASSUME NEW t \in Twysts, DeleteSavedTwyst(t)
      PROVE  AwaitedInv'
    <2> DEFINE new(j) == IF j.twyst = t THEN Orphaned(j) ELSE j
    <2>1. jobs' = {new(j) : j \in jobs} /\ mainQueue' = mainQueue
        BY <1>2 DEF DeleteSavedTwyst
    <2>2. \A j \in jobs : new(j).phase = j.phase /\ new(j).twyst = j.twyst
        BY DEF Orphaned, TypeInv, TypeOK, Job
    <2> HIDE DEF new
    <2> QED
        BY <2>1, <2>2, AwaitedQuiet
<1>3. ASSUME NEW q \in Queues, StartDownload(q)
      PROVE  AwaitedInv'
    BY <1>3, AwaitedQuiet DEF StartDownload
<1>4. CASE Environment
    BY <1>1, <1>2, <1>4 DEF Environment, StartDownloadService,
       StopDownloadService, DownloadTwyst, ServerReply, SendReply
<1>5. CASE Timer
    BY <1>1, <1>3, <1>5 DEF Timer, Tick, PassOver
<1>6. ASSUME NEW l \in localReplies, ReplyThread(l)
      PROVE  AwaitedInv'
    BY <1>1, <1>6 DEF ReplyThread, AddReplySuccess, AddReplyFails,
       MoveReplyFiles, ReadRecord, CommitReply, DropReply
<1>7. CASE UNCHANGED vars
    BY <1>1, <1>7 DEF vars
<1> QED
    BY <1>4, <1>5, <1>6, <1>7, AwaitedWorker, AwaitedMainBlock DEF Next

\* What the contract sees of the downloads: nothing of a step within one
\* that is still to be answered, ...
LEMMA OwedKept ==
    ASSUME TypeInv, NEW j \in jobs, NEW k, k.q = j.q, k.twyst = j.twyst,
           AwaitsAnswer(j), AwaitsAnswer(k), jobs' = (jobs \ {j}) \cup {k}
    PROVE  Owed' = Owed
<1> SUFFICES ASSUME NEW q \in Queues
             PROVE  {i.twyst : i \in {i \in jobs' : i.q = q /\ AwaitsAnswer(i)}}
                    = {i.twyst : i \in {i \in jobs : i.q = q /\ AwaitsAnswer(i)}}
    BY DEF Owed
<1> QED
    OBVIOUS

\* ... the answer to one, ...
LEMMA OwedAnswered ==
    ASSUME TypeInv, SingleFlight, NEW j \in jobs, AwaitsAnswer(j),
           \A k \in jobs : k # j => k \in jobs',
           \A k \in jobs' : (k \in jobs /\ k # j) \/ ~AwaitsAnswer(k)
    PROVE  /\ j.q \in Queues /\ j.twyst \in Twysts
           /\ j.twyst \in Owed[j.q]
           /\ Owed' = [Owed EXCEPT ![j.q] = @ \ {j.twyst}]
<1>1. j.q \in Queues /\ j.twyst \in Twysts
    BY DEF TypeInv, TypeOK, Job
<1>2. j.twyst \in Owed[j.q]
    BY <1>1 DEF Owed
<1>3. \A k \in jobs : k.q = j.q => k = j
    BY DEF SingleFlight
<1>4. ASSUME NEW q \in Queues
      PROVE  Owed'[q] = IF q = j.q THEN Owed[q] \ {j.twyst} ELSE Owed[q]
    <2>1. /\ Owed[q] = {i.twyst : i \in {i \in jobs : i.q = q /\ AwaitsAnswer(i)}}
          /\ Owed'[q] = {i.twyst : i \in {i \in jobs' : i.q = q /\ AwaitsAnswer(i)}}
        BY DEF Owed
    <2>2. CASE q = j.q
        <3>1. Owed'[q] = {}
            BY <1>3, <2>1, <2>2
        <3>2. Owed[q] = {j.twyst}
            BY <1>3, <2>1, <2>2
        <3> QED
            BY <2>2, <3>1, <3>2
    <2>3. CASE q # j.q
        <3>1. {i \in jobs' : i.q = q /\ AwaitsAnswer(i)}
              = {i \in jobs : i.q = q /\ AwaitsAnswer(i)}
            BY <2>3
        <3> QED
            BY <2>1, <2>3, <3>1
    <2> QED
        BY <2>2, <2>3
<1>5. Owed' = [q \in Queues |-> Owed'[q]]
    BY DEF Owed
<1>6. [Owed EXCEPT ![j.q] = @ \ {j.twyst}]
      = [q \in Queues |-> IF q = j.q THEN Owed[q] \ {j.twyst} ELSE Owed[q]]
    BY <1>1 DEF Owed
<1> QED
    BY <1>1, <1>2, <1>4, <1>5, <1>6

\* ... and nothing of the end of one that was answered.
LEMMA OwedEnded ==
    ASSUME NEW j \in jobs, ~AwaitsAnswer(j), jobs' = jobs \ {j}
    PROVE  Owed' = Owed
<1> SUFFICES ASSUME NEW q \in Queues
             PROVE  {i.twyst : i \in {i \in jobs' : i.q = q /\ AwaitsAnswer(i)}}
                    = {i.twyst : i \in {i \in jobs : i.q = q /\ AwaitsAnswer(i)}}
    BY DEF Owed
<1> QED
    OBVIOUS

\* The contract's view of the main queue when a block is posted or runs.
LEMMA PostedBlock ==
    ASSUME TypeInv, NEW b \in Block, mainQueue' = Append(mainQueue, b)
    PROVE  NoticesIn(mainQueue)' =
               IF IsNotice(b) THEN Append(NoticesIn(mainQueue), NoticeOf(b))
               ELSE NoticesIn(mainQueue)
<1>1. mainQueue \in Seq(Block)
    BY DEF TypeInv, TypeOK
<1>2. NoticesIn(mainQueue)' = NoticesIn(Append(mainQueue, b))
    OBVIOUS
<1> QED
    BY <1>1, <1>2, NoticesAppend

\* A twyst that somebody is still to hear of is in flight; and one whose
\* record is to be saved is such a twyst.
LEMMA AwaitedInFlight ==
    ASSUME TypeInv, NEW t \in Twysts, Contract!Awaited(t)
    PROVE  InFlight(t)
<1>1. mainQueue \in Seq(Block)
    BY DEF TypeInv, TypeOK
<1>2. CASE \E q \in Queues : t \in Owed[q]
    BY <1>2 DEF Owed, InFlight
<1>3. CASE Contract!Noticed(t)
    <2>1. \E i \in 1 .. Len(mainQueue) : mainQueue[i].twyst = t
        BY <1>1, <1>3, NoticesMember DEF Contract!Noticed
    <2> QED
        BY <2>1 DEF InFlight
<1> QED
    BY <1>2, <1>3 DEF Contract!Awaited

LEMMA SaveIsAwaited ==
    ASSUME TypeInv, AwaitedInv, mainQueue # <<>>, Head(mainQueue).kind = "save"
    PROVE  Contract!Awaited(Head(mainQueue).twyst)
<1> DEFINE t == Head(mainQueue).twyst
<1>1. mainQueue \in Seq(Block) /\ Head(mainQueue) = mainQueue[1]
      /\ 1 \in 1 .. Len(mainQueue)
    BY DEF TypeInv, TypeOK
<1>2. SaveAwaited(t, 1)
    BY <1>1 DEF AwaitedInv
<1> HIDE DEF t
<1>3. ASSUME NEW j \in jobs, j.twyst = t, j.phase = "notify"
      PROVE  \E q \in Queues : t \in Owed[q]
    <2>1. j.q \in Queues /\ AwaitsAnswer(j)
        BY <1>3 DEF TypeInv, TypeOK, Job, AwaitsAnswer
    <2>2. t \in Owed[j.q]
        BY <1>3, <2>1 DEF Owed
    <2> QED
        BY <2>1, <2>2
<1>4. ASSUME NEW k \in 1 + 1 .. Len(mainQueue), mainQueue[k].kind = "did",
             mainQueue[k].twyst = t
      PROVE  Contract!Noticed(t)
    <2>1. k \in 1 .. Len(mainQueue) /\ IsNotice(mainQueue[k])
        BY <1>1, <1>4 DEF IsNotice
    <2>2. \E i \in 1 .. Len(mainQueue) :
             IsNotice(mainQueue[i]) /\ mainQueue[i].twyst = t
        BY <1>4, <2>1
    <2>3. \E i \in 1 .. Len(NoticesIn(mainQueue)) :
             NoticesIn(mainQueue)[i].twyst = t
        BY <1>1, <2>2, NoticesMember
    <2> QED
        BY <2>3 DEF Contract!Noticed
<1> QED
    BY <1>2, <1>3, <1>4 DEF SaveAwaited, Contract!Awaited, t

-----------------------------------------------------------------------------
(* The service keeps the contract                                          *)

\* Of the hazards the contract knows one.
LEMMA DeletedKept ==
    ASSUME TypeInv, NEW t, NEW H, "deleted" \notin H, Meets(t, H)
    PROVE  Deleted' = Deleted
<1>1. hazards \in [Twysts -> SUBSET Hazard]
    BY DEF TypeInv, TypeOK
<1>2. ASSUME NEW x \in Twysts
      PROVE  "deleted" \in hazards'[x] <=> "deleted" \in hazards[x]
    BY <1>1 DEF Meets
<1> QED
    BY <1>2 DEF Deleted

\* The steps that the contract does not see.
ContractStutters ==
    /\ queue' = queue
    /\ Owed' = Owed
    /\ NoticesIn(mainQueue)' = NoticesIn(mainQueue)
    /\ stored' = stored
    /\ Deleted' = Deleted

LEMMA StuttersUnseen ==
    ASSUME ContractStutters
    PROVE  UNCHANGED Contract!contractVars
    BY DEF ContractStutters, Contract!contractVars, Queued

LEMMA UnseenEnvironment ==
    ASSUME TypeInv,
           \/ StartDownloadService \/ StopDownloadService
           \/ \E t \in Twysts : ServerReply(t) \/ SendReply(t)
    PROVE  ContractStutters
<1>1. queue' = queue /\ jobs' = jobs /\ mainQueue' = mainQueue /\ stored' = stored
    BY DEF StartDownloadService, StopDownloadService, ServerReply, SendReply,
       serviceVars, storeVars, recordVars
<1>2. Owed' = Owed
    BY <1>1 DEF Owed, AwaitsAnswer
<1>3. CASE hazards' = hazards
    BY <1>1, <1>2, <1>3 DEF ContractStutters, Deleted
<1>4. ASSUME NEW t \in Twysts, SendReply(t)
      PROVE  ContractStutters
    <2>1. PICK H \in {{"local"}, {}} : Meets(t, H)
        BY <1>4 DEF SendReply
    <2>2. Deleted' = Deleted
        BY <2>1, DeletedKept
    <2> QED
        BY <1>1, <1>2, <2>2 DEF ContractStutters
<1> QED
    BY <1>3, <1>4 DEF StartDownloadService, StopDownloadService, ServerReply

LEMMA UnseenReplyThread ==
    ASSUME TypeInv, NEW l \in localReplies, ReplyThread(l)
    PROVE  ContractStutters
<1>1. /\ queue' = queue /\ jobs' = jobs /\ mainQueue' = mainQueue
      /\ stored' = stored /\ hazards' = hazards
    BY DEF ReplyThread, AddReplySuccess, AddReplyFails, MoveReplyFiles,
       ReadRecord, CommitReply, DropReply, serviceVars, storeVars, recordVars
<1> QED
    BY <1>1 DEF ContractStutters, Owed, AwaitsAnswer, Deleted

\* A request.
LEMMA RequestSeen ==
    ASSUME ServiceInv, NEW p \in Pairs, NEW t \in Twysts, NEW u \in BOOLEAN,
           DownloadTwyst(p, t, u)
    PROVE  \E q \in Queues : Contract!Request(q, t)
<1> DEFINE q == <<p, IF u THEN "principal" ELSE "normal">>
<1>1. q \in Queues /\ queue \in [Queues -> Seq(Twysts)]
    BY DEF Queues, ServiceInv, TypeInv, TypeOK
<1>2. /\ queue' = [queue EXCEPT ![q] = Enqueued(@, t, u)]
      /\ jobs' = jobs /\ mainQueue' = mainQueue /\ stored' = stored
      /\ hazards' = hazards
    BY DEF DownloadTwyst, storeVars, recordVars
<1> HIDE DEF q
<1>3. ToSet(Enqueued(queue[q], t, u)) = ToSet(queue[q]) \cup {t}
    BY <1>1, OnceEnqueued DEF ServiceInv, QueuedOnce
<1>4. Queued' = [Queued EXCEPT ![q] = @ \cup {t}]
    <2>1. \A r \in Queues :
             ToSet(queue'[r]) = IF r = q THEN ToSet(queue[q]) \cup {t}
                                ELSE ToSet(queue[r])
        BY <1>1, <1>2, <1>3
    <2>2. Queued' = [r \in Queues |-> IF r = q THEN ToSet(queue[q]) \cup {t}
                                      ELSE ToSet(queue[r])]
        BY <2>1 DEF Queued
    <2> QED
        BY <1>1, <2>2 DEF Queued
<1>5. Owed' = Owed /\ Deleted' = Deleted
    BY <1>2 DEF Owed, AwaitsAnswer, Deleted
<1> QED
    BY <1>1, <1>2, <1>4, <1>5 DEF Contract!Request

\* The start of a download takes up what waits at the head of a queue that
\* has answered all before.
LEMMA TakeUpSeen ==
    ASSUME ServiceInv, NEW q \in Queues, StartDownload(q)
    PROVE  Contract!TakeUp(q, Head(queue[q])) /\ Head(queue[q]) \in Twysts
<1> DEFINE t == Head(queue[q])
<1>1. /\ queue \in [Queues -> Seq(Twysts)] /\ queue[q] # <<>>
      /\ queue[q] \in Seq(Twysts)
    BY DEF StartDownload, CanStart, ServiceInv, TypeInv, TypeOK
<1>2. /\ queue' = [queue EXCEPT ![q] = Tail(@)]
      /\ jobs' = jobs \cup {NewJob(q, t)}
      /\ mainQueue' = mainQueue /\ stored' = stored /\ hazards' = hazards
      /\ ~isDownloading[q]
    BY DEF StartDownload, CanStart, storeVars, recordVars
<1>3. t \in Twysts /\ t \in ToSet(queue[q])
    <2>1. 1 \in 1 .. Len(queue[q]) /\ t = queue[q][1] /\ t \in Twysts
        BY <1>1, HeadTailProperties
    <2> QED
        BY <1>1, <2>1, InToSet
<1> HIDE DEF t
<1>4. ToSet(Tail(queue[q])) = ToSet(queue[q]) \ {t}
    BY <1>1, OnceTail DEF ServiceInv, QueuedOnce, t
<1>5. t \in Queued[q] /\ Queued' = [Queued EXCEPT ![q] = @ \ {t}]
    <2>1. \A r \in Queues : ToSet(queue'[r]) = IF r = q THEN ToSet(queue[q]) \ {t}
                                               ELSE ToSet(queue[r])
        BY <1>1, <1>2, <1>4
    <2>2. Queued' = [r \in Queues |-> IF r = q THEN ToSet(queue[q]) \ {t}
                                      ELSE ToSet(queue[r])]
        BY <2>1 DEF Queued
    <2> QED
        BY <1>3, <2>2 DEF Queued
<1>6. \A j \in jobs : j.q # q
    BY <1>2 DEF ServiceInv, SingleFlight
<1>7. Owed[q] = {} /\ Owed' = [Owed EXCEPT ![q] = {t}]
    <2>1. Owed[q] = {}
        BY <1>6 DEF Owed
    <2>2. /\ NewJob(q, t).q = q /\ NewJob(q, t).twyst = t
          /\ AwaitsAnswer(NewJob(q, t))
        BY DEF NewJob, AwaitsAnswer
    <2>3. ASSUME NEW r \in Queues
          PROVE  {i.twyst : i \in {k \in jobs' : k.q = r /\ AwaitsAnswer(k)}}
                 = IF r = q THEN {t} ELSE Owed[r]
        <3>1. {k \in jobs' : k.q = r /\ AwaitsAnswer(k)}
              = IF r = q THEN {NewJob(q, t)}
                ELSE {k \in jobs : k.q = r /\ AwaitsAnswer(k)}
            BY <1>2, <1>6, <2>2
        <3> QED
            BY <2>2, <3>1 DEF Owed
    <2>4. Owed' = [r \in Queues |-> IF r = q THEN {t} ELSE Owed[r]]
        BY <2>3 DEF Owed
    <2>5. [Owed EXCEPT ![q] = {t}]
          = [r \in Queues |-> IF r = q THEN {t} ELSE Owed[r]]
        BY DEF Owed
    <2> QED
        BY <2>1, <2>4, <2>5
<1>8. Deleted' = Deleted
    BY <1>2 DEF Deleted
<1> QED
    BY <1>2, <1>3, <1>5, <1>7, <1>8 DEF Contract!TakeUp, t

\* A delete: the downloads of the twyst are still owed, and if one is in
\* progress, the contract hears of the hazard.
LEMMA DeleteSeen ==
    ASSUME ServiceInv, NEW t \in Twysts, DeleteSavedTwyst(t)
    PROVE  Contract!Delete(t)
<1> DEFINE new(j) == IF j.twyst = t THEN Orphaned(j) ELSE j
<1>1. /\ t \in stored /\ stored' = stored \ {t} /\ queue' = queue
      /\ mainQueue' = mainQueue /\ jobs' = {new(j) : j \in jobs}
      /\ Meets(t, IF InFlight(t) THEN {"deleted"} ELSE {})
    BY DEF DeleteSavedTwyst, serviceVars
<1>2. \A j \in jobs : /\ new(j).q = j.q /\ new(j).twyst = j.twyst
                      /\ AwaitsAnswer(new(j)) <=> AwaitsAnswer(j)
    BY DEF Orphaned, ServiceInv, TypeInv, TypeOK, Job, AwaitsAnswer
<1> HIDE DEF new
<1>3. Owed' = Owed
    <2> SUFFICES ASSUME NEW q \in Queues
             PROVE  {i.twyst : i \in {k \in jobs' : k.q = q /\ AwaitsAnswer(k)}}
                    = {i.twyst : i \in {k \in jobs : k.q = q /\ AwaitsAnswer(k)}}
        BY DEF Owed
    <2>1. {k \in jobs' : k.q = q /\ AwaitsAnswer(k)}
          = {new(j) : j \in {k \in jobs : k.q = q /\ AwaitsAnswer(k)}}
        BY <1>1, <1>2
    <2> QED
        BY <1>2, <2>1
<1>4. hazards \in [Twysts -> SUBSET Hazard]
    BY DEF ServiceInv, TypeInv, TypeOK
<1>5. ASSUME NEW x \in Twysts
      PROVE  "deleted" \in hazards'[x] <=>
                "deleted" \in hazards[x] \/ (x = t /\ InFlight(t))
    BY <1>1, <1>4 DEF Meets
<1>6. /\ InFlight(t) => Deleted' = Deleted \cup {t}
      /\ ~InFlight(t) => Deleted' = Deleted
    BY <1>5 DEF Deleted
<1>7. Contract!Awaited(t) => InFlight(t)
    BY AwaitedInFlight DEF ServiceInv
<1>8. UNCHANGED <<Queued, Owed, NoticesIn(mainQueue)>>
    BY <1>1, <1>3 DEF Queued
<1> QED
    BY <1>1, <1>6, <1>7, <1>8 DEF Contract!Delete

\* The steps of a request and of a worker are not seen ...
LEMMA UnseenJobStep ==
    ASSUME TypeInv, NEW j \in jobs, NEW k, k.q = j.q, k.twyst = j.twyst,
           AwaitsAnswer(j), AwaitsAnswer(k), jobs' = (jobs \ {j}) \cup {k},
           \/ mainQueue' = mainQueue
           \/ \E b \in Block : ~IsNotice(b) /\ mainQueue' = Append(mainQueue, b),
           queue' = queue, stored' = stored,
           \/ hazards' = hazards
           \/ \E H \in {{"badEntry"}, {"corrupt"}} : Meets(j.twyst, H)
    PROVE  ContractStutters
<1>1. Owed' = Owed
    BY OwedKept
<1>2. NoticesIn(mainQueue)' = NoticesIn(mainQueue)
    <2>1. CASE mainQueue' = mainQueue
        BY <2>1
    <2>2. CASE \E b \in Block : ~IsNotice(b) /\ mainQueue' = Append(mainQueue, b)
        BY <2>2, PostedBlock
    <2> QED
        BY <2>1, <2>2
<1>3. Deleted' = Deleted
    <2>1. CASE hazards' = hazards
        BY <2>1 DEF Deleted
    <2>2. ASSUME NEW H \in {{"badEntry"}, {"corrupt"}}, Meets(j.twyst, H)
          PROVE  Deleted' = Deleted
        BY <2>2, DeletedKept
    <2> QED
        BY <2>1, <2>2
<1> QED
    BY <1>1, <1>2, <1>3 DEF ContractStutters

LEMMA UnseenWorker ==
    ASSUME ServiceInv, NEW j \in jobs,
           \/ Network(j) \/ ReuseReply(j) \/ OpenFolder(j) \/ FetchReply(j)
           \/ FetchNothing(j) \/ FetchBadEntry(j) \/ FetchCorrupt(j)
           \/ PostSave(j) \/ EndDownload(j)
    PROVE  ContractStutters
<1>1. /\ j \in Job /\ TypeInv /\ j.twyst \in Twysts /\ j.list \in 0 .. MaxReplies
      /\ replyCount[j.twyst] \in 0 .. MaxReplies
    BY DEF ServiceInv, TypeInv, TypeOK, Job
<1>2. CASE Network(j)
    <2>1. PICK b \in {ListBlock(j, replyCount[j.twyst]), NilBlock(j)} : Answer(j, b)
        BY <1>2 DEF Network, RepliesArrive, RepliesFail
    <2>2. b \in Block /\ ~IsNotice(b)
        <3>1. b \in Block
            BY <1>1, BlockTypes
        <3>2. b.kind \in {"list", "nil"}
            BY DEF ListBlock, NilBlock
        <3> QED
            BY <3>1, <3>2 DEF IsNotice
    <2> DEFINE k == [j EXCEPT !.phase = "answered"]
    <2>3. k.q = j.q /\ k.twyst = j.twyst /\ k.phase = "answered"
        BY <1>1 DEF Job
    <2>4. /\ j.phase = "request" /\ jobs' = (jobs \ {j}) \cup {k}
          /\ mainQueue' = Append(mainQueue, b)
          /\ queue' = queue /\ stored' = stored /\ hazards' = hazards
        BY <2>1 DEF Answer, serviceVars, storeVars, recordVars
    <2> HIDE DEF k
    <2> QED
        BY <1>1, <2>2, <2>3, <2>4, UnseenJobStep DEF AwaitsAnswer
<1>3. ASSUME NEW k, j.phase \in {"open", "fetch"}, k.phase # "clear",
             k.q = j.q, k.twyst = j.twyst, jobs' = (jobs \ {j}) \cup {k},
             queue' = queue, mainQueue' = mainQueue, stored' = stored,
             \/ hazards' = hazards
             \/ \E H \in {{"badEntry"}, {"corrupt"}} : Meets(j.twyst, H)
      PROVE  ContractStutters
    BY <1>1, <1>3, UnseenJobStep DEF AwaitsAnswer
<1>4. ASSUME NEW new, NextReply(j, new), j.phase \in {"open", "fetch"},
             queue' = queue, mainQueue' = mainQueue, stored' = stored,
             \/ hazards' = hazards
             \/ \E H \in {{"badEntry"}, {"corrupt"}} : Meets(j.twyst, H)
      PROVE  ContractStutters
    <2> DEFINE k == [j EXCEPT !.phase = "open", !.at = @ + 1, !.arr = @ \cup new]
    <2>1. k.q = j.q /\ k.twyst = j.twyst /\ k.phase # "clear"
        BY <1>1 DEF Job
    <2>2. jobs' = (jobs \ {j}) \cup {k}
        BY <1>4 DEF NextReply
    <2> HIDE DEF k
    <2> QED
        BY <1>3, <1>4, <2>1, <2>2
<1>5. CASE ReuseReply(j)
    BY <1>4, <1>5 DEF ReuseReply, serviceVars, storeVars, recordVars
<1>6. CASE FetchReply(j)
    BY <1>4, <1>6 DEF FetchReply, serviceVars, storeVars, recordVars
<1>7. CASE FetchBadEntry(j) \/ FetchCorrupt(j)
    BY <1>4, <1>7 DEF FetchBadEntry, FetchCorrupt, serviceVars, storeVars,
       recordVars
<1>8. CASE OpenFolder(j)
    <2> DEFINE k == [j EXCEPT !.phase = "fetch"]
    <2>1. k.q = j.q /\ k.twyst = j.twyst /\ k.phase # "clear"
        BY <1>1 DEF Job
    <2>2. /\ jobs' = (jobs \ {j}) \cup {k} /\ j.phase = "open"
          /\ queue' = queue /\ mainQueue' = mainQueue /\ stored' = stored
          /\ hazards' = hazards
        BY <1>8 DEF OpenFolder, serviceVars, recordVars
    <2> HIDE DEF k
    <2> QED
        BY <1>3, <2>1, <2>2
<1>9. CASE FetchNothing(j)
    <2> DEFINE k == [j EXCEPT !.phase = "open", !.at = j.list + 1, !.arr = {}]
    <2>1. k.q = j.q /\ k.twyst = j.twyst /\ k.phase # "clear"
        BY <1>1 DEF Job
    <2>2. /\ jobs' = (jobs \ {j}) \cup {k} /\ j.phase = "fetch"
          /\ queue' = queue /\ mainQueue' = mainQueue /\ stored' = stored
          /\ hazards' = hazards
        BY <1>9 DEF FetchNothing, serviceVars, storeVars, recordVars
    <2> HIDE DEF k
    <2> QED
        BY <1>3, <2>1, <2>2
<1>10. CASE PostSave(j)
    <2> DEFINE k == [j EXCEPT !.phase = "notify"]
    <2>1. k.q = j.q /\ k.twyst = j.twyst /\ k.phase = "notify"
        BY <1>1 DEF Job
    <2>2. /\ jobs' = (jobs \ {j}) \cup {k} /\ j.phase = "open"
          /\ mainQueue' = Append(mainQueue, SaveBlock(j))
          /\ queue' = queue /\ stored' = stored /\ hazards' = hazards
        BY <1>10 DEF PostSave, LoopDone, WorkerPosts, serviceVars, storeVars,
           recordVars
    <2>3. SaveBlock(j) \in Block /\ ~IsNotice(SaveBlock(j))
        BY <1>1, BlockTypes DEF IsNotice, SaveBlock
    <2> HIDE DEF k
    <2> QED
        BY <1>1, <2>1, <2>2, <2>3, UnseenJobStep DEF AwaitsAnswer
<1>11. CASE EndDownload(j)
    <2>1. /\ j.phase = "clear" /\ jobs' = jobs \ {j} /\ queue' = queue
          /\ mainQueue' = mainQueue /\ stored' = stored /\ hazards' = hazards
        BY <1>11 DEF EndDownload, Ends, storeVars, recordVars
    <2>2. Owed' = Owed
        BY <2>1, OwedEnded DEF AwaitsAnswer
    <2> QED
        BY <2>1, <2>2 DEF ContractStutters, Deleted
<1> QED
    BY <1>2, <1>5, <1>6, <1>7, <1>8, <1>9, <1>10, <1>11

\* ... until one of them ends with its answer.
LEMMA AnswerSeen ==
    ASSUME ServiceInv, NEW j \in jobs, AwaitsAnswer(j),
           NEW kind \in {"did", "fail"}, NEW n, n.kind = kind, n.q = j.q,
           n.twyst = j.twyst,
           NoticesIn(mainQueue)' = Append(NoticesIn(mainQueue), NoticeOf(n)),
           \A k \in jobs : k # j => k \in jobs',
           \A k \in jobs' : (k \in jobs /\ k # j) \/ ~AwaitsAnswer(k),
           queue' = queue, stored' = stored, hazards' = hazards
    PROVE  \E q \in Queues, t \in Twysts : Contract!Answer(q, t, kind)
<1>1. /\ j.q \in Queues /\ j.twyst \in Twysts
      /\ j.twyst \in Owed[j.q]
      /\ Owed' = [Owed EXCEPT ![j.q] = @ \ {j.twyst}]
    BY OwedAnswered DEF ServiceInv
<1>2. NoticeOf(n) = [kind |-> kind, q |-> j.q, twyst |-> j.twyst]
    BY DEF NoticeOf
<1>3. UNCHANGED <<Queued, stored, Deleted>>
    BY DEF Queued, Deleted
<1>4. Contract!Answer(j.q, j.twyst, kind)
    BY <1>1, <1>2, <1>3 DEF Contract!Answer
<1> QED
    BY <1>1, <1>4

LEMMA WorkerAnswerSeen ==
    ASSUME ServiceInv, NEW j \in jobs, PostDid(j) \/ PostFail(j)
    PROVE  \E q \in Queues, t \in Twysts, kind \in {"did", "fail"} :
               Contract!Answer(q, t, kind)
<1>1. j \in Job /\ TypeInv /\ j.list \in 0 .. MaxReplies
    BY DEF ServiceInv, TypeInv, TypeOK, Job
<1>2. PICK n \in {DidBlock(j.q, j.twyst, j.list), FailBlock(j.q, j.twyst)} :
          WorkerPosts(j, n, "clear")
    BY DEF PostDid, PostFail
<1>3. n \in Block /\ n.q = j.q /\ n.twyst = j.twyst /\ n.kind \in {"did", "fail"}
    <2>1. n \in Block
        BY <1>1, BlockTypes
    <2>2. n.q = j.q /\ n.twyst = j.twyst /\ n.kind \in {"did", "fail"}
        BY DEF DidBlock, FailBlock
    <2> QED
        BY <2>1, <2>2
<1> DEFINE k == [j EXCEPT !.phase = "clear"]
<1>4. k.phase = "clear"
    BY <1>1 DEF Job
<1>5. /\ jobs' = (jobs \ {j}) \cup {k} /\ mainQueue' = Append(mainQueue, n)
      /\ queue' = queue /\ stored' = stored /\ hazards' = hazards
    BY <1>2 DEF WorkerPosts, serviceVars, storeVars, recordVars
<1>6. j.phase # "clear"
    BY DEF PostDid, PostFail, LoopDone
<1> HIDE DEF k
<1>7. NoticesIn(mainQueue)' = Append(NoticesIn(mainQueue), NoticeOf(n))
    BY <1>1, <1>3, <1>5, PostedBlock DEF IsNotice
<1>8. AwaitsAnswer(j) /\ ~AwaitsAnswer(k)
    BY <1>4, <1>6 DEF AwaitsAnswer
<1>9. /\ \A i \in jobs : i # j => i \in jobs'
      /\ \A i \in jobs' : (i \in jobs /\ i # j) \/ ~AwaitsAnswer(i)
    BY <1>5, <1>8
<1> QED
    BY <1>3, <1>5, <1>7, <1>8, <1>9, AnswerSeen

\* A block of the main queue: the contract sees an answer, a save, a
\* notice that is delivered, or nothing.
LEMMA MainBlockSeen ==
    ASSUME ServiceInv, MainBlock
    PROVE  \/ ContractStutters
           \/ \E q \in Queues, t \in Twysts, kind \in {"did", "fail"} :
                 Contract!Answer(q, t, kind)
           \/ \E t \in Twysts : Contract!Save(t)
           \/ \E n \in Contract!Notice : Contract!Deliver(n)
<1> DEFINE b == Head(mainQueue)
           rest == Tail(mainQueue)
<1>1. /\ mainQueue \in Seq(Block) /\ mainQueue # <<>> /\ TypeInv
      /\ b \in Block /\ rest \in Seq(Block)
    BY HeadTailProperties DEF MainBlock, ServiceInv, TypeInv, TypeOK
<1>2. IF IsNotice(b)
      THEN /\ NoticesIn(mainQueue) # <<>>
           /\ Head(NoticesIn(mainQueue)) = NoticeOf(b)
           /\ Tail(NoticesIn(mainQueue)) = NoticesIn(rest)
      ELSE NoticesIn(mainQueue) = NoticesIn(rest)
    BY <1>1, NoticesTail
<1>3. /\ b.q \in Queues /\ b.twyst \in Twysts /\ b.list \in 0 .. MaxReplies
    BY <1>1 DEF Block
<1>4. b = mainQueue[1] /\ 1 \in 1 .. Len(mainQueue)
    BY <1>1
<1>5. MainBlock <=>
          \/ \E j \in jobs : GiveUp(b, j) \/ SkipDownload(b, j)
                             \/ BeginDownload(b, j)
          \/ ConfirmDownloadedTwyst(b) \/ DeliverDid(b) \/ DeliverFail(b)
    BY <1>1 DEF MainBlock
<1> HIDE DEF b, rest
<1>6. ASSUME NEW j \in jobs, NEW kind, NEW n, kind \in {"nil", "list"},
             EndsAtOnce(b, j, kind, n),
             n \in Block, n.q = b.q, n.twyst = b.twyst, n.kind \in {"did", "fail"}
      PROVE  \E q \in Queues, t \in Twysts, k \in {"did", "fail"} :
                 Contract!Answer(q, t, k)
    <2>1. /\ b.kind = kind /\ j.q = b.q /\ j.twyst = b.twyst
          /\ j.phase = "answered" /\ jobs' = jobs \ {j}
          /\ mainQueue' = Append(rest, n)
          /\ queue' = queue /\ stored' = stored /\ hazards' = hazards
        BY <1>6 DEF EndsAtOnce, MainRuns, Answered, Ends, storeVars, recordVars,
           rest
    <2>2. ~IsNotice(b) /\ IsNotice(n) /\ AwaitsAnswer(j)
        BY <1>6, <2>1 DEF IsNotice, AwaitsAnswer
    <2>3. NoticesIn(Append(rest, n)) = Append(NoticesIn(rest), NoticeOf(n))
        BY <1>1, <1>6, <2>2, NoticesAppend
    <2>4. NoticesIn(mainQueue)' = Append(NoticesIn(mainQueue), NoticeOf(n))
        BY <1>2, <2>1, <2>2, <2>3
    <2>5. /\ \A i \in jobs : i # j => i \in jobs'
          /\ \A i \in jobs' : (i \in jobs /\ i # j) \/ ~AwaitsAnswer(i)
        BY <2>1
    <2> QED
        BY <1>6, <2>1, <2>2, <2>4, <2>5, AnswerSeen
<1>7. /\ FailBlock(b.q, b.twyst) \in Block
      /\ DidBlock(b.q, b.twyst, b.list) \in Block
    <2>1. 0 \in 0 .. MaxReplies
        BY MaxRepliesAssumption
    <2> QED
        BY <1>3, <2>1, EmptyFrameSet DEF FailBlock, DidBlock, Block
<1>8. ASSUME NEW j \in jobs, GiveUp(b, j) \/ SkipDownload(b, j)
      PROVE  \E q \in Queues, t \in Twysts, k \in {"did", "fail"} :
                 Contract!Answer(q, t, k)
    <2>1. CASE GiveUp(b, j)
        <3> DEFINE n == FailBlock(b.q, b.twyst)
        <3>1. n.kind = "fail" /\ n.q = b.q /\ n.twyst = b.twyst
            BY DEF FailBlock
        <3>2. n \in Block /\ EndsAtOnce(b, j, "nil", n)
            BY <1>7, <2>1 DEF GiveUp
        <3> HIDE DEF n
        <3> QED
            BY <1>6, <3>1, <3>2
    <2>2. CASE SkipDownload(b, j)
        <3> DEFINE n == DidBlock(b.q, b.twyst, b.list)
        <3>1. n.kind = "did" /\ n.q = b.q /\ n.twyst = b.twyst
            BY DEF DidBlock
        <3>2. n \in Block /\ EndsAtOnce(b, j, "list", n)
            BY <1>7, <2>2 DEF SkipDownload
        <3> HIDE DEF n
        <3> QED
            BY <1>6, <3>1, <3>2
    <2> QED
        BY <1>8, <2>1, <2>2
<1>9. ASSUME NEW j \in jobs, BeginDownload(b, j)
      PROVE  ContractStutters
    <2> DEFINE k == [j EXCEPT !.phase = "open", !.list = b.list,
                              !.known = frames[b.twyst],
                              !.saved = IF b.twyst \in stored THEN "live"
                                                              ELSE "none"]
    <2>1. j \in Job
        BY <1>1 DEF TypeInv, TypeOK
    <2>2. k.q = j.q /\ k.twyst = j.twyst /\ k.phase = "open"
        BY <2>1 DEF Job
    <2>3. /\ b.kind = "list" /\ j.phase = "answered"
          /\ jobs' = (jobs \ {j}) \cup {k} /\ mainQueue' = rest
          /\ queue' = queue /\ stored' = stored
        BY <1>9 DEF BeginDownload, MainRuns, Answered, serviceVars, storeVars,
           recordVars, rest
    <2> HIDE DEF k
    <2>4. \E H : "deleted" \notin H /\ Meets(b.twyst, H)
        <3> DEFINE H == (IF Downloading(b.twyst) THEN {"overlap"} ELSE {})
                        \cup (IF AddingReply(b.twyst) THEN {"local"} ELSE {})
        <3>1. Meets(b.twyst, H)
            BY <1>9 DEF BeginDownload
        <3>2. "deleted" \notin H
            OBVIOUS
        <3> HIDE DEF H
        <3> QED
            BY <3>1, <3>2
    <2>5. Deleted' = Deleted
        BY <1>1, <2>4, DeletedKept
    <2>6. Owed' = Owed
        BY <1>1, <2>2, <2>3, OwedKept DEF AwaitsAnswer
    <2>7. NoticesIn(mainQueue)' = NoticesIn(mainQueue)
        BY <1>2, <2>3 DEF IsNotice
    <2> QED
        BY <2>3, <2>5, <2>6, <2>7 DEF ContractStutters
<1>10. ASSUME ConfirmDownloadedTwyst(b)
       PROVE  Contract!Save(b.twyst)
    <2>1. /\ b.kind = "save" /\ mainQueue' = rest /\ queue' = queue
          /\ jobs' = jobs /\ hazards' = hazards
          /\ stored' = stored \cup {b.twyst}
        BY <1>10 DEF ConfirmDownloadedTwyst, MainRuns, serviceVars, rest
    <2>2. Contract!Awaited(b.twyst)
        BY <1>1, <2>1, SaveIsAwaited DEF ServiceInv, b
    <2>3. NoticesIn(mainQueue)' = NoticesIn(mainQueue)
        BY <1>2, <2>1 DEF IsNotice
    <2>4. UNCHANGED <<Queued, Owed, Deleted>>
        BY <2>1 DEF Queued, Owed, AwaitsAnswer, Deleted
    <2> QED
        BY <2>1, <2>2, <2>3, <2>4 DEF Contract!Save
<1>11. ASSUME DeliverDid(b) \/ DeliverFail(b)
       PROVE  \E n \in Contract!Notice : Contract!Deliver(n)
    <2>1. /\ b.kind \in {"did", "fail"} /\ mainQueue' = rest /\ queue' = queue
          /\ jobs' = jobs /\ hazards' = hazards /\ stored' = stored
        BY <1>11 DEF DeliverDid, DeliverFail, Deliver, MainRuns, serviceVars,
           storeVars, recordVars, rest
    <2>2. /\ NoticesIn(mainQueue) # <<>>
          /\ Head(NoticesIn(mainQueue)) = NoticeOf(b)
          /\ Tail(NoticesIn(mainQueue)) = NoticesIn(rest)
        BY <1>2, <2>1 DEF IsNotice
    <2> DEFINE n == NoticeOf(b)
    <2>3. n \in Contract!Notice /\ n.kind = b.kind /\ n.twyst = b.twyst
        BY <1>3, <2>1 DEF NoticeOf, Contract!Notice
    <2> HIDE DEF n
    <2>4. n.kind = "did" => n.twyst \in stored \/ n.twyst \in Deleted
        <3> SUFFICES ASSUME b.kind = "did"
                     PROVE  b.twyst \in stored \/ b.twyst \in Deleted
            BY <2>3
        <3>1. SavedOrSaving(b.twyst, 1) \/ "deleted" \in hazards[b.twyst]
            BY <1>4 DEF ServiceInv, NotifiedIsSaved
        <3>2. SavedOrSaving(b.twyst, 1) => b.twyst \in stored
            BY DEF SavedOrSaving
        <3> QED
            BY <1>3, <3>1, <3>2 DEF Deleted
    <2>5. UNCHANGED <<Queued, Owed, stored, Deleted>>
        BY <2>1 DEF Queued, Owed, AwaitsAnswer, Deleted
    <2>6. Contract!Deliver(n)
        BY <2>1, <2>2, <2>4, <2>5 DEF Contract!Deliver, n
    <2> QED
        BY <2>3, <2>6
<1> QED
    BY <1>3, <1>5, <1>8, <1>9, <1>10, <1>11

LEMMA ContractStep ==
    ASSUME ServiceInv, [Next]_vars
    PROVE  [Contract!ContractNext]_Contract!contractVars
<1>1. CASE UNCHANGED vars
    BY <1>1 DEF vars, serviceVars, storeVars, recordVars, Contract!contractVars,
       Queued, Owed, AwaitsAnswer, Deleted
<1>2. CASE Environment
    <2>1. TypeInv
        BY DEF ServiceInv
    <2> QED
        BY <1>2, <2>1, RequestSeen, DeleteSeen, UnseenEnvironment, StuttersUnseen
           DEF Environment, Contract!ContractNext
<1>3. CASE Timer
    <2>1. CASE Tick \/ \E q \in Queues : PassOver(q)
        BY <2>1 DEF Tick, PassOver, storeVars, recordVars, Contract!contractVars,
           Queued, Owed, AwaitsAnswer, Deleted
    <2>2. ASSUME NEW q \in Queues, StartDownload(q)
          PROVE  Contract!ContractNext
        BY <2>2, TakeUpSeen DEF Contract!ContractNext
    <2> QED
        BY <1>3, <2>1, <2>2 DEF Timer
<1>4. ASSUME NEW j \in jobs, Network(j) \/ Worker(j)
      PROVE  [Contract!ContractNext]_Contract!contractVars
    <2>1. CASE PostDid(j) \/ PostFail(j)
        BY <2>1, WorkerAnswerSeen DEF Contract!ContractNext
    <2>2. CASE \/ Network(j) \/ ReuseReply(j) \/ OpenFolder(j) \/ FetchReply(j)
               \/ FetchNothing(j) \/ FetchBadEntry(j) \/ FetchCorrupt(j)
               \/ PostSave(j) \/ EndDownload(j)
        BY <2>2, UnseenWorker, StuttersUnseen
    <2> QED
        BY <1>4, <2>1, <2>2 DEF Worker
<1>5. CASE MainBlock
    BY <1>5, MainBlockSeen, StuttersUnseen DEF Contract!ContractNext
<1>6. ASSUME NEW l \in localReplies, ReplyThread(l)
      PROVE  UNCHANGED Contract!contractVars
    <2>1. TypeInv
        BY DEF ServiceInv
    <2> QED
        BY <1>6, <2>1, UnseenReplyThread, StuttersUnseen
<1> QED
    BY <1>1, <1>2, <1>3, <1>4, <1>5, <1>6 DEF Next

\* The download service keeps its contract.
THEOREM ImplementsContract == Spec => KeepsContract
<1>1. Init => Contract!ContractInit
    <2> SUFFICES ASSUME Init PROVE Contract!ContractInit
        OBVIOUS
    <2>1. Queued = [q \in Queues |-> {}]
        <3>1. ToSet(<<>>) = {}
            BY DEF ToSet
        <3> QED
            BY <3>1 DEF Init, Queued
    <2>2. Owed = [q \in Queues |-> {}] /\ Deleted = {} /\ stored = {}
        BY DEF Init, Owed, Deleted
    <2>3. NoticesIn(mainQueue) = <<>>
        <3>1. PICK f : /\ \A n \in 0 .. Len(mainQueue) :
                              f[n] = Collect(mainQueue, f, n)
                       /\ NoticesIn(mainQueue) = f[Len(mainQueue)]
            BY NoticesCollected DEF Init
        <3>2. Len(mainQueue) = 0 /\ 0 \in 0 .. 0
            BY DEF Init
        <3> QED
            BY <3>1, <3>2 DEF Collect
    <2> QED
        BY <2>1, <2>2, <2>3 DEF Contract!ContractInit
<1>2. Init => QueuedOnce /\ AwaitedInv
    BY DEF Init, QueuedOnce, Once, AwaitedInv
<1>3. TypeInv /\ QueuedOnce /\ AwaitedInv /\ [Next]_vars
          => QueuedOnce' /\ AwaitedInv'
    BY QueuedOnceStep, AwaitedInvStep
<1>4. /\ TypeInv /\ SingleFlight /\ NotifiedIsSaved /\ QueuedOnce /\ AwaitedInv
      /\ [Next]_vars
      => [Contract!ContractNext]_Contract!contractVars
    BY ContractStep DEF ServiceInv
<1> QED
    BY <1>1, <1>2, <1>3, <1>4, TypeInit, TypeStep, OneDownloadPerQueue,
       SavedBeforeNotified, PTL DEF Spec, KeepsContract, Contract!ContractSpec

-----------------------------------------------------------------------------
(* Numbered frames                                                         *)

\* No two frames of a numbered set have the same place.
LEMMA PlacesDiffer ==
    ASSUME NEW F \in FrameSet, NEW n \in Nat, WellNumbered(F, n)
    PROVE  \A f, g \in F : f.order = g.order => f = g
<1> DEFINE S == 0 .. n - 1
           place == [f \in F |-> f.order]
<1>1. {f.order : f \in F} = S /\ Cardinality(F) = n /\ IsFiniteSet(F)
    BY DEF WellNumbered, FrameSet
<1>2. place \in Surjection(F, S)
    BY <1>1 DEF Surjection
<1>3. Cardinality(S) = n
    BY FS_Interval
<1>4. \A f \in F : place[f] = f.order
    OBVIOUS
<1> HIDE DEF S, place
<1>5. place \in Injection(F, S)
    BY <1>1, <1>2, <1>3, FS_Surjection
<1> QED
    BY <1>4, <1>5 DEF Injection, IsInjective

\* The frames N follow n others: their places are n, n + 1, ... without a
\* gap or a double.
Follows(N, n) ==
    {f.order : f \in N} = n .. n + Cardinality(N) - 1

\* Frames that follow a numbered set extend it.
LEMMA NumberingGrows ==
    ASSUME NEW F \in FrameSet, NEW n \in Nat, WellNumbered(F, n),
           NEW N \in FrameSet, Follows(N, n)
    PROVE  WellNumbered(F \cup N, n + Cardinality(N))
<1> DEFINE m == Cardinality(N)
<1>1. IsFiniteSet(F) /\ IsFiniteSet(N) /\ m \in Nat /\ Cardinality(F) = n
    BY FrameSetUnion DEF FrameSet, WellNumbered
<1>2. {f.order : f \in F} = 0 .. n - 1 /\ {f.order : f \in N} = n .. n + m - 1
    BY DEF WellNumbered, Follows
<1> HIDE DEF m
<1>3. F \cap N = {}
    <2> SUFFICES ASSUME NEW f \in F, f \in N PROVE FALSE
        OBVIOUS
    <2>1. f.order \in 0 .. n - 1 /\ f.order \in n .. n + m - 1
        BY <1>2
    <2> QED
        BY <1>1, <2>1
<1>4. Cardinality(F \cup N) = n + m
    BY <1>1, <1>3, FS_Union, FS_EmptySet DEF m
<1>5. {f.order : f \in F \cup N} = 0 .. n + m - 1
    <2>1. {f.order : f \in F \cup N}
              = {f.order : f \in F} \cup {f.order : f \in N}
        OBVIOUS
    <2>2. (0 .. n - 1) \cup (n .. n + m - 1) = 0 .. n + m - 1
        BY <1>1
    <2>3. {f.order : f \in F} \cup {f.order : f \in N} = 0 .. n + m - 1
        BY <1>2, <2>2, Zenon
    <2> QED
        BY <2>1, <2>3, Zenon
<1>6. n + m - 1 = (n + m) - 1
    BY <1>1
<1>7. WellNumbered(F \cup N, n + m)
    BY <1>4, <1>5, <1>6, Zenon DEF WellNumbered
<1> QED
    BY <1>7 DEF m

\* The c frames N are numbered one after the other from n on.
InRow(N, new, c, n) ==
    /\ new \in [0 .. c - 1 -> Frame]
    /\ \A k \in 0 .. c - 1 : new[k].order = n + k
    /\ N = {new[k] : k \in 0 .. c - 1}

LEMMA InRowFollow ==
    ASSUME NEW c \in Nat \ {0}, NEW n \in Nat, NEW new, NEW N,
           InRow(N, new, c, n)
    PROVE  /\ Follows(N, n) /\ Cardinality(N) = c
           /\ \A f, g \in N : f.order = g.order => f = g
<1> DEFINE D == 0 .. c - 1
<1>8. /\ new \in [D -> Frame] /\ N = {new[k] : k \in D}
      /\ \A k \in D : new[k].order = n + k
    BY DEF InRow
<1>1. IsFiniteSet(D) /\ Cardinality(D) = c
    <2>1. 0 \in Int /\ c - 1 \in Int /\ ~(0 > c - 1) /\ (c - 1) - 0 + 1 = c
        OBVIOUS
    <2> QED
        BY <2>1, FS_Interval
<1>2. new \in Surjection(D, N)
    BY <1>8 DEF Surjection
<1>3. \A k, m \in D : new[k].order = new[m].order => k = m
    BY <1>8
<1>4. {f.order : f \in N} = n .. n + c - 1
    <2>1. ASSUME NEW i \in n .. n + c - 1
          PROVE  i \in {f.order : f \in N}
        <3>1. i - n \in D /\ i = n + (i - n)
            OBVIOUS
        <3> QED
            BY <1>8, <3>1
    <2>2. \A k \in D : new[k].order \in n .. n + c - 1
        BY <1>8
    <2>3. \A f \in N : f.order \in n .. n + c - 1
        BY <1>8, <2>2
    <2> QED
        BY <2>1, <2>3, Zenon
<1> HIDE DEF D
<1>5. new \in Injection(D, N)
    BY <1>2, <1>3 DEF Surjection, Injection, IsInjective
<1>6. \A f, g \in N : f.order = g.order => f = g
    BY <1>3, <1>8
<1>7. Cardinality(N) = c
    BY <1>1, <1>2, <1>5, FS_Surjection
<1> QED
    BY <1>4, <1>6, <1>7 DEF Follows

\* The entries of an archive follow the frames before them, and so do the
\* frames of a local reply; there are as many as the reply has.
LEMMA FetchedFollow ==
    ASSUME NEW r \in Replies, NEW n \in Nat
    PROVE  /\ Follows(FetchedFrames(r, n), n)
           /\ Cardinality(FetchedFrames(r, n)) = FrameCount[r]
<1> DEFINE c == FrameCount[r]
           new == [k \in 0 .. c - 1 |->
                      [reply |-> r, order |-> n + k, replyIndex |-> r - 1,
                       local |-> FALSE]]
<1>1. c \in Nat \ {0}
    BY FrameCountAssumption DEF Replies
<1> DEFINE N == FetchedFrames(r, n)
<1>3. new \in [0 .. c - 1 -> Frame] /\ \A k \in 0 .. c - 1 : new[k].order = n + k
    BY <1>1 DEF Frame, Replies
<1>5. N = {new[k] : k \in 0 .. c - 1}
    BY DEF FetchedFrames
<1> HIDE DEF new, N
<1>2. InRow(N, new, c, n)
    BY <1>3, <1>5 DEF InRow
<1> HIDE DEF c, new, N
<1>4. /\ Follows(N, n) /\ Cardinality(N) = c
      /\ \A f, g \in N : f.order = g.order => f = g
    BY <1>1, <1>2, InRowFollow
<1> QED
    BY <1>4 DEF c, N

LEMMA LocalFollow ==
    ASSUME NEW r \in Replies, NEW n \in Nat, NEW x \in Nat
    PROVE  /\ Follows(LocalFrames(r, n, x), n)
           /\ Cardinality(LocalFrames(r, n, x)) = FrameCount[r]
           /\ \A f, g \in LocalFrames(r, n, x) : f.order = g.order => f = g
<1> DEFINE c == FrameCount[r]
           new == [k \in 0 .. c - 1 |->
                      [reply |-> r, order |-> n + k, replyIndex |-> x,
                       local |-> TRUE]]
<1>1. c \in Nat \ {0}
    BY FrameCountAssumption DEF Replies
<1> DEFINE N == LocalFrames(r, n, x)
<1>3. new \in [0 .. c - 1 -> Frame] /\ \A k \in 0 .. c - 1 : new[k].order = n + k
    BY <1>1 DEF Frame, Replies
<1>5. N = {new[k] : k \in 0 .. c - 1}
    BY DEF LocalFrames
<1> HIDE DEF new, N
<1>2. InRow(N, new, c, n)
    BY <1>3, <1>5 DEF InRow
<1> HIDE DEF c, new, N
<1>4. /\ Follows(N, n) /\ Cardinality(N) = c
      /\ \A f, g \in N : f.order = g.order => f = g
    BY <1>1, <1>2, InRowFollow
<1> QED
    BY <1>4 DEF c, N

-----------------------------------------------------------------------------
(* Frames taken over from a record                                         *)

\* A local frame and a downloaded one may share a place in a record that met
\* a hazard, but the frames of one reply and kind never do: Rank sorts them.
Sortable(F) ==
    \A f, g \in F :
        f.reply = g.reply /\ f.order = g.order /\ f.local = g.local => f = g

\* The ranks of n sorted frames are 0, 1, ... , n - 1, each once.
LEMMA RankNumbers ==
    ASSUME NEW G \in FrameSet,
           \A f, g \in G : f.order = g.order /\ f.local = g.local => f = g
    PROVE  /\ {Rank(f, G) : f \in G} = 0 .. Cardinality(G) - 1
           /\ \A f, g \in G : Rank(f, G) = Rank(g, G) => f = g
<1> DEFINE n == Cardinality(G)
           below(f) == {g \in G : SortsBefore(g, f)}
           S == 0 .. n - 1
           rank == [f \in G |-> Rank(f, G)]
<1>1. IsFiniteSet(G) /\ n \in Nat
      /\ \A f \in G : f.order \in Nat /\ f.local \in BOOLEAN
    BY FrameSetUnion DEF FrameSet, Frame
<1>2. \A f \in G : ~SortsBefore(f, f)
    BY <1>1 DEF SortsBefore
<1>3. \A f, g, h \in G : SortsBefore(f, g) /\ SortsBefore(g, h)
                            => SortsBefore(f, h)
    BY <1>1 DEF SortsBefore
<1>4. \A f, g \in G : f = g \/ SortsBefore(f, g) \/ SortsBefore(g, f)
    BY <1>1 DEF SortsBefore
<1>5. \A f \in G : IsFiniteSet(below(f)) /\ Cardinality(below(f)) \in Nat
                   /\ Rank(f, G) = Cardinality(below(f))
    BY <1>1, FS_Subset, FS_CardinalityType DEF Rank
<1>6. ASSUME NEW f \in G, NEW g \in G, SortsBefore(f, g)
      PROVE  Rank(f, G) < Rank(g, G)
    <2>1. below(f) \subseteq below(g)
        BY <1>3, <1>6
    <2>2. f \in below(g) /\ f \notin below(f)
        BY <1>2, <1>6
    <2> HIDE DEF below
    <2> QED
        BY <1>5, <2>1, <2>2, FS_Subset
<1>7. ASSUME NEW f \in G
      PROVE  Rank(f, G) \in S
    <2>1. below(f) \subseteq G /\ f \notin below(f)
        BY <1>2
    <2> HIDE DEF below
    <2>2. Cardinality(below(f)) <= n /\ Cardinality(below(f)) # n
        BY <1>1, <2>1, FS_Subset
    <2> QED
        BY <1>1, <1>5, <2>2
<1>8. \A f, g \in G : Rank(f, G) = Rank(g, G) => f = g
    <2>1. \A f \in G : Rank(f, G) \in Int
        BY <1>7
    <2> QED
        BY <1>4, <1>6, <2>1
<1>9. Cardinality(S) = n /\ IsFiniteSet(S)
    BY <1>1, FS_Interval
<1>10. rank \in Injection(G, S) /\ \A f \in G : rank[f] = Rank(f, G)
    BY <1>7, <1>8 DEF Injection, IsInjective
<1> HIDE DEF rank, S
<1>11. rank \in Surjection(G, S)
    BY <1>9, <1>10, FS_Injection
<1>12. {Rank(f, G) : f \in G} = S
    BY <1>10, <1>11 DEF Surjection
<1> QED
    BY <1>8, <1>12 DEF S

\* The frames of a reply that a download takes over follow those before, in
\* their old order; none is lost, whatever places they had.
LEMMA ReusedFollow ==
    ASSUME NEW F \in FrameSet, Sortable(F), NEW r \in Replies, NEW n \in Nat
    PROVE  /\ Follows(ReusedFrames(F, r, n), n)
           /\ Cardinality(ReusedFrames(F, r, n)) = Cardinality(FramesOf(F, r))
<1> DEFINE G == FramesOf(F, r)
           c == Cardinality(G)
           new == [f \in G |-> [reply |-> r, order |-> n + Rank(f, G),
                                replyIndex |-> r - 1, local |-> FALSE]]
           N == {new[f] : f \in G}
<1>1. G \in FrameSet /\ IsFiniteSet(G) /\ c \in Nat
    BY FS_Subset, FS_CardinalityType DEF FramesOf, FrameSet
<1>2. \A f, g \in G : f.order = g.order /\ f.local = g.local => f = g
    BY DEF FramesOf, Sortable
<1> HIDE DEF G
<1>3. /\ {Rank(f, G) : f \in G} = 0 .. c - 1
      /\ \A f, g \in G : Rank(f, G) = Rank(g, G) => f = g
    BY <1>1, <1>2, RankNumbers
<1>4. N = ReusedFrames(F, r, n)
    BY DEF ReusedFrames, G
<1>5. \A f \in G : new[f].order = n + Rank(f, G)
    OBVIOUS
<1>6. new \in Surjection(G, N)
    BY DEF Surjection
<1>7. \A f \in G : Rank(f, G) \in Nat
    BY <1>1, RankType
<1>8. {g.order : g \in N} = n .. n + c - 1
    <2>1. {g.order : g \in N} = {n + Rank(f, G) : f \in G}
        BY <1>5
    <2>2. ASSUME NEW i \in n .. n + c - 1
          PROVE  i \in {n + Rank(f, G) : f \in G}
        <3>1. i - n \in 0 .. c - 1 /\ i = n + (i - n)
            BY <1>1
        <3>2. PICK f \in G : Rank(f, G) = i - n
            BY <1>3, <3>1
        <3> QED
            BY <3>1, <3>2
    <2>3. \A f \in G : n + Rank(f, G) \in n .. n + c - 1
        <3>1. \A f \in G : Rank(f, G) \in 0 .. c - 1
            BY <1>3
        <3> QED
            BY <1>1, <3>1
    <2> QED
        BY <2>1, <2>2, <2>3
<1>9. \A f, g \in G : new[f] = new[g] => f = g
    <2> SUFFICES ASSUME NEW f \in G, NEW g \in G, new[f] = new[g]
                 PROVE  f = g
        OBVIOUS
    <2>1. new[f].order = new[g].order
        OBVIOUS
    <2>3. n + Rank(f, G) = n + Rank(g, G)
        BY <1>5, <2>1
    <2>4. Rank(f, G) \in Nat /\ Rank(g, G) \in Nat
        BY <1>7
    <2> HIDE DEF new, N
    <2>2. Rank(f, G) = Rank(g, G)
        BY <2>3, <2>4
    <2> QED
        BY <1>3, <2>2
<1> HIDE DEF new
<1>10. new \in Injection(G, N)
    BY <1>6, <1>9 DEF Surjection, Injection, IsInjective
<1> HIDE DEF N
<1>11. Cardinality(N) = c
    BY <1>1, <1>6, <1>10, FS_Surjection
<1> QED
    BY <1>4, <1>8, <1>11 DEF Follows, G

-----------------------------------------------------------------------------
(* What a step does to downloads, blocks and local replies                 *)

\* The download j goes on as k, with the phase, place and frames given.
Becomes(j, k, phase, at, arr) ==
    /\ k \in Job /\ jobs' = (jobs \ {j}) \cup {k}
    /\ k.q = j.q /\ k.twyst = j.twyst /\ k.list = j.list
    /\ k.known = j.known /\ k.saved = j.saved
    /\ k.phase = phase /\ k.at = at /\ k.arr = arr

\* A step that only changes the phase.
LEMMA PhaseShape ==
    ASSUME NEW j \in Job, NEW ph,
           ph \in {"request", "answered", "open", "fetch", "notify", "clear"},
           jobs' = (jobs \ {j}) \cup {[j EXCEPT !.phase = ph]}
    PROVE  \E k : Becomes(j, k, ph, j.at, j.arr)
<1> DEFINE k == [j EXCEPT !.phase = ph]
<1>1. /\ k \in Job /\ k.q = j.q /\ k.twyst = j.twyst /\ k.list = j.list
      /\ k.known = j.known /\ k.saved = j.saved
      /\ k.phase = ph /\ k.at = j.at /\ k.arr = j.arr
    BY DEF Job
<1>2. jobs' = (jobs \ {j}) \cup {k}
    OBVIOUS
<1> HIDE DEF k
<1> QED
    BY <1>1, <1>2 DEF Becomes

\* A turn of the loop.
LEMMA TurnShape ==
    ASSUME NEW j \in Job, NEW new \in FrameSet, j.at <= j.list,
           NextReply(j, new)
    PROVE  \E k : Becomes(j, k, "open", j.at + 1, j.arr \cup new)
<1> DEFINE k == [j EXCEPT !.phase = "open", !.at = @ + 1, !.arr = @ \cup new]
<1>1. j.at + 1 \in 1 .. MaxReplies + 1 /\ j.arr \cup new \in FrameSet
    BY FrameSetUnion, MaxRepliesAssumption DEF Job
<1>2. /\ k \in Job /\ k.q = j.q /\ k.twyst = j.twyst /\ k.list = j.list
      /\ k.known = j.known /\ k.saved = j.saved
      /\ k.phase = "open" /\ k.at = j.at + 1 /\ k.arr = j.arr \cup new
    BY <1>1 DEF Job
<1>3. jobs' = (jobs \ {j}) \cup {k}
    BY DEF NextReply
<1> HIDE DEF k
<1> QED
    BY <1>2, <1>3 DEF Becomes

\* The frames that a worker finds in the record: those of the record as it
\* is, or of one that was deleted meanwhile.
Found(j) == IF j.saved = "live" THEN {frames[j.twyst]} ELSE {{}, j.known}

\* What each step of a worker makes of its download.
LEMMA WorkerShape ==
    ASSUME TypeInv, NEW j \in jobs
    PROVE  /\ Network(j) => \E k : Becomes(j, k, "answered", j.at, j.arr)
           /\ ReuseReply(j) =>
                \E F \in Found(j) : \E k :
                   Becomes(j, k, "open", j.at + 1,
                       j.arr \cup ReusedFrames(F, j.at, Cardinality(j.arr)))
           /\ OpenFolder(j) => \E k : Becomes(j, k, "fetch", j.at, j.arr)
           /\ FetchReply(j) \/ FetchBadEntry(j) =>
                \E k : Becomes(j, k, "open", j.at + 1,
                         j.arr \cup FetchedFrames(j.at, Cardinality(j.arr)))
           /\ FetchCorrupt(j) => \E k : Becomes(j, k, "open", j.at + 1, j.arr)
           /\ FetchNothing(j) => \E k : Becomes(j, k, "open", j.list + 1, {})
           /\ PostSave(j) => \E k : Becomes(j, k, "notify", j.at, j.arr)
           /\ PostDid(j) \/ PostFail(j) =>
                \E k : Becomes(j, k, "clear", j.at, j.arr)
<1>1. /\ j \in Job /\ (j.phase = "fetch" => j.at <= j.list)
      /\ Cardinality(j.arr) \in Nat
    BY ArrLength DEF TypeInv, TypeOK, WorkerInList
<1>2. j.at <= j.list => j.at \in Replies
    BY <1>1, MaxRepliesAssumption DEF Job, Replies
<1>3. ASSUME Network(j)
      PROVE  \E k : Becomes(j, k, "answered", j.at, j.arr)
    BY <1>1, <1>3, PhaseShape DEF Network, RepliesArrive, RepliesFail, Answer
<1>4. ASSUME ReuseReply(j)
      PROVE  \E F \in Found(j) : \E k :
                 Becomes(j, k, "open", j.at + 1,
                     j.arr \cup ReusedFrames(F, j.at, Cardinality(j.arr)))
    <2>1. PICK F \in Found(j) :
              NextReply(j, ReusedFrames(F, j.at, Cardinality(j.arr)))
        BY <1>4 DEF ReuseReply, Found
    <2>2. F \in FrameSet
        <3>1. frames[j.twyst] \in FrameSet /\ j.known \in FrameSet
            BY <1>1 DEF TypeInv, TypeOK, Job
        <3> QED
            BY <2>1, <3>1, EmptyFrameSet DEF Found
    <2>3. j.at <= j.list
        BY <1>4 DEF ReuseReply
    <2>4. ReusedFrames(F, j.at, Cardinality(j.arr)) \in FrameSet
        BY <1>1, <1>2, <2>2, <2>3, ReusedFramesType
    <2> QED
        BY <1>1, <2>1, <2>3, <2>4, TurnShape
<1>5. ASSUME OpenFolder(j)
      PROVE  \E k : Becomes(j, k, "fetch", j.at, j.arr)
    BY <1>1, <1>5, PhaseShape DEF OpenFolder
<1>6. ASSUME FetchReply(j) \/ FetchBadEntry(j)
      PROVE  \E k : Becomes(j, k, "open", j.at + 1,
                        j.arr \cup FetchedFrames(j.at, Cardinality(j.arr)))
    <2>1. j.at <= j.list
        BY <1>1, <1>6 DEF FetchReply, FetchBadEntry
    <2>2. FetchedFrames(j.at, Cardinality(j.arr)) \in FrameSet
        BY <1>1, <1>2, <2>1, FetchedFramesType
    <2> QED
        BY <1>1, <1>6, <2>1, <2>2, TurnShape DEF FetchReply, FetchBadEntry
<1>7. ASSUME FetchCorrupt(j)
      PROVE  \E k : Becomes(j, k, "open", j.at + 1, j.arr)
    <2>1. j.at <= j.list /\ NextReply(j, {})
        BY <1>1, <1>7 DEF FetchCorrupt
    <2>2. \E k : Becomes(j, k, "open", j.at + 1, j.arr \cup {})
        BY <1>1, <2>1, EmptyFrameSet, TurnShape
    <2>3. j.arr \cup {} = j.arr
        OBVIOUS
    <2> QED
        BY <2>2, <2>3
<1>8. ASSUME FetchNothing(j)
      PROVE  \E k : Becomes(j, k, "open", j.list + 1, {})
    <2> DEFINE k == [j EXCEPT !.phase = "open", !.at = j.list + 1, !.arr = {}]
    <2>1. j.list + 1 \in 1 .. MaxReplies + 1
        BY <1>1, MaxRepliesAssumption DEF Job
    <2>2. /\ k \in Job /\ k.q = j.q /\ k.twyst = j.twyst /\ k.list = j.list
          /\ k.known = j.known /\ k.saved = j.saved
          /\ k.phase = "open" /\ k.at = j.list + 1 /\ k.arr = {}
        BY <1>1, <2>1, EmptyFrameSet DEF Job
    <2>3. jobs' = (jobs \ {j}) \cup {k}
        BY <1>8 DEF FetchNothing
    <2> HIDE DEF k
    <2> QED
        BY <2>2, <2>3 DEF Becomes
<1>9. ASSUME PostSave(j)
      PROVE  \E k : Becomes(j, k, "notify", j.at, j.arr)
    BY <1>1, <1>9, PhaseShape DEF PostSave, WorkerPosts
<1>10. ASSUME PostDid(j) \/ PostFail(j)
       PROVE  \E k : Becomes(j, k, "clear", j.at, j.arr)
    BY <1>1, <1>10, PhaseShape DEF PostDid, PostFail, WorkerPosts
<1> QED
    BY <1>3, <1>4, <1>5, <1>6, <1>7, <1>8, <1>9, <1>10

\* The first list of a download.
LEMMA BeginShape ==
    ASSUME TypeInv, NEW j \in jobs, NEW b \in Block, BeginDownload(b, j)
    PROVE  \E k \in Job :
              /\ jobs' = (jobs \ {j}) \cup {k}
              /\ k.q = j.q /\ k.twyst = j.twyst /\ k.twyst = b.twyst
              /\ k.phase = "open" /\ k.list = b.list
              /\ k.known = frames[b.twyst]
              /\ k.saved = IF b.twyst \in stored THEN "live" ELSE "none"
              /\ k.at = j.at /\ k.arr = j.arr /\ j.phase = "answered"
<1> DEFINE k == [j EXCEPT !.phase = "open", !.list = b.list,
                          !.known = frames[b.twyst],
                          !.saved = IF b.twyst \in stored THEN "live"
                                                          ELSE "none"]
<1>1. j \in Job /\ frames[b.twyst] \in FrameSet /\ b.list \in 0..MaxReplies
    BY DEF TypeInv, TypeOK, Block
<1>2. j.twyst = b.twyst /\ j.phase = "answered" /\ jobs' = (jobs \ {j}) \cup {k}
    BY DEF BeginDownload, Answered
<1>3. /\ k \in Job /\ k.q = j.q /\ k.twyst = j.twyst
      /\ k.phase = "open" /\ k.list = b.list
      /\ k.known = frames[b.twyst]
      /\ k.saved = IF b.twyst \in stored THEN "live" ELSE "none"
      /\ k.at = j.at /\ k.arr = j.arr
    BY <1>1 DEF Job
<1> HIDE DEF k
<1> QED
    BY <1>2, <1>3

\* A deletion marks the downloads and the local replies of its twyst.
LEMMA OrphanShape ==
    ASSUME TypeInv, NEW t \in Twysts, DeleteSavedTwyst(t)
    PROVE  /\ \A k \in jobs' : k \in Job /\ \E j \in jobs :
                 /\ k.q = j.q /\ k.twyst = j.twyst /\ k.phase = j.phase
                 /\ k.list = j.list /\ k.known = j.known
                 /\ k.at = j.at /\ k.arr = j.arr
                 /\ k.saved = IF j.twyst = t /\ j.saved = "live"
                              THEN "deleted" ELSE j.saved
                 /\ j.twyst # t => k = j
           /\ \A m \in localReplies' : m \in LocalReply
                 /\ \E l \in localReplies :
                       /\ m.twyst = l.twyst /\ m.reply = l.reply
                       /\ m.phase = l.phase /\ m.total = l.total
                       /\ m.replyIndex = l.replyIndex
                       /\ m.saved = IF l.twyst = t /\ l.saved = "live"
                                    THEN "deleted" ELSE l.saved
                       /\ l.twyst # t => m = l
<1>1. ASSUME NEW j \in jobs
      PROVE  LET k == Orphaned(j)
             IN  /\ k \in Job /\ k.q = j.q /\ k.twyst = j.twyst
                 /\ k.phase = j.phase /\ k.list = j.list
                 /\ k.known = j.known /\ k.at = j.at /\ k.arr = j.arr
                 /\ k.saved = IF j.saved = "live" THEN "deleted" ELSE j.saved
    BY DEF TypeInv, TypeOK, Orphaned, Job
<1>2. ASSUME NEW l \in localReplies
      PROVE  LET m == Orphaned(l)
             IN  /\ m \in LocalReply /\ m.twyst = l.twyst /\ m.reply = l.reply
                 /\ m.phase = l.phase /\ m.total = l.total
                 /\ m.replyIndex = l.replyIndex
                 /\ m.saved = IF l.saved = "live" THEN "deleted" ELSE l.saved
    BY DEF TypeInv, TypeOK, Orphaned, LocalReply
<1>3. /\ \A k \in jobs' : \E j \in jobs :
             k = IF j.twyst = t THEN Orphaned(j) ELSE j
      /\ \A m \in localReplies' : \E l \in localReplies :
             m = IF l.twyst = t THEN Orphaned(l) ELSE l
    BY DEF DeleteSavedTwyst
<1>4. jobs \subseteq Job /\ localReplies \subseteq LocalReply
    BY DEF TypeInv, TypeOK
<1>5. ASSUME NEW k \in jobs'
      PROVE  k \in Job /\ \E j \in jobs :
                 /\ k.q = j.q /\ k.twyst = j.twyst /\ k.phase = j.phase
                 /\ k.list = j.list /\ k.known = j.known
                 /\ k.at = j.at /\ k.arr = j.arr
                 /\ k.saved = IF j.twyst = t /\ j.saved = "live"
                              THEN "deleted" ELSE j.saved
                 /\ j.twyst # t => k = j
    <2>1. PICK j \in jobs : k = IF j.twyst = t THEN Orphaned(j) ELSE j
        BY <1>3
    <2> QED
        BY <1>1, <1>4, <2>1
<1>6. ASSUME NEW m \in localReplies'
      PROVE  m \in LocalReply /\ \E l \in localReplies :
                 /\ m.twyst = l.twyst /\ m.reply = l.reply
                 /\ m.phase = l.phase /\ m.total = l.total
                 /\ m.replyIndex = l.replyIndex
                 /\ m.saved = IF l.twyst = t /\ l.saved = "live"
                              THEN "deleted" ELSE l.saved
                 /\ l.twyst # t => m = l
    <2>1. PICK l \in localReplies : m = IF l.twyst = t THEN Orphaned(l) ELSE l
        BY <1>3
    <2> QED
        BY <1>2, <1>4, <2>1
<1> QED
    BY <1>5, <1>6

\* The local reply l goes on as m.
Advances(l, m, phase, saved, n) ==
    /\ m \in LocalReply /\ localReplies' = (localReplies \ {l}) \cup {m}
    /\ m.twyst = l.twyst /\ m.reply = l.reply
    /\ m.phase = phase /\ m.saved = saved /\ m.total = n

\* What each step of the thread that adds a reply makes of it.
LEMMA ReplyShape ==
    ASSUME TypeInv, NEW l \in localReplies
    PROVE  /\ AddReplySuccess(l) =>
                \E m : Advances(l, m, "move", l.saved, l.total)
           /\ MoveReplyFiles(l) =>
                \E m : Advances(l, m, "read", l.saved, l.total)
           /\ ReadRecord(l) =>
                \E m : Advances(l, m, "commit", "live", total[l.twyst])
           /\ AddReplyFails(l) \/ CommitReply(l) \/ DropReply(l) =>
                localReplies' = localReplies \ {l}
<1>1. l \in LocalReply
    BY DEF TypeInv, TypeOK
<1>2. ASSUME NEW ph \in {"move", "read"},
             localReplies' = (localReplies \ {l}) \cup {[l EXCEPT !.phase = ph]}
      PROVE  \E m : Advances(l, m, ph, l.saved, l.total)
    <2> DEFINE m == [l EXCEPT !.phase = ph]
    <2>1. /\ m \in LocalReply /\ m.twyst = l.twyst /\ m.reply = l.reply
          /\ m.phase = ph /\ m.saved = l.saved /\ m.total = l.total
        BY <1>1 DEF LocalReply
    <2>2. localReplies' = (localReplies \ {l}) \cup {m}
        BY <1>2
    <2> HIDE DEF m
    <2> QED
        BY <2>1, <2>2 DEF Advances
<1>3. ASSUME ReadRecord(l)
      PROVE  \E m : Advances(l, m, "commit", "live", total[l.twyst])
    <2>1. PICK i \in NextReplyIndexes(frames[l.twyst]) :
              localReplies' = (localReplies \ {l}) \cup
                 {[l EXCEPT !.phase = "commit", !.saved = "live",
                            !.total = total[l.twyst], !.replyIndex = i]}
        BY <1>3 DEF ReadRecord
    <2> DEFINE m == [l EXCEPT !.phase = "commit", !.saved = "live",
                              !.total = total[l.twyst], !.replyIndex = i]
    <2>2. total[l.twyst] \in Nat /\ i \in Nat
        <3>1. frames[l.twyst] \in FrameSet /\ total[l.twyst] \in Nat
            BY <1>1 DEF TypeInv, TypeOK, LocalReply
        <3>2. \A x \in NextReplyIndexes(frames[l.twyst]) : x \in Nat
            BY <3>1 DEF NextReplyIndexes, LastFrames, FrameSet, Frame
        <3> QED
            BY <3>1, <3>2
    <2>3. /\ m \in LocalReply /\ m.twyst = l.twyst /\ m.reply = l.reply
          /\ m.phase = "commit" /\ m.saved = "live"
          /\ m.total = total[l.twyst]
        BY <1>1, <2>2 DEF LocalReply
    <2>4. localReplies' = (localReplies \ {l}) \cup {m}
        BY <2>1
    <2> HIDE DEF m
    <2> QED
        BY <2>3, <2>4 DEF Advances
<1>4. AddReplySuccess(l) => \E m : Advances(l, m, "move", l.saved, l.total)
    BY <1>2 DEF AddReplySuccess
<1>5. MoveReplyFiles(l) => \E m : Advances(l, m, "read", l.saved, l.total)
    BY <1>2 DEF MoveReplyFiles
<1>6. AddReplyFails(l) \/ CommitReply(l) \/ DropReply(l) =>
          localReplies' = localReplies \ {l}
    BY DEF AddReplyFails, CommitReply, DropReply
<1> QED
    BY <1>3, <1>4, <1>5, <1>6

\* The blocks of the main queue, whatever their order.
Blocks == ToSet(mainQueue)

LEMMA BlocksAppend ==
    ASSUME NEW s \in Seq(Block), NEW b \in Block
    PROVE  ToSet(Append(s, b)) = ToSet(s) \cup {b}
<1>1. /\ Append(s, b) \in Seq(Block) /\ Len(Append(s, b)) = Len(s) + 1
      /\ \A i \in 1 .. Len(s) : Append(s, b)[i] = s[i]
      /\ Append(s, b)[Len(s) + 1] = b
    BY AppendProperties
<1>2. Len(s) \in Nat
    BY LenProperties
<1> DEFINE u == Append(s, b)
<1> HIDE DEF u
<1>3. ASSUME NEW x
      PROVE  x \in ToSet(u) <=> x \in ToSet(s) \/ x = b
    <2>1. x \in ToSet(u) <=> \E i \in 1 .. Len(u) : u[i] = x
        BY <1>1, InToSet DEF u
    <2>2. x \in ToSet(s) <=> \E i \in 1 .. Len(s) : s[i] = x
        BY InToSet
    <2>3. \A i : i \in 1 .. Len(u) <=> i \in 1 .. Len(s) \/ i = Len(s) + 1
        BY <1>1, <1>2 DEF u
    <2> QED
        BY <1>1, <2>1, <2>2, <2>3 DEF u
<1> QED
    BY <1>3 DEF u

LEMMA BlocksTail ==
    ASSUME NEW s \in Seq(Block), s # <<>>
    PROVE  ToSet(s) = ToSet(Tail(s)) \cup {Head(s)}
<1>1. /\ Tail(s) \in Seq(Block) /\ Len(Tail(s)) = Len(s) - 1
      /\ \A i \in 1 .. Len(Tail(s)) : Tail(s)[i] = s[i + 1]
      /\ Head(s) = s[1]
    BY HeadTailProperties
<1>2. Len(s) \in Nat /\ Len(s) >= 1
    BY LenProperties, EmptySeq
<1> DEFINE u == Tail(s)
<1> HIDE DEF u
<1>3. ASSUME NEW x
      PROVE  x \in ToSet(s) <=> x \in ToSet(u) \/ x = Head(s)
    <2>1. x \in ToSet(u) <=> \E i \in 1 .. Len(u) : u[i] = x
        BY <1>1, InToSet DEF u
    <2>2. x \in ToSet(s) <=> \E i \in 1 .. Len(s) : s[i] = x
        BY InToSet
    <2>3. \A i \in 1 .. Len(u) : i + 1 \in 1 .. Len(s) /\ u[i] = s[i + 1]
        BY <1>1, <1>2 DEF u
    <2>4. \A i \in 1 .. Len(s) : i = 1 \/ (i - 1 \in 1 .. Len(u) /\ u[i - 1] = s[i])
        <3> SUFFICES ASSUME NEW i \in 1 .. Len(s), i # 1
                     PROVE  i - 1 \in 1 .. Len(u) /\ u[i - 1] = s[i]
            OBVIOUS
        <3>1. i - 1 \in 1 .. Len(u) /\ (i - 1) + 1 = i
            BY <1>1, <1>2 DEF u
        <3> QED
            BY <1>1, <3>1 DEF u
    <2>5. 1 \in 1 .. Len(s)
        BY <1>2
    <2>6. ASSUME x \in ToSet(s) PROVE x \in ToSet(u) \/ x = Head(s)
        <3>1. PICK i \in 1 .. Len(s) : s[i] = x
            BY <2>2, <2>6
        <3> QED
            BY <1>1, <2>1, <2>4, <3>1
    <2>7. ASSUME x \in ToSet(u) \/ x = Head(s) PROVE x \in ToSet(s)
        BY <1>1, <2>1, <2>2, <2>3, <2>5, <2>7
    <2> QED
        BY <2>6, <2>7
<1> QED
    BY <1>3 DEF u

-----------------------------------------------------------------------------
(* How records are numbered                                                *)

\* What a download has collected: numbered from 0 on, each frame with its
\* reply's place in the server's list.
Collected(A) ==
    /\ WellNumbered(A, Cardinality(A))
    /\ \A f \in A : ~f.local /\ f.replyIndex = f.reply - 1

\* A download, a block and a record when the server has n replies.
JobSound(j, n) ==
    /\ Collected(j.arr) /\ Sortable(j.known)
    /\ j.list <= n /\ j.at <= j.list + 1
    /\ \A f \in j.arr : f.reply < j.at
    /\ j.phase \in {"request", "answered"} => j.arr = {} /\ j.at = 1

BlockSound(b, n) ==
    /\ Collected(b.arr) /\ b.list <= n
    /\ \A f \in b.arr : f.reply <= b.list

RecordSound(F, n) ==
    /\ Sortable(F)
    /\ \A f \in F : /\ f.reply <= n
                    /\ ~f.local => f.replyIndex = f.reply - 1

SoundInv ==
    /\ \A j \in jobs : JobSound(j, replyCount[j.twyst])
    /\ \A b \in Blocks : BlockSound(b, replyCount[b.twyst])
    /\ \A t \in Twysts : RecordSound(frames[t], replyCount[t])

\* A reply of this user's has a place of its own in the server's list, and
\* is added once.
KeyInv ==
    /\ \A l, m \in localReplies :
          l.twyst = m.twyst /\ l.reply = m.reply => l = m
    /\ \A l \in localReplies :
          /\ l.reply <= replyCount[l.twyst]
          /\ \A f \in frames[l.twyst] : f.local => f.reply # l.reply

\* Unless a local reply met a download or another local reply, it is alone
\* with its twyst, and what it has read of the record is still so.
Alone(l) ==
    /\ ~Downloading(l.twyst)
    /\ l.phase = "commit" /\ l.saved = "live" => l.total = total[l.twyst]
    /\ \A m \in localReplies : m.twyst = l.twyst => m = l
    /\ l.reply \notin ZipNames(frames[l.twyst])

AloneInv ==
    /\ \A t \in Twysts :
          "local" \notin hazards[t] => WellNumbered(frames[t], total[t])
    /\ \A l \in localReplies : "local" \notin hazards[l.twyst] => Alone(l)

NumberInv == TypeInv /\ SoundInv /\ KeyInv /\ AloneInv

\* The empty collection, and what follows it.
LEMMA NothingCollected ==
    Collected({}) /\ Sortable({}) /\ WellNumbered({}, 0)
    /\ \A n \in Nat : RecordSound({}, n)
<1>1. {f.order : f \in {}} = {} /\ Cardinality({}) = 0 /\ 0 .. 0 - 1 = {}
    BY FS_EmptySet
<1> QED
    BY <1>1 DEF Collected, Sortable, WellNumbered, RecordSound

\* A collection can be sorted, and serves as a record.
LEMMA CollectedSorts ==
    ASSUME NEW A \in FrameSet, Collected(A)
    PROVE  Sortable(A) /\ WellNumbered(A, Cardinality(A))
           /\ Cardinality(A) \in Nat
    BY PlacesDiffer, FrameSetUnion DEF Collected, Sortable

\* A worker's loop extends what it has collected by the frames of the next
\* reply.
LEMMA CollectionGrows ==
    ASSUME NEW A \in FrameSet, Collected(A),
           NEW r \in Replies, NEW N \in FrameSet, Follows(N, Cardinality(A)),
           \A f \in N : f.reply = r /\ ~f.local /\ f.replyIndex = r - 1
    PROVE  Collected(A \cup N)
<1> DEFINE n == Cardinality(A)
<1>1. n \in Nat /\ Cardinality(N) \in Nat /\ WellNumbered(A, n)
    BY FrameSetUnion DEF Collected
<1>2. WellNumbered(A \cup N, n + Cardinality(N))
    BY <1>1, NumberingGrows
<1>3. Cardinality(A \cup N) = n + Cardinality(N)
    BY <1>2 DEF WellNumbered
<1>4. \A f \in A \cup N : ~f.local /\ f.replyIndex = f.reply - 1
    BY DEF Collected
<1> HIDE DEF n
<1> QED
    BY <1>2, <1>3, <1>4 DEF Collected

\* A record to which the frames of a new local reply are added.
LEMMA LocalReplyKeeps ==
    ASSUME NEW F \in FrameSet, NEW n \in Nat, RecordSound(F, n),
           NEW r \in Replies, r <= n, \A f \in F : f.local => f.reply # r,
           NEW p \in Nat, NEW x \in Nat
    PROVE  /\ RecordSound(F \cup LocalFrames(r, p, x), n)
           /\ WellNumbered(F, p) =>
                 WellNumbered(F \cup LocalFrames(r, p, x), p + FrameCount[r])
<1> DEFINE N == LocalFrames(r, p, x)
<1>1. /\ N \in FrameSet /\ Follows(N, p) /\ Cardinality(N) = FrameCount[r]
      /\ \A f, g \in N : f.order = g.order => f = g
    BY LocalFramesType, LocalFollow
<1>2. \A f \in N : f.local /\ f.reply = r
    BY DEF LocalFrames
<1> HIDE DEF N
<1>3. Sortable(F \cup N)
    BY <1>1, <1>2 DEF RecordSound, Sortable
<1>4. RecordSound(F \cup N, n)
    BY <1>2, <1>3 DEF RecordSound
<1>5. WellNumbered(F, p) => WellNumbered(F \cup N, p + FrameCount[r])
    BY <1>1, NumberingGrows
<1> QED
    BY <1>4, <1>5 DEF N

\* The list of replies only grows.
LEMMA SoundLater ==
    ASSUME NEW n \in Nat, NEW m \in Nat, n <= m
    PROVE  /\ \A j \in Job : JobSound(j, n) => JobSound(j, m)
           /\ \A b \in Block : BlockSound(b, n) => BlockSound(b, m)
           /\ \A F \in FrameSet : RecordSound(F, n) => RecordSound(F, m)
    BY DEF JobSound, BlockSound, RecordSound, Job, Block, FrameSet, Frame,
       Replies

\* A download stays sound when it goes on, ...
LEMMA JobStaysSound ==
    ASSUME TypeInv, SoundInv, NEW j \in jobs, NEW k, NEW ph, NEW at, NEW arr,
           Becomes(j, k, ph, at, arr), replyCount' = replyCount,
           \/ /\ at = j.at /\ arr = j.arr
              /\ ph \in {"request", "answered"}
                    => j.phase \in {"request", "answered"}
           \/ /\ ph = "open" /\ at = j.at + 1 /\ j.at <= j.list
              /\ Collected(arr) /\ \A f \in arr : f.reply < j.at + 1
           \/ ph = "open" /\ at = j.list + 1 /\ arr = {}
    PROVE  \A i \in jobs' : JobSound(i, replyCount'[i.twyst])
<1>1. j \in Job /\ JobSound(j, replyCount[j.twyst])
    BY DEF SoundInv, TypeInv, TypeOK
<1>2. JobSound(k, replyCount[j.twyst])
    <2>1. j.list \in Nat /\ j.at \in Nat
        BY <1>1, MaxRepliesAssumption DEF Job
    <2>2. /\ k.list = j.list /\ k.known = j.known /\ k.phase = ph
          /\ k.at = at /\ k.arr = arr
        BY DEF Becomes
    <2>3. CASE /\ at = j.at /\ arr = j.arr
               /\ ph \in {"request", "answered"}
                     => j.phase \in {"request", "answered"}
        BY <1>1, <2>2, <2>3 DEF JobSound
    <2>4. CASE /\ ph = "open" /\ at = j.at + 1 /\ j.at <= j.list
               /\ Collected(arr) /\ \A f \in arr : f.reply < j.at + 1
        BY <1>1, <2>1, <2>2, <2>4 DEF JobSound
    <2>5. CASE ph = "open" /\ at = j.list + 1 /\ arr = {}
        <3>1. Collected({})
            BY NothingCollected
        <3> QED
            BY <1>1, <2>1, <2>2, <2>5, <3>1 DEF JobSound
    <2> QED
        BY <2>3, <2>4, <2>5
<1>3. \A i \in jobs' : i \in jobs \/ i = k
    BY DEF Becomes
<1> QED
    BY <1>2, <1>3 DEF SoundInv, Becomes

\* ... and so does the main queue when a sound block is posted.
LEMMA BlocksStaySound ==
    ASSUME TypeInv, SoundInv, NEW b \in Block, replyCount' = replyCount,
           mainQueue' = Append(mainQueue, b), BlockSound(b, replyCount[b.twyst])
    PROVE  \A c \in Blocks' : BlockSound(c, replyCount'[c.twyst])
<1>1. Blocks' = Blocks \cup {b}
    BY BlocksAppend DEF Blocks, TypeInv, TypeOK
<1> QED
    BY <1>1 DEF SoundInv

\* A record stays sound unless it is written.
LEMMA RecordsStaySound ==
    ASSUME TypeInv, SoundInv, frames' = frames, replyCount' = replyCount
    PROVE  \A t \in Twysts : RecordSound(frames'[t], replyCount'[t])
    BY DEF SoundInv

\* What the network and the workers do to the downloads is sound.
LEMMA SoundWorker ==
    ASSUME TypeInv, SoundInv, NEW j \in jobs, Network(j) \/ Worker(j)
    PROVE  SoundInv'
<1>1. /\ j \in Job /\ JobSound(j, replyCount[j.twyst])
      /\ frames[j.twyst] \in FrameSet /\ j.known \in FrameSet
      /\ RecordSound(frames[j.twyst], replyCount[j.twyst])
      /\ j.arr \in FrameSet /\ Cardinality(j.arr) \in Nat
      /\ j.phase = "fetch" => j.at <= j.list
      /\ replyCount[j.twyst] \in 0 .. MaxReplies /\ j.list \in 0 .. MaxReplies
    BY ArrLength DEF SoundInv, TypeInv, TypeOK, WorkerInList, Job
<1>2. j.at <= j.list => j.at \in Replies
    BY <1>1, MaxRepliesAssumption DEF Job, Replies
<1>3. replyCount' = replyCount /\ frames' = frames
    BY DEF Network, RepliesArrive, RepliesFail, Answer, Worker, ReuseReply,
       OpenFolder, FetchReply, FetchNothing, FetchBadEntry, FetchCorrupt,
       PostSave, PostDid, PostFail, WorkerPosts, EndDownload, storeVars,
       recordVars
<1> DEFINE JobsSound == \A i \in jobs' : JobSound(i, replyCount'[i.twyst])
           BlocksSound == \A c \in Blocks' : BlockSound(c, replyCount'[c.twyst])
<1> SUFFICES JobsSound /\ BlocksSound
    BY <1>3, RecordsStaySound DEF SoundInv
<1> HIDE DEF JobsSound, BlocksSound
<1>4. \A k, ph : Becomes(j, k, ph, j.at, j.arr)
              /\ (ph \in {"request", "answered"}
                     => j.phase \in {"request", "answered"})
          => JobsSound
    BY <1>3, JobStaysSound DEF JobsSound
<1>5. mainQueue' = mainQueue => BlocksSound
    BY <1>3 DEF BlocksSound, Blocks, SoundInv
<1>6. \A f \in j.arr : f.reply \in Nat
    BY <1>1 DEF FrameSet, Frame, Replies
<1>7. ASSUME NEW N \in FrameSet, Follows(N, Cardinality(j.arr)),
             j.at <= j.list, NEW k,
             Becomes(j, k, "open", j.at + 1, j.arr \cup N),
             \A f \in N : f.reply = j.at /\ ~f.local /\ f.replyIndex = j.at - 1
      PROVE  JobsSound
    <2> DEFINE A == j.arr \cup N
    <2>1. Collected(A)
        BY <1>1, <1>2, <1>7, CollectionGrows DEF JobSound
    <2>2. \A f \in A : f.reply < j.at + 1
        <3>1. j.at \in Nat
            BY <1>1 DEF Job
        <3> QED
            BY <1>1, <1>6, <1>7, <3>1 DEF JobSound
    <2>3. Becomes(j, k, "open", j.at + 1, A)
        BY <1>7
    <2> HIDE DEF A
    <2> QED
        BY <1>3, <1>7, <2>1, <2>2, <2>3, JobStaysSound DEF JobsSound
<1>8. CASE Network(j)
    <2>1. JobsSound
        <3>1. j.phase = "request"
            BY <1>8 DEF Network, RepliesArrive, RepliesFail, Answer
        <3> QED
            BY <1>4, <1>8, <3>1, WorkerShape
    <2>2. ASSUME NEW n \in 0 .. MaxReplies, NEW b \in {ListBlock(j, n), NilBlock(j)},
                 n = replyCount[j.twyst], mainQueue' = Append(mainQueue, b)
          PROVE  BlocksSound
        <3>1. b \in Block /\ b.twyst = j.twyst /\ b.arr = {} /\ b.list <= n
            <4>1. b \in Block
                BY <1>1, BlockTypes
            <4>2. b.twyst = j.twyst /\ b.arr = {} /\ b.list \in {0, n}
                BY DEF ListBlock, NilBlock
            <4>3. n \in Nat
                BY MaxRepliesAssumption
            <4> QED
                BY <4>1, <4>2, <4>3
        <3>2. BlockSound(b, replyCount[b.twyst])
            BY <2>2, <3>1, NothingCollected DEF BlockSound
        <3> QED
            BY <1>3, <2>2, <3>1, <3>2, BlocksStaySound DEF BlocksSound
    <2> QED
        BY <1>1, <1>8, <2>1, <2>2 DEF Network, RepliesArrive, RepliesFail, Answer
<1>9. CASE ReuseReply(j)
    <2>1. PICK F \in Found(j) : \E k :
              Becomes(j, k, "open", j.at + 1,
                      j.arr \cup ReusedFrames(F, j.at, Cardinality(j.arr)))
        BY <1>9, WorkerShape
    <2>2. F \in FrameSet /\ Sortable(F)
        BY <1>1, <2>1, EmptyFrameSet, NothingCollected
           DEF Found, RecordSound, JobSound
    <2>3. j.at <= j.list /\ mainQueue' = mainQueue
        BY <1>9 DEF ReuseReply
    <2> DEFINE N == ReusedFrames(F, j.at, Cardinality(j.arr))
    <2>4. N \in FrameSet /\ Follows(N, Cardinality(j.arr))
        BY <1>1, <1>2, <2>2, <2>3, ReusedFramesType, ReusedFollow
    <2>5. \A f \in N : f.reply = j.at /\ ~f.local /\ f.replyIndex = j.at - 1
        BY DEF ReusedFrames
    <2> HIDE DEF N
    <2> QED
        BY <1>5, <1>7, <2>1, <2>3, <2>4, <2>5 DEF N
<1>10. CASE FetchReply(j) \/ FetchBadEntry(j)
    <2> DEFINE N == FetchedFrames(j.at, Cardinality(j.arr))
    <2>1. \E k : Becomes(j, k, "open", j.at + 1, j.arr \cup N)
        BY <1>10, WorkerShape
    <2>3. j.at <= j.list /\ mainQueue' = mainQueue
        BY <1>1, <1>10 DEF FetchReply, FetchBadEntry
    <2>4. N \in FrameSet /\ Follows(N, Cardinality(j.arr))
        BY <1>1, <1>2, <2>3, FetchedFramesType, FetchedFollow
    <2>5. \A f \in N : f.reply = j.at /\ ~f.local /\ f.replyIndex = j.at - 1
        BY DEF FetchedFrames
    <2> HIDE DEF N
    <2> QED
        BY <1>5, <1>7, <2>1, <2>3, <2>4, <2>5
<1>11. CASE FetchCorrupt(j)
    <2>1. \E k : Becomes(j, k, "open", j.at + 1, j.arr)
        BY <1>11, WorkerShape
    <2>2. j.at <= j.list /\ mainQueue' = mainQueue /\ j.at \in Nat
        BY <1>1, <1>11 DEF FetchCorrupt, Job
    <2>3. Collected(j.arr) /\ \A f \in j.arr : f.reply < j.at + 1
        BY <1>1, <1>6, <2>2 DEF JobSound
    <2> QED
        BY <1>3, <1>5, <2>1, <2>2, <2>3, JobStaysSound DEF JobsSound
<1>12. CASE FetchNothing(j)
    <2>1. \E k : Becomes(j, k, "open", j.list + 1, {})
        BY <1>12, WorkerShape
    <2>2. mainQueue' = mainQueue
        BY <1>12 DEF FetchNothing
    <2> QED
        BY <1>3, <1>5, <2>1, <2>2, JobStaysSound DEF JobsSound
<1>13. CASE OpenFolder(j)
    <2>1. mainQueue' = mainQueue
        BY <1>13 DEF OpenFolder
    <2> QED
        BY <1>4, <1>5, <1>13, <2>1, WorkerShape
<1>14. ASSUME NEW b \in {SaveBlock(j), DidBlock(j.q, j.twyst, j.list),
                         FailBlock(j.q, j.twyst)},
              b = SaveBlock(j) => LoopDone(j),
              mainQueue' = Append(mainQueue, b)
       PROVE  BlocksSound
    <2>1. b \in Block
        BY <1>1, BlockTypes
    <2>2. BlockSound(b, replyCount[b.twyst])
        <3>1. CASE b = SaveBlock(j)
            <4>1. /\ b.arr = j.arr /\ b.list = j.list /\ b.twyst = j.twyst
                  /\ j.at > j.list /\ j.at <= j.list + 1 /\ j.at \in Nat
                BY <1>1, <1>14, <3>1 DEF SaveBlock, LoopDone, JobSound, Job
            <4>2. j.at = j.list + 1
                BY <1>1, <4>1
            <4>3. \A f \in j.arr : f.reply <= j.list
                BY <1>1, <1>6, <4>2 DEF JobSound
            <4> QED
                BY <1>1, <4>1, <4>3 DEF BlockSound, JobSound
        <3>2. CASE b # SaveBlock(j)
            <4>1. /\ b.arr = {} /\ b.twyst = j.twyst
                  /\ b.list <= replyCount[j.twyst]
                BY <1>1, <3>2 DEF DidBlock, FailBlock, JobSound
            <4> QED
                BY <4>1, NothingCollected DEF BlockSound
        <3> QED
            BY <3>1, <3>2
    <2> QED
        BY <1>3, <1>14, <2>1, <2>2, BlocksStaySound DEF BlocksSound
<1>15. CASE PostSave(j) \/ PostDid(j) \/ PostFail(j)
    <2>1. \E k, ph : ph \in {"notify", "clear"} /\ Becomes(j, k, ph, j.at, j.arr)
        BY <1>15, WorkerShape
    <2>2. JobsSound
        BY <1>4, <2>1
    <2>3. DidBlock(j.q, j.twyst, j.list) # SaveBlock(j)
          /\ FailBlock(j.q, j.twyst) # SaveBlock(j)
        BY DEF DidBlock, FailBlock, SaveBlock
    <2> QED
        BY <1>14, <1>15, <2>2, <2>3 DEF PostSave, PostDid, PostFail, WorkerPosts
<1>16. CASE EndDownload(j)
    <2>1. jobs' \subseteq jobs /\ mainQueue' = mainQueue
        BY <1>16 DEF EndDownload, Ends
    <2> QED
        BY <1>3, <1>5, <2>1 DEF JobsSound, SoundInv
<1> QED
    BY <1>8, <1>9, <1>10, <1>11, <1>12, <1>13, <1>15, <1>16 DEF Worker

\* What the blocks of the main queue do is sound: a record gets what a
\* download has collected.
LEMMA SoundMainBlock ==
    ASSUME TypeInv, SoundInv, MainBlock
    PROVE  SoundInv'
<1> DEFINE b == Head(mainQueue)
           u == Tail(mainQueue)
<1>1. /\ mainQueue \in Seq(Block) /\ mainQueue # <<>>
      /\ b \in Block /\ u \in Seq(Block)
    BY HeadTailProperties DEF MainBlock, TypeInv, TypeOK
<1>2. Blocks = ToSet(u) \cup {b}
    BY <1>1, BlocksTail DEF Blocks
<1>3. BlockSound(b, replyCount[b.twyst])
    BY <1>2 DEF SoundInv
<1>4. replyCount' = replyCount
    BY DEF MainBlock, GiveUp, SkipDownload, EndsAtOnce, BeginDownload,
       ConfirmDownloadedTwyst, DeliverDid, DeliverFail, Deliver
<1>5. mainQueue' = u => \A c \in Blocks' : BlockSound(c, replyCount'[c.twyst])
    BY <1>2, <1>4 DEF Blocks, SoundInv
<1>6. ASSUME NEW c \in Block, mainQueue' = Append(u, c),
             c.twyst = b.twyst, c.arr = {}, c.list \in {0, b.list}
      PROVE  \A d \in Blocks' : BlockSound(d, replyCount'[d.twyst])
    <2>1. Blocks' = ToSet(u) \cup {c}
        BY <1>1, <1>6, BlocksAppend DEF Blocks
    <2>2. replyCount[b.twyst] \in Nat
        BY <1>1 DEF TypeInv, TypeOK, Block
    <2>3. BlockSound(c, replyCount[b.twyst])
        BY <1>3, <1>6, <2>2, NothingCollected DEF BlockSound
    <2> QED
        BY <1>2, <1>4, <1>6, <2>1, <2>3 DEF SoundInv
<1> HIDE DEF b, u
<1>7. CASE \E j \in jobs : GiveUp(b, j) \/ SkipDownload(b, j)
    <2>1. PICK j \in jobs : GiveUp(b, j) \/ SkipDownload(b, j)
        BY <1>7
    <2>2. jobs' \subseteq jobs /\ frames' = frames
        BY <2>1 DEF GiveUp, SkipDownload, EndsAtOnce, Ends, storeVars, recordVars
    <2>3. /\ FailBlock(b.q, b.twyst) \in Block
          /\ DidBlock(b.q, b.twyst, b.list) \in Block
        BY <1>1, EmptyFrameSet, MaxRepliesAssumption
           DEF FailBlock, DidBlock, Block
    <2>4. \A d \in Blocks' : BlockSound(d, replyCount'[d.twyst])
        <3>1. /\ FailBlock(b.q, b.twyst).twyst = b.twyst
              /\ FailBlock(b.q, b.twyst).arr = {}
              /\ FailBlock(b.q, b.twyst).list = 0
              /\ DidBlock(b.q, b.twyst, b.list).twyst = b.twyst
              /\ DidBlock(b.q, b.twyst, b.list).arr = {}
              /\ DidBlock(b.q, b.twyst, b.list).list = b.list
            BY DEF FailBlock, DidBlock
        <3> QED
            BY <1>6, <2>1, <2>3, <3>1 DEF GiveUp, SkipDownload, EndsAtOnce, u
    <2> QED
        BY <1>4, <2>2, <2>4 DEF SoundInv
<1>8. CASE \E j \in jobs : BeginDownload(b, j)
    <2>1. PICK j \in jobs : BeginDownload(b, j)
        BY <1>8
    <2>2. PICK k \in Job :
              /\ jobs' = (jobs \ {j}) \cup {k}
              /\ k.q = j.q /\ k.twyst = j.twyst /\ k.twyst = b.twyst
              /\ k.phase = "open" /\ k.list = b.list
              /\ k.known = frames[b.twyst]
              /\ k.saved = IF b.twyst \in stored THEN "live" ELSE "none"
              /\ k.at = j.at /\ k.arr = j.arr /\ j.phase = "answered"
        BY <1>1, <2>1, BeginShape
    <2>3. JobSound(k, replyCount[k.twyst])
        <3>1. JobSound(j, replyCount[j.twyst]) /\ k.list \in Nat
            BY DEF SoundInv, Job
        <3>2. RecordSound(frames[b.twyst], replyCount[b.twyst])
            BY <1>1 DEF SoundInv, Block
        <3> QED
            BY <1>3, <2>2, <3>1, <3>2, NothingCollected
               DEF JobSound, BlockSound, RecordSound
    <2>4. mainQueue' = u /\ frames' = frames
        BY <2>1 DEF BeginDownload, storeVars, recordVars, u
    <2> QED
        BY <1>4, <1>5, <2>2, <2>3, <2>4 DEF SoundInv
<1>9. CASE ConfirmDownloadedTwyst(b)
    <2>1. mainQueue' = u /\ jobs' = jobs
          /\ frames' = [frames EXCEPT ![b.twyst] = b.arr]
        BY <1>9 DEF ConfirmDownloadedTwyst, u
    <2>2. RecordSound(b.arr, replyCount[b.twyst])
        <3>1. b.arr \in FrameSet /\ b.list \in Nat /\ replyCount[b.twyst] \in Nat
            BY <1>1 DEF Block, TypeInv, TypeOK
        <3>2. Sortable(b.arr)
            BY <1>3, <3>1, CollectedSorts DEF BlockSound
        <3>3. \A f \in b.arr : f.reply \in Nat
            BY <3>1 DEF FrameSet, Frame, Replies
        <3> QED
            BY <1>3, <3>1, <3>2, <3>3 DEF BlockSound, RecordSound, Collected
    <2>3. \A t \in Twysts : frames'[t] = IF t = b.twyst THEN b.arr ELSE frames[t]
        BY <2>1 DEF TypeInv, TypeOK
    <2> QED
        BY <1>4, <1>5, <2>1, <2>2, <2>3 DEF SoundInv
<1>10. CASE DeliverDid(b) \/ DeliverFail(b)
    <2>1. mainQueue' = u /\ jobs' = jobs /\ frames' = frames
        BY <1>10 DEF DeliverDid, DeliverFail, Deliver, storeVars, recordVars, u
    <2> QED
        BY <1>4, <1>5, <2>1 DEF SoundInv
<1> QED
    BY <1>7, <1>8, <1>9, <1>10 DEF MainBlock, b

\* A step that changes no download, block or record.
LEMMA SoundQuiet ==
    ASSUME TypeInv, SoundInv,
           replyCount' \in [Twysts -> 1 .. MaxReplies],
           \A t \in Twysts : replyCount[t] <= replyCount'[t],
           jobs' = jobs, mainQueue' = mainQueue, frames' = frames
    PROVE  SoundInv'
<1>1. /\ \A j \in jobs : j \in Job /\ j.twyst \in Twysts
      /\ \A b \in Blocks : b \in Block /\ b.twyst \in Twysts
      /\ \A t \in Twysts : /\ frames[t] \in FrameSet
                           /\ replyCount[t] \in Nat /\ replyCount'[t] \in Nat
    <2>1. mainQueue \in Seq(Block)
        BY DEF TypeInv, TypeOK
    <2>2. \A b \in Blocks : b \in Block
        BY <2>1, InToSet, ElementOfSeq DEF Blocks
    <2> QED
        BY <2>2, MaxRepliesAssumption DEF TypeInv, TypeOK, Job, Block
<1>2. Blocks' = Blocks
    BY DEF Blocks
<1>3. \A j \in jobs : JobSound(j, replyCount'[j.twyst])
    BY <1>1, SoundLater DEF SoundInv
<1>4. \A b \in Blocks : BlockSound(b, replyCount'[b.twyst])
    BY <1>1, SoundLater DEF SoundInv
<1>5. \A t \in Twysts : RecordSound(frames[t], replyCount'[t])
    BY <1>1, SoundLater DEF SoundInv
<1> QED
    BY <1>2, <1>3, <1>4, <1>5 DEF SoundInv

\* What users, the server and the timer do is sound.
LEMMA SoundEnvironment ==
    ASSUME TypeInv, SoundInv, Environment
    PROVE  SoundInv'
<1>1. \A t \in Twysts : replyCount[t] \in Nat
    BY DEF TypeInv, TypeOK
<1>2. CASE UNCHANGED <<replyCount, jobs, mainQueue, frames>>
    BY <1>1, <1>2, SoundQuiet DEF TypeInv, TypeOK
<1>3. ASSUME NEW t \in Twysts, ServerReply(t) \/ SendReply(t)
      PROVE  SoundInv'
    <2>1. replyCount' = [replyCount EXCEPT ![t] = @ + 1] /\ replyCount[t] < MaxReplies
        BY <1>3 DEF ServerReply, SendReply
    <2>2. \A x \in Twysts : replyCount'[x] \in 1 .. MaxReplies
                            /\ replyCount[x] <= replyCount'[x]
        BY <1>1, <2>1, MaxRepliesAssumption DEF TypeInv, TypeOK
    <2>3. replyCount' \in [Twysts -> 1 .. MaxReplies]
        BY <2>1, <2>2 DEF TypeInv, TypeOK
    <2>4. jobs' = jobs /\ mainQueue' = mainQueue /\ frames' = frames
        BY <1>3 DEF ServerReply, SendReply, storeVars, recordVars
    <2> QED
        BY <2>2, <2>3, <2>4, SoundQuiet
<1>4. ASSUME NEW t \in Twysts, DeleteSavedTwyst(t)
      PROVE  SoundInv'
    <2>1. mainQueue' = mainQueue /\ replyCount' = replyCount
          /\ frames' = [frames EXCEPT ![t] = {}]
        BY <1>4 DEF DeleteSavedTwyst
    <2>2. \A x \in Twysts : frames'[x] = IF x = t THEN {} ELSE frames[x]
        BY <2>1 DEF TypeInv, TypeOK
    <2>3. \A x \in Twysts : RecordSound(frames'[x], replyCount[x])
        BY <1>1, <2>2, NothingCollected DEF SoundInv
    <2>4. ASSUME NEW k \in jobs'
          PROVE  JobSound(k, replyCount[k.twyst])
        <3>1. PICK j \in jobs :
                 /\ k.q = j.q /\ k.twyst = j.twyst /\ k.phase = j.phase
                 /\ k.list = j.list /\ k.known = j.known
                 /\ k.at = j.at /\ k.arr = j.arr
            BY <1>4, OrphanShape
        <3> QED
            BY <3>1 DEF SoundInv, JobSound
    <2> QED
        BY <2>1, <2>3, <2>4 DEF SoundInv, Blocks
<1> QED
    BY <1>2, <1>3, <1>4 DEF Environment, StartDownloadService,
       StopDownloadService, DownloadTwyst, storeVars, recordVars

LEMMA SoundTimer ==
    ASSUME TypeInv, SoundInv, Timer
    PROVE  SoundInv'
<1>1. \A t \in Twysts : replyCount[t] \in Nat
    BY DEF TypeInv, TypeOK
<1>2. CASE UNCHANGED <<replyCount, jobs, mainQueue, frames>>
    BY <1>1, <1>2, SoundQuiet DEF TypeInv, TypeOK
<1>3. ASSUME NEW q \in Queues, StartDownload(q)
      PROVE  SoundInv'
    <2> DEFINE n == NewJob(q, Head(queue[q]))
    <2>1. queue[q] \in Seq(Twysts) /\ queue[q] # <<>>
        BY <1>3 DEF StartDownload, CanStart, TypeInv, TypeOK
    <2>2. n.twyst \in Twysts
        BY <2>1, HeadTailProperties DEF NewJob
    <2>3. /\ n.arr = {} /\ n.known = {} /\ n.list = 0 /\ n.at = 1
          /\ jobs' = jobs \cup {n}
        BY <1>3 DEF StartDownload, NewJob
    <2> HIDE DEF n
    <2>4. JobSound(n, replyCount[n.twyst])
        BY <1>1, <2>2, <2>3, NothingCollected DEF JobSound
    <2>5. mainQueue' = mainQueue /\ replyCount' = replyCount /\ frames' = frames
        BY <1>3 DEF StartDownload, storeVars, recordVars
    <2> QED
        BY <2>3, <2>4, <2>5 DEF SoundInv, Blocks
<1> QED
    BY <1>2, <1>3 DEF Timer, Tick, PassOver, storeVars, recordVars

\* The thread that adds a local reply adds whole rows of frames, and no
\* reply twice.
LEMMA SoundReplyThread ==
    ASSUME TypeInv, SoundInv, KeyInv, NEW l \in localReplies, ReplyThread(l)
    PROVE  SoundInv'
<1>1. \A t \in Twysts : replyCount[t] \in Nat
    BY DEF TypeInv, TypeOK
<1>2. CASE UNCHANGED <<replyCount, jobs, mainQueue, frames>>
    BY <1>1, <1>2, SoundQuiet DEF TypeInv, TypeOK
<1>3. CASE CommitReply(l)
    <2> DEFINE t == l.twyst
               F == frames[t] \cup LocalFrames(l.reply, l.total, l.replyIndex)
    <2>1. /\ t \in Twysts /\ l.reply \in Replies
          /\ l.total \in Nat /\ l.replyIndex \in Nat
          /\ frames[t] \in FrameSet
        BY DEF TypeInv, TypeOK, LocalReply
    <2>2. RecordSound(F, replyCount[t])
        BY <1>1, <2>1, LocalReplyKeeps DEF SoundInv, KeyInv
    <2>3. \A x \in Twysts : frames'[x] = IF x = t THEN F ELSE frames[x]
        BY <1>3, <2>1 DEF CommitReply, TypeInv, TypeOK
    <2>4. jobs' = jobs /\ mainQueue' = mainQueue /\ replyCount' = replyCount
        BY <1>3 DEF CommitReply
    <2> HIDE DEF F
    <2> QED
        BY <2>2, <2>3, <2>4 DEF SoundInv, Blocks
<1> QED
    BY <1>2, <1>3 DEF ReplyThread, AddReplySuccess, AddReplyFails,
       MoveReplyFiles, ReadRecord, DropReply, storeVars, recordVars

LEMMA SoundStep ==
    ASSUME TypeInv, SoundInv, KeyInv, [Next]_vars
    PROVE  SoundInv'
<1>1. CASE UNCHANGED vars
    BY <1>1 DEF vars, storeVars, recordVars, SoundInv, Blocks
<1> QED
    BY <1>1, SoundWorker, SoundMainBlock, SoundEnvironment, SoundTimer,
       SoundReplyThread DEF Next

-----------------------------------------------------------------------------
(* Local replies beside downloads                                          *)

\* A local reply or download that is orphaned keeps what it is of.
LEMMA OrphanKey ==
    ASSUME TypeInv, NEW t \in Twysts, DeleteSavedTwyst(t)
    PROVE  \E new :
              /\ localReplies' = {new[l] : l \in localReplies}
              /\ \A l \in localReplies :
                    /\ new[l].twyst = l.twyst /\ new[l].reply = l.reply
                    /\ new[l].phase = l.phase /\ new[l].total = l.total
                    /\ l.twyst # t => new[l] = l
                    /\ l.twyst = t => new[l].saved # "live"
<1> DEFINE mark(l) == IF l.twyst = t THEN Orphaned(l) ELSE l
           new == [l \in localReplies |-> mark(l)]
<1>1. \A l \in localReplies :
          /\ mark(l).twyst = l.twyst /\ mark(l).reply = l.reply
          /\ mark(l).phase = l.phase /\ mark(l).total = l.total
          /\ l.twyst # t => mark(l) = l
          /\ l.twyst = t => mark(l).saved # "live"
    BY DEF TypeInv, TypeOK, Orphaned, LocalReply
<1>2. localReplies' = {mark(l) : l \in localReplies}
    BY DEF DeleteSavedTwyst
<1> HIDE DEF mark
<1>3. \A l \in localReplies : new[l] = mark(l)
    OBVIOUS
<1>4. localReplies' = {new[l] : l \in localReplies}
    BY <1>2, <1>3
<1> HIDE DEF new
<1> QED
    BY <1>1, <1>3, <1>4

\* The keys of local replies stay as they are when the records do, or lose
\* local frames.
LEMMA KeyQuiet ==
    ASSUME TypeInv, KeyInv, localReplies' \subseteq localReplies,
           replyCount' = replyCount,
           \A t \in Twysts : \A f \in frames'[t] :
               f.local => f \in frames[t]
    PROVE  KeyInv'
<1>1. \A l \in localReplies : l.twyst \in Twysts
    BY DEF TypeInv, TypeOK, LocalReply
<1> QED
    BY <1>1 DEF KeyInv

LEMMA KeyStep ==
    ASSUME TypeInv, SoundInv, KeyInv, [Next]_vars
    PROVE  KeyInv'
<1>1. /\ \A l \in localReplies : l \in LocalReply /\ l.twyst \in Twysts
      /\ \A t \in Twysts : replyCount[t] \in Nat
    BY DEF TypeInv, TypeOK, LocalReply
<1>2. CASE UNCHANGED <<replyCount, frames, localReplies>>
    BY <1>2, KeyQuiet
<1>3. ASSUME NEW t \in Twysts, ServerReply(t)
      PROVE  KeyInv'
    <2>1. /\ localReplies' = localReplies /\ frames' = frames
          /\ replyCount' = [replyCount EXCEPT ![t] = @ + 1]
        BY <1>3 DEF ServerReply, storeVars, recordVars, userVars
    <2>2. \A x \in Twysts : replyCount[x] <= replyCount'[x]
                            /\ replyCount'[x] \in Nat
        BY <1>1, <2>1 DEF TypeInv, TypeOK
    <2>3. \A l \in localReplies : l.reply \in Nat
        BY <1>1 DEF LocalReply, Replies
    <2>4. \A l \in localReplies : l.reply <= replyCount'[l.twyst]
        BY <1>1, <2>2, <2>3 DEF KeyInv
    <2> QED
        BY <2>1, <2>4 DEF KeyInv
<1>4. ASSUME NEW t \in Twysts, DeleteSavedTwyst(t)
      PROVE  KeyInv'
    <2>1. PICK new :
              /\ localReplies' = {new[l] : l \in localReplies}
              /\ \A l \in localReplies :
                    /\ new[l].twyst = l.twyst /\ new[l].reply = l.reply
                    /\ new[l].phase = l.phase /\ new[l].total = l.total
                    /\ l.twyst # t => new[l] = l
                    /\ l.twyst = t => new[l].saved # "live"
        BY <1>4, OrphanKey
    <2>2. frames' = [frames EXCEPT ![t] = {}] /\ replyCount' = replyCount
        BY <1>4 DEF DeleteSavedTwyst
    <2>3. \A x \in Twysts : frames'[x] = IF x = t THEN {} ELSE frames[x]
        BY <2>2 DEF TypeInv, TypeOK
    <2> QED
        BY <1>1, <2>1, <2>2, <2>3 DEF KeyInv
<1>5. ASSUME NEW t \in Twysts, SendReply(t)
      PROVE  KeyInv'
    <2> DEFINE n == [twyst |-> t, reply |-> replyCount[t] + 1, phase |-> "sent",
                     saved |-> "none", total |-> 0, replyIndex |-> 0]
    <2>1. /\ localReplies' = localReplies \cup {n} /\ frames' = frames
          /\ replyCount' = [replyCount EXCEPT ![t] = @ + 1]
          /\ n.twyst = t /\ n.reply = replyCount[t] + 1
        BY <1>5 DEF SendReply, storeVars, recordVars
    <2> HIDE DEF n
    <2>2. \A x \in Twysts : replyCount'[x] = IF x = t THEN replyCount[t] + 1
                                                      ELSE replyCount[x]
        BY <2>1 DEF TypeInv, TypeOK
    <2>3. \A l \in localReplies : l.reply \in Nat /\ l.reply <= replyCount[l.twyst]
        BY <1>1 DEF LocalReply, Replies, KeyInv
    <2>4. \A f \in frames[t] : f.reply \in Nat /\ f.reply <= replyCount[t]
        <3>1. frames[t] \in FrameSet
            BY DEF TypeInv, TypeOK
        <3> QED
            BY <3>1 DEF FrameSet, Frame, Replies, SoundInv, RecordSound
    <2>5. \A l \in localReplies : l.reply <= replyCount'[l.twyst]
                                  /\ (l.twyst = t => l.reply # n.reply)
        BY <1>1, <2>1, <2>2, <2>3
    <2>6. n.reply <= replyCount'[t] /\ \A f \in frames[t] : f.reply # n.reply
        BY <1>1, <2>1, <2>2, <2>4
    <2>7. \A l, m \in localReplies' : l.twyst = m.twyst /\ l.reply = m.reply => l = m
        <3>1. \A l \in localReplies' : l \in localReplies \/ l = n
            BY <2>1
        <3> QED
            BY <2>1, <2>5, <3>1 DEF KeyInv
    <2>8. ASSUME NEW l \in localReplies'
          PROVE  /\ l.reply <= replyCount'[l.twyst]
                 /\ \A f \in frames[l.twyst] : f.local => f.reply # l.reply
        <3>1. CASE l \in localReplies
            BY <2>5, <3>1 DEF KeyInv
        <3>2. CASE l = n
            BY <2>1, <2>6, <3>2
        <3> QED
            BY <2>1, <3>1, <3>2
    <2> QED
        BY <2>1, <2>7, <2>8 DEF KeyInv
<1>6. CASE Environment
    BY <1>2, <1>3, <1>4, <1>5, <1>6 DEF Environment, StartDownloadService,
       StopDownloadService, DownloadTwyst, storeVars, recordVars, userVars
<1>7. CASE Timer
    BY <1>2, <1>7 DEF Timer, Tick, PassOver, StartDownload, storeVars,
       recordVars, userVars
<1>8. ASSUME NEW j \in jobs, Network(j) \/ Worker(j)
      PROVE  UNCHANGED <<replyCount, frames, localReplies>>
    BY <1>8 DEF Network, RepliesArrive, RepliesFail, Answer, Worker, ReuseReply,
       OpenFolder, FetchReply, FetchNothing, FetchBadEntry, FetchCorrupt,
       PostSave, PostDid, PostFail, WorkerPosts, EndDownload, storeVars,
       recordVars, userVars
<1>9. CASE MainBlock
    <2>1. CASE ConfirmDownloadedTwyst(Head(mainQueue))
        <3> DEFINE b == Head(mainQueue)
        <3>1. b \in Blocks /\ b \in Block
            <4>1. mainQueue \in Seq(Block) /\ mainQueue # <<>>
                BY <1>9 DEF MainBlock, TypeInv, TypeOK
            <4> QED
                BY <4>1, BlocksTail, HeadTailProperties DEF Blocks
        <3>2. /\ localReplies' = localReplies /\ replyCount' = replyCount
              /\ frames' = [frames EXCEPT ![b.twyst] = b.arr]
            BY <2>1 DEF ConfirmDownloadedTwyst, userVars
        <3> HIDE DEF b
        <3>3. \A f \in b.arr : ~f.local
            BY <3>1 DEF SoundInv, BlockSound, Collected
        <3>4. \A x \in Twysts : frames'[x] = IF x = b.twyst THEN b.arr ELSE frames[x]
            BY <3>1, <3>2 DEF TypeInv, TypeOK
        <3> QED
            BY <3>2, <3>3, <3>4, KeyQuiet
    <2> QED
        BY <1>2, <1>9, <2>1 DEF MainBlock, GiveUp, SkipDownload, EndsAtOnce,
           BeginDownload, DeliverDid, DeliverFail, Deliver, storeVars,
           recordVars, userVars
<1>10. ASSUME NEW l \in localReplies, NEW m, NEW ph, NEW s, NEW n,
              Advances(l, m, ph, s, n),
              frames' = frames, replyCount' = replyCount
       PROVE  KeyInv'
    <2>1. \A x \in localReplies' : x = m \/ (x \in localReplies /\ x # l)
        BY <1>10 DEF Advances
    <2>2. m.twyst = l.twyst /\ m.reply = l.reply
        BY <1>10 DEF Advances
    <2> QED
        BY <1>10, <2>1, <2>2 DEF KeyInv
<1>11. ASSUME NEW l \in localReplies, ReplyThread(l)
       PROVE  KeyInv'
    <2>1. CASE CommitReply(l)
        <3> DEFINE t == l.twyst
                   N == LocalFrames(l.reply, l.total, l.replyIndex)
        <3>1. /\ localReplies' = localReplies \ {l} /\ replyCount' = replyCount
              /\ frames' = [frames EXCEPT ![t] = @ \cup N]
            BY <2>1 DEF CommitReply
        <3>2. \A f \in N : f.reply = l.reply
            BY DEF LocalFrames
        <3> HIDE DEF N
        <3>3. \A x \in Twysts : frames'[x] = IF x = t THEN frames[t] \cup N
                                                      ELSE frames[x]
            BY <3>1 DEF TypeInv, TypeOK
        <3> QED
            BY <1>1, <3>1, <3>2, <3>3 DEF KeyInv
    <2>2. CASE AddReplyFails(l) \/ DropReply(l)
        <3>1. /\ localReplies' = localReplies \ {l} /\ replyCount' = replyCount
              /\ frames' = frames
            BY <2>2 DEF AddReplyFails, DropReply, storeVars, recordVars
        <3> QED
            BY <3>1, KeyQuiet
    <2>3. CASE AddReplySuccess(l) \/ MoveReplyFiles(l) \/ ReadRecord(l)
        <3>1. frames' = frames /\ replyCount' = replyCount
            BY <2>3 DEF AddReplySuccess, MoveReplyFiles, ReadRecord, storeVars,
               recordVars
        <3> QED
            BY <1>10, <2>3, <3>1, ReplyShape
    <2> QED
        BY <1>11, <2>1, <2>2, <2>3 DEF ReplyThread
<1>12. CASE UNCHANGED vars
    BY <1>2, <1>12 DEF vars, storeVars, recordVars, userVars
<1> QED
    BY <1>2, <1>6, <1>7, <1>8, <1>9, <1>11, <1>12 DEF Next

\* The saves that wait on the main queue.
LEMMA DownloadingBlocks ==
    ASSUME NEW s \in Seq(Block), NEW t
    PROVE  (\E i \in 1 .. Len(s) : s[i].twyst = t /\ s[i].kind = "save")
               <=> \E b \in ToSet(s) : b.twyst = t /\ b.kind = "save"
    BY InToSet

\* Whoever downloads a twyst and whatever waits to be saved was there before
\* the step, unless the step begins a download, and then it is noted if a
\* local reply is being added.
LEMMA DownloadingStep ==
    ASSUME TypeInv, TypeInv', [Next]_vars, NEW t \in Twysts, Downloading(t)'
    PROVE  Downloading(t) \/ (AddingReply(t) => "local" \in hazards'[t])
<1> DEFINE Works(j) == j.twyst = t /\ j.phase \in WorkerPhases
           Saves(b) == b.twyst = t /\ b.kind = "save"
<1>1. /\ mainQueue \in Seq(Block) /\ mainQueue' \in Seq(Block)
      /\ jobs \in SUBSET Job
    BY DEF TypeInv, TypeOK
<1>2. /\ Downloading(t) <=> (\E j \in jobs : Works(j)) \/ \E b \in Blocks : Saves(b)
      /\ (\E j \in jobs' : Works(j)) \/ \E b \in Blocks' : Saves(b)
    <2>1. (\E j \in jobs' : Works(j)) \/ \E i \in 1 .. Len(mainQueue') :
               mainQueue'[i].twyst = t /\ mainQueue'[i].kind = "save"
        BY DEF Downloading
    <2>2. Downloading(t) <=>
            \/ \E j \in jobs : Works(j)
            \/ \E i \in 1 .. Len(mainQueue) :
                  mainQueue[i].twyst = t /\ mainQueue[i].kind = "save"
        BY DEF Downloading
    <2> QED
        BY <1>1, <2>1, <2>2, DownloadingBlocks DEF Blocks
<1> DEFINE Goal == Downloading(t) \/ (AddingReply(t) => "local" \in hazards'[t])
<1> SUFFICES Goal
    OBVIOUS
<1> HIDE DEF Goal
<1>3. ASSUME \A k \in jobs' : Works(k) => \E j \in jobs : Works(j),
             \A b \in Blocks' : Saves(b) =>
                 (\E j \in jobs : Works(j)) \/ \E c \in Blocks : Saves(c)
      PROVE  Goal
    BY <1>2, <1>3 DEF Goal
<1> HIDE DEF Works, Saves
<1>4. CASE jobs' = jobs /\ mainQueue' = mainQueue
    BY <1>3, <1>4 DEF Blocks
<1>5. ASSUME NEW x \in Twysts, DeleteSavedTwyst(x)
      PROVE  Goal
    <2>1. \A k \in jobs' : \E j \in jobs : k.twyst = j.twyst /\ k.phase = j.phase
        BY <1>5, OrphanShape
    <2>2. mainQueue' = mainQueue
        BY <1>5 DEF DeleteSavedTwyst
    <2> QED
        BY <1>3, <2>1, <2>2 DEF Blocks, Works
<1>6. CASE Environment
    BY <1>4, <1>5, <1>6 DEF Environment, StartDownloadService,
       StopDownloadService, DownloadTwyst, ServerReply, SendReply
<1>7. ASSUME NEW q \in Queues, StartDownload(q)
      PROVE  Goal
    <2> DEFINE n == NewJob(q, Head(queue[q]))
    <2>1. jobs' = jobs \cup {n} /\ n.phase = "request" /\ mainQueue' = mainQueue
        BY <1>7 DEF StartDownload, NewJob
    <2> HIDE DEF n
    <2>2. ~Works(n)
        BY <2>1 DEF Works, WorkerPhases
    <2> QED
        BY <1>3, <2>1, <2>2 DEF Blocks
<1>8. CASE Timer
    BY <1>4, <1>7, <1>8 DEF Timer, Tick, PassOver
<1>9. ASSUME NEW j \in jobs, Network(j) \/ Worker(j)
      PROVE  Goal
    <2>1. ASSUME NEW k, NEW ph, NEW at, NEW arr, Becomes(j, k, ph, at, arr),
                 ph \in WorkerPhases => j.phase \in WorkerPhases
          PROVE  \A i \in jobs' : Works(i) => \E m \in jobs : Works(m)
        <3>1. \A i \in jobs' : i \in jobs \/ i = k
            BY <2>1 DEF Becomes
        <3>2. Works(k) => Works(j)
            BY <2>1 DEF Becomes, Works
        <3> QED
            BY <3>1, <3>2
    <2>2. ASSUME NEW b \in Block, mainQueue' = Append(mainQueue, b),
                 Saves(b) => Works(j)
          PROVE  \A c \in Blocks' : Saves(c) =>
                     (\E i \in jobs : Works(i)) \/ \E d \in Blocks : Saves(d)
        <3>1. Blocks' = Blocks \cup {b}
            BY <1>1, <2>2, BlocksAppend DEF Blocks
        <3> QED
            BY <2>2, <3>1
    <2>3. /\ SaveBlock(j) \in Block
          /\ DidBlock(j.q, j.twyst, j.list) \in Block
          /\ FailBlock(j.q, j.twyst) \in Block
          /\ NilBlock(j) \in Block
          /\ ListBlock(j, replyCount[j.twyst]) \in Block
        <3>1. j.list \in 0..MaxReplies /\ replyCount[j.twyst] \in 0..MaxReplies
            BY <1>1 DEF Job, TypeInv, TypeOK
        <3> QED
            BY <1>1, <3>1, BlockTypes
    <2>4. /\ SaveBlock(j).twyst = j.twyst
          /\ DidBlock(j.q, j.twyst, j.list).kind = "did"
          /\ FailBlock(j.q, j.twyst).kind = "fail"
          /\ NilBlock(j).kind = "nil"
          /\ ListBlock(j, replyCount[j.twyst]).kind = "list"
        BY DEF SaveBlock, DidBlock, FailBlock, NilBlock, ListBlock
    <2>5. CASE Network(j)
        <3>1. \E k : Becomes(j, k, "answered", j.at, j.arr)
            BY <2>5, WorkerShape
        <3>2. \A i \in jobs' : Works(i) => \E m \in jobs : Works(m)
            BY <2>1, <3>1 DEF WorkerPhases
        <3>3. \E b \in {NilBlock(j), ListBlock(j, replyCount[j.twyst])} :
                  mainQueue' = Append(mainQueue, b)
            BY <2>5 DEF Network, RepliesArrive, RepliesFail, Answer
        <3> QED
            BY <1>3, <2>2, <2>3, <2>4, <3>2, <3>3 DEF Saves
    <2>6. CASE PostSave(j) \/ PostDid(j) \/ PostFail(j)
        <3>1. \E k, ph : Becomes(j, k, ph, j.at, j.arr)
            BY <2>6, WorkerShape
        <3>2. j.phase \in WorkerPhases
            BY <2>6 DEF PostSave, PostDid, PostFail, LoopDone, WorkerPhases
        <3>3. \A i \in jobs' : Works(i) => \E m \in jobs : Works(m)
            BY <2>1, <3>1, <3>2
        <3>4. \E b \in {SaveBlock(j), DidBlock(j.q, j.twyst, j.list),
                        FailBlock(j.q, j.twyst)} :
                  mainQueue' = Append(mainQueue, b)
            BY <2>6 DEF PostSave, PostDid, PostFail, WorkerPosts
        <3> QED
            BY <1>3, <2>2, <2>3, <2>4, <3>2, <3>3, <3>4 DEF Saves, Works
    <2>7. CASE EndDownload(j)
        <3>1. jobs' \subseteq jobs /\ mainQueue' = mainQueue
            BY <2>7 DEF EndDownload, Ends
        <3> QED
            BY <1>3, <3>1 DEF Blocks
    <2>8. CASE \/ ReuseReply(j) \/ OpenFolder(j) \/ FetchReply(j)
               \/ FetchNothing(j) \/ FetchBadEntry(j) \/ FetchCorrupt(j)
        <3>1. \E k, ph, at, arr : Becomes(j, k, ph, at, arr)
            BY <2>8, WorkerShape
        <3>2. j.phase \in WorkerPhases /\ mainQueue' = mainQueue
            BY <2>8 DEF ReuseReply, OpenFolder, FetchReply, FetchNothing,
               FetchBadEntry, FetchCorrupt, WorkerPhases
        <3> QED
            BY <1>3, <2>1, <3>1, <3>2 DEF Blocks
    <2> QED
        BY <1>9, <2>5, <2>6, <2>7, <2>8 DEF Worker
<1>10. CASE MainBlock
    <2> DEFINE b == Head(mainQueue)
               u == Tail(mainQueue)
    <2>1. /\ mainQueue # <<>> /\ b \in Block /\ u \in Seq(Block)
          /\ Blocks = ToSet(u) \cup {b}
        BY <1>1, <1>10, HeadTailProperties, BlocksTail DEF MainBlock, Blocks
    <2>2. ASSUME mainQueue' = u \/ \E c \in Block : c.kind # "save"
                                      /\ mainQueue' = Append(u, c)
          PROVE  \A c \in Blocks' : Saves(c) =>
                     (\E i \in jobs : Works(i)) \/ \E d \in Blocks : Saves(d)
        <3>1. CASE mainQueue' = u
            BY <2>1, <3>1 DEF Blocks
        <3>2. ASSUME NEW c \in Block, c.kind # "save", mainQueue' = Append(u, c)
              PROVE  \A d \in Blocks' : Saves(d) =>
                         (\E i \in jobs : Works(i)) \/ \E e \in Blocks : Saves(e)
            <4>1. Blocks' = ToSet(u) \cup {c}
                BY <2>1, <3>2, BlocksAppend DEF Blocks
            <4> QED
                BY <2>1, <3>2, <4>1 DEF Saves
        <3> QED
            BY <2>2, <3>1, <3>2
    <2> HIDE DEF b, u
    <2>3. CASE \E j \in jobs : GiveUp(b, j) \/ SkipDownload(b, j)
        <3>1. PICK j \in jobs : GiveUp(b, j) \/ SkipDownload(b, j)
            BY <2>3
        <3>2. jobs' \subseteq jobs
            BY <3>1 DEF GiveUp, SkipDownload, EndsAtOnce, Ends
        <3>3. /\ FailBlock(b.q, b.twyst) \in Block
              /\ DidBlock(b.q, b.twyst, b.list) \in Block
            BY <2>1, EmptyFrameSet, MaxRepliesAssumption
               DEF FailBlock, DidBlock, Block
        <3>4. /\ FailBlock(b.q, b.twyst).kind = "fail"
              /\ DidBlock(b.q, b.twyst, b.list).kind = "did"
            BY DEF FailBlock, DidBlock
        <3> QED
            BY <1>3, <2>2, <3>1, <3>2, <3>3, <3>4 DEF GiveUp, SkipDownload,
               EndsAtOnce, u
    <2>4. CASE \E j \in jobs : BeginDownload(b, j)
        <3>1. PICK j \in jobs : BeginDownload(b, j)
            BY <2>4
        <3>2. PICK k \in Job : /\ jobs' = (jobs \ {j}) \cup {k}
                               /\ k.twyst = b.twyst
            BY <2>1, <3>1, BeginShape
        <3>3. mainQueue' = u
            BY <3>1 DEF BeginDownload, u
        <3>4. CASE b.twyst = t
            <4>1. AddingReply(t) => "local" \in hazards'[t]
                BY <3>1, <3>4 DEF BeginDownload, Meets, TypeInv, TypeOK
            <4> QED
                BY <4>1 DEF Goal
        <3>5. CASE b.twyst # t
            <4>1. ~Works(k)
                BY <3>2, <3>5 DEF Works
            <4> QED
                BY <1>3, <2>2, <3>2, <3>3, <4>1
        <3> QED
            BY <3>4, <3>5
    <2>5. CASE ConfirmDownloadedTwyst(b) \/ DeliverDid(b) \/ DeliverFail(b)
        <3>1. jobs' = jobs /\ mainQueue' = u
            BY <2>5 DEF ConfirmDownloadedTwyst, DeliverDid, DeliverFail, Deliver, u
        <3> QED
            BY <1>3, <2>2, <3>1
    <2> QED
        BY <1>10, <2>3, <2>4, <2>5 DEF MainBlock, b
<1>11. ASSUME NEW l \in localReplies, ReplyThread(l)
       PROVE  Goal
    BY <1>4, <1>11 DEF ReplyThread, AddReplySuccess, AddReplyFails,
       MoveReplyFiles, ReadRecord, CommitReply, DropReply
<1>12. CASE UNCHANGED vars
    BY <1>4, <1>12 DEF vars
<1> QED
    BY <1>6, <1>8, <1>9, <1>10, <1>11, <1>12 DEF Next

\* The history of hazards grows.
LEMMA HazardsGrow ==
    ASSUME TypeInv, [Next]_vars, NEW t \in Twysts
    PROVE  hazards[t] \subseteq hazards'[t]
<1>1. CASE hazards' = hazards
    BY <1>1
<1>2. ASSUME NEW x, NEW H, Meets(x, H)
      PROVE  hazards[t] \subseteq hazards'[t]
    BY <1>2 DEF Meets, TypeInv, TypeOK
<1>3. CASE Environment
    BY <1>1, <1>2, <1>3 DEF Environment, StartDownloadService,
       StopDownloadService, DownloadTwyst, ServerReply, DeleteSavedTwyst,
       SendReply
<1>4. CASE Timer
    BY <1>1, <1>4 DEF Timer, Tick, PassOver, StartDownload
<1>5. ASSUME NEW j \in jobs, Network(j) \/ Worker(j)
      PROVE  hazards[t] \subseteq hazards'[t]
    BY <1>1, <1>2, <1>5 DEF Network, RepliesArrive, RepliesFail, Answer, Worker,
       ReuseReply, OpenFolder, FetchReply, FetchNothing, FetchBadEntry,
       FetchCorrupt, PostSave, PostDid, PostFail, WorkerPosts, EndDownload
<1>6. CASE MainBlock
    BY <1>1, <1>2, <1>6 DEF MainBlock, GiveUp, SkipDownload, EndsAtOnce,
       BeginDownload, ConfirmDownloadedTwyst, DeliverDid, DeliverFail, Deliver
<1>7. ASSUME NEW l \in localReplies, ReplyThread(l)
      PROVE  hazards' = hazards
    BY <1>7 DEF ReplyThread, AddReplySuccess, AddReplyFails, MoveReplyFiles,
       ReadRecord, CommitReply, DropReply
<1>8. CASE UNCHANGED vars
    BY <1>1, <1>8 DEF vars
<1> QED
    BY <1>1, <1>3, <1>4, <1>5, <1>6, <1>7, <1>8 DEF Next

\* Alone, after the step.
AloneNext(l) ==
    /\ ~Downloading(l.twyst)'
    /\ l.phase = "commit" /\ l.saved = "live" => l.total = total'[l.twyst]
    /\ \A m \in localReplies' : m.twyst = l.twyst => m = l
    /\ l.reply \notin ZipNames(frames'[l.twyst])

LEMMA AloneIsNext ==
    ASSUME \A t \in Twysts :
               "local" \notin hazards'[t] => WellNumbered(frames'[t], total'[t]),
           \A l \in localReplies' :
               "local" \notin hazards'[l.twyst] => AloneNext(l)
    PROVE  AloneInv'
<1>1. \A l \in localReplies' : AloneNext(l) =>
          /\ ~Downloading(l.twyst)'
          /\ l.phase = "commit" /\ l.saved = "live" => l.total = total'[l.twyst]
          /\ \A m \in localReplies' : m.twyst = l.twyst => m = l
          /\ l.reply \notin ZipNames(frames'[l.twyst])
    BY DEF AloneNext
<1> QED
    BY <1>1 DEF AloneInv, Alone

\* The step takes no local reply by surprise: one that was alone is not
\* joined by a download.
LEMMA StillNotDownloading ==
    ASSUME TypeInv, TypeInv', AloneInv, [Next]_vars, NEW l \in localReplies,
           "local" \notin hazards'[l.twyst]
    PROVE  Alone(l) /\ ~Downloading(l.twyst)'
<1>1. l.twyst \in Twysts /\ AddingReply(l.twyst)
    BY DEF TypeInv, TypeOK, LocalReply, AddingReply
<1>2. "local" \notin hazards[l.twyst]
    BY <1>1, HazardsGrow
<1>3. Alone(l) /\ ~Downloading(l.twyst)
    BY <1>2 DEF AloneInv, Alone
<1> QED
    BY <1>1, <1>3, DownloadingStep

LEMMA AloneQuiet ==
    ASSUME TypeInv, TypeInv', AloneInv, [Next]_vars,
           localReplies' \subseteq localReplies,
           frames' = frames, total' = total
    PROVE  AloneInv'
<1>1. ASSUME NEW t \in Twysts, "local" \notin hazards'[t]
      PROVE  WellNumbered(frames'[t], total'[t])
    BY <1>1, HazardsGrow DEF AloneInv
<1>2. ASSUME NEW l \in localReplies', "local" \notin hazards'[l.twyst]
      PROVE  AloneNext(l)
    BY <1>2, StillNotDownloading DEF Alone, AloneNext
<1> QED
    BY <1>1, <1>2, AloneIsNext

\* A save finds no local reply that is alone.
LEMMA AloneConfirm ==
    ASSUME TypeInv, TypeInv', SoundInv, AloneInv, [Next]_vars, MainBlock,
           ConfirmDownloadedTwyst(Head(mainQueue))
    PROVE  AloneInv'
<1> DEFINE b == Head(mainQueue)
<1>1. b \in Blocks /\ b \in Block /\ b.kind = "save"
    <2>1. mainQueue \in Seq(Block) /\ mainQueue # <<>>
        BY DEF MainBlock, TypeInv, TypeOK
    <2> QED
        BY <2>1, BlocksTail, HeadTailProperties
           DEF Blocks, ConfirmDownloadedTwyst, MainRuns
<1>2. /\ localReplies' = localReplies
      /\ frames' = [frames EXCEPT ![b.twyst] = b.arr]
      /\ total' = [total EXCEPT ![b.twyst] = Cardinality(b.arr)]
    BY DEF ConfirmDownloadedTwyst, userVars
<1> HIDE DEF b
<1>3. \A x \in Twysts : /\ frames'[x] = IF x = b.twyst THEN b.arr ELSE frames[x]
                        /\ total'[x] = IF x = b.twyst THEN Cardinality(b.arr)
                                                      ELSE total[x]
    BY <1>1, <1>2 DEF TypeInv, TypeOK
<1>4. WellNumbered(b.arr, Cardinality(b.arr))
    BY <1>1 DEF SoundInv, BlockSound, Collected
<1>5. Downloading(b.twyst)
    <2>1. mainQueue \in Seq(Block)
        BY DEF TypeInv, TypeOK
    <2> QED
        BY <1>1, <2>1, DownloadingBlocks DEF Downloading, Blocks
<1>6. ASSUME NEW t \in Twysts, "local" \notin hazards'[t]
      PROVE  WellNumbered(frames'[t], total'[t])
    BY <1>3, <1>4, <1>6, HazardsGrow DEF AloneInv
<1>7. ASSUME NEW l \in localReplies', "local" \notin hazards'[l.twyst]
      PROVE  AloneNext(l)
    <2>1. l \in localReplies /\ l.twyst \in Twysts
        BY <1>2 DEF TypeInv, TypeOK, LocalReply
    <2>2. Alone(l) /\ ~Downloading(l.twyst)'
        BY <1>7, <2>1, StillNotDownloading
    <2>3. l.twyst # b.twyst
        BY <1>5, <2>2 DEF Alone
    <2> QED
        BY <1>2, <1>3, <2>1, <2>2, <2>3 DEF Alone, AloneNext
<1> QED
    BY <1>6, <1>7, AloneIsNext

\* A deletion leaves an empty record, which no local reply will write.
LEMMA AloneDelete ==
    ASSUME TypeInv, TypeInv', AloneInv, [Next]_vars,
           NEW t \in Twysts, DeleteSavedTwyst(t)
    PROVE  AloneInv'
<1>1. PICK new :
          /\ localReplies' = {new[l] : l \in localReplies}
          /\ \A l \in localReplies :
                /\ new[l].twyst = l.twyst /\ new[l].reply = l.reply
                /\ new[l].phase = l.phase /\ new[l].total = l.total
                /\ l.twyst # t => new[l] = l
                /\ l.twyst = t => new[l].saved # "live"
    BY OrphanKey
<1>2. /\ frames' = [frames EXCEPT ![t] = {}]
      /\ total' = [total EXCEPT ![t] = 0]
    BY DEF DeleteSavedTwyst
<1>3. \A x \in Twysts : /\ frames'[x] = IF x = t THEN {} ELSE frames[x]
                        /\ total'[x] = IF x = t THEN 0 ELSE total[x]
    BY <1>2 DEF TypeInv, TypeOK
<1>4. ASSUME NEW x \in Twysts, "local" \notin hazards'[x]
      PROVE  WellNumbered(frames'[x], total'[x])
    BY <1>3, <1>4, HazardsGrow, NothingCollected DEF AloneInv
<1>5. ASSUME NEW m \in localReplies', "local" \notin hazards'[m.twyst]
      PROVE  AloneNext(m)
    <2>1. PICK l \in localReplies : m = new[l]
        BY <1>1
    <2>2. m.twyst = l.twyst /\ l.twyst \in Twysts
        BY <1>1, <2>1 DEF TypeInv, TypeOK, LocalReply
    <2>3. Alone(l) /\ ~Downloading(l.twyst)'
        BY <1>5, <2>2, StillNotDownloading
    <2>4. ASSUME NEW n \in localReplies', n.twyst = m.twyst
          PROVE  n = m
        <3>1. PICK k \in localReplies : n = new[k]
            BY <1>1
        <3> QED
            BY <1>1, <2>1, <2>2, <2>3, <2>4, <3>1 DEF Alone
    <2>5. m.phase = "commit" /\ m.saved = "live" => m.total = total'[m.twyst]
        BY <1>1, <1>3, <2>1, <2>2, <2>3 DEF Alone
    <2>6. m.reply \notin ZipNames(frames'[m.twyst])
        BY <1>1, <1>3, <2>1, <2>2, <2>3 DEF Alone, ZipNames
    <2> QED
        BY <2>2, <2>3, <2>4, <2>5, <2>6 DEF AloneNext
<1> QED
    BY <1>4, <1>5, AloneIsNext

\* A new reply of this user's is alone unless it is noted that it is not.
LEMMA AloneSend ==
    ASSUME TypeInv, TypeInv', SoundInv, AloneInv, [Next]_vars,
           NEW t \in Twysts, SendReply(t)
    PROVE  AloneInv'
<1> DEFINE n == [twyst |-> t, reply |-> replyCount[t] + 1, phase |-> "sent",
                 saved |-> "none", total |-> 0, replyIndex |-> 0]
<1>1. /\ localReplies' = localReplies \cup {n}
      /\ frames' = frames /\ total' = total
      /\ jobs' = jobs /\ mainQueue' = mainQueue
      /\ n.twyst = t /\ n.reply = replyCount[t] + 1 /\ n.phase = "sent"
    BY DEF SendReply, storeVars, recordVars
<1> HIDE DEF n
<1>2. ASSUME NEW x \in Twysts, "local" \notin hazards'[x]
      PROVE  WellNumbered(frames'[x], total'[x])
    BY <1>1, <1>2, HazardsGrow DEF AloneInv
<1>3. "local" \notin hazards'[t] => ~InFlight(t)
    BY DEF SendReply, Meets, TypeInv, TypeOK
<1>4. ~InFlight(t) => ~AddingReply(t) /\ ~Downloading(t)
    BY DEF InFlight, Downloading
<1>5. replyCount[t] + 1 \notin ZipNames(frames[t])
    <2>1. frames[t] \in FrameSet /\ replyCount[t] \in Nat
        BY DEF TypeInv, TypeOK
    <2>2. \A f \in frames[t] : f.reply \in Nat /\ f.reply <= replyCount[t]
        BY <2>1 DEF FrameSet, Frame, Replies, SoundInv, RecordSound
    <2> QED
        BY <2>1, <2>2 DEF ZipNames
<1>6. ASSUME NEW l \in localReplies', "local" \notin hazards'[l.twyst]
      PROVE  AloneNext(l)
    <2>1. CASE l = n
        <3>1. ~AddingReply(t) /\ ~Downloading(t)
            BY <1>1, <1>3, <1>4, <1>6, <2>1
        <3>2. ~Downloading(t)'
            BY <1>1, <3>1 DEF Downloading
        <3>3. \A m \in localReplies' : m.twyst = t => m = n
            BY <1>1, <3>1 DEF AddingReply
        <3> QED
            BY <1>1, <1>5, <2>1, <3>2, <3>3 DEF AloneNext
    <2>2. CASE l \in localReplies
        <3>1. Alone(l) /\ ~Downloading(l.twyst)'
            BY <1>6, <2>2, StillNotDownloading
        <3>2. l.twyst # t
            BY <1>3, <1>4, <1>6, <2>2 DEF AddingReply
        <3> QED
            BY <1>1, <3>1, <3>2 DEF Alone, AloneNext
    <2> QED
        BY <1>1, <1>6, <2>1, <2>2
<1> QED
    BY <1>2, <1>6, AloneIsNext

\* A local reply that goes on.
LEMMA AloneAdvances ==
    ASSUME TypeInv, TypeInv', AloneInv, [Next]_vars,
           NEW l \in localReplies, NEW m, NEW ph, NEW s, NEW n,
           Advances(l, m, ph, s, n), frames' = frames, total' = total,
           ph = "commit" => n = total[l.twyst]
    PROVE  AloneInv'
<1>1. ASSUME NEW x \in Twysts, "local" \notin hazards'[x]
      PROVE  WellNumbered(frames'[x], total'[x])
    BY <1>1, HazardsGrow DEF AloneInv
<1>2. /\ \A x \in localReplies' : x = m \/ (x \in localReplies /\ x # l)
      /\ m.twyst = l.twyst /\ m.reply = l.reply
      /\ m.phase = ph /\ m.total = n
    BY DEF Advances
<1>3. ASSUME NEW x \in localReplies', "local" \notin hazards'[x.twyst]
      PROVE  AloneNext(x)
    <2>1. CASE x = m
        <3>1. Alone(l) /\ ~Downloading(l.twyst)'
            BY <1>2, <1>3, <2>1, StillNotDownloading
        <3> QED
            BY <1>2, <2>1, <3>1 DEF Alone, AloneNext
    <2>2. CASE x # m
        <3>1. x \in localReplies /\ x # l
            BY <1>2, <2>2
        <3>2. Alone(x) /\ ~Downloading(x.twyst)'
            BY <1>3, <3>1, StillNotDownloading
        <3>3. l.twyst # x.twyst
            BY <3>1, <3>2 DEF Alone
        <3> QED
            BY <1>2, <3>1, <3>2, <3>3 DEF Alone, AloneNext
    <2> QED
        BY <2>1, <2>2
<1> QED
    BY <1>1, <1>3, AloneIsNext

\* A local reply that is alone extends the record it has read.
LEMMA AloneCommit ==
    ASSUME TypeInv, TypeInv', SoundInv, KeyInv, AloneInv, [Next]_vars,
           NEW l \in localReplies, CommitReply(l)
    PROVE  AloneInv'
<1> DEFINE t == l.twyst
           F == frames[t] \cup LocalFrames(l.reply, l.total, l.replyIndex)
<1>1. /\ t \in Twysts /\ l.reply \in Replies
      /\ l.total \in Nat /\ l.replyIndex \in Nat /\ l \in LocalReply
      /\ frames[t] \in FrameSet /\ replyCount[t] \in Nat
    BY DEF TypeInv, TypeOK, LocalReply
<1>2. localReplies' = localReplies \ {l} /\ l.phase = "commit" /\ l.saved = "live"
    BY DEF CommitReply
<1>3. \A x \in Twysts :
          /\ frames'[x] = IF x = t THEN F ELSE frames[x]
          /\ total'[x] = IF x = t THEN l.total + FrameCount[l.reply] ELSE total[x]
    BY <1>1 DEF CommitReply, TypeInv, TypeOK
<1>4. WellNumbered(frames[t], l.total) =>
          WellNumbered(F, l.total + FrameCount[l.reply])
    BY <1>1, LocalReplyKeeps DEF SoundInv, KeyInv
<1> HIDE DEF F
<1>5. ASSUME NEW x \in Twysts, "local" \notin hazards'[x]
      PROVE  WellNumbered(frames'[x], total'[x])
    <2>1. "local" \notin hazards[x]
        BY <1>5, HazardsGrow
    <2>2. CASE x = t
        <3>1. WellNumbered(frames[t], total[t]) /\ l.total = total[t]
            BY <1>2, <2>1, <2>2 DEF AloneInv, Alone
        <3> QED
            BY <1>3, <1>4, <2>2, <3>1
    <2>3. CASE x # t
        BY <1>3, <2>1, <2>3 DEF AloneInv
    <2> QED
        BY <2>2, <2>3
<1>6. ASSUME NEW x \in localReplies', "local" \notin hazards'[x.twyst]
      PROVE  AloneNext(x)
    <2>1. x \in localReplies /\ x # l /\ x.twyst \in Twysts
        BY <1>2 DEF TypeInv, TypeOK, LocalReply
    <2>2. Alone(x) /\ ~Downloading(x.twyst)'
        BY <1>6, <2>1, StillNotDownloading
    <2>3. x.twyst # t
        BY <2>1, <2>2 DEF Alone
    <2> QED
        BY <1>2, <1>3, <2>1, <2>2, <2>3 DEF Alone, AloneNext
<1> QED
    BY <1>5, <1>6, AloneIsNext

LEMMA AloneStep ==
    ASSUME TypeInv, TypeInv', SoundInv, KeyInv, AloneInv, [Next]_vars
    PROVE  AloneInv'
<1>1. CASE UNCHANGED <<localReplies, frames, total>>
    BY <1>1, AloneQuiet
<1>2. CASE Environment
    BY <1>1, <1>2, AloneDelete, AloneSend DEF Environment, StartDownloadService,
       StopDownloadService, DownloadTwyst, ServerReply, storeVars, recordVars,
       userVars
<1>3. CASE Timer
    BY <1>1, <1>3 DEF Timer, Tick, PassOver, StartDownload, storeVars,
       recordVars, userVars
<1>4. ASSUME NEW j \in jobs, Network(j) \/ Worker(j)
      PROVE  UNCHANGED <<localReplies, frames, total>>
    BY <1>4 DEF Network, RepliesArrive, RepliesFail, Answer, Worker, ReuseReply,
       OpenFolder, FetchReply, FetchNothing, FetchBadEntry, FetchCorrupt,
       PostSave, PostDid, PostFail, WorkerPosts, EndDownload, storeVars,
       recordVars, userVars
<1>5. CASE MainBlock
    BY <1>1, <1>5, AloneConfirm DEF MainBlock, GiveUp, SkipDownload, EndsAtOnce,
       BeginDownload, DeliverDid, DeliverFail, Deliver, storeVars, recordVars,
       userVars
<1>6. ASSUME NEW l \in localReplies, ReplyThread(l)
      PROVE  AloneInv'
    <2>1. CASE AddReplySuccess(l) \/ MoveReplyFiles(l) \/ ReadRecord(l)
        <3>1. frames' = frames /\ total' = total
            BY <2>1 DEF AddReplySuccess, MoveReplyFiles, ReadRecord, storeVars,
               recordVars
        <3>2. \E m, ph, s, n : /\ Advances(l, m, ph, s, n)
                               /\ ph = "commit" => n = total[l.twyst]
            BY <2>1, ReplyShape
        <3> QED
            BY <3>1, <3>2, AloneAdvances
    <2>2. CASE AddReplyFails(l) \/ DropReply(l)
        <3>1. frames' = frames /\ total' = total
              /\ localReplies' = localReplies \ {l}
            BY <2>2 DEF AddReplyFails, DropReply, storeVars, recordVars
        <3> QED
            BY <3>1, AloneQuiet
    <2> QED
        BY <1>6, <2>1, <2>2, AloneCommit DEF ReplyThread
<1>7. CASE UNCHANGED vars
    BY <1>1, <1>7 DEF vars, storeVars, recordVars, userVars
<1> QED
    BY <1>1, <1>2, <1>3, <1>4, <1>5, <1>6, <1>7 DEF Next

\* The numbering invariant holds at the beginning, ...
LEMMA NumberInit ==
    ASSUME Init
    PROVE  NumberInv
<1>1. TypeInv
    BY TypeInit
<1>2. jobs = {} /\ localReplies = {} /\ Blocks = {}
    <2>1. ToSet(<<>>) = {}
        BY EmptySeq DEF ToSet
    <2> QED
        BY <2>1 DEF Init, Blocks
<1>3. \A t \in Twysts : frames[t] = {} /\ total[t] = 0 /\ replyCount[t] = 1
    BY DEF Init
<1> QED
    BY <1>1, <1>2, <1>3, NothingCollected DEF NumberInv, SoundInv, KeyInv, AloneInv

\* ... is kept by every step, ...
LEMMA NumberStep ==
    ASSUME NumberInv, [Next]_vars
    PROVE  NumberInv'
<1>1. TypeInv'
    BY TypeStep DEF NumberInv
<1> QED
    BY <1>1, SoundStep, KeyStep, AloneStep DEF NumberInv

\* ... and says what the numbering is.
LEMMA NumberHolds ==
    ASSUME NumberInv
    PROVE  NumberingHolds
<1>1. mainQueue \in Seq(Block)
    BY DEF NumberInv, TypeInv, TypeOK
<1>2. \A i \in 1 .. Len(mainQueue) : mainQueue[i] \in Blocks
    BY <1>1, InToSet DEF Blocks
<1> QED
    BY <1>2 DEF NumberInv, SoundInv, AloneInv, NumberingHolds, JobSound,
       BlockSound, RecordSound, Collected

\* The frames of every record, of every finished download and of every
\* download under way are numbered 0, 1, ... without a gap or a double, for
\* any replies and archives: what the worker takes over from a record that a
\* local reply was added to is sorted and numbered anew, and the record of
\* a twyst goes on where it ended as long as no local reply met a download
\* or another local reply of it.
THEOREM NumberingTheorem == Spec => []NumberingHolds
<1>1. Init => NumberInv
    BY NumberInit
<1>2. NumberInv /\ [Next]_vars => NumberInv'
    BY NumberStep
<1>3. NumberInv => NumberingHolds
    BY NumberHolds
<1> QED
    BY <1>1, <1>2, <1>3, PTL DEF Spec

-----------------------------------------------------------------------------
(* What each step leaves alone                                             *)

\* The network and the workers leave the records alone, and change the files
\* and the history in three steps only.
LEMMA WorkerLeaves ==
    ASSUME NEW j \in jobs, Network(j) \/ Worker(j)
    PROVE  /\ replyCount' = replyCount /\ localReplies' = localReplies
           /\ stored' = stored /\ frames' = frames /\ total' = total
           /\ files' = files \/ OpenFolder(j) \/ FetchReply(j)
           /\ hazards' = hazards \/ FetchBadEntry(j) \/ FetchCorrupt(j)
    BY DEF Network, RepliesArrive, RepliesFail, Answer, Worker, ReuseReply,
       OpenFolder, FetchReply, FetchNothing, FetchBadEntry, FetchCorrupt,
       PostSave, PostDid, PostFail, WorkerPosts, EndDownload, storeVars,
       recordVars, userVars

\* The block b is put on the main queue.
Posted(b) ==
    /\ b \in Block /\ mainQueue' = Append(mainQueue, b)
    /\ Blocks' = Blocks \cup {b}

\* What the network and the workers put there.
LEMMA PostShape ==
    ASSUME TypeInv, NEW j \in jobs, Network(j) \/ Worker(j)
    PROVE  \/ /\ mainQueue' = mainQueue /\ Blocks' = Blocks
              /\ ~Network(j) /\ ~PostSave(j) /\ ~PostDid(j) /\ ~PostFail(j)
           \/ \E b : /\ Posted(b) /\ b.twyst = j.twyst /\ b.arr = {}
                     /\ \/ /\ Network(j) /\ b.kind = "list"
                           /\ b.list = replyCount[j.twyst]
                        \/ Network(j) /\ b.kind = "nil"
                        \/ PostDid(j) /\ b.kind = "did" /\ b.list = j.list
                        \/ PostFail(j) /\ b.kind = "fail"
           \/ \E b : /\ Posted(b) /\ b.twyst = j.twyst
                     /\ PostSave(j) /\ b.kind = "save"
                     /\ b.arr = j.arr /\ b.list = j.list
<1>1. mainQueue \in Seq(Block) /\ j \in Job
    BY DEF TypeInv, TypeOK
<1>2. \A b \in Block : mainQueue' = Append(mainQueue, b) => Posted(b)
    BY <1>1, BlocksAppend DEF Posted, Blocks
<1>3. /\ SaveBlock(j) \in Block
      /\ DidBlock(j.q, j.twyst, j.list) \in Block
      /\ FailBlock(j.q, j.twyst) \in Block
      /\ NilBlock(j) \in Block
      /\ ListBlock(j, replyCount[j.twyst]) \in Block
    <2>1. j.list \in 0..MaxReplies /\ replyCount[j.twyst] \in 0..MaxReplies
        BY <1>1 DEF Job, TypeInv, TypeOK
    <2> QED
        BY <1>1, <2>1, BlockTypes
<1>4. CASE Network(j)
    <2>1. \E b \in {NilBlock(j), ListBlock(j, replyCount[j.twyst])} :
              mainQueue' = Append(mainQueue, b)
        BY <1>4 DEF Network, RepliesArrive, RepliesFail, Answer
    <2>2. /\ NilBlock(j).kind = "nil" /\ NilBlock(j).twyst = j.twyst
          /\ NilBlock(j).arr = {}
          /\ ListBlock(j, replyCount[j.twyst]).kind = "list"
          /\ ListBlock(j, replyCount[j.twyst]).twyst = j.twyst
          /\ ListBlock(j, replyCount[j.twyst]).arr = {}
          /\ ListBlock(j, replyCount[j.twyst]).list = replyCount[j.twyst]
        BY DEF NilBlock, ListBlock
    <2> QED
        BY <1>2, <1>3, <1>4, <2>1, <2>2
<1>5. CASE PostSave(j)
    <2>1. /\ SaveBlock(j).kind = "save" /\ SaveBlock(j).twyst = j.twyst
          /\ SaveBlock(j).arr = j.arr /\ SaveBlock(j).list = j.list
        BY DEF SaveBlock
    <2>2. mainQueue' = Append(mainQueue, SaveBlock(j))
        BY <1>5 DEF PostSave, WorkerPosts
    <2> QED
        BY <1>2, <1>3, <1>5, <2>1, <2>2
<1>6. CASE PostDid(j)
    <2> DEFINE b == DidBlock(j.q, j.twyst, j.list)
    <2>1. b.kind = "did" /\ b.twyst = j.twyst /\ b.arr = {} /\ b.list = j.list
        BY DEF DidBlock
    <2>2. mainQueue' = Append(mainQueue, b)
        BY <1>6 DEF PostDid, WorkerPosts
    <2> HIDE DEF b
    <2> QED
        BY <1>2, <1>3, <1>6, <2>1, <2>2 DEF b
<1>7. CASE PostFail(j)
    <2> DEFINE b == FailBlock(j.q, j.twyst)
    <2>1. b.kind = "fail" /\ b.twyst = j.twyst /\ b.arr = {}
        BY DEF FailBlock
    <2>2. mainQueue' = Append(mainQueue, b)
        BY <1>7 DEF PostFail, WorkerPosts
    <2> HIDE DEF b
    <2> QED
        BY <1>2, <1>3, <1>7, <2>1, <2>2 DEF b
<1>8. CASE ~Network(j) /\ ~PostSave(j) /\ ~PostDid(j) /\ ~PostFail(j)
    <2>1. mainQueue' = mainQueue
        BY <1>8 DEF Worker, ReuseReply, OpenFolder, FetchReply, FetchNothing,
           FetchBadEntry, FetchCorrupt, EndDownload
    <2> QED
        BY <1>8, <2>1 DEF Blocks
<1> QED
    BY <1>4, <1>5, <1>6, <1>7, <1>8

\* The first block of the main queue, and what is left behind it.
First == Head(mainQueue)
Rest == Tail(mainQueue)

\* A download that ends with its list, or without one.
EndsWith(j, c) ==
    /\ j.phase = "answered" /\ j.twyst = First.twyst /\ jobs' = jobs \ {j}
    /\ First.kind \in {"list", "nil"}
    /\ c \in Block /\ c.twyst = First.twyst /\ c.arr = {}
    /\ mainQueue' = Append(Rest, c) /\ Blocks' = ToSet(Rest) \cup {c}
    /\ \/ c.kind = "fail"
       \/ /\ c.kind = "did" /\ c.list = First.list
          /\ First.kind = "list" /\ AllRepliesSaved(First)
    /\ UNCHANGED <<stored, frames, total, files, hazards>>

\* A download that begins with its list.
BeginsAs(j, k) ==
    /\ k \in Job /\ jobs' = (jobs \ {j}) \cup {k} /\ j.phase = "answered"
    /\ k.twyst = First.twyst /\ First.kind = "list" /\ j.twyst = First.twyst
    /\ k.phase = "open" /\ k.list = First.list
    /\ k.known = frames[First.twyst]
    /\ k.saved = IF First.twyst \in stored THEN "live" ELSE "none"
    /\ k.at = j.at /\ k.arr = j.arr
    /\ mainQueue' = Rest /\ Blocks' = ToSet(Rest)
    /\ hazards' = [hazards EXCEPT ![First.twyst] = @ \cup
                      ((IF Downloading(First.twyst) THEN {"overlap"} ELSE {})
                       \cup (IF AddingReply(First.twyst) THEN {"local"}
                                                         ELSE {}))]
    /\ UNCHANGED <<stored, frames, total, files>>

\* A record that is saved.
Saves ==
    /\ First.kind = "save" /\ jobs' = jobs
    /\ mainQueue' = Rest /\ Blocks' = ToSet(Rest)
    /\ stored' = stored \cup {First.twyst}
    /\ \A x \in Twysts :
          frames'[x] = IF x = First.twyst THEN First.arr ELSE frames[x]
    /\ UNCHANGED <<files, hazards>>

\* A notification that is delivered.
Delivers ==
    /\ First.kind \in {"did", "fail"} /\ jobs' = jobs
    /\ mainQueue' = Rest /\ Blocks' = ToSet(Rest)
    /\ UNCHANGED <<stored, frames, total, files, hazards>>

LEMMA MainShape ==
    ASSUME TypeInv, MainBlock
    PROVE  /\ First \in Block /\ Rest \in Seq(Block) /\ First.twyst \in Twysts
           /\ First \in Blocks /\ Blocks = ToSet(Rest) \cup {First}
           /\ replyCount' = replyCount /\ localReplies' = localReplies
           /\ \/ \E j \in jobs : \E c : EndsWith(j, c)
              \/ \E j \in jobs : \E k : BeginsAs(j, k)
              \/ Saves
              \/ Delivers
<1>1. mainQueue \in Seq(Block) /\ mainQueue # <<>>
    BY DEF MainBlock, TypeInv, TypeOK
<1>2. /\ First \in Block /\ Rest \in Seq(Block) /\ First \in Blocks
      /\ Blocks = ToSet(Rest) \cup {First}
    BY <1>1, HeadTailProperties, BlocksTail DEF Blocks, First, Rest
<1>3. First.twyst \in Twysts
    BY <1>2 DEF Block
<1>4. replyCount' = replyCount /\ localReplies' = localReplies
    BY DEF MainBlock, GiveUp, SkipDownload, EndsAtOnce, BeginDownload,
       ConfirmDownloadedTwyst, DeliverDid, DeliverFail, Deliver, userVars
<1>5. ASSUME NEW j \in jobs, GiveUp(First, j) \/ SkipDownload(First, j)
      PROVE  \E c : EndsWith(j, c)
    <2> DEFINE f == FailBlock(First.q, First.twyst)
               d == DidBlock(First.q, First.twyst, First.list)
    <2>1. f \in Block /\ d \in Block
        BY <1>2, EmptyFrameSet, MaxRepliesAssumption
           DEF FailBlock, DidBlock, Block
    <2>2. /\ f.kind = "fail" /\ f.twyst = First.twyst /\ f.arr = {}
          /\ d.kind = "did" /\ d.twyst = First.twyst /\ d.arr = {}
          /\ d.list = First.list
        BY DEF FailBlock, DidBlock
    <2>3. /\ j.phase = "answered" /\ j.twyst = First.twyst
          /\ jobs' = jobs \ {j} /\ First.kind \in {"list", "nil"}
          /\ UNCHANGED <<stored, frames, total, files, hazards>>
        BY <1>5 DEF GiveUp, SkipDownload, EndsAtOnce, MainRuns, Answered, Ends,
           storeVars, recordVars
    <2> HIDE DEF f, d
    <2>4. CASE GiveUp(First, j)
        <3>1. mainQueue' = Append(Rest, f)
            BY <2>4 DEF GiveUp, EndsAtOnce, Rest, f
        <3>2. Blocks' = ToSet(Rest) \cup {f}
            BY <1>2, <2>1, <3>1, BlocksAppend DEF Blocks
        <3> QED
            BY <2>1, <2>2, <2>3, <3>1, <3>2 DEF EndsWith
    <2>5. CASE SkipDownload(First, j)
        <3>1. /\ mainQueue' = Append(Rest, d) /\ First.kind = "list"
              /\ AllRepliesSaved(First)
            BY <2>5 DEF SkipDownload, EndsAtOnce, MainRuns, Rest, d
        <3>2. Blocks' = ToSet(Rest) \cup {d}
            BY <1>2, <2>1, <3>1, BlocksAppend DEF Blocks
        <3> QED
            BY <2>1, <2>2, <2>3, <3>1, <3>2 DEF EndsWith
    <2> QED
        BY <1>5, <2>4, <2>5
<1>6. ASSUME NEW j \in jobs, BeginDownload(First, j)
      PROVE  \E k : BeginsAs(j, k)
    <2>1. PICK k \in Job :
              /\ jobs' = (jobs \ {j}) \cup {k}
              /\ k.q = j.q /\ k.twyst = j.twyst /\ k.twyst = First.twyst
              /\ k.phase = "open" /\ k.list = First.list
              /\ k.known = frames[First.twyst]
              /\ k.saved = IF First.twyst \in stored THEN "live" ELSE "none"
              /\ k.at = j.at /\ k.arr = j.arr /\ j.phase = "answered"
        BY <1>2, <1>6, BeginShape
    <2>2. /\ First.kind = "list" /\ mainQueue' = Rest /\ Blocks' = ToSet(Rest)
          /\ hazards' = [hazards EXCEPT ![First.twyst] = @ \cup
                            ((IF Downloading(First.twyst) THEN {"overlap"}
                                                          ELSE {})
                             \cup (IF AddingReply(First.twyst) THEN {"local"}
                                                               ELSE {}))]
          /\ UNCHANGED <<stored, frames, total, files>>
        BY <1>6 DEF BeginDownload, MainRuns, Meets, Rest, Blocks, storeVars,
           recordVars
    <2> QED
        BY <2>1, <2>2 DEF BeginsAs
<1>7. ConfirmDownloadedTwyst(First) => Saves
    <2> SUFFICES ASSUME ConfirmDownloadedTwyst(First) PROVE Saves
        OBVIOUS
    <2>1. /\ First.kind = "save" /\ jobs' = jobs
          /\ mainQueue' = Rest /\ Blocks' = ToSet(Rest)
          /\ stored' = stored \cup {First.twyst}
          /\ frames' = [frames EXCEPT ![First.twyst] = First.arr]
          /\ UNCHANGED <<files, hazards>>
        BY DEF ConfirmDownloadedTwyst, MainRuns, Rest, Blocks
    <2>2. \A x \in Twysts :
             frames'[x] = IF x = First.twyst THEN First.arr ELSE frames[x]
        BY <1>3, <2>1 DEF TypeInv, TypeOK
    <2> QED
        BY <2>1, <2>2 DEF Saves
<1>8. DeliverDid(First) \/ DeliverFail(First) => Delivers
    BY DEF DeliverDid, DeliverFail, Deliver, MainRuns, Delivers, Rest, Blocks,
       storeVars, recordVars
<1>9. \/ \E j \in jobs : \/ GiveUp(First, j) \/ SkipDownload(First, j)
                         \/ BeginDownload(First, j)
      \/ ConfirmDownloadedTwyst(First)
      \/ DeliverDid(First) \/ DeliverFail(First)
    BY DEF MainBlock, First
<1>10. \/ \E j \in jobs : \E c : EndsWith(j, c)
       \/ \E j \in jobs : \E k : BeginsAs(j, k)
       \/ Saves
       \/ Delivers
    BY <1>5, <1>6, <1>7, <1>8, <1>9
<1> QED
    BY <1>2, <1>3, <1>4, <1>10

\* A step that neither the records, nor the downloads, nor the local replies
\* have any part in.
Idle == UNCHANGED <<jobs, mainQueue, stored, frames, total, files,
                    localReplies, hazards>>

LEMMA StepKinds ==
    ASSUME [Next]_vars
    PROVE  \/ Idle
           \/ \E q \in Queues : StartDownload(q)
           \/ \E t \in Twysts : DeleteSavedTwyst(t)
           \/ \E t \in Twysts : SendReply(t)
           \/ \E j \in jobs : Network(j) \/ Worker(j)
           \/ MainBlock
           \/ \E l \in localReplies : ReplyThread(l)
<1>1. StartDownloadService \/ StopDownloadService => Idle
    BY DEF StartDownloadService, StopDownloadService, Idle, storeVars,
       recordVars, userVars
<1>2. (\E p \in Pairs, t \in Twysts, u \in BOOLEAN : DownloadTwyst(p, t, u))
          => Idle
    BY DEF DownloadTwyst, Idle, storeVars, recordVars
<1>3. \A t \in Twysts : ServerReply(t) => Idle
    BY DEF ServerReply, Idle, storeVars, recordVars, userVars
<1>4. Tick => Idle
    BY DEF Tick, Idle, storeVars, recordVars, userVars
<1>5. \A q \in Queues : PassOver(q) => Idle
    BY DEF PassOver, Idle, storeVars, recordVars, userVars
<1>6. UNCHANGED vars => Idle
    BY DEF vars, Idle, storeVars, recordVars, userVars
<1> QED
    BY <1>1, <1>2, <1>3, <1>4, <1>5, <1>6 DEF Next, Environment, Timer

\* A download that is taken up.
LEMMA StartShape ==
    ASSUME TypeInv, NEW q \in Queues, StartDownload(q)
    PROVE  /\ \E n \in Job : /\ jobs' = jobs \cup {n} /\ n.phase = "request"
                             /\ n.arr = {} /\ n.known = {} /\ n.saved = "none"
           /\ UNCHANGED <<mainQueue, stored, frames, total, files,
                          localReplies, hazards>>
<1> DEFINE n == NewJob(q, Head(queue[q]))
<1>1. queue[q] \in Seq(Twysts) /\ queue[q] # <<>>
    BY DEF StartDownload, CanStart, TypeInv, TypeOK
<1>2. n \in Job
    BY <1>1, HeadTailProperties, EmptyFrameSet, MaxRepliesAssumption
       DEF NewJob, Job
<1>3. /\ jobs' = jobs \cup {n} /\ n.phase = "request"
      /\ n.arr = {} /\ n.known = {} /\ n.saved = "none"
    BY DEF StartDownload, NewJob
<1> HIDE DEF n
<1>4. UNCHANGED <<mainQueue, stored, frames, total, files, localReplies, hazards>>
    BY DEF StartDownload, storeVars, recordVars, userVars
<1> QED
    BY <1>2, <1>3, <1>4

\* A deletion leaves an empty record, and the files of other twysts.
LEMMA DeleteShape ==
    ASSUME TypeInv, NEW t \in Twysts, DeleteSavedTwyst(t)
    PROVE  /\ mainQueue' = mainQueue /\ Blocks' = Blocks
           /\ stored' = stored \ {t}
           /\ \A x \in Twysts :
                 /\ frames'[x] = IF x = t THEN {} ELSE frames[x]
                 /\ x # t => hazards'[x] = hazards[x]
           /\ InFlight(t) => "deleted" \in hazards'[t]
           /\ \A x, r : x # t => (<<x, r>> \in files' <=> <<x, r>> \in files)
<1>1. /\ mainQueue' = mainQueue /\ stored' = stored \ {t}
      /\ frames' = [frames EXCEPT ![t] = {}]
      /\ hazards' = [hazards EXCEPT ![t] = @ \cup
                        (IF InFlight(t) THEN {"deleted"} ELSE {})]
      /\ files' = files \/ \E r : files' = files \ {<<t, r>>}
    BY DEF DeleteSavedTwyst, Meets
<1>2. \A x \in Twysts :
         /\ frames'[x] = IF x = t THEN {} ELSE frames[x]
         /\ x # t => hazards'[x] = hazards[x]
    BY <1>1 DEF TypeInv, TypeOK
<1>3. InFlight(t) => "deleted" \in hazards'[t]
    BY <1>1 DEF TypeInv, TypeOK
<1>4. \A x, r : x # t => (<<x, r>> \in files' <=> <<x, r>> \in files)
    BY <1>1
<1> QED
    BY <1>1, <1>2, <1>3, <1>4 DEF Blocks

\* What counts as in use.
LEMMA InUse ==
    ASSUME TypeInv, NEW t, ~InFlight(t)
    PROVE  /\ \A j \in jobs : j.twyst # t
           /\ \A b \in Blocks : b.twyst # t
           /\ \A l \in localReplies : l.twyst # t
<1>1. mainQueue \in Seq(Block)
    BY DEF TypeInv, TypeOK
<1> QED
    BY <1>1, InToSet DEF InFlight, AddingReply, Blocks

\* A reply that this user sends.
LEMMA SendShape ==
    ASSUME TypeInv, NEW t \in Twysts, SendReply(t)
    PROVE  /\ \E n : /\ localReplies' = localReplies \cup {n}
                     /\ n.twyst = t /\ n.reply = replyCount[t] + 1
                     /\ n.phase = "sent" /\ n.saved = "none"
           /\ UNCHANGED <<jobs, mainQueue, stored, frames, total, files>>
           /\ Blocks' = Blocks
           /\ InFlight(t) => "local" \in hazards'[t]
           /\ \A x \in Twysts : x # t => hazards'[x] = hazards[x]
<1> DEFINE n == [twyst |-> t, reply |-> replyCount[t] + 1, phase |-> "sent",
                 saved |-> "none", total |-> 0, replyIndex |-> 0]
<1>1. /\ localReplies' = localReplies \cup {n} /\ n.twyst = t
      /\ n.reply = replyCount[t] + 1 /\ n.phase = "sent" /\ n.saved = "none"
    BY DEF SendReply
<1> HIDE DEF n
<1>2. UNCHANGED <<jobs, mainQueue, stored, frames, total, files>>
    BY DEF SendReply, storeVars, recordVars
<1>3. /\ InFlight(t) => "local" \in hazards'[t]
      /\ \A x \in Twysts : x # t => hazards'[x] = hazards[x]
    BY DEF SendReply, Meets, TypeInv, TypeOK
<1> QED
    BY <1>1, <1>2, <1>3 DEF Blocks

\* The thread of a local reply leaves the downloads alone.  It writes files
\* in one step and the record in another.
LEMMA ReplyLeaves ==
    ASSUME TypeInv, NEW l \in localReplies, ReplyThread(l)
    PROVE  /\ l \in LocalReply /\ l.twyst \in Twysts /\ l.reply \in Replies
           /\ UNCHANGED <<jobs, mainQueue, stored, hazards, replyCount>>
           /\ Blocks' = Blocks
           /\ \/ /\ MoveReplyFiles(l) /\ frames' = frames
                 /\ files' = files \cup {<<l.twyst, l.reply>>}
              \/ /\ CommitReply(l) /\ files' = files
                 /\ l.phase = "commit" /\ l.saved = "live"
                 /\ localReplies' = localReplies \ {l}
                 /\ \A x \in Twysts : frames'[x] =
                       IF x = l.twyst
                       THEN frames[x]
                            \cup LocalFrames(l.reply, l.total, l.replyIndex)
                       ELSE frames[x]
              \/ /\ AddReplySuccess(l) \/ AddReplyFails(l) \/ ReadRecord(l)
                    \/ DropReply(l)
                 /\ UNCHANGED <<frames, files>>
<1>1. l \in LocalReply /\ l.twyst \in Twysts /\ l.reply \in Replies
    BY DEF TypeInv, TypeOK, LocalReply
<1>2. UNCHANGED <<jobs, mainQueue, stored, hazards, replyCount>>
    BY DEF ReplyThread, AddReplySuccess, AddReplyFails, MoveReplyFiles,
       ReadRecord, CommitReply, DropReply, storeVars, recordVars
<1>3. CASE MoveReplyFiles(l)
    BY <1>1, <1>2, <1>3 DEF MoveReplyFiles, recordVars, Blocks
<1>4. CASE CommitReply(l)
    <2>1. /\ files' = files /\ l.phase = "commit" /\ l.saved = "live"
          /\ localReplies' = localReplies \ {l}
        BY <1>4 DEF CommitReply
    <2>2. \A x \in Twysts : frames'[x] =
              IF x = l.twyst
              THEN frames[x] \cup LocalFrames(l.reply, l.total, l.replyIndex)
              ELSE frames[x]
        BY <1>1, <1>4 DEF CommitReply, TypeInv, TypeOK
    <2> QED
        BY <1>1, <1>2, <1>4, <2>1, <2>2 DEF Blocks
<1>5. CASE AddReplySuccess(l) \/ AddReplyFails(l) \/ ReadRecord(l) \/ DropReply(l)
    <2>1. UNCHANGED <<frames, files>>
        BY <1>5 DEF AddReplySuccess, AddReplyFails, ReadRecord, DropReply,
           storeVars, recordVars
    <2> QED
        BY <1>1, <1>2, <1>5, <2>1 DEF Blocks
<1> QED
    BY <1>3, <1>4, <1>5 DEF ReplyThread

-----------------------------------------------------------------------------
(* What a download knows of the record                                     *)

\* A twyst without a record has no frames, and no local reply holds on to
\* one.  A download without a record knows none, and if its record was
\* deleted, that is noted.  Only a save carries frames.
RecordInv ==
    /\ \A t \in Twysts \ stored : frames[t] = {}
    /\ \A l \in localReplies : l.saved = "live" => l.twyst \in stored
    /\ \A j \in jobs :
          /\ j.saved = "none" => j.known = {}
          /\ j.saved = "deleted" => "deleted" \in hazards[j.twyst]
    /\ \A b \in Blocks : b.kind # "save" => b.arr = {}

LEMMA RecordStep ==
    ASSUME TypeInv, RecordInv, [Next]_vars
    PROVE  RecordInv'
<1>1. /\ jobs \in SUBSET Job
      /\ \A j \in jobs : j.twyst \in Twysts
                         /\ hazards[j.twyst] \subseteq hazards'[j.twyst]
    BY HazardsGrow DEF TypeInv, TypeOK, Job
<1>2. CASE Idle
    BY <1>2 DEF Idle, RecordInv, Blocks
<1>3. ASSUME NEW q \in Queues, StartDownload(q)
      PROVE  RecordInv'
    BY <1>3, StartShape DEF RecordInv, Blocks
<1>4. ASSUME NEW t \in Twysts, DeleteSavedTwyst(t)
      PROVE  RecordInv'
    <2>1. /\ mainQueue' = mainQueue /\ Blocks' = Blocks
          /\ stored' = stored \ {t}
          /\ \A x \in Twysts : frames'[x] = IF x = t THEN {} ELSE frames[x]
          /\ InFlight(t) => "deleted" \in hazards'[t]
        BY <1>4, DeleteShape
    <2>2. ASSUME NEW k \in jobs'
          PROVE  /\ k.saved = "none" => k.known = {}
                 /\ k.saved = "deleted" => "deleted" \in hazards'[k.twyst]
        <3>1. PICK j \in jobs :
                 /\ k.twyst = j.twyst /\ k.known = j.known
                 /\ k.saved = IF j.twyst = t /\ j.saved = "live"
                              THEN "deleted" ELSE j.saved
            BY <1>4, OrphanShape
        <3>2. j.twyst = t => InFlight(t)
            BY DEF InFlight
        <3> QED
            BY <1>1, <2>1, <3>1, <3>2 DEF RecordInv
    <2>3. ASSUME NEW m \in localReplies', m.saved = "live"
          PROVE  m.twyst \in stored'
        <3>1. PICK l \in localReplies :
                 /\ m.twyst = l.twyst
                 /\ m.saved = IF l.twyst = t /\ l.saved = "live"
                              THEN "deleted" ELSE l.saved
            BY <1>4, OrphanShape
        <3> QED
            BY <2>1, <2>3, <3>1 DEF RecordInv
    <2> QED
        BY <2>1, <2>2, <2>3 DEF RecordInv
<1>5. ASSUME NEW t \in Twysts, SendReply(t)
      PROVE  RecordInv'
    BY <1>1, <1>5, SendShape DEF RecordInv
<1>6. ASSUME NEW j \in jobs, Network(j) \/ Worker(j)
      PROVE  RecordInv'
    <2>1. stored' = stored /\ frames' = frames /\ localReplies' = localReplies
        BY <1>6, WorkerLeaves
    <2>2. \A k \in jobs' : \E i \in jobs : /\ k.twyst = i.twyst
                                           /\ k.known = i.known /\ k.saved = i.saved
        <3>1. CASE EndDownload(j)
            BY <3>1 DEF EndDownload, Ends
        <3>2. CASE ~EndDownload(j)
            <4>1. \E k, ph, at, arr : Becomes(j, k, ph, at, arr)
                BY <1>6, <3>2, WorkerShape DEF Worker
            <4> QED
                BY <4>1 DEF Becomes
        <3> QED
            BY <3>1, <3>2
    <2>3. \A b \in Blocks' : b.kind # "save" => b.arr = {}
        BY <1>6, PostShape DEF RecordInv, Posted
    <2> QED
        BY <1>1, <2>1, <2>2, <2>3 DEF RecordInv
<1>7. CASE MainBlock
    <2>1. /\ First \in Blocks /\ Blocks = ToSet(Rest) \cup {First}
          /\ First.twyst \in Twysts /\ localReplies' = localReplies
          /\ \/ \E j \in jobs : \E c : EndsWith(j, c)
             \/ \E j \in jobs : \E k : BeginsAs(j, k)
             \/ Saves
             \/ Delivers
        BY <1>7, MainShape
    <2>2. ASSUME NEW j \in jobs, NEW c, EndsWith(j, c)
          PROVE  RecordInv'
        BY <2>1, <2>2 DEF EndsWith, RecordInv
    <2>3. ASSUME NEW j \in jobs, NEW k, BeginsAs(j, k)
          PROVE  RecordInv'
        <3>1. /\ k.saved = "none" => k.known = {}
              /\ k.saved # "deleted"
            BY <2>1, <2>3 DEF BeginsAs, RecordInv
        <3> QED
            BY <1>1, <2>1, <2>3, <3>1 DEF BeginsAs, RecordInv
    <2>4. CASE Saves
        BY <2>1, <2>4 DEF Saves, RecordInv
    <2>5. CASE Delivers
        BY <2>1, <2>5 DEF Delivers, RecordInv
    <2> QED
        BY <2>1, <2>2, <2>3, <2>4, <2>5
<1>8. ASSUME NEW l \in localReplies, ReplyThread(l)
      PROVE  RecordInv'
    <2>1. /\ UNCHANGED <<jobs, stored, hazards>> /\ Blocks' = Blocks
        BY <1>8, ReplyLeaves
    <2>2. \A x \in Twysts \ stored : frames'[x] = {}
        <3>1. CASE frames' = frames
            BY <3>1 DEF RecordInv
        <3>2. CASE ~(frames' = frames)
            <4>1. /\ l.saved = "live"
                  /\ \A x \in Twysts : x # l.twyst => frames'[x] = frames[x]
                BY <1>8, <3>2, ReplyLeaves
            <4> QED
                BY <4>1 DEF RecordInv
        <3> QED
            BY <3>1, <3>2
    <2>3. ASSUME NEW x \in localReplies', x.saved = "live"
          PROVE  x.twyst \in stored
        <3>1. CASE ReadRecord(l)
            <4>1. l.twyst \in stored
                BY <3>1 DEF ReadRecord
            <4>2. PICK m : Advances(l, m, "commit", "live", total[l.twyst])
                BY <3>1, ReplyShape
            <4> QED
                BY <2>3, <4>1, <4>2 DEF Advances, RecordInv
        <3>2. CASE ~ReadRecord(l)
            BY <1>8, <2>3, <3>2, ReplyShape DEF ReplyThread, Advances, RecordInv
        <3> QED
            BY <3>1, <3>2
    <2> QED
        BY <2>1, <2>2, <2>3 DEF RecordInv
<1> QED
    BY <1>2, <1>3, <1>4, <1>5, <1>6, <1>7, <1>8, StepKinds

-----------------------------------------------------------------------------
(* Whole replies                                                           *)

\* The frames F show each of their replies as a whole.
Whole(F) ==
    \A r \in ZipNames(F) : Cardinality(FramesOf(F, r)) = FrameCount[r]

\* As long as no local reply met a download, and no deletion either.
Undisturbed(t) == hazards[t] \cap {"local", "deleted"} = {}

WholeInv ==
    /\ \A t \in Twysts : Undisturbed(t) => Whole(frames[t])
    /\ \A j \in jobs : Undisturbed(j.twyst) => Whole(j.arr)
    /\ \A b \in Blocks : Undisturbed(b.twyst) => Whole(b.arr)

LEMMA NothingWhole == Whole({})
BY DEF Whole, ZipNames

\* A whole reply that is new keeps a set of frames whole.
LEMMA WholeGrows ==
    ASSUME NEW A, Whole(A), NEW N, NEW r,
           \A f \in N : f.reply = r, r \notin ZipNames(A),
           N = {} \/ Cardinality(N) = FrameCount[r]
    PROVE  Whole(A \cup N)
<1>1. ASSUME NEW x \in ZipNames(A \cup N)
      PROVE  Cardinality(FramesOf(A \cup N, x)) = FrameCount[x]
    <2>1. CASE x = r
        <3>1. FramesOf(A \cup N, x) = N /\ N # {}
            BY <1>1, <2>1 DEF FramesOf, ZipNames
        <3> QED
            BY <2>1, <3>1
    <2>2. CASE x # r
        <3>1. FramesOf(A \cup N, x) = FramesOf(A, x) /\ x \in ZipNames(A)
            BY <1>1, <2>2 DEF FramesOf, ZipNames
        <3> QED
            BY <3>1 DEF Whole
    <2> QED
        BY <2>1, <2>2
<1> QED
    BY <1>1 DEF Whole

\* What a download takes over from a whole record, and what it fetches, is
\* a whole reply.
LEMMA TurnWhole ==
    ASSUME NEW A, Whole(A), NEW r \in Replies, NEW n \in Nat,
           \A f \in A : f.reply # r
    PROVE  /\ \A F \in FrameSet : Sortable(F) /\ Whole(F)
                  => Whole(A \cup ReusedFrames(F, r, n))
           /\ Whole(A \cup FetchedFrames(r, n))
<1>1. r \notin ZipNames(A)
    BY DEF ZipNames
<1>2. ASSUME NEW F \in FrameSet, Sortable(F), Whole(F)
      PROVE  Whole(A \cup ReusedFrames(F, r, n))
    <2> DEFINE N == ReusedFrames(F, r, n)
    <2>1. \A f \in N : f.reply = r
        BY DEF ReusedFrames
    <2>2. Cardinality(N) = Cardinality(FramesOf(F, r))
        BY <1>2, ReusedFollow
    <2>3. r \notin ZipNames(F) => N = {}
        BY DEF ReusedFrames, FramesOf, ZipNames
    <2>4. r \in ZipNames(F) => Cardinality(FramesOf(F, r)) = FrameCount[r]
        BY <1>2 DEF Whole
    <2> HIDE DEF N
    <2>5. Whole(A \cup N)
        BY <1>1, <2>1, <2>2, <2>3, <2>4, WholeGrows
    <2> QED
        BY <2>5 DEF N
<1>3. Whole(A \cup FetchedFrames(r, n))
    <2> DEFINE N == FetchedFrames(r, n)
    <2>1. \A f \in N : f.reply = r
        BY DEF FetchedFrames
    <2>2. Cardinality(N) = FrameCount[r]
        BY FetchedFollow
    <2> HIDE DEF N
    <2>3. Whole(A \cup N)
        BY <1>1, <2>1, <2>2, WholeGrows
    <2> QED
        BY <2>3 DEF N
<1> QED
    BY <1>2, <1>3

\* What the step makes of a download stays whole.
LEMMA WholeWorker ==
    ASSUME NumberInv, RecordInv, WholeInv, NEW j \in jobs, Worker(j),
           Undisturbed(j.twyst), NEW k \in jobs', k \notin jobs
    PROVE  k.twyst = j.twyst /\ Whole(k.arr)
<1>1. /\ j \in Job /\ j.twyst \in Twysts /\ Whole(j.arr)
      /\ JobSound(j, replyCount[j.twyst]) /\ Whole(frames[j.twyst])
      /\ frames[j.twyst] \in FrameSet /\ Sortable(frames[j.twyst])
      /\ Cardinality(j.arr) \in Nat /\ TypeInv
    BY ArrLength DEF NumberInv, TypeInv, TypeOK, Job, SoundInv, RecordSound,
       WholeInv
<1>2. \A i, ph, at, arr : Becomes(j, i, ph, at, arr) =>
          k = i /\ k.twyst = j.twyst /\ k.arr = arr
    BY DEF Becomes
<1>3. j.at <= j.list => j.at \in Replies /\ \A f \in j.arr : f.reply # j.at
    BY <1>1, MaxRepliesAssumption DEF Job, Replies, JobSound, FrameSet, Frame
<1>4. CASE ReuseReply(j)
    <2>1. PICK F \in Found(j) : \E i :
              Becomes(j, i, "open", j.at + 1,
                      j.arr \cup ReusedFrames(F, j.at, Cardinality(j.arr)))
        BY <1>1, <1>4, WorkerShape
    <2>2. j.at <= j.list /\ j.at \in ZipNames(j.known)
        BY <1>4 DEF ReuseReply
    <2>3. j.saved = "live"
        BY <1>1, <2>2 DEF RecordInv, ZipNames, Undisturbed, Job
    <2>4. F = frames[j.twyst]
        BY <2>1, <2>3 DEF Found
    <2>5. Whole(j.arr \cup ReusedFrames(F, j.at, Cardinality(j.arr)))
        BY <1>1, <1>3, <2>2, <2>4, TurnWhole
    <2> QED
        BY <1>2, <2>1, <2>5
<1>5. CASE FetchReply(j) \/ FetchBadEntry(j)
    <2>1. PICK i : Becomes(j, i, "open", j.at + 1,
                        j.arr \cup FetchedFrames(j.at, Cardinality(j.arr)))
        BY <1>1, <1>5, WorkerShape
    <2>2. j.at <= j.list
        BY <1>1, <1>5 DEF FetchReply, FetchBadEntry, TypeInv, WorkerInList
    <2>3. Whole(j.arr \cup FetchedFrames(j.at, Cardinality(j.arr)))
        BY <1>1, <1>3, <2>2, TurnWhole
    <2> QED
        BY <1>2, <2>1, <2>3
<1>6. CASE FetchNothing(j)
    BY <1>1, <1>2, <1>6, WorkerShape, NothingWhole
<1>7. CASE EndDownload(j)
    BY <1>7 DEF EndDownload, Ends
<1>8. CASE OpenFolder(j) \/ FetchCorrupt(j) \/ PostSave(j) \/ PostDid(j)
           \/ PostFail(j)
    <2>1. \E i, ph, at : Becomes(j, i, ph, at, j.arr)
        BY <1>1, <1>8, WorkerShape
    <2> QED
        BY <1>1, <1>2, <2>1
<1> QED
    BY <1>4, <1>5, <1>6, <1>7, <1>8 DEF Worker

\* Undisturbed after the step, hence before it.
LEMMA UndisturbedStep ==
    ASSUME TypeInv, [Next]_vars, NEW t \in Twysts, Undisturbed(t)'
    PROVE  Undisturbed(t)
BY HazardsGrow DEF Undisturbed

\* The twysts that downloads, blocks and local replies are of.
LEMMA OfTwysts ==
    ASSUME TypeInv
    PROVE  /\ \A j \in jobs : j \in Job /\ j.twyst \in Twysts
           /\ \A b \in Blocks : b \in Block /\ b.twyst \in Twysts
           /\ \A l \in localReplies : l \in LocalReply /\ l.twyst \in Twysts
<1>1. mainQueue \in Seq(Block)
    BY DEF TypeInv, TypeOK
<1>2. \A b \in Blocks : b \in Block
    BY <1>1, InToSet, ElementOfSeq DEF Blocks
<1> QED
    BY <1>2 DEF TypeInv, TypeOK, Job, Block, LocalReply

LEMMA WholeStep ==
    ASSUME NumberInv, RecordInv, WholeInv, [Next]_vars
    PROVE  WholeInv'
<1>1. /\ TypeInv
      /\ \A t \in Twysts : Undisturbed(t)' => Undisturbed(t)
    BY UndisturbedStep DEF NumberInv
<1>2. /\ \A j \in jobs : j \in Job /\ j.twyst \in Twysts
      /\ \A b \in Blocks : b \in Block /\ b.twyst \in Twysts
      /\ \A l \in localReplies : l \in LocalReply /\ l.twyst \in Twysts
    BY <1>1, OfTwysts
<1>3. CASE Idle
    BY <1>1, <1>2, <1>3 DEF Idle, WholeInv, Blocks
<1>4. ASSUME NEW q \in Queues, StartDownload(q)
      PROVE  WholeInv'
    <2>1. Blocks' = Blocks /\ frames' = frames
        BY <1>1, <1>4, StartShape DEF Blocks
    <2>2. \A k \in jobs' : k \in jobs \/ k.arr = {}
        BY <1>1, <1>4, StartShape
    <2> QED
        BY <1>1, <1>2, <2>1, <2>2, NothingWhole DEF WholeInv
<1>5. ASSUME NEW t \in Twysts, DeleteSavedTwyst(t)
      PROVE  WholeInv'
    <2>1. /\ Blocks' = Blocks
          /\ \A x \in Twysts : frames'[x] = IF x = t THEN {} ELSE frames[x]
        BY <1>1, <1>5, DeleteShape
    <2>2. \A k \in jobs' : \E j \in jobs : k.twyst = j.twyst /\ k.arr = j.arr
        BY <1>1, <1>5, OrphanShape
    <2> QED
        BY <1>1, <1>2, <2>1, <2>2, NothingWhole DEF WholeInv
<1>6. ASSUME NEW t \in Twysts, SendReply(t)
      PROVE  WholeInv'
    <2>1. Blocks' = Blocks /\ frames' = frames /\ jobs' = jobs
        BY <1>1, <1>6, SendShape
    <2> QED
        BY <1>1, <1>2, <2>1 DEF WholeInv
<1>7. ASSUME NEW j \in jobs, Network(j) \/ Worker(j)
      PROVE  WholeInv'
    <2>1. frames' = frames
        BY <1>7, WorkerLeaves
    <2>2. ASSUME NEW k \in jobs', k \notin jobs, Undisturbed(k.twyst)'
          PROVE  Whole(k.arr)
        <3>1. CASE Network(j)
            <4>1. PICK i : Becomes(j, i, "answered", j.at, j.arr)
                BY <1>1, <3>1, WorkerShape
            <4>2. k.arr = j.arr /\ k.twyst = j.twyst
                BY <2>2, <4>1 DEF Becomes
            <4> QED
                BY <1>1, <1>2, <2>2, <4>2 DEF WholeInv
        <3>2. CASE Worker(j)
            <4>1. PICK x \in Twysts : x = j.twyst
                BY <1>2
            <4>2. k.twyst = j.twyst
                <5>1. CASE EndDownload(j)
                    BY <2>2, <5>1 DEF EndDownload, Ends
                <5>2. CASE ~EndDownload(j)
                    <6>1. \E i, ph, at, arr : Becomes(j, i, ph, at, arr)
                        BY <1>1, <3>2, <5>2, WorkerShape DEF Worker
                    <6> QED
                        BY <2>2, <6>1 DEF Becomes
                <5> QED
                    BY <5>1, <5>2
            <4>3. Undisturbed(j.twyst)
                BY <1>1, <1>2, <2>2, <4>2
            <4> QED
                BY <2>2, <3>2, <4>3, WholeWorker
        <3> QED
            BY <1>7, <3>1, <3>2
    <2>3. ASSUME NEW b \in Blocks', Undisturbed(b.twyst)'
          PROVE  Whole(b.arr)
        <3>1. \/ b \in Blocks \/ b.arr = {}
              \/ b.arr = j.arr /\ b.twyst = j.twyst
            BY <1>1, <1>7, PostShape DEF Posted
        <3> QED
            BY <1>1, <1>2, <2>3, <3>1, NothingWhole DEF WholeInv
    <2>4. \A k \in jobs' : k \in jobs => (Undisturbed(k.twyst)' => Whole(k.arr))
        BY <1>1, <1>2 DEF WholeInv
    <2> QED
        BY <1>1, <2>1, <2>2, <2>3, <2>4 DEF WholeInv
<1>8. CASE MainBlock
    <2>1. /\ First \in Blocks /\ Blocks = ToSet(Rest) \cup {First}
          /\ First.twyst \in Twysts
          /\ \/ \E j \in jobs : \E c : EndsWith(j, c)
             \/ \E j \in jobs : \E k : BeginsAs(j, k)
             \/ Saves
             \/ Delivers
        BY <1>1, <1>8, MainShape
    <2>2. ASSUME NEW j \in jobs, NEW c, EndsWith(j, c)
          PROVE  WholeInv'
        BY <1>1, <1>2, <2>1, <2>2, NothingWhole DEF EndsWith, WholeInv
    <2>3. ASSUME NEW j \in jobs, NEW k, BeginsAs(j, k)
          PROVE  WholeInv'
        <3>1. /\ frames' = frames /\ Blocks' \subseteq Blocks
              /\ \A i \in jobs' : i \in jobs \/ i = k
              /\ k.twyst = j.twyst /\ k.arr = j.arr
            BY <2>1, <2>3 DEF BeginsAs
        <3> QED
            BY <1>1, <1>2, <3>1 DEF WholeInv
    <2>4. CASE Saves
        BY <1>1, <1>2, <2>1, <2>4 DEF Saves, WholeInv
    <2>5. CASE Delivers
        BY <1>1, <1>2, <2>1, <2>5 DEF Delivers, WholeInv
    <2> QED
        BY <2>1, <2>2, <2>3, <2>4, <2>5
<1>9. ASSUME NEW l \in localReplies, ReplyThread(l)
      PROVE  WholeInv'
    <2>1. jobs' = jobs /\ Blocks' = Blocks /\ hazards' = hazards
        BY <1>1, <1>9, ReplyLeaves
    <2>2. CASE frames' = frames
        BY <1>1, <1>2, <2>1, <2>2 DEF WholeInv
    <2>3. CASE ~(frames' = frames)
        <3>1. /\ \A x \in Twysts : frames'[x] =
                    IF x = l.twyst
                    THEN frames[x]
                         \cup LocalFrames(l.reply, l.total, l.replyIndex)
                    ELSE frames[x]
              /\ l.reply \in Replies /\ l.total \in Nat /\ l.replyIndex \in Nat
            BY <1>1, <1>2, <1>9, <2>3, ReplyLeaves DEF LocalReply
        <3>2. ASSUME Undisturbed(l.twyst)
              PROVE  Whole(frames[l.twyst]
                           \cup LocalFrames(l.reply, l.total, l.replyIndex))
            <4> DEFINE N == LocalFrames(l.reply, l.total, l.replyIndex)
            <4>1. l.reply \notin ZipNames(frames[l.twyst])
                BY <3>2 DEF NumberInv, AloneInv, Alone, Undisturbed
            <4>2. \A f \in N : f.reply = l.reply
                BY DEF LocalFrames
            <4>3. Cardinality(N) = FrameCount[l.reply]
                BY <3>1, LocalFollow
            <4>4. Whole(frames[l.twyst])
                BY <1>2, <3>2 DEF WholeInv
            <4> HIDE DEF N
            <4>5. Whole(frames[l.twyst] \cup N)
                BY <4>1, <4>2, <4>3, <4>4, WholeGrows
            <4> QED
                BY <4>5 DEF N
        <3> QED
            BY <1>1, <1>2, <2>1, <3>1, <3>2 DEF WholeInv
    <2> QED
        BY <2>2, <2>3
<1> QED
    BY <1>3, <1>4, <1>5, <1>6, <1>7, <1>8, <1>9, StepKinds

-----------------------------------------------------------------------------
(* A later list is no older                                                *)

\* The lists of one twyst that wait on a queue are in their order.
Ordered(s) ==
    \A i, k \in 1 .. Len(s) :
        /\ i < k /\ s[i].kind = "list" /\ s[k].kind = "list"
        /\ s[i].twyst = s[k].twyst
        => s[i].list <= s[k].list

\* A list c of the same twyst that is no older than b.
NoOlder(b, c) ==
    b.kind = "list" /\ c.kind = "list" /\ b.twyst = c.twyst => b.list <= c.list

LEMMA OrderedAppend ==
    ASSUME NEW s \in Seq(Block), NEW b \in Block, Ordered(s),
           \A c \in ToSet(s) : NoOlder(c, b)
    PROVE  Ordered(Append(s, b))
<1>1. /\ Append(s, b) \in Seq(Block) /\ Len(Append(s, b)) = Len(s) + 1
      /\ \A i \in 1 .. Len(s) : Append(s, b)[i] = s[i]
      /\ Append(s, b)[Len(s) + 1] = b
    BY AppendProperties
<1>2. Len(s) \in Nat /\ \A i \in 1 .. Len(s) : s[i] \in ToSet(s)
    BY LenProperties, InToSet
<1> DEFINE u == Append(s, b)
<1> HIDE DEF u
<1> SUFFICES ASSUME NEW i \in 1 .. Len(u), NEW k \in 1 .. Len(u), i < k
             PROVE  NoOlder(u[i], u[k])
    BY DEF Ordered, NoOlder, u
<1>3. i \in 1 .. Len(s) /\ (k \in 1 .. Len(s) \/ k = Len(s) + 1)
    BY <1>1, <1>2 DEF u
<1>4. CASE k \in 1 .. Len(s)
    BY <1>1, <1>3, <1>4 DEF Ordered, NoOlder, u
<1>5. CASE k = Len(s) + 1
    BY <1>1, <1>2, <1>3, <1>5 DEF u
<1> QED
    BY <1>3, <1>4, <1>5

LEMMA OrderedTail ==
    ASSUME NEW s \in Seq(Block), s # <<>>, Ordered(s)
    PROVE  Ordered(Tail(s)) /\ \A c \in ToSet(Tail(s)) : NoOlder(Head(s), c)
<1>1. /\ Tail(s) \in Seq(Block) /\ Len(Tail(s)) = Len(s) - 1
      /\ \A i \in 1 .. Len(Tail(s)) : Tail(s)[i] = s[i + 1]
      /\ Head(s) = s[1]
    BY HeadTailProperties
<1>2. Len(s) \in Nat /\ Len(s) >= 1
    BY LenProperties, EmptySeq
<1> DEFINE u == Tail(s)
<1> HIDE DEF u
<1>3. \A i \in 1 .. Len(u) : i + 1 \in 1 .. Len(s) /\ u[i] = s[i + 1] /\ i \in Int
    BY <1>1, <1>2 DEF u
<1>4. Ordered(u)
    <2> SUFFICES ASSUME NEW i \in 1 .. Len(u), NEW k \in 1 .. Len(u), i < k
                 PROVE  NoOlder(u[i], u[k])
        BY DEF Ordered, NoOlder
    <2>1. i + 1 < k + 1
        BY <1>3
    <2> QED
        BY <1>3, <2>1 DEF Ordered, NoOlder
<1>5. ASSUME NEW c \in ToSet(u)
      PROVE  NoOlder(Head(s), c)
    <2>1. PICK k \in 1 .. Len(u) : u[k] = c
        BY <1>1, InToSet DEF u
    <2>2. 1 \in 1 .. Len(s) /\ 1 < k + 1
        BY <1>2, <1>3
    <2> QED
        BY <1>1, <1>3, <2>1, <2>2 DEF Ordered, NoOlder
<1> QED
    BY <1>4, <1>5 DEF u

\* A list that waits on the main queue is no older than what is downloaded
\* of its twyst, waits to be saved or is saved: whoever begins a download
\* with it will find every saved reply in it.
Newest(b) ==
    /\ \A j \in jobs :
          j.twyst = b.twyst /\ j.phase \in WorkerPhases => j.list <= b.list
    /\ \A c \in Blocks :
          c.twyst = b.twyst /\ c.kind = "save" => c.list <= b.list
    /\ "local" \notin hazards[b.twyst] =>
          /\ \A f \in frames[b.twyst] : f.reply <= b.list
          /\ \A l \in localReplies : l.twyst = b.twyst => l.reply <= b.list

NewestInv ==
    /\ Ordered(mainQueue)
    /\ \A b \in Blocks : b.kind = "list" => Newest(b)

\* The same after a step.
NewestNext(b) ==
    /\ \A j \in jobs' :
          j.twyst = b.twyst /\ j.phase \in WorkerPhases => j.list <= b.list
    /\ \A c \in Blocks' :
          c.twyst = b.twyst /\ c.kind = "save" => c.list <= b.list
    /\ "local" \notin hazards'[b.twyst] =>
          /\ \A f \in frames'[b.twyst] : f.reply <= b.list
          /\ \A l \in localReplies' : l.twyst = b.twyst => l.reply <= b.list

LEMMA NewestIsNext ==
    ASSUME Ordered(mainQueue'),
           \A b \in Blocks' : b.kind = "list" => NewestNext(b)
    PROVE  NewestInv'
<1>1. \A b \in Blocks' : NewestNext(b) =>
        /\ \A j \in jobs' :
              j.twyst = b.twyst /\ j.phase \in WorkerPhases => j.list <= b.list
        /\ \A c \in Blocks' :
              c.twyst = b.twyst /\ c.kind = "save" => c.list <= b.list
        /\ "local" \notin hazards'[b.twyst] =>
              /\ \A f \in frames'[b.twyst] : f.reply <= b.list
              /\ \A l \in localReplies' : l.twyst = b.twyst => l.reply <= b.list
    BY DEF NewestNext
<1> QED
    BY <1>1 DEF NewestInv, Newest

\* A list that was there stays the newest when downloads and saves keep
\* their lists, and the records and local replies are as they were.
LEMMA NewestStays ==
    ASSUME TypeInv, [Next]_vars, NEW b \in Blocks, Newest(b),
           \A k \in jobs' : k.phase \in WorkerPhases => \E j \in jobs :
               /\ j.twyst = k.twyst /\ j.phase \in WorkerPhases
               /\ j.list = k.list,
           \A c \in Blocks' : c.kind = "save" =>
               \/ c \in Blocks
               \/ \E j \in jobs : /\ j.twyst = c.twyst
                                  /\ j.phase \in WorkerPhases
                                  /\ j.list = c.list,
           \A f \in frames'[b.twyst] : f \in frames[b.twyst],
           \A m \in localReplies' : \E l \in localReplies :
               l.twyst = m.twyst /\ l.reply = m.reply
    PROVE  NewestNext(b)
<1>1. hazards[b.twyst] \subseteq hazards'[b.twyst]
    BY OfTwysts, HazardsGrow
<1> QED
    BY <1>1 DEF Newest, NewestNext

\* The phases a step of a worker leads to.
LEMMA WorkerGoesOn ==
    ASSUME TypeInv, NEW j \in jobs, Network(j) \/ Worker(j)
    PROVE  \A k \in jobs' : k \in jobs \/
              /\ k \in Job /\ k.twyst = j.twyst /\ k.list = j.list
              /\ k.known = j.known /\ k.saved = j.saved /\ k.q = j.q
              /\ jobs' = (jobs \ {j}) \cup {k}
              /\ k.phase \in WorkerPhases => j.phase \in WorkerPhases
<1>1. CASE EndDownload(j)
    BY <1>1 DEF EndDownload, Ends
<1>2. CASE Network(j)
    <2>1. PICK i : Becomes(j, i, "answered", j.at, j.arr)
        BY <1>2, WorkerShape
    <2>2. "answered" \notin WorkerPhases
        BY DEF WorkerPhases
    <2> QED
        BY <2>1, <2>2 DEF Becomes
<1>3. CASE Worker(j) /\ ~EndDownload(j)
    <2>1. \E i, ph, at, arr : Becomes(j, i, ph, at, arr)
        BY <1>3, WorkerShape DEF Worker
    <2>2. j.phase \in WorkerPhases
        BY <1>3 DEF Worker, ReuseReply, OpenFolder, FetchReply, FetchNothing,
           FetchBadEntry, FetchCorrupt, PostSave, PostDid, PostFail, LoopDone,
           WorkerPhases
    <2> QED
        BY <2>1, <2>2 DEF Becomes
<1> QED
    BY <1>1, <1>2, <1>3

LEMMA NewestWorker ==
    ASSUME NumberInv, NewestInv, [Next]_vars, NEW j \in jobs,
           Network(j) \/ Worker(j)
    PROVE  NewestInv'
<1>1. TypeInv /\ mainQueue \in Seq(Block)
    BY DEF NumberInv, TypeInv, TypeOK
<1>2. /\ j \in Job /\ j.twyst \in Twysts
      /\ \A b \in Blocks : b \in Block /\ b.twyst \in Twysts
    BY <1>1, OfTwysts
<1>3. frames' = frames /\ localReplies' = localReplies
    BY WorkerLeaves
<1>4. \A k \in jobs' : k.phase \in WorkerPhases => \E i \in jobs :
          i.twyst = k.twyst /\ i.phase \in WorkerPhases /\ i.list = k.list
    BY <1>1, WorkerGoesOn
<1>5. \A c \in Blocks' : c.kind = "save" =>
         \/ c \in Blocks
         \/ \E i \in jobs : /\ i.twyst = c.twyst /\ i.phase \in WorkerPhases
                            /\ i.list = c.list
    <2>1. PostSave(j) => j.phase \in WorkerPhases
        BY DEF PostSave, LoopDone, WorkerPhases
    <2> QED
        BY <1>1, <2>1, PostShape DEF Posted
<1>6. \A b \in Blocks : b.kind = "list" => NewestNext(b)
    <2> SUFFICES ASSUME NEW b \in Blocks, b.kind = "list"
                 PROVE  NewestNext(b)
        OBVIOUS
    <2>1. Newest(b)
        BY DEF NewestInv
    <2> QED
        BY <1>1, <1>3, <1>4, <1>5, <2>1, NewestStays
<1>7. \/ mainQueue' = mainQueue /\ Blocks' = Blocks
      \/ \E b : /\ Posted(b) /\ b.twyst = j.twyst
                /\ b.kind = "list" =>
                      Network(j) /\ b.list = replyCount[j.twyst]
    BY <1>1, PostShape
<1>8. CASE mainQueue' = mainQueue /\ Blocks' = Blocks
    BY <1>6, <1>8, NewestIsNext DEF NewestInv
<1>9. ASSUME NEW b, Posted(b), b.twyst = j.twyst,
             b.kind = "list" => Network(j) /\ b.list = replyCount[j.twyst]
      PROVE  NewestInv'
    <2> DEFINE t == j.twyst
               n == replyCount[t]
    <2>1. /\ b \in Block /\ mainQueue' = Append(mainQueue, b)
          /\ Blocks' = Blocks \cup {b}
        BY <1>9 DEF Posted
    <2>2. /\ \A i \in jobs : i.twyst = t => i.list <= n
          /\ \A c \in Blocks : c.twyst = t => c.list <= n
          /\ \A f \in frames[t] : f.reply <= n
          /\ \A l \in localReplies : l.twyst = t => l.reply <= n
        BY <1>2 DEF NumberInv, SoundInv, JobSound, BlockSound, RecordSound,
           KeyInv
    <2> HIDE DEF n, t
    <2>3. Ordered(mainQueue')
        <3>1. \A c \in ToSet(mainQueue) : NoOlder(c, b)
            BY <1>9, <2>2 DEF NoOlder, Blocks, n, t
        <3> QED
            BY <1>1, <2>1, <3>1, OrderedAppend DEF NewestInv
    <2>4. b.kind = "list" => NewestNext(b)
        <3> SUFFICES ASSUME b.kind = "list"
                     PROVE  NewestNext(b)
            OBVIOUS
        <3>1. b.twyst = t /\ b.list = n
            BY <1>9 DEF n, t
        <3>2. \A c \in Blocks' : c.kind = "save" => c \in Blocks
            BY <2>1
        <3>3. \A k \in jobs' : k.twyst = t /\ k.phase \in WorkerPhases
                                  => k.list <= n
            BY <1>4, <2>2
        <3> QED
            BY <1>3, <2>2, <3>1, <3>2, <3>3 DEF NewestNext
    <2> QED
        BY <1>6, <2>1, <2>3, <2>4, NewestIsNext
<1> QED
    BY <1>7, <1>8, <1>9

LEMMA NewestMainBlock ==
    ASSUME NumberInv, NewestInv, [Next]_vars, MainBlock
    PROVE  NewestInv'
<1>1. TypeInv /\ mainQueue \in Seq(Block) /\ mainQueue # <<>>
    BY DEF NumberInv, TypeInv, TypeOK, MainBlock
<1>2. /\ First \in Block /\ Rest \in Seq(Block) /\ First.twyst \in Twysts
      /\ First \in Blocks /\ Blocks = ToSet(Rest) \cup {First}
      /\ localReplies' = localReplies
      /\ \/ \E j \in jobs : \E c : EndsWith(j, c)
         \/ \E j \in jobs : \E k : BeginsAs(j, k)
         \/ Saves
         \/ Delivers
    BY <1>1, MainShape
<1>3. Ordered(Rest) /\ \A c \in ToSet(Rest) : NoOlder(First, c)
    BY <1>1, OrderedTail DEF NewestInv, First, Rest
<1>4. \A b \in ToSet(Rest) : b \in Blocks /\ (b.kind = "list" => Newest(b))
    BY <1>2 DEF NewestInv
<1>5. ASSUME NEW j \in jobs, NEW c, EndsWith(j, c)
      PROVE  NewestInv'
    <2>1. /\ c \in Block /\ c.kind \in {"did", "fail"}
          /\ mainQueue' = Append(Rest, c) /\ Blocks' = ToSet(Rest) \cup {c}
          /\ jobs' \subseteq jobs /\ frames' = frames
        BY <1>5 DEF EndsWith
    <2>2. Ordered(mainQueue')
        <3>1. \A d \in ToSet(Rest) : NoOlder(d, c)
            BY <2>1 DEF NoOlder
        <3> QED
            BY <1>2, <1>3, <2>1, <3>1, OrderedAppend
    <2>3. \A d \in Blocks' : d.kind = "save" => d \in Blocks
        BY <1>4, <2>1
    <2>4. \A b \in ToSet(Rest) : b.kind = "list" => NewestNext(b)
        BY <1>1, <1>2, <1>4, <2>1, <2>3, NewestStays
    <2> QED
        BY <2>1, <2>2, <2>4, NewestIsNext
<1>6. ASSUME NEW j \in jobs, NEW k, BeginsAs(j, k)
      PROVE  NewestInv'
    <2>1. /\ mainQueue' = Rest /\ Blocks' = ToSet(Rest) /\ frames' = frames
          /\ \A i \in jobs' : i \in jobs \/ i = k
          /\ k.twyst = First.twyst /\ k.list = First.list /\ First.kind = "list"
        BY <1>6 DEF BeginsAs
    <2>2. ASSUME NEW b \in Blocks', b.kind = "list"
          PROVE  NewestNext(b)
        <3>1. b \in Blocks /\ Newest(b) /\ NoOlder(First, b)
            BY <1>3, <1>4, <2>1, <2>2
        <3>2. hazards[b.twyst] \subseteq hazards'[b.twyst]
            BY <1>1, <3>1, OfTwysts, HazardsGrow
        <3>3. k.twyst = b.twyst => k.list <= b.list
            BY <2>1, <2>2, <3>1 DEF NoOlder
        <3> QED
            BY <1>2, <2>1, <3>1, <3>2, <3>3 DEF Newest, NewestNext
    <2> QED
        BY <1>3, <2>1, <2>2, NewestIsNext
<1>7. CASE Saves
    <2>1. /\ mainQueue' = Rest /\ Blocks' = ToSet(Rest) /\ jobs' = jobs
          /\ \A x \in Twysts :
                frames'[x] = IF x = First.twyst THEN First.arr ELSE frames[x]
          /\ First.kind = "save"
        BY <1>7 DEF Saves
    <2>2. ASSUME NEW b \in Blocks', b.kind = "list"
          PROVE  NewestNext(b)
        <3>1. b \in Blocks /\ Newest(b)
            BY <1>4, <2>1, <2>2
        <3>2. b \in Block /\ b.twyst \in Twysts
              /\ hazards[b.twyst] \subseteq hazards'[b.twyst]
            BY <1>1, <3>1, OfTwysts, HazardsGrow
        <3>3. b.twyst = First.twyst => \A f \in First.arr : f.reply <= b.list
            <4>1. \A f \in First.arr : f.reply \in Nat /\ f.reply <= First.list
                <5>1. First.arr \in FrameSet
                    BY <1>2 DEF Block
                <5> QED
                    BY <1>2, <5>1 DEF NumberInv, SoundInv, BlockSound, FrameSet,
                       Frame, Replies
            <4>2. b.twyst = First.twyst => First.list <= b.list
                BY <1>2, <2>1, <3>1 DEF Newest
            <4>3. First.list \in Nat /\ b.list \in Nat
                BY <1>2, <3>2 DEF Block
            <4> QED
                BY <4>1, <4>2, <4>3
        <3> QED
            BY <1>2, <2>1, <3>1, <3>2, <3>3 DEF Newest, NewestNext
    <2> QED
        BY <1>3, <2>1, <2>2, NewestIsNext
<1>8. CASE Delivers
    <2>1. /\ mainQueue' = Rest /\ Blocks' = ToSet(Rest) /\ jobs' = jobs
          /\ frames' = frames
        BY <1>8 DEF Delivers
    <2>2. \A b \in Blocks' : b.kind = "list" => NewestNext(b)
        BY <1>1, <1>2, <1>4, <2>1, NewestStays
    <2> QED
        BY <1>3, <2>1, <2>2, NewestIsNext
<1> QED
    BY <1>2, <1>5, <1>6, <1>7, <1>8

\* A step that leaves the main queue alone.
LEMMA NewestQuiet ==
    ASSUME TypeInv, NewestInv, [Next]_vars, mainQueue' = mainQueue,
           \A k \in jobs' : k.phase \in WorkerPhases => \E j \in jobs :
               /\ j.twyst = k.twyst /\ j.phase \in WorkerPhases
               /\ j.list = k.list,
           \A t \in Twysts : \A f \in frames'[t] : f \in frames[t],
           \A m \in localReplies' : \E l \in localReplies :
               l.twyst = m.twyst /\ l.reply = m.reply
    PROVE  NewestInv'
<1>1. Blocks' = Blocks /\ \A b \in Blocks : b.twyst \in Twysts
    BY OfTwysts DEF Blocks
<1>2. \A b \in Blocks : b.kind = "list" => NewestNext(b)
    <2> SUFFICES ASSUME NEW b \in Blocks, b.kind = "list"
                 PROVE  NewestNext(b)
        OBVIOUS
    <2>1. Newest(b)
        BY DEF NewestInv
    <2> QED
        BY <1>1, <2>1, NewestStays
<1> QED
    BY <1>1, <1>2, NewestIsNext DEF NewestInv

LEMMA NewestReplyThread ==
    ASSUME NumberInv, NewestInv, [Next]_vars, NEW l \in localReplies,
           ReplyThread(l)
    PROVE  NewestInv'
<1>1. TypeInv /\ hazards' = hazards /\ jobs' = jobs /\ Blocks' = Blocks
      /\ mainQueue' = mainQueue
      /\ l.twyst \in Twysts
    <2>1. TypeInv
        BY DEF NumberInv
    <2> QED
        BY <2>1, ReplyLeaves
<1>2. \A m \in localReplies' : \E x \in localReplies :
          x.twyst = m.twyst /\ x.reply = m.reply
    <2>1. CASE \E m, ph, s, n : Advances(l, m, ph, s, n)
        BY <2>1 DEF Advances
    <2>2. CASE localReplies' = localReplies \ {l}
        BY <2>2
    <2> QED
        BY <1>1, <2>1, <2>2, ReplyShape DEF ReplyThread
<1>3. CASE frames' = frames
    BY <1>1, <1>2, <1>3, NewestQuiet
<1>4. CASE ~(frames' = frames)
    <2>1. \A x \in Twysts : frames'[x] =
              IF x = l.twyst
              THEN frames[x] \cup LocalFrames(l.reply, l.total, l.replyIndex)
              ELSE frames[x]
        BY <1>1, <1>4, ReplyLeaves
    <2>2. \A f \in LocalFrames(l.reply, l.total, l.replyIndex) :
              f.reply = l.reply
        BY DEF LocalFrames
    <2>3. ASSUME NEW b \in Blocks, b.kind = "list"
          PROVE  NewestNext(b)
        <3>1. Newest(b) /\ b.twyst \in Twysts
            BY <1>1, <2>3, OfTwysts DEF NewestInv
        <3>2. ASSUME "local" \notin hazards'[b.twyst]
              PROVE  \A f \in frames'[b.twyst] : f.reply <= b.list
            BY <1>1, <2>1, <2>2, <3>1, <3>2 DEF Newest
        <3> QED
            BY <1>1, <1>2, <3>1, <3>2 DEF Newest, NewestNext
    <2> QED
        BY <1>1, <2>3, NewestIsNext DEF NewestInv
<1> QED
    BY <1>3, <1>4

LEMMA NewestStep ==
    ASSUME NumberInv, NewestInv, [Next]_vars
    PROVE  NewestInv'
<1>1. TypeInv
    BY DEF NumberInv
<1>2. CASE Idle
    BY <1>1, <1>2, NewestQuiet DEF Idle
<1>3. ASSUME NEW q \in Queues, StartDownload(q)
      PROVE  NewestInv'
    <2>1. /\ UNCHANGED <<mainQueue, frames, localReplies>>
          /\ \A k \in jobs' : k \in jobs \/ k.phase = "request"
        BY <1>1, <1>3, StartShape
    <2> QED
        BY <1>1, <2>1, NewestQuiet DEF WorkerPhases
<1>4. ASSUME NEW t \in Twysts, DeleteSavedTwyst(t)
      PROVE  NewestInv'
    <2>1. /\ mainQueue' = mainQueue
          /\ \A x \in Twysts : frames'[x] = IF x = t THEN {} ELSE frames[x]
        BY <1>1, <1>4, DeleteShape
    <2>2. /\ \A k \in jobs' : \E j \in jobs :
                k.twyst = j.twyst /\ k.phase = j.phase /\ k.list = j.list
          /\ \A m \in localReplies' : \E l \in localReplies :
                m.twyst = l.twyst /\ m.reply = l.reply
        BY <1>1, <1>4, OrphanShape
    <2>3. \A k \in jobs' : k.phase \in WorkerPhases => \E j \in jobs :
              j.twyst = k.twyst /\ j.phase \in WorkerPhases /\ j.list = k.list
        BY <2>2
    <2>4. \A m \in localReplies' : \E l \in localReplies :
              l.twyst = m.twyst /\ l.reply = m.reply
        BY <2>2
    <2>5. \A x \in Twysts : \A f \in frames'[x] : f \in frames[x]
        BY <2>1
    <2> QED
        BY <1>1, <2>1, <2>3, <2>4, <2>5, NewestQuiet
<1>5. ASSUME NEW t \in Twysts, SendReply(t)
      PROVE  NewestInv'
    <2>1. /\ UNCHANGED <<jobs, mainQueue, frames>> /\ Blocks' = Blocks
          /\ InFlight(t) => "local" \in hazards'[t]
        BY <1>1, <1>5, SendShape
    <2>2. \A m \in localReplies' : m \in localReplies \/ m.twyst = t
        BY <1>1, <1>5, SendShape
    <2>3. ASSUME NEW b \in Blocks, b.kind = "list"
          PROVE  NewestNext(b)
        <3>1. Newest(b) /\ hazards[b.twyst] \subseteq hazards'[b.twyst]
            BY <1>1, <2>3, OfTwysts, HazardsGrow DEF NewestInv
        <3>2. "local" \notin hazards'[b.twyst] => b.twyst # t
            BY <1>1, <2>1, InUse
        <3> QED
            BY <2>1, <2>2, <3>1, <3>2 DEF Newest, NewestNext
    <2> QED
        BY <2>1, <2>3, NewestIsNext DEF NewestInv
<1>6. ASSUME NEW j \in jobs, Network(j) \/ Worker(j)
      PROVE  NewestInv'
    BY <1>6, NewestWorker
<1>7. CASE MainBlock
    BY <1>7, NewestMainBlock
<1>8. ASSUME NEW l \in localReplies, ReplyThread(l)
      PROVE  NewestInv'
    BY <1>8, NewestReplyThread
<1> QED
    BY <1>2, <1>3, <1>4, <1>5, <1>6, <1>7, <1>8, StepKinds

-----------------------------------------------------------------------------
(* One worker at a time                                                    *)

\* A folder is filled anew only for a reply that was not saved.
FetchInv == \A j \in jobs : j.phase = "fetch" => j.at \notin ZipNames(j.known)

LEMMA FetchStep ==
    ASSUME TypeInv, FetchInv, [Next]_vars
    PROVE  FetchInv'
<1>1. CASE UNCHANGED jobs
    BY <1>1 DEF FetchInv
<1>2. ASSUME NEW q \in Queues, StartDownload(q)
      PROVE  FetchInv'
    BY <1>2, StartShape DEF FetchInv
<1>3. ASSUME NEW t \in Twysts, DeleteSavedTwyst(t)
      PROVE  FetchInv'
    <2>1. \A k \in jobs' : \E j \in jobs :
              k.phase = j.phase /\ k.known = j.known /\ k.at = j.at
        BY <1>3, OrphanShape
    <2> QED
        BY <2>1 DEF FetchInv
<1>4. ASSUME NEW j \in jobs, Network(j) \/ Worker(j)
      PROVE  FetchInv'
    <2>1. CASE EndDownload(j)
        BY <2>1 DEF EndDownload, Ends, FetchInv
    <2>2. CASE OpenFolder(j)
        <3>1. PICK k : Becomes(j, k, "fetch", j.at, j.arr)
            BY <2>2, WorkerShape
        <3>2. j.at \notin ZipNames(j.known)
            BY <2>2 DEF OpenFolder
        <3> QED
            BY <3>1, <3>2 DEF Becomes, FetchInv
    <2>3. CASE ~EndDownload(j) /\ ~OpenFolder(j)
        <3>1. \E ph \in {"answered", "open", "notify", "clear"} :
                 \E k, at, arr : Becomes(j, k, ph, at, arr)
            BY <1>4, <2>3, WorkerShape DEF Worker
        <3> QED
            BY <3>1 DEF Becomes, FetchInv
    <2> QED
        BY <2>1, <2>2, <2>3
<1>5. CASE MainBlock
    <2>1. \/ \E j \in jobs : \E c : EndsWith(j, c)
          \/ \E j \in jobs : \E k : BeginsAs(j, k)
          \/ jobs' = jobs
        BY <1>5, MainShape DEF Saves, Delivers
    <2>2. \A k \in jobs' : k \in jobs \/ k.phase = "open"
        BY <2>1 DEF EndsWith, BeginsAs
    <2> QED
        BY <2>2 DEF FetchInv
<1> QED
    BY <1>1, <1>2, <1>3, <1>4, <1>5, StepKinds, SendShape, ReplyLeaves DEF Idle

\* The twyst t has met no second download, no local reply during one, and
\* no deletion.
Calm(t) == hazards[t] \cap {"overlap", "local", "deleted"} = {}

SavesOf(t) == {b \in Blocks : b.kind = "save" /\ b.twyst = t}

WorkerOf(j, t) == j.twyst = t /\ j.phase \in WorkerPhases

Working(j) == j.phase \in {"open", "fetch"}

\* What the worker j has passed of the replies F that were saved it has
\* taken over, unless it has dropped everything and left the loop.
TakenOver(j, F) ==
    /\ F = j.known
    /\ \A r \in ZipNames(F) :
          /\ r <= j.list
          /\ r < j.at => r \in ZipNames(j.arr) \/ (j.arr = {} /\ j.at > j.list)

\* One worker at a time has to do with a calm twyst; as long as it works,
\* nothing of it waits to be saved, and the record stays as it was; and
\* what it saves in the end has every reply that the record has.
Sole(t) ==
    /\ \A j, k \in jobs : WorkerOf(j, t) /\ WorkerOf(k, t) => j = k
    /\ \A j \in jobs : j.twyst = t /\ Working(j) =>
          TakenOver(j, frames[t]) /\ SavesOf(t) = {}
    /\ \A b, c \in SavesOf(t) : b = c
    /\ \A b \in SavesOf(t) : ZipNames(frames[t]) \subseteq ZipNames(b.arr)

SoleInv == \A t \in Twysts : Calm(t) => Sole(t)

SoleNext(t) ==
    /\ \A j, k \in jobs' : WorkerOf(j, t) /\ WorkerOf(k, t) => j = k
    /\ \A j \in jobs' : j.twyst = t /\ Working(j) =>
          TakenOver(j, frames'[t]) /\ SavesOf(t)' = {}
    /\ \A b, c \in SavesOf(t)' : b = c
    /\ \A b \in SavesOf(t)' : ZipNames(frames'[t]) \subseteq ZipNames(b.arr)

LEMMA SoleIsNext ==
    ASSUME \A t \in Twysts : Calm(t)' => SoleNext(t)
    PROVE  SoleInv'
<1>1. \A t \in Twysts : SoleNext(t) => Sole(t)'
    BY DEF Sole, SoleNext, WorkerOf, Working, TakenOver, SavesOf
<1> QED
    BY <1>1 DEF SoleInv

LEMMA CalmStep ==
    ASSUME TypeInv, [Next]_vars, NEW t \in Twysts, Calm(t)'
    PROVE  Calm(t) /\ Undisturbed(t)
BY HazardsGrow DEF Calm, Undisturbed

\* Nobody downloads t.
LEMMA NobodyDownloads ==
    ASSUME TypeInv, NEW t, ~Downloading(t)
    PROVE  SavesOf(t) = {} /\ \A j \in jobs : ~WorkerOf(j, t)
<1>1. mainQueue \in Seq(Block)
    BY DEF TypeInv, TypeOK
<1>2. ~\E b \in ToSet(mainQueue) : b.twyst = t /\ b.kind = "save"
    BY <1>1, DownloadingBlocks DEF Downloading
<1> QED
    BY <1>2 DEF SavesOf, Blocks, Downloading, WorkerOf

\* A twyst that the step has nothing to do with, and one that nobody
\* downloads.
LEMMA SoleElsewhere ==
    ASSUME NEW t, Sole(t), frames'[t] = frames[t],
           \A k \in jobs' : WorkerOf(k, t) => k \in jobs,
           SavesOf(t)' \subseteq SavesOf(t)
    PROVE  SoleNext(t)
<1>1. \A j : Working(j) => j.phase \in WorkerPhases
    BY DEF Working, WorkerPhases
<1> QED
    BY <1>1 DEF Sole, SoleNext, WorkerOf

LEMMA SoleIdle ==
    ASSUME NEW t, \A k \in jobs' : ~WorkerOf(k, t), SavesOf(t)' = {}
    PROVE  SoleNext(t)
<1>1. \A j : Working(j) => j.phase \in WorkerPhases
    BY DEF Working, WorkerPhases
<1> QED
    BY <1>1 DEF SoleNext, WorkerOf

\* The sole worker of t goes on.
LEMMA SoleTurn ==
    ASSUME NEW t, Sole(t), NEW j \in jobs, WorkerOf(j, t), NEW k,
           jobs' = (jobs \ {j}) \cup {k}, k.twyst = t,
           Working(k) => Working(j) /\ TakenOver(k, frames[t]),
           frames' = frames, SavesOf(t)' \subseteq SavesOf(t)
    PROVE  SoleNext(t)
<1>1. \A i : Working(i) => i.phase \in WorkerPhases
    BY DEF Working, WorkerPhases
<1>2. \A i \in jobs' : WorkerOf(i, t) => i = k
    BY DEF Sole
<1> QED
    BY <1>1, <1>2 DEF Sole, SoleNext, WorkerOf

\* A turn of the loop takes over what is saved of its reply.
LEMMA TakenOverTurn ==
    ASSUME NumberInv, RecordInv, FetchInv, NEW j \in jobs, NEW k \in jobs',
           k \notin jobs, Calm(j.twyst), Working(j), Worker(j), Working(k),
           TakenOver(j, frames[j.twyst])
    PROVE  TakenOver(k, frames[j.twyst])
<1> DEFINE F == frames[j.twyst]
<1>1. TypeInv /\ j \in Job /\ j.at \in Nat /\ j.list \in Nat
      /\ \A r \in ZipNames(F) : r \in Nat
      /\ j.twyst \in Twysts
      /\ Cardinality(j.arr) \in Nat
    <2>1. TypeInv /\ j \in Job /\ j.at \in Nat /\ j.list \in Nat /\ j.twyst \in Twysts
        BY MaxRepliesAssumption DEF NumberInv, TypeInv, TypeOK, Job
    <2>2. F \in FrameSet
        BY <2>1 DEF TypeInv, TypeOK
    <2> QED
        BY <2>1, <2>2, ArrLength DEF ZipNames, FrameSet, Frame, Replies
<1>2. /\ F = j.known
      /\ \A r \in ZipNames(F) : r <= j.list
      /\ \A r \in ZipNames(F) : r < j.at =>
            r \in ZipNames(j.arr) \/ (j.arr = {} /\ j.at > j.list)
    BY DEF TakenOver
<1> HIDE DEF F
<1>3. \A i, ph, at, arr : Becomes(j, i, ph, at, arr) =>
          /\ k.list = j.list /\ k.known = j.known /\ k.at = at /\ k.arr = arr
          /\ k.phase = ph
    BY DEF Becomes
<1>4. ASSUME NEW N, k.known = j.known, k.list = j.list, j.at <= j.list,
             k.at = j.at + 1, k.arr = j.arr \cup N,
             j.at \in ZipNames(F) => N # {} /\ \A f \in N : f.reply = j.at
      PROVE  TakenOver(k, F)
    <2>1. \A r \in ZipNames(F) : r < j.at => r \in ZipNames(j.arr)
        BY <1>1, <1>2, <1>4
    <2>2. \A r \in ZipNames(F) : r < k.at => r < j.at \/ r = j.at
        BY <1>1, <1>4
    <2>3. j.at \in ZipNames(F) => j.at \in ZipNames(k.arr)
        BY <1>4 DEF ZipNames
    <2>4. ZipNames(j.arr) \subseteq ZipNames(k.arr)
        BY <1>4 DEF ZipNames
    <2> QED
        BY <1>2, <1>4, <2>1, <2>2, <2>3, <2>4 DEF TakenOver
<1>5. CASE ReuseReply(j)
    <2>1. PICK G \in Found(j) : \E i :
              Becomes(j, i, "open", j.at + 1,
                      j.arr \cup ReusedFrames(G, j.at, Cardinality(j.arr)))
        BY <1>1, <1>5, WorkerShape
    <2>2. j.at <= j.list /\ j.at \in ZipNames(j.known)
        BY <1>5 DEF ReuseReply
    <2>3. j.saved = "live"
        BY <1>1, <2>2 DEF RecordInv, ZipNames, Calm, Job
    <2>4. G = F
        BY <2>1, <2>3 DEF Found, F
    <2> DEFINE N == ReusedFrames(G, j.at, Cardinality(j.arr))
    <2>5. \A f \in N : f.reply = j.at
        BY DEF ReusedFrames
    <2>6. N # {}
        BY <1>2, <2>2, <2>4 DEF ReusedFrames, FramesOf, ZipNames
    <2> HIDE DEF N
    <2>7. k.list = j.list /\ k.known = j.known /\ k.at = j.at + 1
          /\ k.arr = j.arr \cup N
        BY <1>3, <2>1 DEF N
    <2> QED
        BY <1>4, <2>2, <2>5, <2>6, <2>7 DEF F
<1>6. CASE FetchReply(j) \/ FetchBadEntry(j) \/ FetchCorrupt(j)
    <2>1. j.phase = "fetch" /\ j.at <= j.list
        BY <1>1, <1>6 DEF FetchReply, FetchBadEntry, FetchCorrupt, TypeInv,
           WorkerInList
    <2>2. j.at \notin ZipNames(F)
        BY <1>2, <2>1 DEF FetchInv
    <2>3. \E N : \E i : Becomes(j, i, "open", j.at + 1, j.arr \cup N)
        <3>1. CASE FetchReply(j) \/ FetchBadEntry(j)
            BY <1>1, <3>1, WorkerShape
        <3>2. CASE FetchCorrupt(j)
            <4>1. \E i : Becomes(j, i, "open", j.at + 1, j.arr)
                BY <1>1, <3>2, WorkerShape
            <4>2. j.arr = j.arr \cup {}
                OBVIOUS
            <4> QED
                BY <4>1, <4>2
        <3> QED
            BY <1>6, <3>1, <3>2
    <2> QED
        BY <1>3, <1>4, <2>1, <2>2, <2>3 DEF F
<1>7. CASE FetchNothing(j)
    <2>1. /\ k.list = j.list /\ k.known = j.known /\ k.at = j.list + 1
          /\ k.arr = {}
        BY <1>1, <1>3, <1>7, WorkerShape
    <2>2. k.at > k.list
        BY <1>1, <2>1
    <2> QED
        BY <1>2, <2>1, <2>2 DEF TakenOver, F
<1>8. CASE OpenFolder(j)
    <2>1. /\ k.list = j.list /\ k.known = j.known /\ k.at = j.at
          /\ k.arr = j.arr
        BY <1>1, <1>3, <1>8, WorkerShape
    <2> QED
        BY <1>2, <2>1 DEF TakenOver, F
<1>9. CASE PostSave(j) \/ PostDid(j) \/ PostFail(j)
    <2>1. k.phase \in {"notify", "clear"}
        BY <1>1, <1>3, <1>9, WorkerShape
    <2> QED
        BY <2>1 DEF Working
<1>10. CASE EndDownload(j)
    BY <1>10 DEF EndDownload, Ends
<1> QED
    BY <1>5, <1>6, <1>7, <1>8, <1>9, <1>10 DEF Worker

LEMMA SoleWorker ==
    ASSUME NumberInv, RecordInv, FetchInv, SoleInv, [Next]_vars,
           NEW j \in jobs, Network(j) \/ Worker(j)
    PROVE  SoleInv'
<1>1. TypeInv /\ frames' = frames
    BY WorkerLeaves DEF NumberInv
<1>2. \A k \in jobs' : k \in jobs \/
          /\ k \in Job /\ k.twyst = j.twyst /\ k.list = j.list
          /\ k.known = j.known /\ k.saved = j.saved
          /\ jobs' = (jobs \ {j}) \cup {k}
          /\ k.phase \in WorkerPhases => j.phase \in WorkerPhases
    BY <1>1, WorkerGoesOn
<1>3. \/ Blocks' = Blocks
      \/ \E b : /\ Blocks' = Blocks \cup {b} /\ b.twyst = j.twyst
                /\ b.kind = "save" => PostSave(j)
    BY <1>1, PostShape DEF Posted
<1>4. \A t : t # j.twyst \/ ~PostSave(j) => SavesOf(t)' \subseteq SavesOf(t)
    BY <1>3 DEF SavesOf
<1> SUFFICES ASSUME NEW t \in Twysts, Calm(t)'
             PROVE  SoleNext(t)
    BY SoleIsNext
<1>5. Calm(t) /\ Sole(t)
    BY <1>1, CalmStep DEF SoleInv
<1>6. CASE t # j.twyst \/ j.phase \notin WorkerPhases
    <2>1. \A k \in jobs' : WorkerOf(k, t) => k \in jobs
        BY <1>2, <1>6 DEF WorkerOf
    <2>2. PostSave(j) => j.phase \in WorkerPhases
        BY DEF PostSave, LoopDone, WorkerPhases
    <2> QED
        BY <1>1, <1>4, <1>5, <1>6, <2>1, <2>2, SoleElsewhere
<1>7. CASE t = j.twyst /\ j.phase \in WorkerPhases
    <2>1. WorkerOf(j, t)
        BY <1>7 DEF WorkerOf
    <2>2. CASE \A k \in jobs' : k \in jobs
        <3>1. CASE PostSave(j)
            <4>1. \A k \in jobs' : WorkerOf(k, t) => k = j
                BY <1>5, <2>1, <2>2 DEF Sole
            <4>2. PICK i : Becomes(j, i, "notify", j.at, j.arr)
                BY <1>1, <3>1, WorkerShape
            <4>3. WorkerOf(i, t) /\ i \in jobs' /\ i.phase = "notify"
                BY <1>7, <4>2 DEF Becomes, WorkerOf, WorkerPhases
            <4>4. j.phase = "open"
                BY <3>1 DEF PostSave, LoopDone
            <4> QED
                BY <4>1, <4>3, <4>4
        <3>2. CASE ~PostSave(j)
            BY <1>1, <1>4, <1>5, <2>2, <3>2, SoleElsewhere
        <3> QED
            BY <3>1, <3>2
    <2>3. ASSUME NEW k \in jobs', k \notin jobs
          PROVE  SoleNext(t)
        <3>1. jobs' = (jobs \ {j}) \cup {k} /\ k.twyst = t
            BY <1>2, <1>7, <2>3
        <3>2. CASE Worker(j) /\ ~PostSave(j)
            <4>1. ASSUME Working(k)
                  PROVE  Working(j) /\ TakenOver(k, frames[t])
                <5>1. Working(j)
                    <6>1. CASE PostDid(j) \/ EndDownload(j)
                        <7>1. CASE PostDid(j)
                            <8>1. PICK i : Becomes(j, i, "clear", j.at, j.arr)
                                BY <1>1, <7>1, WorkerShape
                            <8> QED
                                BY <2>3, <4>1, <8>1 DEF Becomes, Working
                        <7>2. CASE EndDownload(j)
                            BY <2>3, <7>2 DEF EndDownload, Ends
                        <7> QED
                            BY <6>1, <7>1, <7>2
                    <6>2. CASE ~PostDid(j) /\ ~EndDownload(j)
                        BY <3>2, <6>2 DEF Worker, ReuseReply, OpenFolder,
                           FetchReply, FetchNothing, FetchBadEntry,
                           FetchCorrupt, PostFail, LoopDone, Working
                    <6> QED
                        BY <6>1, <6>2
                <5>2. TakenOver(j, frames[j.twyst]) /\ Calm(j.twyst)
                    BY <1>5, <1>7, <5>1 DEF Sole
                <5> QED
                    BY <1>7, <2>3, <3>2, <4>1, <5>1, <5>2, TakenOverTurn
            <4>2. SavesOf(t)' \subseteq SavesOf(t)
                BY <1>4, <3>2
            <4> QED
                BY <1>1, <1>5, <2>1, <3>1, <4>1, <4>2, SoleTurn
        <3>3. CASE Network(j)
            BY <1>7, <3>3 DEF Network, RepliesArrive, RepliesFail, Answer,
               WorkerPhases
        <3>4. CASE PostSave(j)
            <4>1. k.phase = "notify"
                BY <1>1, <2>3, <3>4, WorkerShape DEF Becomes
            <4>2. j.phase = "open" /\ j.at > j.list /\ j.arr # {}
                BY <3>4 DEF PostSave, LoopDone
            <4>3. TakenOver(j, frames[t]) /\ SavesOf(t) = {}
                BY <1>5, <1>7, <4>2 DEF Sole, Working
            <4>4. PICK b : /\ Blocks' = Blocks \cup {b} /\ b.twyst = t
                           /\ b.kind = "save" /\ b.arr = j.arr
                <5>1. ~Network(j) /\ ~PostDid(j) /\ ~PostFail(j)
                    BY <3>4, <4>2 DEF Network, RepliesArrive, RepliesFail,
                       Answer, PostDid, PostFail, PostSave, LoopDone
                <5> QED
                    BY <1>1, <1>7, <3>4, <5>1, PostShape DEF Posted
            <4>5. SavesOf(t)' = {b}
                BY <4>3, <4>4 DEF SavesOf
            <4>6. \A r \in ZipNames(frames[t]) : r \in ZipNames(j.arr)
                <5>1. \A r \in ZipNames(frames[t]) :
                         r \in Nat /\ r <= j.list /\ j.list \in Nat /\ j.at \in Nat
                    <6>1. frames[t] \in FrameSet /\ j.list \in Nat /\ j.at \in Nat
                        BY <1>1, MaxRepliesAssumption DEF TypeInv, TypeOK, Job
                    <6> QED
                        BY <4>3, <6>1 DEF TakenOver, ZipNames, FrameSet, Frame,
                           Replies
                <5>2. \A r \in ZipNames(frames[t]) : r < j.at
                    BY <4>2, <5>1
                <5> QED
                    BY <4>2, <4>3, <5>2 DEF TakenOver
            <4>7. \A i \in jobs' : WorkerOf(i, t) => i = k
                BY <1>5, <2>1, <3>1 DEF Sole
            <4>8. \A i \in jobs' : ~(i.twyst = t /\ Working(i))
                BY <4>1, <4>7 DEF Working, WorkerOf, WorkerPhases
            <4> QED
                BY <1>1, <4>4, <4>5, <4>6, <4>7, <4>8 DEF SoleNext
        <3> QED
            BY <3>2, <3>3, <3>4
    <2> QED
        BY <2>2, <2>3
<1> QED
    BY <1>6, <1>7

LEMMA SoleMainBlock ==
    ASSUME NumberInv, NewestInv, SoleInv, [Next]_vars, MainBlock
    PROVE  SoleInv'
<1>1. TypeInv
    BY DEF NumberInv
<1>2. /\ First \in Block /\ First.twyst \in Twysts
      /\ First \in Blocks /\ Blocks = ToSet(Rest) \cup {First}
      /\ \/ \E j \in jobs : \E c : EndsWith(j, c)
         \/ \E j \in jobs : \E k : BeginsAs(j, k)
         \/ Saves
         \/ Delivers
    BY <1>1, MainShape
<1> SUFFICES ASSUME NEW t \in Twysts, Calm(t)'
             PROVE  SoleNext(t)
    BY SoleIsNext
<1>3. Calm(t) /\ Sole(t)
    BY <1>1, CalmStep DEF SoleInv
<1>4. ASSUME NEW j \in jobs, NEW c, EndsWith(j, c)
      PROVE  SoleNext(t)
    <2>1. jobs' \subseteq jobs /\ frames' = frames
          /\ SavesOf(t)' \subseteq SavesOf(t)
        BY <1>2, <1>4 DEF EndsWith, SavesOf
    <2> QED
        BY <1>3, <2>1, SoleElsewhere
<1>5. ASSUME NEW j \in jobs, NEW k, BeginsAs(j, k)
      PROVE  SoleNext(t)
    <2>1. /\ frames' = frames /\ SavesOf(t)' \subseteq SavesOf(t)
          /\ \A i \in jobs' : i \in jobs \/ i = k
          /\ k.twyst = First.twyst /\ k.list = First.list /\ First.kind = "list"
          /\ k.known = frames[First.twyst] /\ k.at = j.at
          /\ j.phase = "answered" /\ k.phase = "open"
        BY <1>2, <1>5 DEF BeginsAs, SavesOf
    <2>2. CASE t # First.twyst
        BY <1>3, <2>1, <2>2, SoleElsewhere DEF WorkerOf
    <2>3. CASE t = First.twyst
        <3>1. ~Downloading(t)
            <4>1. "overlap" \notin hazards'[t]
                BY DEF Calm
            <4>2. hazards' = [hazards EXCEPT ![t] = @ \cup
                                 ((IF Downloading(t) THEN {"overlap"} ELSE {})
                                  \cup (IF AddingReply(t) THEN {"local"}
                                                          ELSE {}))]
                BY <1>5, <2>3 DEF BeginsAs
            <4>3. t \in DOMAIN hazards
                BY <1>1 DEF TypeInv, TypeOK
            <4>4. Downloading(t) => "overlap" \in hazards'[t]
                BY <4>2, <4>3
            <4> QED
                BY <4>1, <4>4
        <3>2. SavesOf(t) = {} /\ \A i \in jobs : ~WorkerOf(i, t)
            BY <1>1, <3>1, NobodyDownloads
        <3>3. TakenOver(k, frames[t])
            <4>1. \A f \in frames[t] : f.reply <= First.list
                BY <1>2, <1>3, <2>1, <2>3 DEF NewestInv, Newest, Calm
            <4>2. k.at = 1
                BY <2>1 DEF NumberInv, SoundInv, JobSound
            <4>3. \A f \in frames[t] : f.reply \in Nat /\ f.reply >= 1
                BY <1>1 DEF TypeInv, TypeOK, FrameSet, Frame, Replies
            <4> QED
                BY <2>1, <2>3, <4>1, <4>2, <4>3 DEF TakenOver, ZipNames
        <3> QED
            BY <2>1, <3>2, <3>3 DEF SoleNext, WorkerOf, Working, WorkerPhases
    <2> QED
        BY <2>2, <2>3
<1>6. CASE Saves
    <2>1. /\ jobs' = jobs /\ SavesOf(t)' \subseteq SavesOf(t)
          /\ frames'[t] = IF t = First.twyst THEN First.arr ELSE frames[t]
          /\ First.kind = "save"
        BY <1>2, <1>6 DEF Saves, SavesOf
    <2>2. CASE t # First.twyst
        BY <1>3, <2>1, <2>2, SoleElsewhere
    <2>3. CASE t = First.twyst
        <3>1. First \in SavesOf(t)
            BY <1>2, <2>1, <2>3 DEF SavesOf
        <3>2. \A b \in SavesOf(t)' : b = First
            BY <1>3, <2>1, <3>1 DEF Sole
        <3>3. \A j \in jobs : ~(j.twyst = t /\ Working(j))
            BY <1>3, <3>1 DEF Sole
        <3> QED
            BY <1>3, <2>1, <2>3, <3>2, <3>3 DEF Sole, SoleNext
    <2> QED
        BY <2>2, <2>3
<1>7. CASE Delivers
    <2>1. jobs' = jobs /\ frames' = frames /\ SavesOf(t)' \subseteq SavesOf(t)
        BY <1>2, <1>7 DEF Delivers, SavesOf
    <2> QED
        BY <1>3, <2>1, SoleElsewhere
<1> QED
    BY <1>2, <1>4, <1>5, <1>6, <1>7

LEMMA SoleStep ==
    ASSUME NumberInv, RecordInv, FetchInv, NewestInv, SoleInv, [Next]_vars
    PROVE  SoleInv'
<1>1. TypeInv
    BY DEF NumberInv
<1>2. \A t \in Twysts : Calm(t)' => Calm(t) /\ Sole(t)
    BY <1>1, CalmStep DEF SoleInv
<1>3. Blocks' = Blocks => \A t : SavesOf(t)' = SavesOf(t)
    BY DEF SavesOf
<1>4. CASE Idle
    <2>1. jobs' = jobs /\ frames' = frames /\ Blocks' = Blocks
        BY <1>4 DEF Idle, Blocks
    <2>2. \A t \in Twysts : Calm(t)' => SoleNext(t)
        BY <1>2, <1>3, <2>1, SoleElsewhere
    <2> QED
        BY <2>2, SoleIsNext
<1>5. ASSUME NEW q \in Queues, StartDownload(q)
      PROVE  SoleInv'
    <2>1. /\ Blocks' = Blocks /\ frames' = frames
          /\ \A k \in jobs' : k \in jobs \/ k.phase = "request"
        BY <1>1, <1>5, StartShape DEF Blocks
    <2>2. \A t : \A k \in jobs' : WorkerOf(k, t) => k \in jobs
        BY <2>1 DEF WorkerOf, WorkerPhases
    <2>3. \A t \in Twysts : Calm(t)' => SoleNext(t)
        BY <1>2, <1>3, <2>1, <2>2, SoleElsewhere
    <2> QED
        BY <2>3, SoleIsNext
<1>6. ASSUME NEW x \in Twysts, DeleteSavedTwyst(x)
      PROVE  SoleInv'
    <2>1. /\ Blocks' = Blocks
          /\ \A t \in Twysts : frames'[t] = IF t = x THEN {} ELSE frames[t]
          /\ InFlight(x) => "deleted" \in hazards'[x]
        BY <1>1, <1>6, DeleteShape
    <2>2. \A k \in jobs' : \E j \in jobs : /\ k.twyst = j.twyst
                                           /\ j.twyst # x => k = j
        BY <1>1, <1>6, OrphanShape
    <2>3. ASSUME NEW t \in Twysts, Calm(t)'
          PROVE  SoleNext(t)
        <3>1. CASE t = x
            <4>1. ~InFlight(t)
                BY <2>1, <2>3, <3>1 DEF Calm
            <4>2. (\A j \in jobs : j.twyst # t) /\ SavesOf(t) = {}
                BY <1>1, <4>1, InUse DEF SavesOf
            <4>3. \A k \in jobs' : ~WorkerOf(k, t)
                BY <2>2, <4>2 DEF WorkerOf
            <4> QED
                BY <1>3, <2>1, <4>2, <4>3, SoleIdle
        <3>2. CASE t # x
            <4>1. \A k \in jobs' : WorkerOf(k, t) => k \in jobs
                BY <2>2, <3>2 DEF WorkerOf
            <4> QED
                BY <1>2, <1>3, <2>1, <2>3, <3>2, <4>1, SoleElsewhere
        <3> QED
            BY <3>1, <3>2
    <2> QED
        BY <2>3, SoleIsNext
<1>7. ASSUME NEW x \in Twysts, SendReply(x)
      PROVE  SoleInv'
    <2>1. jobs' = jobs /\ frames' = frames /\ Blocks' = Blocks
        BY <1>1, <1>7, SendShape
    <2>2. \A t \in Twysts : Calm(t)' => SoleNext(t)
        BY <1>2, <1>3, <2>1, SoleElsewhere
    <2> QED
        BY <2>2, SoleIsNext
<1>8. ASSUME NEW l \in localReplies, ReplyThread(l)
      PROVE  SoleInv'
    <2>1. jobs' = jobs /\ Blocks' = Blocks /\ l.twyst \in Twysts
        BY <1>1, <1>8, ReplyLeaves
    <2>2. \A t \in Twysts : t # l.twyst => frames'[t] = frames[t]
        BY <1>1, <1>8, ReplyLeaves
    <2>3. ASSUME NEW t \in Twysts, Calm(t)'
          PROVE  SoleNext(t)
        <3>1. CASE t = l.twyst
            <4>1. "local" \notin hazards[t]
                BY <1>2, <2>3 DEF Calm
            <4>2. ~Downloading(t)
                BY <3>1, <4>1 DEF NumberInv, AloneInv, Alone
            <4>3. SavesOf(t) = {} /\ \A j \in jobs : ~WorkerOf(j, t)
                BY <1>1, <4>2, NobodyDownloads
            <4> QED
                BY <1>3, <2>1, <4>3, SoleIdle
        <3>2. CASE t # l.twyst
            BY <1>2, <1>3, <2>1, <2>2, <2>3, <3>2, SoleElsewhere
        <3> QED
            BY <3>1, <3>2
    <2> QED
        BY <2>3, SoleIsNext
<1>9. CASE MainBlock
    BY <1>9, SoleMainBlock
<1>10. ASSUME NEW j \in jobs, Network(j) \/ Worker(j)
       PROVE  SoleInv'
    BY <1>10, SoleWorker
<1> QED
    BY <1>4, <1>5, <1>6, <1>7, <1>8, <1>9, <1>10, StepKinds

-----------------------------------------------------------------------------
(* The files of what is shown                                              *)

\* The folder of reply r of t is in use: a frame of the record, of the
\* worker, of a save under way or of a local reply is in it.
Needs(t, r) ==
    \/ r \in ZipNames(frames[t])
    \/ \E j \in jobs : j.twyst = t /\ Working(j) /\ r \in ZipNames(j.arr)
    \/ \E b \in SavesOf(t) : r \in ZipNames(b.arr)
    \/ \E l \in localReplies :
          l.twyst = t /\ l.phase \in {"read", "commit"} /\ l.reply = r

\* An archive that cannot be opened is the only mishap of t.
NearlyClean(t) == hazards[t] \subseteq {"corrupt"}

FilesInv ==
    \A t \in Twysts : NearlyClean(t) => \A r : Needs(t, r) => <<t, r>> \in files

NeedsNext(t, r) ==
    \/ r \in ZipNames(frames'[t])
    \/ \E j \in jobs' : j.twyst = t /\ Working(j) /\ r \in ZipNames(j.arr)
    \/ \E b \in SavesOf(t)' : r \in ZipNames(b.arr)
    \/ \E l \in localReplies' :
          l.twyst = t /\ l.phase \in {"read", "commit"} /\ l.reply = r

LEMMA FilesAreNext ==
    ASSUME TypeInv, FilesInv, [Next]_vars,
           \A t \in Twysts : NearlyClean(t)' =>
               \A r : NeedsNext(t, r) =>
                   \/ <<t, r>> \in files'
                   \/ Needs(t, r) /\ (<<t, r>> \in files => <<t, r>> \in files')
    PROVE  FilesInv'
<1>1. \A t, r : Needs(t, r)' <=> NeedsNext(t, r)
    BY DEF Needs, NeedsNext, Working
<1>2. \A t \in Twysts : NearlyClean(t)' => NearlyClean(t)
    BY HazardsGrow DEF NearlyClean
<1> QED
    BY <1>1, <1>2 DEF FilesInv

LEMMA NearlyCleanIsCalm ==
    ASSUME NEW t, NearlyClean(t)
    PROVE  Calm(t) /\ Undisturbed(t)
BY DEF NearlyClean, Calm, Undisturbed

\* A folder is deleted only if it is not in use.
LEMMA FilesWorker ==
    ASSUME NumberInv, RecordInv, FetchInv, SoleInv, FilesInv, [Next]_vars,
           NEW j \in jobs, Network(j) \/ Worker(j)
    PROVE  FilesInv'
<1>1. /\ TypeInv /\ j \in Job /\ j.twyst \in Twysts
      /\ j.at \in Nat
      /\ \A f \in j.arr : f.reply \in Nat /\ f.reply < j.at
    <2>1. TypeInv /\ j \in Job
        BY DEF NumberInv, TypeInv, TypeOK
    <2>2. JobSound(j, replyCount[j.twyst])
        BY DEF NumberInv, SoundInv
    <2> QED
        BY <2>1, <2>2 DEF Job, JobSound, FrameSet, Frame, Replies
<1>2. /\ frames' = frames /\ localReplies' = localReplies
      /\ files' = files \/ OpenFolder(j) \/ FetchReply(j)
      /\ hazards' = hazards \/ FetchBadEntry(j) \/ FetchCorrupt(j)
    BY WorkerLeaves
<1>3. \A t : \A b \in SavesOf(t)' :
          b \in SavesOf(t) \/ (t = j.twyst /\ PostSave(j) /\ b.arr = j.arr)
    BY <1>1, PostShape DEF SavesOf, Posted
<1>4. PostSave(j) => Working(j)
    BY DEF PostSave, LoopDone, Working
<1>5. FetchReply(j) => files' = files \cup {<<j.twyst, j.at>>}
    BY DEF FetchReply
<1>6. OpenFolder(j) => files' = files \ {<<j.twyst, j.at>>}
    BY DEF OpenFolder
<1> SUFFICES ASSUME NEW t \in Twysts, NearlyClean(t)', NEW r, NeedsNext(t, r)
             PROVE  \/ <<t, r>> \in files'
                    \/ Needs(t, r) /\ (<<t, r>> \in files => <<t, r>> \in files')
    BY <1>1, FilesAreNext
<1>7. NearlyClean(t) /\ Calm(t) /\ Sole(t) /\ "local" \notin hazards[t]
    <2>1. NearlyClean(t)
        BY <1>1, HazardsGrow DEF NearlyClean
    <2> QED
        BY <2>1, NearlyCleanIsCalm DEF SoleInv, Calm
<1>8. Needs(t, r) \/ <<t, r>> \in files'
    <2>1. ASSUME NEW k \in jobs', k.twyst = t, Working(k), r \in ZipNames(k.arr)
          PROVE  Needs(t, r) \/ <<t, r>> \in files'
        <3>1. CASE k \in jobs
            BY <2>1, <3>1 DEF Needs
        <3>2. CASE k \notin jobs
            <4>1. k.twyst = j.twyst /\ k.phase \in {"open", "fetch"}
                BY <1>1, <2>1, <3>2, WorkerGoesOn DEF Working
            <4>2. \A i, ph, at, arr : Becomes(j, i, ph, at, arr) =>
                      k.phase = ph /\ k.arr = arr
                BY <3>2 DEF Becomes
            <4>3. CASE ReuseReply(j)
                <5>0. PICK F \in Found(j) : \E i :
                          Becomes(j, i, "open", j.at + 1,
                              j.arr \cup ReusedFrames(F, j.at, Cardinality(j.arr)))
                    BY <1>1, <4>3, WorkerShape
                <5>1. k.arr = j.arr \cup ReusedFrames(F, j.at, Cardinality(j.arr))
                    BY <4>2, <5>0
                <5>2. r \in ZipNames(j.arr) \/ r = j.at
                    BY <2>1, <5>1 DEF ZipNames, ReusedFrames
                <5>3. Working(j) /\ j.at \in ZipNames(j.known)
                    BY <4>3 DEF ReuseReply, Working
                <5>4. j.known = frames[t]
                    BY <1>7, <2>1, <4>1, <5>3 DEF Sole, TakenOver
                <5> QED
                    BY <2>1, <4>1, <5>2, <5>3, <5>4 DEF Needs
            <4>4. CASE FetchReply(j) \/ FetchBadEntry(j)
                <5>0. \E i : Becomes(j, i, "open", j.at + 1,
                          j.arr \cup FetchedFrames(j.at, Cardinality(j.arr)))
                    BY <1>1, <4>4, WorkerShape
                <5>1. k.arr = j.arr \cup FetchedFrames(j.at, Cardinality(j.arr))
                    BY <4>2, <5>0
                <5>2. r \in ZipNames(j.arr) \/ r = j.at
                    BY <2>1, <5>1 DEF ZipNames, FetchedFrames
                <5>3. Working(j)
                    BY <4>4 DEF FetchReply, FetchBadEntry, Working
                <5>4. ~FetchBadEntry(j)
                    <6>1. "badEntry" \notin hazards'[t]
                        BY DEF NearlyClean
                    <6> QED
                        BY <1>1, <2>1, <4>1, <6>1 DEF FetchBadEntry, Meets, TypeInv,
                           TypeOK
                <5> QED
                    BY <1>5, <2>1, <4>1, <4>4, <5>2, <5>3, <5>4 DEF Needs
            <4>5. CASE OpenFolder(j) \/ FetchCorrupt(j)
                <5>1. k.arr = j.arr
                    BY <1>1, <4>2, <4>5, WorkerShape
                <5>2. Working(j)
                    BY <4>5 DEF OpenFolder, FetchCorrupt, Working
                <5> QED
                    BY <2>1, <4>1, <5>1, <5>2 DEF Needs
            <4>6. CASE FetchNothing(j)
                <5>1. k.arr = {}
                    BY <1>1, <4>2, <4>6, WorkerShape
                <5> QED
                    BY <2>1, <5>1 DEF ZipNames
            <4>7. CASE Network(j) \/ PostSave(j) \/ PostDid(j) \/ PostFail(j)
                <5>1. k.phase \in {"answered", "notify", "clear"}
                    BY <1>1, <4>2, <4>7, WorkerShape
                <5> QED
                    BY <4>1, <5>1
            <4>8. CASE EndDownload(j)
                BY <3>2, <4>8 DEF EndDownload, Ends
            <4> QED
                BY <4>3, <4>4, <4>5, <4>6, <4>7, <4>8 DEF Worker
        <3> QED
            BY <3>1, <3>2
    <2>2. ASSUME NEW b \in SavesOf(t)', r \in ZipNames(b.arr)
          PROVE  Needs(t, r)
        BY <1>3, <1>4, <2>2 DEF Needs
    <2> QED
        BY <1>2, <2>1, <2>2 DEF NeedsNext, Needs
<1>9. CASE OpenFolder(j) /\ t = j.twyst /\ r = j.at
    <2>1. Working(j) /\ WorkerOf(j, t) /\ j.at \notin ZipNames(j.known)
        BY <1>9 DEF OpenFolder, Working, WorkerOf, WorkerPhases
    <2>2. r \notin ZipNames(frames[t]) /\ SavesOf(t) = {}
        BY <1>7, <1>9, <2>1 DEF Sole, TakenOver
    <2>3. \A i \in jobs : i.twyst = t /\ Working(i) => i = j
        BY <1>7, <2>1 DEF Sole, WorkerOf, Working, WorkerPhases
    <2>4. r \notin ZipNames(j.arr)
        BY <1>1, <1>9 DEF ZipNames
    <2>5. \A l \in localReplies : l.twyst # t
        BY <1>7, <2>1 DEF NumberInv, AloneInv, Alone, Downloading, WorkerOf
    <2>6. ~Needs(t, r)
        BY <2>2, <2>3, <2>4, <2>5 DEF Needs
    <2> QED
        BY <1>8, <2>6
<1>10. CASE ~(OpenFolder(j) /\ t = j.twyst /\ r = j.at)
    <2>1. <<t, r>> \in files => <<t, r>> \in files'
        BY <1>2, <1>5, <1>6, <1>10
    <2> QED
        BY <1>8, <2>1
<1> QED
    BY <1>9, <1>10
\* A twyst of which nothing new is in use, and no file is gone.
LEMMA FilesStay ==
    ASSUME NEW t, NEW r, NeedsNext(t, r),
           \A f \in frames'[t] : f \in frames[t],
           \A k \in jobs' : k.twyst = t /\ Working(k) =>
               \E j \in jobs : j.twyst = t /\ Working(j) /\ k.arr = j.arr,
           \A b \in SavesOf(t)' : b \in SavesOf(t),
           \A m \in localReplies' :
               m.twyst = t /\ m.phase \in {"read", "commit"} =>
                   \E l \in localReplies :
                       /\ l.twyst = t /\ l.phase \in {"read", "commit"}
                       /\ l.reply = m.reply
    PROVE  Needs(t, r)
<1>1. r \in ZipNames(frames'[t]) => r \in ZipNames(frames[t])
    BY DEF ZipNames
<1> QED
    BY <1>1 DEF Needs, NeedsNext

LEMMA FilesMainBlock ==
    ASSUME NumberInv, FilesInv, [Next]_vars, MainBlock
    PROVE  FilesInv'
<1>1. TypeInv
    BY DEF NumberInv
<1>2. /\ First \in Blocks /\ Blocks = ToSet(Rest) \cup {First}
      /\ First.twyst \in Twysts /\ localReplies' = localReplies
      /\ \/ \E j \in jobs : \E c : EndsWith(j, c)
         \/ \E j \in jobs : \E k : BeginsAs(j, k)
         \/ Saves
         \/ Delivers
    BY <1>1, MainShape
<1> SUFFICES ASSUME NEW t \in Twysts, NearlyClean(t)', NEW r, NeedsNext(t, r)
             PROVE  Needs(t, r) /\ files' = files
    BY <1>1, FilesAreNext
<1>3. ASSUME NEW j \in jobs, NEW c, EndsWith(j, c)
      PROVE  Needs(t, r) /\ files' = files
    <2>1. jobs' \subseteq jobs /\ frames' = frames /\ files' = files
        BY <1>3 DEF EndsWith
    <2>2. \A b \in SavesOf(t)' : b \in SavesOf(t)
        BY <1>2, <1>3 DEF EndsWith, SavesOf
    <2> QED
        BY <1>2, <2>1, <2>2, FilesStay
<1>4. ASSUME NEW j \in jobs, NEW k, BeginsAs(j, k)
      PROVE  Needs(t, r) /\ files' = files
    <2>1. /\ frames' = frames /\ files' = files
          /\ \A i \in jobs' : i \in jobs \/ i = k
          /\ k.arr = j.arr /\ j.phase = "answered"
        BY <1>4 DEF BeginsAs
    <2>2. \A b \in SavesOf(t)' : b \in SavesOf(t)
        BY <1>2, <1>4 DEF BeginsAs, SavesOf
    <2>3. k.arr = {}
        BY <2>1 DEF NumberInv, SoundInv, JobSound
    <2>4. \A i \in jobs' : r \in ZipNames(i.arr) => i \in jobs
        BY <2>1, <2>3 DEF ZipNames
    <2> QED
        BY <1>2, <2>1, <2>2, <2>4 DEF Needs, NeedsNext
<1>5. CASE Saves
    <2>1. /\ jobs' = jobs /\ files' = files
          /\ frames'[t] = IF t = First.twyst THEN First.arr ELSE frames[t]
          /\ First.kind = "save"
        BY <1>5 DEF Saves
    <2>2. \A b \in SavesOf(t)' : b \in SavesOf(t)
        BY <1>2, <1>5 DEF Saves, SavesOf
    <2>3. t = First.twyst => First \in SavesOf(t)
        BY <1>2, <2>1 DEF SavesOf
    <2> QED
        BY <1>2, <2>1, <2>2, <2>3 DEF Needs, NeedsNext
<1>6. CASE Delivers
    <2>1. jobs' = jobs /\ frames' = frames /\ files' = files
        BY <1>6 DEF Delivers
    <2>2. \A b \in SavesOf(t)' : b \in SavesOf(t)
        BY <1>2, <1>6 DEF Delivers, SavesOf
    <2> QED
        BY <1>2, <2>1, <2>2, FilesStay
<1> QED
    BY <1>2, <1>3, <1>4, <1>5, <1>6

LEMMA FilesReplyThread ==
    ASSUME TypeInv, FilesInv, [Next]_vars, NEW l \in localReplies, ReplyThread(l)
    PROVE  FilesInv'
<1>1. /\ l.twyst \in Twysts /\ l.reply \in Replies
      /\ jobs' = jobs /\ Blocks' = Blocks
    BY ReplyLeaves
<1>2. \A t : SavesOf(t)' = SavesOf(t)
    BY <1>1 DEF SavesOf
<1> SUFFICES ASSUME NEW t \in Twysts, NearlyClean(t)', NEW r, NeedsNext(t, r)
             PROVE  \/ <<t, r>> \in files'
                    \/ Needs(t, r) /\ (<<t, r>> \in files => <<t, r>> \in files')
    BY FilesAreNext
<1>3. CASE MoveReplyFiles(l)
    <2>1. frames' = frames /\ files' = files \cup {<<l.twyst, l.reply>>}
        BY <1>3 DEF MoveReplyFiles, recordVars
    <2>2. PICK m : Advances(l, m, "read", l.saved, l.total)
        BY <1>3, ReplyShape
    <2> QED
        BY <1>1, <1>2, <2>1, <2>2 DEF Advances, Needs, NeedsNext
<1>4. CASE ReadRecord(l)
    <2>1. frames' = frames /\ files' = files /\ l.phase = "read"
        BY <1>4 DEF ReadRecord, storeVars, recordVars
    <2>2. PICK m : Advances(l, m, "commit", "live", total[l.twyst])
        BY <1>4, ReplyShape
    <2> QED
        BY <1>1, <1>2, <2>1, <2>2 DEF Advances, Needs, NeedsNext
<1>5. CASE AddReplySuccess(l)
    <2>1. frames' = frames /\ files' = files
        BY <1>5 DEF AddReplySuccess, storeVars, recordVars
    <2>2. PICK m : Advances(l, m, "move", l.saved, l.total)
        BY <1>5, ReplyShape
    <2> QED
        BY <1>1, <1>2, <2>1, <2>2 DEF Advances, Needs, NeedsNext
<1>6. CASE AddReplyFails(l) \/ DropReply(l)
    <2>1. frames' = frames /\ files' = files /\ localReplies' = localReplies \ {l}
        BY <1>6 DEF AddReplyFails, DropReply, storeVars, recordVars
    <2> QED
        BY <1>1, <1>2, <2>1 DEF Needs, NeedsNext
<1>7. CASE CommitReply(l)
    <2>1. /\ files' = files /\ localReplies' = localReplies \ {l}
          /\ l.phase = "commit"
        BY <1>7 DEF CommitReply
    <2>2. frames'[t] = IF t = l.twyst
                       THEN frames[t]
                            \cup LocalFrames(l.reply, l.total, l.replyIndex)
                       ELSE frames[t]
        BY <1>7 DEF CommitReply, TypeInv, TypeOK
    <2>3. r \in ZipNames(frames'[t]) =>
              r \in ZipNames(frames[t]) \/ (t = l.twyst /\ r = l.reply)
        BY <2>2 DEF ZipNames, LocalFrames
    <2> QED
        BY <1>1, <1>2, <2>1, <2>3 DEF Needs, NeedsNext
<1> QED
    BY <1>3, <1>4, <1>5, <1>6, <1>7 DEF ReplyThread

LEMMA FilesDelete ==
    ASSUME TypeInv, FilesInv, [Next]_vars, NEW x \in Twysts, DeleteSavedTwyst(x)
    PROVE  FilesInv'
<1>1. /\ Blocks' = Blocks
      /\ \A t \in Twysts : frames'[t] = IF t = x THEN {} ELSE frames[t]
      /\ InFlight(x) => "deleted" \in hazards'[x]
      /\ \A t, r : t # x => (<<t, r>> \in files' <=> <<t, r>> \in files)
    BY DeleteShape
<1>2. /\ \A k \in jobs' : \E j \in jobs : k.twyst = j.twyst /\ (j.twyst # x => k = j)
      /\ \A m \in localReplies' : \E l \in localReplies :
             m.twyst = l.twyst /\ m.reply = l.reply /\ m.phase = l.phase
    BY OrphanShape
<1>3. \A t : SavesOf(t)' = SavesOf(t)
    BY <1>1 DEF SavesOf
<1> SUFFICES ASSUME NEW t \in Twysts, NearlyClean(t)', NEW r, NeedsNext(t, r)
             PROVE  Needs(t, r) /\ t # x
    BY <1>1, FilesAreNext
<1>4. CASE t = x
    <2>1. ~InFlight(t)
        BY <1>1, <1>4 DEF NearlyClean
    <2>2. /\ \A j \in jobs : j.twyst # t
          /\ SavesOf(t) = {}
          /\ \A l \in localReplies : l.twyst # t
        BY <2>1, InUse DEF SavesOf
    <2>3. r \notin ZipNames(frames'[t])
        BY <1>1, <1>4 DEF ZipNames
    <2> QED
        BY <1>2, <1>3, <2>2, <2>3 DEF NeedsNext
<1>5. CASE t # x
    BY <1>1, <1>2, <1>3, <1>5 DEF Needs, NeedsNext
<1> QED
    BY <1>4, <1>5

LEMMA FilesStep ==
    ASSUME NumberInv, RecordInv, FetchInv, SoleInv, FilesInv, [Next]_vars
    PROVE  FilesInv'
<1>1. TypeInv
    BY DEF NumberInv
<1>2. Blocks' = Blocks => \A t : SavesOf(t)' = SavesOf(t)
    BY DEF SavesOf
<1>3. CASE Idle
    <2>1. /\ jobs' = jobs /\ frames' = frames /\ Blocks' = Blocks
          /\ localReplies' = localReplies /\ files' = files
        BY <1>3 DEF Idle, Blocks
    <2>2. \A t, r : NeedsNext(t, r) => Needs(t, r)
        BY <1>2, <2>1 DEF Needs, NeedsNext
    <2> QED
        BY <1>1, <2>1, <2>2, FilesAreNext
<1>4. ASSUME NEW q \in Queues, StartDownload(q)
      PROVE  FilesInv'
    <2>1. /\ Blocks' = Blocks /\ frames' = frames /\ files' = files
          /\ localReplies' = localReplies
          /\ \A k \in jobs' : k \in jobs \/ k.phase = "request"
        BY <1>1, <1>4, StartShape DEF Blocks
    <2>2. \A t, r : NeedsNext(t, r) => Needs(t, r)
        BY <1>2, <2>1 DEF Needs, NeedsNext, Working
    <2> QED
        BY <1>1, <2>1, <2>2, FilesAreNext
<1>5. ASSUME NEW t \in Twysts, SendReply(t)
      PROVE  FilesInv'
    <2>1. /\ Blocks' = Blocks /\ frames' = frames /\ files' = files
          /\ jobs' = jobs
          /\ \A m \in localReplies' : m \in localReplies \/ m.phase = "sent"
        BY <1>1, <1>5, SendShape
    <2>2. \A x, r : NeedsNext(x, r) => Needs(x, r)
        BY <1>2, <2>1 DEF Needs, NeedsNext
    <2> QED
        BY <1>1, <2>1, <2>2, FilesAreNext
<1> QED
    BY <1>1, <1>3, <1>4, <1>5, StepKinds, FilesDelete, FilesWorker,
       FilesMainBlock, FilesReplyThread

-----------------------------------------------------------------------------
(* What a record promises                                                  *)

StoreInv ==
    /\ NumberInv /\ RecordInv /\ FetchInv /\ NewestInv
    /\ SoleInv /\ WholeInv /\ FilesInv

LEMMA StoreInit ==
    ASSUME Init
    PROVE  StoreInv
<1>1. /\ jobs = {} /\ localReplies = {} /\ mainQueue = <<>> /\ Blocks = {}
      /\ \A t \in Twysts : frames[t] = {}
    <2>1. ToSet(<<>>) = {}
        BY EmptySeq DEF ToSet
    <2> QED
        BY <2>1 DEF Init, Blocks
<1>2. NumberInv
    BY NumberInit
<1>3. RecordInv /\ FetchInv
    BY <1>1 DEF RecordInv, FetchInv
<1>4. NewestInv
    <2>1. 1 .. Len(<<>>) = {}
        BY EmptySeq
    <2> QED
        BY <1>1, <2>1 DEF NewestInv, Ordered
<1>5. SoleInv
    BY <1>1 DEF SoleInv, Sole, SavesOf
<1>6. WholeInv
    BY <1>1, NothingWhole DEF WholeInv
<1>7. FilesInv
    BY <1>1 DEF FilesInv, Needs, SavesOf, ZipNames
<1> QED
    BY <1>2, <1>3, <1>4, <1>5, <1>6, <1>7 DEF StoreInv

LEMMA StoreStep ==
    ASSUME StoreInv, [Next]_vars
    PROVE  StoreInv'
BY NumberStep, RecordStep, FetchStep, NewestStep, SoleStep, WholeStep, FilesStep
   DEF StoreInv, NumberInv

\* Every reply that a record shows is whole, and its files are on disk, for
\* any replies: ...
THEOREM PresenceTheorem == Spec => []RepliesPresent
<1>1. Init => StoreInv
    BY StoreInit
<1>2. StoreInv /\ [Next]_vars => StoreInv'
    BY StoreStep
<1>3. StoreInv => RepliesPresent
    BY DEF StoreInv, WholeInv, FilesInv, NearlyClean, Needs, Undisturbed, Whole,
       RepliesPresent, WholeReplies
<1> QED
    BY <1>1, <1>2, <1>3, PTL DEF Spec

\* No step takes a reply from the record of a calm twyst, unless it deletes
\* the record while nobody has to do with it.
LEMMA NothingLost ==
    ASSUME StoreInv, [Next]_vars, NEW t \in Twysts, Calm(t)',
           t \in stored' \/ InFlight(t)
    PROVE  ZipNames(frames[t]) \subseteq ZipNames(frames'[t])
<1>1. TypeInv /\ Calm(t) /\ Sole(t)
    BY CalmStep DEF StoreInv, NumberInv, SoleInv
<1>2. CASE frames'[t] = frames[t]
    BY <1>2
<1>3. ASSUME NEW x \in Twysts, DeleteSavedTwyst(x)
      PROVE  frames'[t] = frames[t]
    BY <1>1, <1>3, DeleteShape DEF Calm
<1>4. CASE MainBlock
    <2>1. First \in Blocks /\ (Saves \/ frames' = frames)
        BY <1>1, <1>4, MainShape DEF EndsWith, BeginsAs, Delivers
    <2>2. CASE Saves
        <3>1. frames'[t] = IF t = First.twyst THEN First.arr ELSE frames[t]
            BY <2>2 DEF Saves
        <3>2. t = First.twyst => First \in SavesOf(t)
            BY <2>1, <2>2 DEF Saves, SavesOf
        <3> QED
            BY <1>1, <3>1, <3>2 DEF Sole
    <2> QED
        BY <1>2, <2>1, <2>2
<1>5. ASSUME NEW l \in localReplies, ReplyThread(l)
      PROVE  frames[t] \subseteq frames'[t]
    BY <1>1, <1>5, ReplyLeaves
<1>6. frames'[t] = frames[t] \/ MainBlock \/ frames[t] \subseteq frames'[t]
    BY <1>1, <1>3, <1>5, StepKinds, StartShape, SendShape, WorkerLeaves DEF Idle
<1> QED
    BY <1>2, <1>4, <1>6 DEF ZipNames

\* A record that is neither deleted nor hit by a hazard never loses a reply.
THEOREM NothingLostTheorem == Spec => NoReplyLost
<1>1. Init => StoreInv
    BY StoreInit
<1>2. StoreInv /\ [Next]_vars => StoreInv'
    BY StoreStep
<1>3. ASSUME StoreInv, [Next]_vars
      PROVE  [\A t \in Twysts :
                 t \in stored /\ t \in stored'
                     /\ hazards'[t] \subseteq {"corrupt", "badEntry"}
                 => ZipNames(frames[t]) \subseteq ZipNames(frames'[t])]_vars
    BY <1>3, NothingLost DEF Calm
<1> QED
    BY <1>1, <1>2, <1>3, PTL DEF Spec, NoReplyLost

-----------------------------------------------------------------------------
(* What a notification promises                                            *)

\* The frames A show every reply up to the n-th.
Full(n, A) == 1 .. n \subseteq ZipNames(A)

\* The save c puts every reply that the notification b announces into the
\* record.
Covers(c, b) == c.kind = "save" /\ c.twyst = b.twyst /\ Full(b.list, c.arr)

\* Each notification among the blocks s finds its replies in the record, or
\* behind a save that will put them there, if its twyst met no hazard.
Told(s, F, H) ==
    \A i \in 1 .. Len(s) :
        s[i].kind = "did" /\ H[s[i].twyst] = {} =>
            \/ Full(s[i].list, F[s[i].twyst])
            \/ \E k \in 1 .. i - 1 : Covers(s[k], s[i])

LEMMA ToldLater ==
    ASSUME NEW s \in Seq(Block), NEW F, NEW H, Told(s, F, H), NEW G, NEW I,
           \A b \in ToSet(s) : I[b.twyst] = {} =>
               /\ H[b.twyst] = {}
               /\ ZipNames(F[b.twyst]) \subseteq ZipNames(G[b.twyst])
    PROVE  Told(s, G, I)
<1>1. \A i \in 1 .. Len(s) : s[i] \in ToSet(s)
    BY InToSet
<1> QED
    BY <1>1 DEF Told, Full

LEMMA ToldAppend ==
    ASSUME NEW s \in Seq(Block), NEW b \in Block, NEW F, NEW H, Told(s, F, H),
           b.kind = "did" /\ H[b.twyst] = {} =>
               \/ Full(b.list, F[b.twyst])
               \/ \E c \in ToSet(s) : Covers(c, b)
    PROVE  Told(Append(s, b), F, H)
<1>1. /\ Len(Append(s, b)) = Len(s) + 1
      /\ \A i \in 1 .. Len(s) : Append(s, b)[i] = s[i]
      /\ Append(s, b)[Len(s) + 1] = b
    BY AppendProperties
<1>2. Len(s) \in Nat
    BY LenProperties
<1> DEFINE u == Append(s, b)
<1> HIDE DEF u
<1> SUFFICES ASSUME NEW i \in 1 .. Len(u), u[i].kind = "did", H[u[i].twyst] = {}
             PROVE  \/ Full(u[i].list, F[u[i].twyst])
                    \/ \E k \in 1 .. i - 1 : Covers(u[k], u[i])
    BY DEF Told, u
<1>3. CASE i \in 1 .. Len(s)
    <2>1. u[i] = s[i] /\ \A k \in 1 .. i - 1 : u[k] = s[k]
        BY <1>1, <1>2, <1>3 DEF u
    <2> QED
        BY <1>3, <2>1 DEF Told
<1>4. CASE i = Len(s) + 1
    <2>1. u[i] = b /\ \A k \in 1 .. i - 1 : u[k] = s[k]
        BY <1>1, <1>2, <1>4 DEF u
    <2>2. ASSUME NEW c \in ToSet(s), Covers(c, b)
          PROVE  \E k \in 1 .. i - 1 : Covers(u[k], u[i])
        <3>1. PICK k \in 1 .. Len(s) : s[k] = c
            BY InToSet
        <3> QED
            BY <1>2, <1>4, <2>1, <2>2, <3>1
    <2> QED
        BY <2>1, <2>2
<1> QED
    BY <1>1, <1>2, <1>3, <1>4 DEF u

LEMMA ToldTail ==
    ASSUME NEW s \in Seq(Block), s # <<>>, NEW F, NEW H, Told(s, F, H),
           \A b \in ToSet(s) : H[b.twyst] = {} /\ Covers(Head(s), b)
               => Full(b.list, F[b.twyst])
    PROVE  Told(Tail(s), F, H)
<1>1. /\ Tail(s) \in Seq(Block) /\ Len(Tail(s)) = Len(s) - 1
      /\ \A i \in 1 .. Len(Tail(s)) : Tail(s)[i] = s[i + 1]
      /\ Head(s) = s[1]
    BY HeadTailProperties
<1>2. Len(s) \in Nat /\ Len(s) >= 1
    BY LenProperties, EmptySeq
<1> DEFINE u == Tail(s)
<1> HIDE DEF u
<1> SUFFICES ASSUME NEW i \in 1 .. Len(u), u[i].kind = "did", H[u[i].twyst] = {}
             PROVE  \/ Full(u[i].list, F[u[i].twyst])
                    \/ \E k \in 1 .. i - 1 : Covers(u[k], u[i])
    BY DEF Told, u
<1>3. i + 1 \in 1 .. Len(s) /\ u[i] = s[i + 1] /\ u[i] \in ToSet(s)
    <2>1. i + 1 \in 1 .. Len(s) /\ u[i] = s[i + 1]
        BY <1>1, <1>2 DEF u
    <2> QED
        BY <2>1, InToSet
<1>4. \/ Full(u[i].list, F[u[i].twyst])
      \/ \E k \in 1 .. (i + 1) - 1 : Covers(s[k], u[i])
    BY <1>3 DEF Told
<1>5. ASSUME NEW k \in 1 .. (i + 1) - 1, Covers(s[k], u[i])
      PROVE  \/ Full(u[i].list, F[u[i].twyst])
             \/ \E n \in 1 .. i - 1 : Covers(u[n], u[i])
    <2>1. CASE k = 1
        BY <1>1, <1>3, <1>5, <2>1
    <2>2. CASE k # 1
        <3>1. k - 1 \in 1 .. i - 1 /\ k - 1 \in 1 .. Len(u) /\ (k - 1) + 1 = k
            BY <1>1, <1>2, <2>2 DEF u
        <3>2. u[k - 1] = s[k]
            BY <1>1, <3>1 DEF u
        <3> QED
            BY <1>5, <3>1, <3>2
    <2> QED
        BY <2>1, <2>2
<1> QED
    BY <1>4, <1>5

\* A worker has collected every reply that it has passed, or nothing; and
\* when it is about to notify, they are saved or their save is under way.
Collecting(j) ==
    Working(j) => \/ Full(j.at - 1, j.arr)
                  \/ j.arr = {} /\ (j.at = 1 \/ j.at > j.list)

Announces(j) ==
    j.phase = "notify" =>
        \/ Full(j.list, frames[j.twyst])
        \/ \E b \in SavesOf(j.twyst) : Full(j.list, b.arr)

CompleteInv ==
    /\ \A j \in jobs : hazards[j.twyst] = {} => Collecting(j) /\ Announces(j)
    /\ Told(mainQueue, frames, hazards)

AnnouncesNext(j) ==
    j.phase = "notify" =>
        \/ Full(j.list, frames'[j.twyst])
        \/ \E b \in SavesOf(j.twyst)' : Full(j.list, b.arr)

LEMMA CompleteIsNext ==
    ASSUME \A j \in jobs' : hazards'[j.twyst] = {} =>
               Collecting(j) /\ AnnouncesNext(j),
           Told(mainQueue', frames', hazards')
    PROVE  CompleteInv'
<1>1. \A j \in jobs' : (Collecting(j) /\ Announces(j))' <=>
          Collecting(j) /\ AnnouncesNext(j)
    BY DEF Collecting, Announces, AnnouncesNext, Working
<1> QED
    BY <1>1 DEF CompleteInv
\* A twyst that meets no hazard, as long as somebody has to do with it.
LEMMA CleanStep ==
    ASSUME StoreInv, [Next]_vars, NEW t \in Twysts, hazards'[t] = {}
    PROVE  /\ hazards[t] = {} /\ Calm(t) /\ Sole(t) /\ TypeInv
           /\ InFlight(t) => ZipNames(frames[t]) \subseteq ZipNames(frames'[t])
<1>1. TypeInv /\ Calm(t)'
    BY DEF StoreInv, NumberInv, Calm
<1>2. hazards[t] = {}
    BY <1>1, HazardsGrow
<1> QED
    BY <1>1, <1>2, NothingLost, CalmStep DEF StoreInv, SoleInv

LEMMA JobsAndBlocksInFlight ==
    ASSUME TypeInv
    PROVE  /\ \A j \in jobs : InFlight(j.twyst)
           /\ \A b \in Blocks : InFlight(b.twyst)
<1>1. mainQueue \in Seq(Block)
    BY DEF TypeInv, TypeOK
<1> QED
    BY <1>1, InToSet DEF InFlight, Blocks

\* A turn of the loop leaves no gap, ...
LEMMA CollectingTurn ==
    ASSUME StoreInv, CompleteInv, [Next]_vars,
           NEW j \in jobs, NEW k \in jobs', k \notin jobs, Worker(j),
           hazards'[j.twyst] = {}
    PROVE  Collecting(k)
<1>1. /\ TypeInv /\ j \in Job /\ j.at \in Nat \ {0} /\ j.list \in Nat
      /\ j.twyst \in Twysts /\ Cardinality(j.arr) \in Nat
      /\ j.at <= j.list => j.at \in Replies
    <2>1. TypeInv
        BY DEF StoreInv, NumberInv
    <2>2. /\ j \in Job /\ j.at \in Nat \ {0} /\ j.list \in Nat
          /\ j.twyst \in Twysts /\ j.list <= MaxReplies
        BY <2>1, MaxRepliesAssumption DEF TypeInv, TypeOK, Job
    <2>3. j.at <= j.list => j.at \in Replies
        BY <2>2, MaxRepliesAssumption DEF Replies
    <2> QED
        BY <2>1, <2>2, <2>3, ArrLength
<1>2. hazards[j.twyst] = {} /\ Calm(j.twyst) /\ Sole(j.twyst)
    BY <1>1, CleanStep
<1>3. Collecting(j)
    BY <1>2 DEF CompleteInv
<1>4. \A i, ph, at, arr : Becomes(j, i, ph, at, arr) =>
          k.list = j.list /\ k.at = at /\ k.arr = arr /\ k.phase = ph
    BY DEF Becomes
<1>5. ASSUME NEW N, Working(j), j.at <= j.list, k.at = j.at + 1,
             k.arr = j.arr \cup N, N # {}, \A f \in N : f.reply = j.at
      PROVE  Collecting(k)
    <2>1. Full(j.at - 1, j.arr)
        BY <1>1, <1>3, <1>5 DEF Collecting, Full
    <2>2. ZipNames(j.arr) \subseteq ZipNames(k.arr) /\ j.at \in ZipNames(k.arr)
        BY <1>5 DEF ZipNames
    <2>3. k.at - 1 = j.at /\ \A r \in 1 .. j.at : r \in 1 .. j.at - 1 \/ r = j.at
        BY <1>1, <1>5
    <2> QED
        BY <2>1, <2>2, <2>3 DEF Collecting, Full
<1>6. CASE ReuseReply(j)
    <2>1. PICK F \in Found(j) : \E i :
              Becomes(j, i, "open", j.at + 1,
                      j.arr \cup ReusedFrames(F, j.at, Cardinality(j.arr)))
        BY <1>1, <1>6, WorkerShape
    <2>2. Working(j) /\ j.at <= j.list /\ j.at \in ZipNames(j.known)
        BY <1>6 DEF ReuseReply, Working
    <2>3. j.saved = "live"
        BY <1>1, <1>2, <2>2 DEF StoreInv, RecordInv, ZipNames, Calm, Job
    <2>4. F = j.known
        BY <1>2, <2>1, <2>2, <2>3 DEF Found, Sole, TakenOver
    <2> DEFINE N == ReusedFrames(F, j.at, Cardinality(j.arr))
    <2>5. \A f \in N : f.reply = j.at
        BY DEF ReusedFrames
    <2>6. N # {}
        BY <2>2, <2>4 DEF ReusedFrames, FramesOf, ZipNames
    <2> HIDE DEF N
    <2>7. k.at = j.at + 1 /\ k.arr = j.arr \cup N
        BY <1>4, <2>1 DEF N
    <2> QED
        BY <1>5, <2>2, <2>5, <2>6, <2>7
<1>7. CASE FetchReply(j)
    <2>1. Working(j) /\ j.at <= j.list
        BY <1>1, <1>7 DEF FetchReply, TypeInv, WorkerInList, Working
    <2>2. \E i : Becomes(j, i, "open", j.at + 1,
                     j.arr \cup FetchedFrames(j.at, Cardinality(j.arr)))
        BY <1>1, <1>7, WorkerShape
    <2> DEFINE N == FetchedFrames(j.at, Cardinality(j.arr))
    <2>3. \A f \in N : f.reply = j.at
        BY DEF FetchedFrames
    <2>4. N # {}
        <3>1. FrameCount[j.at] \in Nat \ {0}
            BY <1>1, <2>1, FrameCountAssumption DEF Replies
        <3>2. 0 \in 0 .. FrameCount[j.at] - 1
            BY <3>1
        <3> QED
            BY <3>2 DEF FetchedFrames
    <2> HIDE DEF N
    <2>5. k.at = j.at + 1 /\ k.arr = j.arr \cup N
        BY <1>4, <2>2 DEF N
    <2> QED
        BY <1>5, <2>1, <2>3, <2>4, <2>5
<1>8. CASE FetchBadEntry(j) \/ FetchCorrupt(j)
    BY <1>1, <1>8 DEF FetchBadEntry, FetchCorrupt, Meets, TypeInv, TypeOK
<1>9. CASE FetchNothing(j)
    <2>1. k.at = j.list + 1 /\ k.arr = {} /\ k.list = j.list
        BY <1>1, <1>4, <1>9, WorkerShape
    <2> QED
        BY <1>1, <2>1 DEF Collecting
<1>10. CASE OpenFolder(j)
    <2>1. k.at = j.at /\ k.arr = j.arr /\ k.list = j.list
        BY <1>1, <1>4, <1>10, WorkerShape
    <2>2. Working(j)
        BY <1>10 DEF OpenFolder, Working
    <2> QED
        BY <1>3, <2>1, <2>2 DEF Collecting
<1>11. CASE PostSave(j) \/ PostDid(j) \/ PostFail(j)
    <2>1. k.phase \in {"notify", "clear"}
        BY <1>1, <1>4, <1>11, WorkerShape
    <2> QED
        BY <2>1 DEF Collecting, Working
<1>12. CASE EndDownload(j)
    BY <1>12 DEF EndDownload, Ends
<1> QED
    BY <1>6, <1>7, <1>8, <1>9, <1>10, <1>11, <1>12 DEF Worker

LEMMA AnnouncesStays ==
    ASSUME NEW j, Announces(j),
           ZipNames(frames[j.twyst]) \subseteq ZipNames(frames'[j.twyst]),
           \A b \in SavesOf(j.twyst) :
               b \in SavesOf(j.twyst)' \/ frames'[j.twyst] = b.arr
    PROVE  AnnouncesNext(j)
BY DEF Announces, AnnouncesNext, Full

\* ... so that the worker can announce what it has saved.
LEMMA CompleteWorker ==
    ASSUME StoreInv, CompleteInv, [Next]_vars,
           NEW j \in jobs, Network(j) \/ Worker(j)
    PROVE  CompleteInv'
<1>1. /\ TypeInv /\ frames' = frames /\ j \in Job
      /\ \A i \in jobs : i.twyst \in Twysts
      /\ \A b \in Blocks : b.twyst \in Twysts
    BY WorkerLeaves, OfTwysts DEF StoreInv, NumberInv
<1>2. \A t \in Twysts : hazards'[t] = {} => hazards[t] = {}
    BY CleanStep
<1>3. \/ mainQueue' = mainQueue /\ Blocks' = Blocks /\ ~PostSave(j)
      \/ \E b : /\ Posted(b) /\ b.twyst = j.twyst
                /\ b.kind = "did" => PostDid(j) /\ b.list = j.list
                /\ PostSave(j) => b.kind = "save" /\ b.arr = j.arr
    <2>1. PostSave(j) => ~Network(j) /\ ~PostDid(j) /\ ~PostFail(j)
        BY DEF Network, RepliesArrive, RepliesFail, Answer, PostDid, PostFail,
           PostSave, LoopDone
    <2> QED
        BY <1>1, <2>1, PostShape
<1>4. \A t : \A b \in SavesOf(t) : b \in SavesOf(t)'
    BY <1>3 DEF SavesOf, Posted
<1>5. Told(mainQueue', frames', hazards')
    <2>1. mainQueue \in Seq(Block)
        BY <1>1 DEF TypeInv, TypeOK
    <2>2. Told(mainQueue, frames', hazards')
        <3>1. \A b \in ToSet(mainQueue) : hazards'[b.twyst] = {} =>
                  hazards[b.twyst] = {}
            BY <1>1, <1>2 DEF Blocks
        <3> QED
            BY <1>1, <2>1, <3>1, ToldLater DEF CompleteInv
    <2>3. ASSUME NEW b, Posted(b), b.twyst = j.twyst,
                 b.kind = "did" => PostDid(j) /\ b.list = j.list
          PROVE  Told(mainQueue', frames', hazards')
        <3>1. ASSUME b.kind = "did", hazards'[b.twyst] = {}
              PROVE  \/ Full(b.list, frames'[b.twyst])
                     \/ \E c \in ToSet(mainQueue) : Covers(c, b)
            <4>1. Announces(j) /\ j.phase = "notify"
                BY <1>1, <1>2, <2>3, <3>1 DEF CompleteInv, PostDid
            <4> QED
                BY <1>1, <2>3, <3>1, <4>1 DEF Announces, SavesOf, Covers, Blocks
        <3> QED
            BY <2>1, <2>2, <2>3, <3>1, ToldAppend DEF Posted
    <2> QED
        BY <1>3, <2>2, <2>3
<1>6. ASSUME NEW k \in jobs', k \in jobs, hazards'[k.twyst] = {}
      PROVE  Collecting(k) /\ AnnouncesNext(k)
    <2>1. Collecting(k) /\ Announces(k)
        BY <1>1, <1>2, <1>6 DEF CompleteInv
    <2> QED
        BY <1>1, <1>4, <2>1, AnnouncesStays
<1>7. ASSUME NEW k \in jobs', k \notin jobs, hazards'[k.twyst] = {}
      PROVE  Collecting(k) /\ AnnouncesNext(k)
    <2>1. k.twyst = j.twyst
        BY <1>1, <1>7, WorkerGoesOn
    <2>2. CASE Network(j)
        <3>1. k.phase = "answered"
            BY <1>1, <1>7, <2>2, WorkerShape DEF Becomes
        <3> QED
            BY <3>1 DEF Collecting, AnnouncesNext, Working
    <2>3. CASE Worker(j)
        <3>1. Collecting(k)
            BY <1>7, <2>1, <2>3, CollectingTurn
        <3>2. CASE PostSave(j)
            <4>1. PICK i : Becomes(j, i, "notify", j.at, j.arr)
                BY <1>1, <3>2, WorkerShape
            <4>2. k.list = j.list
                BY <1>7, <4>1 DEF Becomes
            <4>3. Collecting(j) /\ Working(j) /\ j.arr # {} /\ j.at > j.list
                BY <1>1, <1>2, <1>7, <2>1, <3>2
                   DEF CompleteInv, PostSave, LoopDone, Working
            <4>4. 1 .. j.list \subseteq 1 .. j.at - 1
                BY <1>1, <4>3, MaxRepliesAssumption DEF Job
            <4>5. Full(j.list, j.arr)
                BY <4>3, <4>4 DEF Collecting, Full
            <4>6. PICK b : /\ Posted(b) /\ b.twyst = j.twyst
                           /\ b.kind = "save" /\ b.arr = j.arr
                BY <1>3, <3>2
            <4>7. b \in SavesOf(k.twyst)'
                BY <2>1, <4>6 DEF SavesOf, Posted
            <4> QED
                BY <3>1, <4>2, <4>5, <4>6, <4>7 DEF AnnouncesNext
        <3>3. CASE ~PostSave(j)
            <4>1. k.phase # "notify"
                BY <1>1, <1>7, <2>3, <3>3, WorkerShape
                   DEF Becomes, Worker, EndDownload, Ends
            <4> QED
                BY <3>1, <4>1 DEF AnnouncesNext
        <3> QED
            BY <3>2, <3>3
    <2> QED
        BY <2>2, <2>3
<1> QED
    BY <1>5, <1>6, <1>7, CompleteIsNext
\* "All replies are downloaded" is found by comparing two counts: as no
\* saved reply is missing from the list, the list has no other.
LEMMA CountsSuffice ==
    ASSUME NEW A, ZipNames(A) \subseteq 1 .. MaxReplies,
           NEW n \in Nat, \A f \in A : f.reply <= n,
           n <= Cardinality(ZipNames(A))
    PROVE  Full(n, A)
<1>1. \A r \in ZipNames(A) : r <= n
    BY DEF ZipNames
<1>2. ZipNames(A) \in SUBSET (1 .. n)
    BY <1>1, MaxRepliesAssumption
<1>3. IsFiniteSet(1 .. n) /\ Cardinality(1 .. n) = n
    BY FS_Interval
<1>4. /\ Cardinality(ZipNames(A)) <= n /\ Cardinality(ZipNames(A)) \in Nat
      /\ n = Cardinality(ZipNames(A)) => 1 .. n = ZipNames(A)
    BY <1>2, <1>3, FS_Subset, FS_CardinalityType
<1> QED
    BY <1>4 DEF Full

LEMMA CompleteMainBlock ==
    ASSUME StoreInv, CompleteInv, [Next]_vars, MainBlock
    PROVE  CompleteInv'
<1>1. /\ TypeInv
      /\ \A i \in jobs : i.twyst \in Twysts /\ InFlight(i.twyst)
      /\ \A b \in Blocks : b.twyst \in Twysts /\ InFlight(b.twyst)
    BY OfTwysts, JobsAndBlocksInFlight DEF StoreInv, NumberInv
<1>2. \A t \in Twysts : hazards'[t] = {} =>
          /\ hazards[t] = {} /\ Sole(t) /\ Calm(t)
          /\ InFlight(t) => ZipNames(frames[t]) \subseteq ZipNames(frames'[t])
    BY CleanStep
<1>3. /\ First \in Block /\ Rest \in Seq(Block) /\ First.twyst \in Twysts
      /\ First \in Blocks /\ Blocks = ToSet(Rest) \cup {First}
      /\ \/ \E j \in jobs : \E c : EndsWith(j, c)
         \/ \E j \in jobs : \E k : BeginsAs(j, k)
         \/ Saves
         \/ Delivers
    BY <1>1, MainShape
<1>4. mainQueue \in Seq(Block) /\ mainQueue # <<>>
    BY <1>1 DEF TypeInv, TypeOK, MainBlock
<1>5. /\ \A b \in Blocks : hazards'[b.twyst] = {} =>
            /\ hazards[b.twyst] = {}
            /\ ZipNames(frames[b.twyst]) \subseteq ZipNames(frames'[b.twyst])
      /\ Told(mainQueue, frames', hazards')
    <2>1. \A b \in Blocks : hazards'[b.twyst] = {} =>
              /\ hazards[b.twyst] = {}
              /\ ZipNames(frames[b.twyst]) \subseteq ZipNames(frames'[b.twyst])
        BY <1>1, <1>2
    <2> QED
        BY <1>4, <2>1, ToldLater DEF CompleteInv, Blocks
<1>6. ASSUME First.kind # "save" \/ Saves
      PROVE  Told(Rest, frames', hazards')
    <2>1. ASSUME NEW b \in Blocks, Covers(First, b)
          PROVE  Full(b.list, frames'[b.twyst])
        <3>1. frames'[b.twyst] = First.arr
            BY <1>1, <1>6, <2>1 DEF Saves, Covers
        <3> QED
            BY <2>1, <3>1 DEF Covers
    <2> QED
        BY <1>4, <1>5, <2>1, ToldTail DEF Blocks, First, Rest
<1>7. ASSUME NEW j \in jobs, hazards'[j.twyst] = {},
             \A b \in SavesOf(j.twyst) :
                 b \in SavesOf(j.twyst)' \/ frames'[j.twyst] = b.arr
      PROVE  Collecting(j) /\ AnnouncesNext(j)
    <2>1. /\ Collecting(j) /\ Announces(j)
          /\ ZipNames(frames[j.twyst]) \subseteq ZipNames(frames'[j.twyst])
        BY <1>1, <1>2, <1>7 DEF CompleteInv
    <2> QED
        BY <1>7, <2>1, AnnouncesStays
<1>8. ASSUME First.kind # "save", ToSet(Rest) \subseteq Blocks', NEW t
      PROVE  \A b \in SavesOf(t) : b \in SavesOf(t)'
    BY <1>3, <1>8 DEF SavesOf
<1>9. ASSUME NEW j \in jobs, NEW c, EndsWith(j, c)
      PROVE  CompleteInv'
    <2>1. /\ First.kind \in {"list", "nil"} /\ jobs' \subseteq jobs
          /\ frames' = frames /\ hazards' = hazards /\ c \in Block
          /\ c.twyst = First.twyst /\ mainQueue' = Append(Rest, c)
          /\ ToSet(Rest) \subseteq Blocks'
        BY <1>9 DEF EndsWith
    <2>2. ASSUME c.kind = "did", hazards'[c.twyst] = {}
          PROVE  Full(c.list, frames'[c.twyst])
        <3>1. /\ c.list = First.list /\ First.kind = "list"
              /\ First.list <= Cardinality(ZipNames(frames[First.twyst]))
            BY <1>9, <2>2 DEF EndsWith, AllRepliesSaved
        <3>2. \A f \in frames[First.twyst] : f.reply <= First.list
            BY <1>2, <1>3, <2>1, <2>2, <3>1 DEF StoreInv, NewestInv, Newest, Calm
        <3>3. First.list \in Nat
            BY <1>3, MaxRepliesAssumption DEF Block
        <3>4. ZipNames(frames[First.twyst]) \subseteq 1 .. MaxReplies
            BY <1>1, <1>3 DEF TypeInv, TypeOK, FrameSet, Frame, Replies, ZipNames
        <3> QED
            BY <2>1, <3>1, <3>2, <3>3, <3>4, CountsSuffice
    <2>3. Told(Rest, frames', hazards')
        BY <1>6, <2>1
    <2>4. Told(mainQueue', frames', hazards')
        BY <1>3, <2>1, <2>2, <2>3, ToldAppend
    <2>5. \A i \in jobs' : hazards'[i.twyst] = {} =>
              Collecting(i) /\ AnnouncesNext(i)
        BY <1>7, <1>8, <2>1
    <2> QED
        BY <2>4, <2>5, CompleteIsNext
<1>10. ASSUME NEW j \in jobs, NEW k, BeginsAs(j, k)
       PROVE  CompleteInv'
    <2>1. /\ First.kind = "list" /\ jobs' = (jobs \ {j}) \cup {k}
          /\ mainQueue' = Rest /\ Blocks' = ToSet(Rest)
          /\ k.phase = "open" /\ k.at = j.at /\ k.arr = j.arr
          /\ j.phase = "answered"
        BY <1>10 DEF BeginsAs
    <2>2. k.at = 1 /\ k.arr = {}
        BY <2>1 DEF StoreInv, NumberInv, SoundInv, JobSound
    <2>3. Collecting(k) /\ AnnouncesNext(k)
        BY <2>1, <2>2 DEF Collecting, AnnouncesNext
    <2>4. Told(mainQueue', frames', hazards')
        BY <1>6, <2>1
    <2>5. \A i \in jobs' : hazards'[i.twyst] = {} =>
              Collecting(i) /\ AnnouncesNext(i)
        BY <1>7, <1>8, <2>1, <2>3
    <2> QED
        BY <2>4, <2>5, CompleteIsNext
<1>11. CASE Saves
    <2>1. /\ jobs' = jobs /\ mainQueue' = Rest /\ Blocks' = ToSet(Rest)
          /\ First.kind = "save"
          /\ \A x \in Twysts :
                frames'[x] = IF x = First.twyst THEN First.arr ELSE frames[x]
        BY <1>11 DEF Saves
    <2>2. ASSUME NEW i \in jobs', hazards'[i.twyst] = {}
          PROVE  Collecting(i) /\ AnnouncesNext(i)
        <3>1. \A b \in SavesOf(i.twyst) :
                  b \in SavesOf(i.twyst)' \/ frames'[i.twyst] = b.arr
            BY <1>1, <1>3, <2>1 DEF SavesOf
        <3> QED
            BY <1>7, <2>1, <2>2, <3>1
    <2> QED
        BY <1>6, <1>11, <2>1, <2>2, CompleteIsNext
<1>12. CASE Delivers
    <2>1. /\ First.kind # "save" /\ jobs' = jobs /\ mainQueue' = Rest
          /\ Blocks' = ToSet(Rest)
        BY <1>12 DEF Delivers
    <2>2. \A i \in jobs' : hazards'[i.twyst] = {} =>
              Collecting(i) /\ AnnouncesNext(i)
        BY <1>7, <1>8, <2>1
    <2> QED
        BY <1>6, <2>1, <2>2, CompleteIsNext
<1> QED
    BY <1>3, <1>9, <1>10, <1>11, <1>12

LEMMA CompleteStep ==
    ASSUME StoreInv, CompleteInv, [Next]_vars
    PROVE  CompleteInv'
<1>1. /\ TypeInv /\ mainQueue \in Seq(Block)
      /\ \A i \in jobs : i.twyst \in Twysts /\ InFlight(i.twyst)
      /\ \A b \in Blocks : b.twyst \in Twysts /\ InFlight(b.twyst)
    BY OfTwysts, JobsAndBlocksInFlight DEF StoreInv, NumberInv, TypeInv, TypeOK
<1>2. \A t \in Twysts : hazards'[t] = {} =>
          /\ hazards[t] = {}
          /\ InFlight(t) => ZipNames(frames[t]) \subseteq ZipNames(frames'[t])
    BY CleanStep
<1>3. ASSUME mainQueue' = mainQueue,
             \A k \in jobs' : hazards'[k.twyst] = {} =>
                 k \in jobs \/ k.phase = "request"
      PROVE  CompleteInv'
    <2>1. Told(mainQueue, frames', hazards')
        <3>1. \A b \in Blocks : hazards'[b.twyst] = {} =>
                  /\ hazards[b.twyst] = {}
                  /\ ZipNames(frames[b.twyst]) \subseteq ZipNames(frames'[b.twyst])
            BY <1>1, <1>2
        <3> QED
            BY <1>1, <3>1, ToldLater DEF CompleteInv, Blocks
    <2>2. \A t : SavesOf(t)' = SavesOf(t)
        BY <1>3 DEF SavesOf, Blocks
    <2>3. ASSUME NEW k \in jobs', hazards'[k.twyst] = {}
          PROVE  Collecting(k) /\ AnnouncesNext(k)
        <3>1. CASE k \in jobs
            <4>1. /\ Collecting(k) /\ Announces(k)
                  /\ ZipNames(frames[k.twyst]) \subseteq ZipNames(frames'[k.twyst])
                BY <1>1, <1>2, <2>3, <3>1 DEF CompleteInv
            <4> QED
                BY <2>2, <4>1, AnnouncesStays
        <3>2. CASE k.phase = "request"
            BY <3>2 DEF Collecting, AnnouncesNext, Working
        <3> QED
            BY <1>3, <2>3, <3>1, <3>2
    <2> QED
        BY <1>3, <2>1, <2>3, CompleteIsNext
<1>4. CASE Idle
    BY <1>3, <1>4 DEF Idle
<1>5. ASSUME NEW q \in Queues, StartDownload(q)
      PROVE  CompleteInv'
    BY <1>1, <1>3, <1>5, StartShape
<1>6. ASSUME NEW x \in Twysts, DeleteSavedTwyst(x)
      PROVE  CompleteInv'
    <2>1. ASSUME NEW k \in jobs', hazards'[k.twyst] = {}
          PROVE  k \in jobs
        <3>1. PICK j \in jobs : k.twyst = j.twyst /\ (j.twyst # x => k = j)
            BY <1>1, <1>6, OrphanShape
        <3>2. j.twyst # x
            BY <1>1, <1>6, <2>1, <3>1, DeleteShape
        <3> QED
            BY <3>1, <3>2
    <2>2. mainQueue' = mainQueue
        BY <1>1, <1>6, DeleteShape
    <2> QED
        BY <1>3, <2>1, <2>2
<1>7. ASSUME NEW t \in Twysts, SendReply(t)
      PROVE  CompleteInv'
    BY <1>1, <1>3, <1>7, SendShape
<1>8. ASSUME NEW l \in localReplies, ReplyThread(l)
      PROVE  CompleteInv'
    BY <1>1, <1>3, <1>8, ReplyLeaves
<1> QED
    BY <1>4, <1>5, <1>6, <1>7, <1>8, StepKinds, CompleteWorker, CompleteMainBlock

\* What a notification announces is in the record by the time it is
\* delivered, for any replies, queues and requests: a download leaves no gap
\* in what it collects, its save comes before its notification, no later
\* save takes a reply back, and where the download is skipped because the
\* counts agree, the record shows just the replies of the list.
THEOREM CompletenessTheorem == Spec => []NotifiedIsComplete
<1>1. Init => StoreInv /\ CompleteInv
    <2> SUFFICES ASSUME Init PROVE StoreInv /\ CompleteInv
        OBVIOUS
    <2>1. 1 .. Len(<<>>) = {}
        BY EmptySeq
    <2> QED
        BY <2>1, StoreInit DEF Init, CompleteInv, Told
<1>2. StoreInv /\ CompleteInv /\ [Next]_vars => StoreInv' /\ CompleteInv'
    BY StoreStep, CompleteStep
<1>3. CompleteInv => NotifiedIsComplete
    BY DEF CompleteInv, Told, Covers, Full, NotifiedIsComplete
<1> QED
    BY <1>1, <1>2, <1>3, PTL DEF Spec
=============================================================================
