------------------------ MODULE OsmApiWriter_proofs ------------------------
(***************************************************************************)
(* Proofs about OsmApiWriter for any number of threads and elements, any   *)
(* limits, and any way of calculating and splitting changesets that keeps  *)
(* the promises OsmApiWriter.tla assumes: types, exclusive work, and what  *)
(* an upload promises for its elements.                                    *)
(***************************************************************************)
EXTENDS OsmApiWriter, FiniteSetTheorems, TLAPS

USE DEF sessionVars, failVars

-----------------------------------------------------------------------------
(* The operators the actions are built from.                               *)

\* Any part of the loaded changeset can be counted.
LEMMA CountElements ==
    ASSUME NEW S \in SUBSET Element
    PROVE  IsFiniteSet(S) /\ Cardinality(S) \in Nat
  BY ElementAssumption, FS_Subset, FS_CardinalityType

LEMMA WithType ==
    ASSUME NEW st \in Statuses, NEW S, NEW s \in ElementStatus
    PROVE  With(st, S, s) \in Statuses
  BY DEF With, Statuses

LEMMA UnsentType ==
    ASSUME sentCount \in Nat
    PROVE  Unsent \in 0..Total
  BY CountElements DEF Unsent, Total

\* What calculateChangeset picks.
LEMMA CalculateType ==
    ASSUME NEW st \in Statuses, sentCount \in Nat
    PROVE  Calculate(st, Unsent) \subseteq AvailableIn(st)
  BY UnsentType, CalculateAssumption

\* What fails.
LEMMA FailureType ==
    ASSUME NEW st \in Statuses, NEW F \in SUBSET Element
    PROVE  FailureOf(st, F) \in SUBSET Element
  BY FailureAssumption

\* A changeset keeps its elements when its retries change.
LEMMA RetryType ==
    ASSUME NEW info \in ChangesetInfo, NEW b \in BOOLEAN
    PROVE  /\ [info EXCEPT !.attempted = b] \in ChangesetInfo
           /\ [info EXCEPT !.attempted = b].els = info.els
           /\ VersionRetried(info) \in ChangesetInfo
           /\ VersionRetried(info).els = info.els
           /\ FailureRetried(info) \in ChangesetInfo
           /\ FailureRetried(info).els = info.els
  <1>1. /\ [info EXCEPT !.attempted = b] \in ChangesetInfo
        /\ [info EXCEPT !.attempted = b].els = info.els
    BY DEF ChangesetInfo
  <1>2. VersionRetried(info) \in ChangesetInfo /\ VersionRetried(info).els = info.els
    BY DEF ChangesetInfo, VersionRetried
  <1>3. FailureRetried(info) \in ChangesetInfo /\ FailureRetried(info).els = info.els
    <2>1. \A i \in ChangesetInfo :
            /\ [i EXCEPT !.attempted = TRUE] \in ChangesetInfo
            /\ [i EXCEPT !.attempted = TRUE].els = i.els
      BY DEF ChangesetInfo
    <2>2. /\ [info EXCEPT !.failures = @ + 1] \in ChangesetInfo
          /\ [info EXCEPT !.failures = @ + 1].els = info.els
      BY DEF ChangesetInfo
    <2>3. FailureRetried(info) = [[info EXCEPT !.failures = @ + 1] EXCEPT !.attempted = TRUE]
      BY DEF FailureRetried
    <2>4. QED BY <2>1, <2>2, <2>3
  <1>4. QED BY <1>1, <1>2, <1>3

\* What a split yields.
LEMMA SplitType ==
    ASSUME TypeOK, NEW w \in Worker, NEW x \in SplitChangeset(w)
    PROVE  /\ x \in SplitOutcome
           /\ Splitting(w) \in ChangesetInfo
           /\ Splitting(w).els = work[w].els
  <1>1. work[w] \in ChangesetInfo /\ status \in Statuses
    BY DEF TypeOK
  <1>2. Splitting(w) \in ChangesetInfo /\ Splitting(w).els = work[w].els
    <2> DEFINE b == work[w].attempted \/ (wpc[w] = "gone" /\ Cardinality(work[w].els) = 1)
    <2>1. b \in BOOLEAN
      OBVIOUS
    <2>2. CASE wpc[w] = "mismatch"
      BY <1>1, <2>2, RetryType DEF Splitting
    <2>3. CASE wpc[w] # "mismatch"
      <3>1. Splitting(w) = [work[w] EXCEPT !.attempted = b]
        BY <2>3 DEF Splitting
      <3> HIDE DEF b
      <3>2. QED BY <1>1, <2>1, <3>1, RetryType
    <2>4. QED BY <2>2, <2>3
  <1>3. work[w].els \in SUBSET Element
    BY <1>1 DEF ChangesetInfo
  <1>4. CASE Cardinality(work[w].els) = 1
    <2>1. x = Unsplit(Splitting(w))
      BY <1>2, <1>4 DEF SplitChangeset
    <2>2. Unsplit(Splitting(w)) \in SplitOutcome
      BY <1>2, <1>3 DEF Unsplit, SplitOutcome, ChangesetInfo
    <2>3. QED BY <1>2, <2>1, <2>2
  <1>5. CASE Cardinality(work[w].els) # 1
    BY <1>1, <1>2, <1>3, <1>5, SplitInHalfAssumption, SplitByHintAssumption
    DEF SplitChangeset, SplitsSoundly
  <1>6. QED BY <1>2, <1>4, <1>5

LEMMA ShrunkType ==
    ASSUME NEW info \in ChangesetInfo, NEW S \in SUBSET Element
    PROVE  Shrunk(info, S) \in ChangesetInfo /\ Shrunk(info, S).els = S
  BY DEF Shrunk, ChangesetInfo

LEMMA FreshType ==
    ASSUME NEW S \in SUBSET Element
    PROVE  Fresh(S) \in ChangesetInfo /\ Fresh(S).els = S
  BY DEF Fresh, ChangesetInfo

-----------------------------------------------------------------------------
(* Type correctness.                                                       *)

\* The state changes that several actions share keep the types of what they
\* change.
LEMMA FailRemainingType ==
    ASSUME TypeOK, FailRemaining
    PROVE  /\ status' \in Statuses /\ sentCount' \in Nat /\ processedCount' \in Nat
           /\ failedCount' \in Nat /\ sendBuffer' \subseteq Element /\ cleanup' \subseteq Element
  <1> DEFINE remaining == {e \in Element : status[e] \notin Settled}
  <1>1. Cardinality(remaining) \in Nat
    BY CountElements
  <1>2. With(status, remaining, "Failed") \in Statuses
    BY WithType DEF TypeOK, ElementStatus
  <1>3. QED BY <1>1, <1>2 DEF FailRemaining, TypeOK

LEMMA FailType ==
    ASSUME TypeOK, NEW F \in SUBSET Element, NEW n \in Nat, Fail(F, n)
    PROVE  /\ status' \in Statuses /\ sentCount' \in Nat /\ processedCount' \in Nat
           /\ failedCount' \in Nat /\ sendBuffer' \subseteq Element /\ cleanup' \subseteq Element
  <1> DEFINE failing == FailureOf(status, F)
  <1>1. failing \in SUBSET Element
    BY FailureType DEF TypeOK
  <1>2. With(status, failing, "Failed") \in Statuses
    BY <1>1, WithType DEF TypeOK, ElementStatus
  <1>3. Cardinality(failing) \in Nat /\ Cardinality(failing \cap AvailableIn(status)) \in Nat
    BY <1>1, CountElements
  <1>4. QED BY <1>2, <1>3 DEF Fail, TypeOK

LEMMA FinalizeType ==
    ASSUME TypeOK, NEW S \in SUBSET Element, Finalize(S)
    PROVE  /\ status' \in Statuses /\ sentCount' \in Nat /\ processedCount' \in Nat
           /\ failedCount' \in Nat /\ sendBuffer' \subseteq Element /\ cleanup' \subseteq Element
  <1>1. Cardinality(S) \in Nat
    BY CountElements
  <1>2. With(status, S, "Finalized") \in Statuses
    BY WithType DEF TypeOK, ElementStatus
  <1>3. QED BY <1>1, <1>2 DEF Finalize, TypeOK

LEMMA ApplySplitType ==
    ASSUME TypeOK, NEW x \in SplitOutcome, ApplySplit(x)
    PROVE  /\ status' \in Statuses /\ sentCount' \in Nat /\ processedCount' \in Nat
           /\ failedCount' \in Nat /\ sendBuffer' \subseteq Element /\ cleanup' \subseteq Element
  <1> DEFINE st == With(With(status, x.avail, "Available"), x.adds, "Buffering")
             failing == FailureOf(st, x.fails)
  <1>1. x.adds \in SUBSET Element /\ x.orphan \in SUBSET Element /\ x.fails \in SUBSET Element
    BY DEF SplitOutcome
  <1>2. st \in Statuses
    BY WithType DEF TypeOK, ElementStatus
  <1>3. failing \in SUBSET Element
    BY <1>1, <1>2, FailureType
  <1>4. With(st, failing, "Failed") \in Statuses
    BY <1>2, WithType DEF ElementStatus
  <1>5. /\ Cardinality(failing) \in Nat /\ Cardinality(x.adds) \in Nat
        /\ Cardinality(failing \cap AvailableIn(st)) \in Nat
    BY <1>1, <1>3, CountElements
  <1> HIDE DEF st, failing
  <1>6. QED BY <1>1, <1>4, <1>5 DEF ApplySplit, TypeOK, st, failing

LEMMA TypeInit == Init => TypeOK
  <1> SUFFICES ASSUME Init PROVE TypeOK
    OBVIOUS
  <1>1. NoWork \in ChangesetInfo
    BY FreshType DEF NoWork
  <1>2. open \in [Worker -> BOOLEAN]
    BY Zenon DEF Init
  <1>3. status \in Statuses
    BY DEF Init, Statuses, ElementStatus
  <1>4. queue \in Seq(ChangesetInfo)
    BY DEF Init
  <1>5. work \in [Worker -> ChangesetInfo]
    BY <1>1 DEF Init
  <1>6. /\ wpc \in [Worker -> WorkerPc] /\ threadStatus \in [Worker -> ThreadStatus]
        /\ doom \in [Worker -> SUBSET Element]
    BY DEF Init, WorkerPc, ThreadStatus
  <1>7. /\ changesetSize \in [Worker -> Nat] /\ changesetFailures \in [Worker -> Nat]
        /\ counted \in [Worker -> Nat]
    BY DEF Init
  <1>8. QED
    BY <1>2, <1>3, <1>4, <1>5, <1>6, <1>7 DEF Init, TypeOK, ProducerPc

LEMMA TypeProducer ==
    ASSUME TypeOK, Producer
    PROVE  TypeOK'
  <1>1. CASE PollFinished
    BY <1>1 DEF PollFinished, TypeOK, ProducerPc, changesetVars, poolVars, workerVars, serverVars
  <1>2. CASE PollFailed
    BY <1>2, FailRemainingType
    DEF PollFailed, TypeOK, ProducerPc, workerVars, serverVars
  <1>3. CASE PollRoom
    <2>1. pqueueEmpty' \in BOOLEAN
      BY <1>3 DEF PollRoom
    <2>2. QED
      BY <1>3, <2>1
      DEF PollRoom, TypeOK, ProducerPc, changesetVars, poolVars, workerVars, serverVars
  <1>4. CASE PollFull
    BY <1>4 DEF PollFull, TypeOK, changesetVars, producerVars, workerVars, serverVars
  <1>5. CASE CalculateWork
    <2> DEFINE info == Calculate(status, Unsent)
    <2>1. info \in SUBSET Element
      BY CalculateType DEF TypeOK, AvailableIn
    <2>2. Cardinality(info) \in Nat
      BY <2>1, CountElements
    <2>3. With(status, info \cup sendBuffer, "Sent") \in Statuses
      BY WithType DEF TypeOK, ElementStatus
    <2> HIDE DEF info
    <2>4. QED
      BY <1>5, <2>1, <2>2, <2>3
      DEF CalculateWork, TypeOK, ProducerPc, poolVars, workerVars, serverVars, info
  <1>6. CASE PushWork
    <2>1. Fresh(pwork) \in ChangesetInfo
      BY FreshType DEF TypeOK
    <2>2. QED
      BY <1>6, <2>1
      DEF PushWork, TypeOK, ProducerPc, changesetVars, poolVars, workerVars, serverVars
  <1>7. CASE KeepWaiting
    BY <1>7 DEF KeepWaiting, TypeOK, ProducerPc, changesetVars, workerVars, serverVars
  <1>8. CASE DecideToGiveUp
    BY <1>8
    DEF DecideToGiveUp, TypeOK, ProducerPc, changesetVars, poolVars, workerVars, serverVars
  <1>9. CASE GiveUp
    BY <1>9, FailRemainingType DEF GiveUp, TypeOK, ProducerPc, workerVars, serverVars
  <1>10. CASE StartWork
    BY <1>10 DEF StartWork, TypeOK, ProducerPc, changesetVars, workerVars, serverVars
  <1>11. CASE JoinThreads
    <2>1. FailRemaining \/ UNCHANGED changesetVars
      BY <1>11 DEF JoinThreads
    <2>2. /\ status' \in Statuses /\ sentCount' \in Nat /\ processedCount' \in Nat
          /\ failedCount' \in Nat /\ sendBuffer' \subseteq Element
          /\ cleanup' \subseteq Element
      BY <2>1, FailRemainingType DEF TypeOK, changesetVars
    <2>3. QED
      BY <1>11, <2>2 DEF JoinThreads, TypeOK, ProducerPc, poolVars, workerVars, serverVars
  <1>12. QED
    BY <1>1, <1>2, <1>3, <1>4, <1>5, <1>6, <1>7, <1>8, <1>9, <1>10, <1>11 DEF Producer

\* What a thread does to its own part of the state.
LEMMA ThreadType ==
    ASSUME TypeOK, NEW w \in Worker
    PROVE  /\ \A pc \in WorkerPc : Goto(w, pc) => wpc' \in [Worker -> WorkerPc]
           /\ Release(w) => work' \in [Worker -> ChangesetInfo]
           /\ \A s \in ThreadStatus :
                SetThreadStatus(w, s) => threadStatus' \in [Worker -> ThreadStatus]
           /\ work[w] \in ChangesetInfo /\ work[w].els \in SUBSET Element
  <1>1. NoWork \in ChangesetInfo
    BY FreshType DEF NoWork
  <1>2. \A pc \in WorkerPc : Goto(w, pc) => wpc' \in [Worker -> WorkerPc]
    BY DEF TypeOK, Goto
  <1>3. Release(w) => work' \in [Worker -> ChangesetInfo]
    BY <1>1 DEF TypeOK, Release
  <1>4. \A s \in ThreadStatus :
          SetThreadStatus(w, s) => threadStatus' \in [Worker -> ThreadStatus]
    BY DEF TypeOK, SetThreadStatus
  <1>5. work[w] \in ChangesetInfo /\ work[w].els \in SUBSET Element
    BY DEF TypeOK, ChangesetInfo
  <1>6. QED BY <1>2, <1>3, <1>4, <1>5

LEMMA PushType ==
    ASSUME TypeOK, NEW w \in Worker, NEW info \in ChangesetInfo, Push(w, info)
    PROVE  /\ queue' \in Seq(ChangesetInfo)
           /\ work' \in [Worker -> ChangesetInfo]
           /\ wpc' \in [Worker -> WorkerPc]
  BY ThreadType DEF Push, TypeOK, WorkerPc

LEMMA DoomType ==
    ASSUME TypeOK, NEW w \in Worker, NEW S \in SUBSET Element, NEW pc \in WorkerPc,
           Doom(w, S, pc)
    PROVE  /\ doom' \in [Worker -> SUBSET Element] /\ counted' \in [Worker -> Nat]
           /\ wpc' \in [Worker -> WorkerPc]
  BY ThreadType DEF Doom, TypeOK

LEMMA WriteFailureType ==
    ASSUME TypeOK, NEW w \in Worker, WriteFailure(w)
    PROVE  /\ status' \in Statuses /\ sentCount' \in Nat /\ processedCount' \in Nat
           /\ failedCount' \in Nat /\ sendBuffer' \subseteq Element /\ cleanup' \subseteq Element
           /\ doom' \in [Worker -> SUBSET Element] /\ counted' \in [Worker -> Nat]
  <1>1. doom[w] \in SUBSET Element /\ counted[w] \in Nat
    BY DEF TypeOK
  <1>2. Fail(doom[w], counted[w])
    BY DEF WriteFailure
  <1>3. /\ doom' \in [Worker -> SUBSET Element] /\ counted' \in [Worker -> Nat]
    BY DEF WriteFailure, TypeOK
  <1>4. QED BY <1>1, <1>2, <1>3, FailType

\* Whether a thread's changeset stays open is a matter of Booleans alone.
LEMMA OpenType ==
    ASSUME TypeOK, NEW w \in Worker, NEW b, open' = [open EXCEPT ![w] = b], b \in BOOLEAN
    PROVE  open' \in [Worker -> BOOLEAN]
  BY DEF TypeOK

LEMMA StillOpenType ==
    ASSUME TypeOK, NEW w \in Worker, StillOpen(w)
    PROVE  open' \in [Worker -> BOOLEAN]
  <1>1. (open[w] /\ wpc[w] # "closed") \in BOOLEAN
    OBVIOUS
  <1>2. QED BY <1>1, OpenType DEF StillOpen

LEMMA TypeBetweenUploads ==
    ASSUME TypeOK, NEW w \in Worker,
           \/ BeginLoop(w) \/ SeeDone(w) \/ TakeWork(w) \/ FindNoWork(w)
           \/ BeginWork(w) \/ CreateChangeset(w) \/ FailToCreate(w) \/ DropEmpty(w)
           \/ Upload(w)
    PROVE  TypeOK'
  <1>1. CASE BeginLoop(w)
    BY <1>1, ThreadType
    DEF BeginLoop, TypeOK, WorkerPc, changesetVars, poolVars, producerVars, serverVars
  <1>2. CASE SeeDone(w)
    BY <1>2, ThreadType
    DEF SeeDone, TypeOK, WorkerPc, changesetVars, poolVars, producerVars, serverVars
  <1>3. CASE TakeWork(w)
    <2>1. Head(queue) \in ChangesetInfo /\ Tail(queue) \in Seq(ChangesetInfo)
      BY <1>3 DEF TakeWork, TypeOK
    <2>2. work' \in [Worker -> ChangesetInfo]
      BY <1>3, <2>1 DEF TakeWork, TypeOK
    <2>3. QED
      BY <1>3, <2>1, <2>2, ThreadType
      DEF TakeWork, TypeOK, WorkerPc, changesetVars, poolVars, producerVars, serverVars
  <1>4. CASE FindNoWork(w)
    BY <1>4, ThreadType
    DEF FindNoWork, TypeOK, WorkerPc, changesetVars, poolVars, producerVars, serverVars
  <1>5. CASE BeginWork(w)
    <2>1. threadStatus' \in [Worker -> ThreadStatus]
      BY <1>5, ThreadType DEF BeginWork, ThreadStatus
    <2>2. wpc' \in [Worker -> WorkerPc]
      BY <1>5, ThreadType DEF BeginWork, WorkerPc
    <2>3. changesetFailures' \in [Worker -> Nat]
      BY <1>5 DEF BeginWork, TypeOK
    <2>4. QED
      BY <1>5, <2>1, <2>2, <2>3
      DEF BeginWork, TypeOK, changesetVars, producerVars, serverVars
  <1>6. CASE CreateChangeset(w)
    <2>1. open' \in [Worker -> BOOLEAN]
      BY <1>6, OpenType DEF CreateChangeset
    <2>2. changesetSize' \in [Worker -> Nat] /\ changesetFailures' \in [Worker -> Nat]
      BY <1>6 DEF CreateChangeset, TypeOK
    <2>3. QED
      BY <1>6, <2>1, <2>2, ThreadType
      DEF CreateChangeset, TypeOK, WorkerPc, changesetVars, poolVars, producerVars, serverVars
  <1>7. CASE FailToCreate(w)
    <2>1. queue' \in Seq(ChangesetInfo)
      BY <1>7, ThreadType DEF FailToCreate, TypeOK
    <2>2. changesetFailures' \in [Worker -> Nat]
      BY <1>7 DEF FailToCreate, TypeOK
    <2>3. wpc' \in [Worker -> WorkerPc] /\ threadStatus' \in [Worker -> ThreadStatus]
      BY <1>7, ThreadType DEF FailToCreate, TypeOK, WorkerPc, ThreadStatus
    <2>4. work' \in [Worker -> ChangesetInfo] /\ faults' \in Nat
      BY <1>7, ThreadType DEF FailToCreate, TypeOK
    <2>5. UNCHANGED <<changesetVars, startFlag, threadsCanExit, producerVars, open,
                      changesetSize, doom, counted, applied>>
      BY <1>7 DEF FailToCreate
    <2>6. QED
      BY <2>1, <2>2, <2>3, <2>4, <2>5 DEF TypeOK, changesetVars, producerVars
  <1>8. CASE DropEmpty(w)
    BY <1>8, ThreadType
    DEF DropEmpty, TypeOK, WorkerPc, changesetVars, poolVars, producerVars, serverVars
  <1>9. CASE Upload(w)
    <2>1. \A r \in Responses : r # "lost" => r \in WorkerPc
      BY WriterAssumption DEF WorkerPc, Refusals
    <2>2. Answer(work[w].els) \in WorkerPc /\ "other" \in WorkerPc
      BY DEF Answer, WorkerPc, Refusals
    <2>3. wpc' \in [Worker -> WorkerPc]
      BY <1>9, <2>1, <2>2, ThreadType DEF Upload
    <2>4. applied' \subseteq Element /\ faults' \in Nat
      BY <1>9, ThreadType DEF Upload, TypeOK
    <2>5. QED
      BY <1>9, <2>3, <2>4 DEF Upload, TypeOK, changesetVars, poolVars, producerVars
  <1>10. QED
    BY <1>1, <1>2, <1>3, <1>4, <1>5, <1>6, <1>7, <1>8, <1>9

\* The splits: their answer, their outcome and what they leave alone.
LEMMA TypeSplit ==
    ASSUME TypeOK, NEW w \in Worker,
           PushSplit(w) \/ FailSplit(w) \/ PushUnsplit(w) \/ DropUnsplit(w) \/ FailUnsplit(w)
    PROVE  TypeOK'
  <1>1. CASE PushSplit(w)
    <2>1. PICK x \in SplitChangeset(w) :
            /\ ApplySplit(x)
            /\ queue' = queue \o <<Shrunk(Splitting(w), x.rest), Fresh(x.split)>>
      BY <1>1 DEF PushSplit
    <2>2. x \in SplitOutcome /\ Splitting(w) \in ChangesetInfo
      BY SplitType
    <2>3. Shrunk(Splitting(w), x.rest) \in ChangesetInfo /\ Fresh(x.split) \in ChangesetInfo
      BY <2>2, ShrunkType, FreshType DEF SplitOutcome
    <2>4. queue' \in Seq(ChangesetInfo)
      BY <2>1, <2>3 DEF TypeOK
    <2>5. open' \in [Worker -> BOOLEAN]
      BY <1>1, StillOpenType DEF PushSplit
    <2>6. QED
      BY <1>1, <2>1, <2>2, <2>4, <2>5, ApplySplitType, ThreadType
      DEF PushSplit, TypeOK, WorkerPc, poolVars, producerVars, serverVars
  <1>2. CASE FailSplit(w)
    <2>1. PICK x \in SplitChangeset(w) :
            /\ ApplySplit(x)
            /\ work' = [work EXCEPT ![w] = Shrunk(Splitting(w), x.rest)]
            /\ Doom(w, x.split, "failPush")
      BY <1>2 DEF FailSplit
    <2>2. x \in SplitOutcome /\ Splitting(w) \in ChangesetInfo
      BY SplitType
    <2>3. Shrunk(Splitting(w), x.rest) \in ChangesetInfo /\ x.split \in SUBSET Element
      BY <2>2, ShrunkType DEF SplitOutcome
    <2>4. work' \in [Worker -> ChangesetInfo]
      BY <2>1, <2>3 DEF TypeOK
    <2>5. QED
      BY <1>2, <2>1, <2>2, <2>3, <2>4, ApplySplitType, DoomType
      DEF FailSplit, TypeOK, WorkerPc, poolVars, producerVars, serverVars
  <1>3. CASE PushUnsplit(w)
    <2> DEFINE retry(x) == Shrunk(Splitting(w), x.rest)
    <2>1. PICK x \in SplitChangeset(w) :
            /\ ApplySplit(x)
            /\ Push(w, [retry(x) EXCEPT !.attempted = @ \/ Unresolved(w)])
      BY <1>3 DEF PushUnsplit
    <2>2. x \in SplitOutcome /\ Splitting(w) \in ChangesetInfo
      BY SplitType
    <2>3. retry(x) \in ChangesetInfo
      BY <2>2, ShrunkType DEF SplitOutcome
    <2>4. (retry(x).attempted \/ Unresolved(w)) \in BOOLEAN
      OBVIOUS
    <2> HIDE DEF retry
    <2>5. [retry(x) EXCEPT !.attempted = @ \/ Unresolved(w)] \in ChangesetInfo
      BY <2>3, <2>4, RetryType
    <2>6. /\ queue' \in Seq(ChangesetInfo) /\ work' \in [Worker -> ChangesetInfo]
          /\ wpc' \in [Worker -> WorkerPc]
      BY <2>1, <2>5, PushType
    <2>7. UNCHANGED <<poolVars, producerVars, open, changesetSize, changesetFailures, doom,
                      counted, serverVars>>
      BY <1>3 DEF PushUnsplit
    <2>8. QED
      BY <2>1, <2>2, <2>6, <2>7, ApplySplitType DEF TypeOK, poolVars, producerVars, serverVars
  <1>4. CASE DropUnsplit(w)
    <2>1. PICK x \in SplitChangeset(w) : ApplySplit(x)
      BY <1>4 DEF DropUnsplit
    <2>2. x \in SplitOutcome
      BY SplitType
    <2>3. open' \in [Worker -> BOOLEAN]
      BY <1>4, StillOpenType DEF DropUnsplit
    <2>4. QED
      BY <1>4, <2>1, <2>2, <2>3, ApplySplitType, ThreadType
      DEF DropUnsplit, TypeOK, WorkerPc, poolVars, producerVars, serverVars
  <1>5. CASE FailUnsplit(w)
    <2>1. PICK x \in SplitChangeset(w) : ApplySplit(x) /\ Doom(w, x.rest, "failDrop")
      BY <1>5 DEF FailUnsplit
    <2>2. x \in SplitOutcome
      BY SplitType
    <2>3. x.rest \in SUBSET Element
      BY <2>2 DEF SplitOutcome
    <2>4. QED
      BY <1>5, <2>1, <2>2, <2>3, ApplySplitType, DoomType, ThreadType
      DEF FailUnsplit, TypeOK, WorkerPc, poolVars, producerVars, serverVars
  <1>6. QED BY <1>1, <1>2, <1>3, <1>4, <1>5

\* The other answers of the API.
LEMMA TypeAnswer ==
    ASSUME TypeOK, NEW w \in Worker,
           \/ Accept(w) \/ RetryClosed(w) \/ FixVersion(w) \/ QuitVersion(w)
           \/ FinalizeGone(w) \/ RetryOther(w) \/ FailOther(w) \/ RetryUnavailable(w)
    PROVE  TypeOK'
  <1>1. CASE Accept(w)
    <2> DEFINE size == changesetSize[w] + Cardinality(work[w].els)
    <2>1. size \in Nat
      <3>1. Cardinality(work[w].els) \in Nat
        BY ThreadType, CountElements
      <3>2. changesetSize[w] \in Nat
        BY DEF TypeOK
      <3>3. QED BY <3>1, <3>2
    <2>2. changesetSize' \in [Worker -> Nat]
      BY <1>1, <2>1 DEF Accept, TypeOK
    <2>3. open' \in [Worker -> BOOLEAN]
      <3> DEFINE room == size < MaxChangesetSize
                         /\ size + (3 * MaxPushSize) \div 2 <= MaxChangesetSize
      <3>1. room \in BOOLEAN
        OBVIOUS
      <3>2. open' = [open EXCEPT ![w] = room]
        BY <1>1 DEF Accept
      <3> HIDE DEF room
      <3>3. QED BY <3>1, <3>2, OpenType
    <2> HIDE DEF size
    <2>4. QED
      BY <1>1, <2>2, <2>3, ThreadType, FinalizeType
      DEF Accept, TypeOK, WorkerPc, poolVars, producerVars, serverVars
  <1>2. CASE RetryClosed(w)
    <2>1. open' \in [Worker -> BOOLEAN]
      BY <1>2, StillOpenType DEF RetryClosed
    <2>2. QED
      BY <1>2, <2>1, ThreadType, PushType
      DEF RetryClosed, TypeOK, changesetVars, poolVars, producerVars, serverVars
  <1>3. CASE FixVersion(w)
    <2>1. VersionRetried(work[w]) \in ChangesetInfo
      BY ThreadType, RetryType
    <2>2. QED
      BY <1>3, <2>1, PushType
      DEF FixVersion, TypeOK, changesetVars, poolVars, producerVars, serverVars
  <1>4. CASE QuitVersion(w)
    <2>1. CASE work[w].attempted
      BY <1>4, <2>1, ThreadType, DoomType
      DEF QuitVersion, TypeOK, WorkerPc, changesetVars, producerVars, serverVars
    <2>2. CASE ~work[w].attempted
      BY <1>4, <2>2, ThreadType
      DEF QuitVersion, TypeOK, WorkerPc, ThreadStatus, changesetVars, producerVars, serverVars
    <2>3. QED BY <2>1, <2>2
  <1>5. CASE FinalizeGone(w)
    <2>1. PICK e \in work[w].els :
            Finalize({e}) /\ Push(w, Shrunk(work[w], work[w].els \ {e}))
      BY <1>5 DEF FinalizeGone
    <2>2. {e} \in SUBSET Element /\ Shrunk(work[w], work[w].els \ {e}) \in ChangesetInfo
      BY ThreadType, ShrunkType
    <2>3. QED
      BY <1>5, <2>1, <2>2, FinalizeType, PushType
      DEF FinalizeGone, TypeOK, poolVars, producerVars, serverVars
  <1>6. CASE RetryOther(w)
    <2>1. FailureRetried(work[w]) \in ChangesetInfo
      BY ThreadType, RetryType
    <2>2. QED
      BY <1>6, <2>1, PushType
      DEF RetryOther, TypeOK, changesetVars, poolVars, producerVars, serverVars
  <1>7. CASE FailOther(w)
    BY <1>7, ThreadType, DoomType
    DEF FailOther, TypeOK, WorkerPc, changesetVars, poolVars, producerVars, serverVars
  <1>8. CASE RetryUnavailable(w)
    <2>1. queue' \in Seq(ChangesetInfo)
      BY <1>8, ThreadType DEF RetryUnavailable, TypeOK
    <2>2. changesetFailures' \in [Worker -> Nat]
      BY <1>8 DEF RetryUnavailable, TypeOK
    <2>3. wpc' \in [Worker -> WorkerPc] /\ threadStatus' \in [Worker -> ThreadStatus]
      BY <1>8, ThreadType DEF RetryUnavailable, TypeOK, WorkerPc, ThreadStatus
    <2>4. work' \in [Worker -> ChangesetInfo]
      BY <1>8, ThreadType DEF RetryUnavailable
    <2>5. UNCHANGED <<changesetVars, startFlag, threadsCanExit, producerVars, open,
                      changesetSize, doom, counted, serverVars>>
      BY <1>8 DEF RetryUnavailable
    <2>6. QED
      BY <2>1, <2>2, <2>3, <2>4, <2>5 DEF TypeOK, changesetVars, producerVars, serverVars
  <1>9. QED BY <1>1, <1>2, <1>3, <1>4, <1>5, <1>6, <1>7, <1>8

\* The second half of failing elements.
LEMMA TypeFail ==
    ASSUME TypeOK, NEW w \in Worker, FailThenPush(w) \/ FailThenDrop(w) \/ FailThenQuit(w)
    PROVE  TypeOK'
  <1>1. CASE FailThenPush(w)
    BY <1>1, ThreadType, PushType, WriteFailureType
    DEF FailThenPush, TypeOK, poolVars, producerVars, serverVars
  <1>2. CASE FailThenDrop(w)
    BY <1>2, ThreadType, WriteFailureType
    DEF FailThenDrop, TypeOK, WorkerPc, poolVars, producerVars, serverVars
  <1>3. CASE FailThenQuit(w)
    BY <1>3, ThreadType, WriteFailureType
    DEF FailThenQuit, TypeOK, WorkerPc, ThreadStatus, producerVars, serverVars
  <1>4. QED BY <1>1, <1>2, <1>3

\* A thread without work.
LEMMA TypeIdle ==
    ASSUME TypeOK, NEW w \in Worker,
           StopWhenTold(w) \/ PushCleanup(w) \/ FindIdle(w) \/ GoIdle(w) \/ Exit(w)
    PROVE  TypeOK'
  <1>1. CASE StopWhenTold(w)
    BY <1>1, ThreadType
    DEF StopWhenTold, TypeOK, WorkerPc, ThreadStatus, changesetVars, producerVars, serverVars
  <1>2. CASE PushCleanup(w)
    <2>1. Fresh(cleanup) \in ChangesetInfo
      BY FreshType DEF TypeOK
    <2>2. queue' \in Seq(ChangesetInfo) /\ cleanup' \subseteq Element
      <3>1. CASE w = FirstWorker
        <4>1. queue' = Append(queue, Fresh(cleanup)) /\ cleanup' = {}
          BY <1>2, <3>1 DEF PushCleanup
        <4>2. QED BY <2>1, <4>1 DEF TypeOK
      <3>2. CASE w # FirstWorker
        BY <1>2, <3>2 DEF PushCleanup, TypeOK
      <3>3. QED BY <3>1, <3>2
    <2>3. QED
      BY <1>2, <2>2, ThreadType
      DEF PushCleanup, TypeOK, WorkerPc, poolVars, producerVars, serverVars
  <1>3. CASE GoIdle(w)
    <2>1. open' \in [Worker -> BOOLEAN]
      BY <1>3, OpenType DEF GoIdle, TypeOK
    <2>2. QED
      BY <1>3, <2>1, ThreadType
      DEF GoIdle, TypeOK, WorkerPc, ThreadStatus, changesetVars, producerVars, serverVars
  <1>4. CASE Exit(w)
    <2>1. open' \in [Worker -> BOOLEAN]
      BY <1>4, OpenType DEF Exit
    <2>2. threadStatus' \in [Worker -> ThreadStatus]
      BY <1>4, ThreadType DEF Exit, ThreadStatus
    <2>3. QED
      BY <1>4, <2>1, <2>2, ThreadType
      DEF Exit, TypeOK, WorkerPc, changesetVars, producerVars, serverVars
  <1>5. CASE FindIdle(w)
    BY <1>5, ThreadType
    DEF FindIdle, TypeOK, WorkerPc, poolVars, changesetVars, producerVars, serverVars
  <1>6. QED BY <1>1, <1>2, <1>3, <1>4, <1>5

LEMMA TypeStep == TypeOK /\ [Next]_vars => TypeOK'
  <1> SUFFICES ASSUME TypeOK, [Next]_vars PROVE TypeOK'
    OBVIOUS
  <1>1. CASE Producer
    BY <1>1, TypeProducer
  <1>2. ASSUME NEW w \in Worker, Thread(w) PROVE TypeOK'
    BY <1>2, TypeBetweenUploads, TypeSplit, TypeAnswer, TypeFail, TypeIdle DEF Thread, Reply
  <1>3. CASE UNCHANGED vars
    BY <1>3
    DEF TypeOK, vars, changesetVars, poolVars, producerVars, workerVars, serverVars
  <1>4. QED BY <1>1, <1>2, <1>3 DEF Next, Finished

\* Whatever the API answers and however the threads interleave, the state of the
\* writer and the changeset stays in its types: counts never become negative.
THEOREM TypeCorrect == Spec => []TypeOK
  BY TypeInit, TypeStep, PTL DEF Spec

-----------------------------------------------------------------------------
(* No element is in two changesets at once.                                *)
(*                                                                         *)
(* The argument: the elements are dealt between the queue, the threads, the*)
(* producer, the cleanup and the Available ones, and every step of a thread*)
(* only deals anew what was in that thread's hand, and what a split takes  *)
(* from the Available elements.  For this to be inductive, a hand must be  *)
(* empty whenever something is put into it (HandsEmpty).                   *)

QueueOnce(q) == \A i, j \in 1..Len(q) : i # j => Apart(q[i].els, q[j].els)

Els(q) == UNION {q[i].els : i \in 1..Len(q)}

Dooming == {"failPush", "failDrop", "failQuit"}

Unburdened == {"wait", "loop", "empty", "idle", "exit", "stopped", "failDrop", "failQuit"}

\* A thread holds work only while it deals with it, and elements to fail only
\* until it has failed them; the producer holds a changeset only to queue it.
HandsEmpty ==
    /\ ppc # "push" => pwork = {}
    /\ \A w \in Worker : /\ wpc[w] \in Unburdened => work[w].els = {}
                         /\ wpc[w] \notin Dooming => doom[w] = {}

IInv == TypeOK /\ ExclusiveWork /\ HandsEmpty

-----------------------------------------------------------------------------
(* Queues.                                                                 *)

LEMMA AppendOnce ==
    ASSUME NEW q \in Seq(ChangesetInfo), NEW info \in ChangesetInfo,
           QueueOnce(q), Apart(info.els, Els(q))
    PROVE  QueueOnce(Append(q, info)) /\ Els(Append(q, info)) = Els(q) \cup info.els
  <1> DEFINE r == Append(q, info)
  <1>1. /\ Len(r) = Len(q) + 1 /\ Len(q) \in Nat
        /\ r[Len(q) + 1] = info
        /\ \A i \in 1..Len(q) : r[i] = q[i]
    OBVIOUS
  <1> HIDE DEF r
  <1>2. \A i \in 1..Len(r) : i \in 1..Len(q) \/ i = Len(q) + 1
    BY <1>1
  <1>3. \A i \in 1..Len(q) : i \in 1..Len(r) /\ Apart(info.els, q[i].els)
    BY <1>1 DEF Apart, Els
  <1>4. QueueOnce(r)
    BY <1>1, <1>2, <1>3 DEF QueueOnce, Apart
  <1>5. Len(q) + 1 \in 1..Len(r)
    BY <1>1
  <1>6. Els(r) = Els(q) \cup info.els
    BY <1>1, <1>2, <1>3, <1>5 DEF Els
  <1>7. QED BY <1>4, <1>6 DEF r

LEMMA TailOnce ==
    ASSUME NEW q \in Seq(ChangesetInfo), q # <<>>, QueueOnce(q)
    PROVE  /\ QueueOnce(Tail(q))
           /\ Apart(Head(q).els, Els(Tail(q)))
           /\ Els(q) = Head(q).els \cup Els(Tail(q))
  <1> DEFINE r == Tail(q)
  <1>1. /\ Len(q) \in Nat /\ Len(q) > 0 /\ Len(r) = Len(q) - 1 /\ Head(q) = q[1]
        /\ \A i \in 1..Len(r) : r[i] = q[i + 1]
    OBVIOUS
  <1> HIDE DEF r
  <1>2. \A i \in 1..Len(r) : i + 1 \in 1..Len(q) /\ i + 1 # 1
    BY <1>1
  <1>3. \A i \in 1..Len(q) : i = 1 \/ (i - 1 \in 1..Len(r) /\ r[i - 1] = q[i])
    BY <1>1
  <1>4. 1 \in 1..Len(q)
    BY <1>1
  <1>5. QueueOnce(r)
    BY <1>1, <1>2 DEF QueueOnce
  <1>6. Apart(q[1].els, Els(r))
    BY <1>1, <1>2, <1>4 DEF QueueOnce, Els, Apart
  <1>7. Els(q) = q[1].els \cup Els(r)
    <2>1. q[1].els \subseteq Els(q)
      BY <1>4 DEF Els
    <2>2. ASSUME NEW i \in 1..Len(r) PROVE r[i].els \subseteq Els(q)
      BY <1>1, <1>2 DEF Els
    <2>3. ASSUME NEW i \in 1..Len(q) PROVE q[i].els \subseteq q[1].els \cup Els(r)
      BY <1>3 DEF Els
    <2>4. Els(q) \subseteq q[1].els \cup Els(r)
      BY <2>3 DEF Els
    <2>5. Els(r) \subseteq Els(q)
      BY <2>2 DEF Els
    <2>6. QED BY <2>1, <2>4, <2>5
  <1>8. QED BY <1>1, <1>5, <1>6, <1>7 DEF r

-----------------------------------------------------------------------------
(* A step deals the elements anew.                                         *)

\* What has its place in the state, apart from the threads.
LEMMA AvailableWith ==
    ASSUME NEW st \in Statuses, NEW S, NEW s \in ElementStatus
    PROVE  /\ s # "Available" => AvailableIn(With(st, S, s)) = AvailableIn(st) \ S
           /\ AvailableIn(With(st, S, s)) \subseteq AvailableIn(st) \cup S
  BY DEF AvailableIn, With, Statuses

\* Thread w deals N to the queue, C to the cleanup and V to the Available
\* elements, and keeps the rest; A is what it takes from the Available elements.
Dealt(w, N, C, V, A) ==
    /\ QueueOnce(queue') /\ Els(queue') = Els(queue) \cup N
    /\ \A v \in Worker \ {w} : work'[v] = work[v] /\ doom'[v] = doom[v] /\ wpc'[v] = wpc[v]
    /\ ppc' = ppc /\ pwork' = pwork
    /\ cleanup' = cleanup \cup C
    /\ AvailableIn(status') \subseteq (AvailableIn(status) \ A) \cup V
    /\ A \subseteq AvailableIn(status) /\ Apart(A, V)
    /\ N \cup C \cup V \cup work'[w].els \cup doom'[w] \subseteq InHand(w) \cup A
    /\ Apart(N, C \cup V \cup work'[w].els \cup doom'[w])
    /\ Apart(C, V \cup work'[w].els \cup doom'[w])
    /\ Apart(V, work'[w].els \cup doom'[w])
    /\ Apart(work'[w].els, doom'[w])
    /\ wpc'[w] \in Unburdened => work'[w].els = {}
    /\ wpc'[w] \notin Dooming => doom'[w] = {}

LEMMA QueuedIsEls == Queued = Els(queue) /\ Queued' = Els(queue')
  BY DEF Queued, Els

LEMMA Deal ==
    ASSUME ExclusiveWork, HandsEmpty, NEW w \in Worker,
           NEW N, NEW C, NEW V, NEW A, Dealt(w, N, C, V, A)
    PROVE  ExclusiveWork' /\ HandsEmpty'
  <1> DEFINE a == AvailableIn(status)
             b == AvailableIn(status')
             hand(v) == work[v].els \cup doom[v]
             hand1(v) == work'[v].els \cup doom'[v]
  <1>1. \A v \in Worker \ {w} : hand1(v) = hand(v)
    BY DEF Dealt
  <1>2. hand1(w) \subseteq hand(w) \cup A
    BY DEF Dealt, InHand
  <1>3. /\ \A u, v \in Worker : u # v => Apart(hand(u), hand(v))
        /\ \A v \in Worker : Apart(hand(v), Els(queue) \cup pwork \cup cleanup \cup a)
    BY QueuedIsEls DEF ExclusiveWork, InHand
  <1>4. A \subseteq a
    BY DEF Dealt
  <1>5. \A u, v \in Worker : u # v => Apart(hand1(u), hand1(v))
    BY <1>1, <1>2, <1>3, <1>4 DEF Apart
  <1>6. HandsEmpty'
    BY DEF HandsEmpty, Dealt
  <1>7. \A v \in Worker : Apart(work'[v].els, doom'[v])
    BY DEF Dealt, ExclusiveWork
  <1>8. /\ Apart(Els(queue), pwork \cup cleanup \cup a)
        /\ Apart(pwork, cleanup \cup a) /\ Apart(cleanup, a)
    BY QueuedIsEls DEF ExclusiveWork
  <1>9. /\ QueueOnce(queue') /\ Els(queue') = Els(queue) \cup N
        /\ pwork' = pwork /\ cleanup' = cleanup \cup C
        /\ b \subseteq (a \ A) \cup V
    BY DEF Dealt
  <1>10. /\ N \cup C \cup V \subseteq hand(w) \cup A
         /\ Apart(A, V) /\ Apart(N, C \cup V \cup hand1(w))
         /\ Apart(C, V \cup hand1(w)) /\ Apart(V, hand1(w))
    BY DEF Dealt, InHand
  <1> HIDE DEF a, b, hand, hand1
  <1>11. ASSUME NEW v \in Worker \ {w}
         PROVE  Apart(hand1(v), Els(queue') \cup pwork' \cup cleanup' \cup b)
    <2>1. Apart(hand(v), hand(w) \cup A)
      BY <1>3, <1>4 DEF Apart
    <2>2. QED BY <1>1, <1>3, <1>9, <1>10, <2>1 DEF Apart
  <1>12. Apart(hand1(w), Els(queue') \cup pwork' \cup cleanup' \cup b)
    <2>1. Apart(hand(w) \cup A, Els(queue) \cup pwork \cup cleanup \cup (a \ A))
      BY <1>3, <1>4, <1>8 DEF Apart
    <2>2. QED BY <1>2, <1>9, <1>10, <2>1 DEF Apart
  <1>13. Apart(N \cup C \cup V, Els(queue) \cup pwork \cup cleanup \cup (a \ A))
    BY <1>3, <1>4, <1>8, <1>10 DEF Apart
  <1>14. Apart(Els(queue'), pwork' \cup cleanup' \cup b)
    BY <1>8, <1>9, <1>10, <1>13 DEF Apart
  <1>15. Apart(pwork', cleanup' \cup b)
    BY <1>8, <1>9, <1>10, <1>13 DEF Apart
  <1>16. Apart(cleanup', b)
    BY <1>8, <1>9, <1>10, <1>13 DEF Apart
  <1>17. ExclusiveWork'
    <2>1. \A i, j \in 1..Len(queue') : i # j => Apart(queue'[i].els, queue'[j].els)
      BY <1>9 DEF QueueOnce
    <2>2. \A v \in Worker : Apart(hand1(v), Els(queue') \cup pwork' \cup cleanup' \cup b)
      BY <1>11, <1>12
    <2>3. QED
      BY <1>5, <1>7, <1>14, <1>15, <1>16, <2>1, <2>2, QueuedIsEls
      DEF ExclusiveWork, InHand, hand1, b
  <1>18. QED BY <1>6, <1>17

\* The usual deals: a thread keeps or drops what it has, or queues it.
LEMMA OwnPart ==
    ASSUME TypeOK, NEW w \in Worker
    PROVE  /\ \A pc : Goto(w, pc) => /\ wpc'[w] = pc
                                   /\ \A v \in Worker \ {w} : wpc'[v] = wpc[v]
           /\ Release(w) => /\ work'[w].els = {}
                            /\ \A v \in Worker \ {w} : work'[v] = work[v]
           /\ \A S, pc : Doom(w, S, pc) =>
                 /\ wpc'[w] = pc /\ doom'[w] = S
                 /\ \A v \in Worker \ {w} : wpc'[v] = wpc[v] /\ doom'[v] = doom[v]
  BY DEF TypeOK, Goto, Release, Doom, NoWork, Fresh

LEMMA KeepDeals ==
    ASSUME TypeOK, ExclusiveWork, HandsEmpty, NEW w \in Worker,
           UNCHANGED <<queue, ppc, pwork, cleanup>>,
           AvailableIn(status') \subseteq AvailableIn(status),
           \A v \in Worker \ {w} : work'[v] = work[v] /\ doom'[v] = doom[v] /\ wpc'[v] = wpc[v],
           work'[w].els \cup doom'[w] \subseteq InHand(w),
           Apart(work'[w].els, doom'[w]),
           wpc'[w] \in Unburdened => work'[w].els = {},
           wpc'[w] \notin Dooming => doom'[w] = {}
    PROVE  ExclusiveWork' /\ HandsEmpty'
  <1>1. QueueOnce(queue)
    BY DEF ExclusiveWork, QueueOnce
  <1>2. Dealt(w, {}, {}, {}, {})
    BY <1>1 DEF Dealt, Apart
  <1>3. QED BY <1>2, Deal

LEMMA PushDeals ==
    ASSUME TypeOK, ExclusiveWork, HandsEmpty, NEW w \in Worker, NEW info \in ChangesetInfo,
           queue' = Append(queue, info), info.els \subseteq work[w].els,
           UNCHANGED <<ppc, pwork, cleanup>>,
           AvailableIn(status') \subseteq AvailableIn(status),
           \A v \in Worker \ {w} : work'[v] = work[v] /\ doom'[v] = doom[v] /\ wpc'[v] = wpc[v],
           work'[w].els = {}, doom'[w] = {}
    PROVE  ExclusiveWork' /\ HandsEmpty'
  <1>1. QueueOnce(queue)
    BY DEF ExclusiveWork, QueueOnce
  <1>2. info.els \subseteq InHand(w)
    BY DEF InHand
  <1>3. Apart(info.els, Els(queue))
    BY <1>2, QueuedIsEls DEF ExclusiveWork, Apart
  <1>4. QueueOnce(queue') /\ Els(queue') = Els(queue) \cup info.els
    BY <1>1, <1>3, AppendOnce DEF TypeOK
  <1>5. Dealt(w, info.els, {}, {}, {})
    BY <1>2, <1>4 DEF Dealt, Apart
  <1>6. QED BY <1>5, Deal

\* A thread that does not change the changeset changes nobody's status.
LEMMA ChangesetKept ==
    ASSUME TypeOK, UNCHANGED changesetVars
    PROVE  cleanup' = cleanup /\ AvailableIn(status') \subseteq AvailableIn(status)
  BY DEF changesetVars

-----------------------------------------------------------------------------
(* Every step of a thread keeps IInv.                                      *)

\* Steps of a thread that leave everything where it is.
LEMMA ExclusiveStill ==
    ASSUME IInv, NEW w \in Worker,
           \/ BeginLoop(w) \/ SeeDone(w) \/ FindNoWork(w) \/ BeginWork(w) \/ CreateChangeset(w)
           \/ DropEmpty(w) \/ Upload(w) \/ StopWhenTold(w) \/ FindIdle(w) \/ GoIdle(w) \/ Exit(w)
    PROVE  ExclusiveWork' /\ HandsEmpty'
  <1> USE DEF IInv
  <1>1. UNCHANGED <<queue, ppc, pwork, doom>> /\ UNCHANGED changesetVars
    BY DEF BeginLoop, SeeDone, FindNoWork, BeginWork, CreateChangeset, DropEmpty, Upload,
           StopWhenTold, FindIdle, GoIdle, Exit, producerVars
  <1>2. \E pc : Goto(w, pc)
    BY DEF BeginLoop, SeeDone, FindNoWork, BeginWork, CreateChangeset, DropEmpty, Upload,
           StopWhenTold, FindIdle, GoIdle, Exit
  <1>3. /\ work' = work \/ Release(w)
        /\ wpc[w] \notin Dooming /\ wpc'[w] \notin Dooming
        /\ wpc'[w] \in Unburdened => work'[w].els = {}
    <2>1. CASE BeginLoop(w) \/ SeeDone(w) \/ FindNoWork(w) \/ StopWhenTold(w)
               \/ FindIdle(w) \/ GoIdle(w) \/ Exit(w)
      BY <2>1, OwnPart
      DEF BeginLoop, SeeDone, FindNoWork, StopWhenTold, FindIdle, GoIdle, NothingToDo, Exit,
          HandsEmpty, Unburdened, Dooming
    <2>2. CASE BeginWork(w) \/ CreateChangeset(w)
      BY <2>2, OwnPart DEF BeginWork, CreateChangeset, Unburdened, Dooming
    <2>3. CASE DropEmpty(w)
      BY <2>3, OwnPart DEF DropEmpty, Unburdened, Dooming
    <2>4. CASE Upload(w)
      <3>1. wpc'[w] \in Refusals \cup {"ok"}
        BY <2>4, OwnPart, WriterAssumption DEF Upload, Answer, Refusals
      <3>2. QED BY <2>4, <3>1 DEF Upload, Refusals, Unburdened, Dooming
    <2>5. QED BY <2>1, <2>2, <2>3, <2>4
  <1>4. doom[w] = {}
    BY <1>3 DEF HandsEmpty
  <1>5. \A v \in Worker \ {w} : work'[v] = work[v] /\ wpc'[v] = wpc[v]
    BY <1>2, <1>3, OwnPart
  <1>6. work'[w].els \subseteq InHand(w)
    BY <1>3, OwnPart DEF InHand
  <1>7. QED
    BY <1>1, <1>3, <1>4, <1>5, <1>6, ChangesetKept, KeepDeals DEF Apart

\* What finalizing and failing do to the Available elements.
LEMMA SettlingAvailable ==
    ASSUME TypeOK
    PROVE  /\ \A S : Finalize(S) => /\ cleanup' = cleanup
                                    /\ AvailableIn(status') \subseteq AvailableIn(status)
           /\ \A F, n : Fail(F, n) => /\ cleanup' = cleanup
                                      /\ AvailableIn(status') \subseteq AvailableIn(status)
           /\ FailRemaining => /\ cleanup' = cleanup
                              /\ AvailableIn(status') \subseteq AvailableIn(status)
  <1>1. status \in Statuses
    BY DEF TypeOK
  <1>2. \A S, s : s \in Settled => AvailableIn(With(status, S, s)) \subseteq AvailableIn(status)
    BY <1>1, AvailableWith DEF Settled, ElementStatus
  <1>3. QED BY <1>2 DEF Finalize, Fail, FailRemaining, Settled

\* Steps of a thread that put its work back on the queue.
LEMMA ExclusiveRequeue ==
    ASSUME IInv, NEW w \in Worker,
           \/ FailToCreate(w) \/ RetryClosed(w) \/ FixVersion(w) \/ RetryOther(w)
           \/ RetryUnavailable(w) \/ FinalizeGone(w) \/ FailThenPush(w)
    PROVE  ExclusiveWork' /\ HandsEmpty'
  <1> USE DEF IInv
  <1>1. \E info \in ChangesetInfo : queue' = Append(queue, info) /\ info.els \subseteq work[w].els
    <2>1. CASE FailToCreate(w) \/ RetryUnavailable(w)
      BY <2>1, ThreadType DEF FailToCreate, RetryUnavailable
    <2>2. CASE RetryClosed(w) \/ FailThenPush(w)
      BY <2>2, ThreadType DEF RetryClosed, FailThenPush, Push
    <2>3. CASE FixVersion(w)
      BY <2>3, ThreadType, RetryType DEF FixVersion, Push
    <2>4. CASE RetryOther(w)
      BY <2>4, ThreadType, RetryType DEF RetryOther, Push
    <2>5. CASE FinalizeGone(w)
      <3>1. PICK e : queue' = Append(queue, Shrunk(work[w], work[w].els \ {e}))
        BY <2>5 DEF FinalizeGone, Push
      <3>2. QED BY <3>1, ThreadType, ShrunkType
    <2>6. QED BY <2>1, <2>2, <2>3, <2>4, <2>5
  <1>2. Release(w) /\ UNCHANGED <<ppc, pwork>>
    BY DEF FailToCreate, RetryClosed, FixVersion, RetryOther, RetryUnavailable, FinalizeGone,
           FailThenPush, Push, producerVars
  <1>3. \E pc : Goto(w, pc)
    BY DEF FailToCreate, RetryClosed, FixVersion, RetryOther, RetryUnavailable, FinalizeGone,
           FailThenPush, Push
  <1>4. /\ doom'[w] = {} /\ \A v \in Worker \ {w} : doom'[v] = doom[v]
        /\ cleanup' = cleanup /\ AvailableIn(status') \subseteq AvailableIn(status)
    <2>1. CASE FailThenPush(w)
      BY <2>1, SettlingAvailable DEF FailThenPush, WriteFailure, TypeOK
    <2>2. CASE FinalizeGone(w)
      <3>1. doom' = doom /\ wpc[w] \notin Dooming /\ \E S : Finalize(S)
        BY <2>2 DEF FinalizeGone, Answered, Dooming
      <3>2. QED BY <3>1, SettlingAvailable DEF HandsEmpty
    <2>3. CASE \/ FailToCreate(w) \/ RetryClosed(w) \/ FixVersion(w) \/ RetryOther(w)
               \/ RetryUnavailable(w)
      <3>1. doom' = doom /\ UNCHANGED changesetVars
        BY <2>3 DEF FailToCreate, RetryClosed, FixVersion, RetryOther, RetryUnavailable
      <3>2. wpc[w] \notin Dooming
        BY <2>3 DEF FailToCreate, RetryClosed, FixVersion, RetryOther, RetryUnavailable,
                    CanFixVersion, Answered, Dooming
      <3>3. QED BY <3>1, <3>2, ChangesetKept DEF HandsEmpty
    <2>4. QED BY <2>1, <2>2, <2>3
  <1>5. /\ work'[w].els = {}
        /\ \A v \in Worker \ {w} : work'[v] = work[v] /\ wpc'[v] = wpc[v]
    BY <1>2, <1>3, OwnPart
  <1>6. QED BY <1>1, <1>2, <1>4, <1>5, PushDeals

\* Steps of a thread that end with its work, or some of it, settled.
LEMMA ExclusiveSettle ==
    ASSUME IInv, NEW w \in Worker,
           Accept(w) \/ QuitVersion(w) \/ FailOther(w) \/ FailThenDrop(w) \/ FailThenQuit(w)
    PROVE  ExclusiveWork' /\ HandsEmpty'
  <1> USE DEF IInv
  <1>1. UNCHANGED <<queue, ppc, pwork>>
    BY DEF Accept, QuitVersion, FailOther, FailThenDrop, FailThenQuit, producerVars
  <1>2. CASE Accept(w)
    <2>1. doom' = doom /\ wpc[w] \notin Dooming /\ wpc'[w] = "loop"
      BY <1>2, OwnPart DEF Accept, Answered, Dooming
    <2>2. doom'[w] = {}
      BY <2>1 DEF HandsEmpty
    <2>3. cleanup' = cleanup /\ AvailableIn(status') \subseteq AvailableIn(status)
      BY <1>2, SettlingAvailable DEF Accept
    <2>4. QED
      BY <1>1, <1>2, <2>1, <2>2, <2>3, OwnPart, KeepDeals DEF Accept, Apart
  <1>3. CASE QuitVersion(w) \/ FailOther(w)
    <2>1. Release(w) /\ UNCHANGED changesetVars /\ wpc[w] \notin Dooming
      BY <1>3 DEF QuitVersion, FailOther, CanFixVersion, Answered, Dooming
    <2>2. \/ Doom(w, work[w].els, "failQuit") \/ Doom(w, work[w].els, "failDrop")
          \/ Goto(w, "exit") /\ doom' = doom
      BY <1>3 DEF QuitVersion, FailOther
    <2>3. doom[w] = {}
      BY <2>1 DEF HandsEmpty
    <2>4. /\ \A v \in Worker \ {w} : doom'[v] = doom[v] /\ wpc'[v] = wpc[v]
          /\ doom'[w] = {} \/ (doom'[w] = work[w].els /\ wpc'[w] \in Dooming)
      BY <2>2, <2>3, OwnPart DEF Dooming
    <2>5. QED
      BY <1>1, <2>1, <2>4, OwnPart, ChangesetKept, KeepDeals DEF Apart, InHand
  <1>4. CASE FailThenDrop(w) \/ FailThenQuit(w)
    <2>1. WriteFailure(w) /\ work' = work /\ wpc[w] \in {"failDrop", "failQuit"}
      BY <1>4 DEF FailThenDrop, FailThenQuit
    <2>2. work[w].els = {}
      BY <2>1 DEF HandsEmpty, Unburdened
    <2>3. doom'[w] = {} /\ \A v \in Worker \ {w} : doom'[v] = doom[v]
      BY <2>1 DEF WriteFailure, TypeOK
    <2>4. cleanup' = cleanup /\ AvailableIn(status') \subseteq AvailableIn(status)
      BY <2>1, SettlingAvailable DEF WriteFailure
    <2>5. \A v \in Worker \ {w} : wpc'[v] = wpc[v]
      BY <1>4, OwnPart DEF FailThenDrop, FailThenQuit
    <2>6. QED
      BY <1>1, <2>1, <2>2, <2>3, <2>4, <2>5, KeepDeals DEF Apart
  <1>5. QED BY <1>2, <1>3, <1>4

\* A split deals the elements of the changeset, and those it adds, to at most
\* one place each.
LEMMA SplitParts ==
    ASSUME IInv, NEW w \in Worker, NEW x \in SplitChangeset(w)
    PROVE  /\ x \in SplitOutcome /\ Splitting(w) \in ChangesetInfo
           /\ x.rest \cup x.split \cup x.avail \cup x.orphan \subseteq work[w].els \cup x.adds
           /\ x.adds \subseteq AvailableIn(status) /\ Apart(x.adds, x.avail)
           /\ Apart(x.rest, x.split \cup x.avail \cup x.orphan)
           /\ Apart(x.split, x.avail \cup x.orphan) /\ Apart(x.avail, x.orphan)
  <1> DEFINE S == work[w].els
  <1>1. /\ x \in SplitOutcome /\ Splitting(w) \in ChangesetInfo /\ Splitting(w).els = S
        /\ status \in Statuses /\ S \in SUBSET Element
    BY SplitType, ThreadType DEF IInv, TypeOK
  <1>2. CASE Cardinality(S) = 1
    <2>1. x = Unsplit(Splitting(w))
      BY <1>1, <1>2 DEF SplitChangeset
    <2>2. x.rest = S /\ x.split = {} /\ x.avail = {} /\ x.orphan = {} /\ x.adds = {}
      BY <1>1, <2>1 DEF Unsplit
    <2>3. QED BY <1>1, <2>2 DEF Apart
  <1>3. CASE Cardinality(S) # 1
    <2>1. Apart(S, AvailableIn(status))
      BY DEF IInv, ExclusiveWork, InHand, Apart
    <2>2. x \in SplitInHalf(S) \/ x \in SplitByHint(status, S)
      BY <1>1, <1>3 DEF SplitChangeset
    <2>3. SplitsSoundly(x, S, {}) \/ SplitsSoundly(x, S, AvailableIn(status))
      BY <1>1, <1>3, <2>1, <2>2, SplitInHalfAssumption, SplitByHintAssumption
    <2>4. /\ x.rest \cup x.split \cup x.avail \cup x.orphan \subseteq S \cup x.adds
          /\ x.adds \subseteq AvailableIn(status) /\ Apart(x.adds, x.avail)
          /\ Apart(x.rest, x.split) /\ Apart(x.rest, x.orphan) /\ Apart(x.split, x.orphan)
          /\ Apart(x.avail, x.rest \cup x.split \cup x.orphan)
      BY <2>3 DEF SplitsSoundly
    <2>5. QED BY <1>1, <2>4 DEF Apart
  <1>4. QED BY <1>2, <1>3

LEMMA SplitApplied ==
    ASSUME IInv, NEW w \in Worker, NEW x \in SplitChangeset(w), ApplySplit(x)
    PROVE  /\ cleanup' = cleanup \cup x.orphan
           /\ AvailableIn(status') \subseteq (AvailableIn(status) \ x.adds) \cup x.avail
  <1> DEFINE st1 == With(status, x.avail, "Available")
             st2 == With(st1, x.adds, "Buffering")
             failing == FailureOf(st2, x.fails)
  <1>1. status \in Statuses
    BY DEF IInv, TypeOK
  <1>2. st1 \in Statuses /\ AvailableIn(st1) \subseteq AvailableIn(status) \cup x.avail
    BY <1>1, WithType, AvailableWith DEF ElementStatus
  <1>3. st2 \in Statuses /\ AvailableIn(st2) = AvailableIn(st1) \ x.adds
    BY <1>2, WithType, AvailableWith DEF ElementStatus
  <1>4. AvailableIn(With(st2, failing, "Failed")) \subseteq AvailableIn(st2)
    BY <1>3, AvailableWith DEF ElementStatus
  <1>5. status' = With(st2, failing, "Failed") /\ cleanup' = cleanup \cup x.orphan
    BY DEF ApplySplit
  <1>6. QED BY <1>2, <1>3, <1>4, <1>5

\* Steps of a thread that split its work.
LEMMA ExclusiveSplit ==
    ASSUME IInv, NEW w \in Worker,
           PushSplit(w) \/ FailSplit(w) \/ PushUnsplit(w) \/ DropUnsplit(w) \/ FailUnsplit(w)
    PROVE  ExclusiveWork' /\ HandsEmpty'
  <1> USE DEF IInv
  <1>1. /\ UNCHANGED <<ppc, pwork>>
        /\ wpc[w] \notin Dooming
    BY DEF PushSplit, FailSplit, PushUnsplit, DropUnsplit, FailUnsplit, Splits, Answered,
           Dooming, producerVars
  <1>2. doom[w] = {}
    BY <1>1 DEF HandsEmpty
  <1>3. /\ QueueOnce(queue) /\ queue \in Seq(ChangesetInfo)
        /\ Apart(work[w].els, Els(queue)) /\ Apart(AvailableIn(status), Els(queue))
    BY QueuedIsEls DEF ExclusiveWork, QueueOnce, TypeOK, InHand, Apart
  <1>4. CASE PushSplit(w)
    <2>1. PICK x \in SplitChangeset(w) :
            /\ ApplySplit(x)
            /\ queue' = queue \o <<Shrunk(Splitting(w), x.rest), Fresh(x.split)>>
      BY <1>4 DEF PushSplit
    <2> DEFINE one == Shrunk(Splitting(w), x.rest)
               two == Fresh(x.split)
    <2>2. /\ one \in ChangesetInfo /\ one.els = x.rest
          /\ two \in ChangesetInfo /\ two.els = x.split
      BY SplitParts, ShrunkType, FreshType DEF SplitOutcome
    <2>3. queue' = Append(Append(queue, one), two)
      BY <1>3, <2>1, <2>2
    <2> HIDE DEF one, two
    <2>4. Append(queue, one) \in Seq(ChangesetInfo)
      BY <1>3, <2>2
    <2>5. Apart(x.rest \cup x.split, Els(queue)) /\ Apart(x.rest, x.split)
      BY <1>3, SplitParts DEF Apart
    <2>6. QueueOnce(Append(queue, one)) /\ Els(Append(queue, one)) = Els(queue) \cup x.rest
      BY <1>3, <2>2, <2>5, AppendOnce DEF Apart
    <2>7. Apart(two.els, Els(Append(queue, one)))
      BY <2>2, <2>5, <2>6 DEF Apart
    <2>8. QueueOnce(queue') /\ Els(queue') = Els(queue) \cup (x.rest \cup x.split)
      <3>1. /\ QueueOnce(Append(Append(queue, one), two))
            /\ Els(Append(Append(queue, one), two)) = Els(Append(queue, one)) \cup two.els
        BY <2>2, <2>4, <2>6, <2>7, AppendOnce
      <3>2. QED BY <2>2, <2>3, <2>6, <3>1
    <2>9. /\ work'[w].els = {} /\ doom' = doom /\ wpc'[w] = "loop"
          /\ \A v \in Worker \ {w} : work'[v] = work[v] /\ wpc'[v] = wpc[v]
      BY <1>4, OwnPart DEF PushSplit
    <2>10. Dealt(w, x.rest \cup x.split, x.orphan, x.avail, x.adds)
      BY <1>1, <1>2, <2>1, <2>8, <2>9, SplitParts, SplitApplied DEF Dealt, Apart, InHand
    <2>11. QED BY <2>10, Deal
  <1>5. CASE FailSplit(w)
    <2>1. PICK x \in SplitChangeset(w) :
            /\ ApplySplit(x)
            /\ work' = [work EXCEPT ![w] = Shrunk(Splitting(w), x.rest)]
            /\ Doom(w, x.split, "failPush")
      BY <1>5 DEF FailSplit
    <2>2. Shrunk(Splitting(w), x.rest).els = x.rest
      BY SplitParts, ShrunkType DEF SplitOutcome
    <2>3. work'[w].els = x.rest /\ \A v \in Worker \ {w} : work'[v] = work[v]
      BY <2>1, <2>2 DEF TypeOK
    <2>4. queue' = queue
      BY <1>5 DEF FailSplit
    <2>5. /\ doom'[w] = x.split /\ wpc'[w] = "failPush"
          /\ \A v \in Worker \ {w} : doom'[v] = doom[v] /\ wpc'[v] = wpc[v]
      BY <2>1, OwnPart
    <2>6. Dealt(w, {}, x.orphan, x.avail, x.adds)
      BY <1>1, <1>3, <2>1, <2>3, <2>4, <2>5, SplitParts, SplitApplied
      DEF Dealt, Apart, InHand, Unburdened, Dooming
    <2>7. QED BY <2>6, Deal
  <1>6. CASE PushUnsplit(w)
    <2> DEFINE retry(x) == [Shrunk(Splitting(w), x.rest) EXCEPT !.attempted = @ \/ Unresolved(w)]
    <2>1. PICK x \in SplitChangeset(w) : ApplySplit(x) /\ Push(w, retry(x))
      BY <1>6 DEF PushUnsplit
    <2>2. retry(x) \in ChangesetInfo /\ retry(x).els = x.rest
      <3> DEFINE info == Shrunk(Splitting(w), x.rest)
                 b == info.attempted \/ Unresolved(w)
      <3>1. info \in ChangesetInfo /\ info.els = x.rest
        BY SplitParts, ShrunkType DEF SplitOutcome
      <3>2. b \in BOOLEAN
        OBVIOUS
      <3>3. retry(x) = [info EXCEPT !.attempted = b]
        OBVIOUS
      <3> HIDE DEF info, b, retry
      <3>4. QED BY <3>1, <3>2, <3>3, RetryType
    <2> HIDE DEF retry
    <2>3. Apart(x.rest, Els(queue))
      BY <1>3, SplitParts DEF Apart
    <2>4. QueueOnce(queue') /\ Els(queue') = Els(queue) \cup x.rest
      BY <1>3, <2>1, <2>2, <2>3, AppendOnce DEF Push
    <2>5. /\ work'[w].els = {} /\ wpc'[w] = "loop"
          /\ \A v \in Worker \ {w} : work'[v] = work[v] /\ wpc'[v] = wpc[v]
      BY <2>1, OwnPart DEF Push
    <2>6. doom' = doom
      BY <1>6 DEF PushUnsplit
    <2>7. Dealt(w, x.rest, x.orphan, x.avail, x.adds)
      BY <1>1, <1>2, <2>1, <2>4, <2>5, <2>6, SplitParts, SplitApplied DEF Dealt, Apart, InHand
    <2>8. QED BY <2>7, Deal
  <1>7. CASE DropUnsplit(w)
    <2>1. PICK x \in SplitChangeset(w) : ApplySplit(x)
      BY <1>7 DEF DropUnsplit
    <2>2. /\ queue' = queue /\ doom' = doom /\ work'[w].els = {} /\ wpc'[w] = "loop"
          /\ \A v \in Worker \ {w} : work'[v] = work[v] /\ wpc'[v] = wpc[v]
      BY <1>7, OwnPart DEF DropUnsplit
    <2>3. Dealt(w, {}, x.orphan, x.avail, x.adds)
      BY <1>1, <1>2, <1>3, <2>1, <2>2, SplitParts, SplitApplied DEF Dealt, Apart, InHand
    <2>4. QED BY <2>3, Deal
  <1>8. CASE FailUnsplit(w)
    <2>1. PICK x \in SplitChangeset(w) : ApplySplit(x) /\ Doom(w, x.rest, "failDrop")
      BY <1>8 DEF FailUnsplit
    <2>2. /\ queue' = queue /\ work'[w].els = {}
          /\ doom'[w] = x.rest /\ wpc'[w] = "failDrop"
          /\ \A v \in Worker \ {w} : work'[v] = work[v] /\ doom'[v] = doom[v] /\ wpc'[v] = wpc[v]
      BY <1>8, <2>1, OwnPart DEF FailUnsplit
    <2>3. Dealt(w, {}, x.orphan, x.avail, x.adds)
      BY <1>1, <1>3, <2>1, <2>2, SplitParts, SplitApplied
      DEF Dealt, Apart, InHand, Unburdened, Dooming
    <2>4. QED BY <2>3, Deal
  <1>9. QED BY <1>4, <1>5, <1>6, <1>7, <1>8

\* A thread takes the head of the queue into an empty hand.
LEMMA ExclusiveTake ==
    ASSUME IInv, NEW w \in Worker, TakeWork(w)
    PROVE  ExclusiveWork' /\ HandsEmpty'
  <1> USE DEF IInv
  <1>1. /\ queue \in Seq(ChangesetInfo) /\ queue # <<>> /\ queue' = Tail(queue)
        /\ work'[w] = Head(queue) /\ \A v \in Worker \ {w} : work'[v] = work[v]
        /\ UNCHANGED <<doom, pwork, ppc, cleanup, status>>
    BY DEF TakeWork, TypeOK, producerVars, changesetVars
  <1>2. QueueOnce(queue)
    BY DEF ExclusiveWork, QueueOnce
  <1>3. /\ QueueOnce(queue') /\ Apart(work'[w].els, Els(queue'))
        /\ Els(queue) = work'[w].els \cup Els(queue')
    BY <1>1, <1>2, TailOnce
  <1>4. work[w].els = {} /\ doom[w] = {} /\ wpc[w] = "loop"
    BY DEF TakeWork, HandsEmpty, Unburdened, Dooming
  <1>5. wpc'[w] = "taken" /\ \A v \in Worker \ {w} : wpc'[v] = wpc[v]
    BY OwnPart DEF TakeWork
  <1>6. HandsEmpty'
    BY <1>1, <1>4, <1>5 DEF HandsEmpty, Unburdened
  <1>7. \A v \in Worker : Apart(InHand(v), Els(queue) \cup pwork \cup cleanup \cup AvailableIn(status))
    BY QueuedIsEls DEF ExclusiveWork
  <1>8. /\ work'[w].els \cup doom'[w] = work'[w].els
        /\ \A v \in Worker \ {w} : work'[v].els \cup doom'[v] = InHand(v)
    BY <1>1, <1>4 DEF InHand
  <1>9. /\ Apart(Els(queue), pwork \cup cleanup \cup AvailableIn(status))
        /\ Apart(pwork, cleanup \cup AvailableIn(status)) /\ Apart(cleanup, AvailableIn(status))
    BY QueuedIsEls DEF ExclusiveWork
  <1>10. \A u, v \in Worker : u # v =>
           Apart(work'[u].els \cup doom'[u], work'[v].els \cup doom'[v])
    <2>1. \A u, v \in Worker : u # v => Apart(InHand(u), InHand(v))
      BY DEF ExclusiveWork
    <2>2. \A v \in Worker : Apart(InHand(v), work'[w].els)
      BY <1>3, <1>7 DEF Apart
    <2>3. QED BY <1>8, <2>1, <2>2 DEF Apart
  <1>11. \A v \in Worker :
           /\ Apart(work'[v].els, doom'[v])
           /\ Apart(work'[v].els \cup doom'[v],
                    Els(queue') \cup pwork' \cup cleanup' \cup AvailableIn(status'))
    <2>1. Apart(work'[w].els,
                Els(queue') \cup pwork' \cup cleanup' \cup AvailableIn(status'))
      BY <1>1, <1>3, <1>9 DEF Apart
    <2>2. \A v \in Worker \ {w} :
            Apart(InHand(v), Els(queue') \cup pwork' \cup cleanup' \cup AvailableIn(status'))
      BY <1>1, <1>3, <1>7 DEF Apart
    <2>3. \A v \in Worker : Apart(work[v].els, doom[v])
      BY DEF ExclusiveWork
    <2>4. QED BY <1>1, <1>4, <1>8, <2>1, <2>2, <2>3 DEF Apart
  <1>12. Apart(Els(queue'), pwork' \cup cleanup' \cup AvailableIn(status'))
    BY <1>1, <1>3, <1>9 DEF Apart
  <1>13. ExclusiveWork'
    BY <1>1, <1>3, <1>9, <1>10, <1>11, <1>12, QueuedIsEls DEF ExclusiveWork, QueueOnce, InHand
  <1>14. QED BY <1>6, <1>13

\* The first thread moves the cleanup to the queue.
LEMMA ExclusiveCleanup ==
    ASSUME IInv, NEW w \in Worker, PushCleanup(w)
    PROVE  ExclusiveWork' /\ HandsEmpty'
  <1> USE DEF IInv
  <1>1. /\ UNCHANGED <<status, pwork, ppc, work, doom>>
        /\ wpc'[w] = "loop" /\ \A v \in Worker \ {w} : wpc'[v] = wpc[v]
        /\ wpc[w] = "idle"
    BY OwnPart DEF PushCleanup, producerVars
  <1>2. HandsEmpty'
    BY <1>1 DEF HandsEmpty, Unburdened, Dooming
  <1>3. QueueOnce(queue)
    BY DEF ExclusiveWork, QueueOnce
  <1>4. CASE w # FirstWorker
    <2>1. UNCHANGED <<queue, cleanup>>
      BY <1>4 DEF PushCleanup
    <2>2. ExclusiveWork'
      BY <1>1, <2>1 DEF ExclusiveWork, Queued, InHand
    <2>3. QED BY <1>2, <2>2
  <1>5. CASE w = FirstWorker
    <2>1. queue' = Append(queue, Fresh(cleanup)) /\ cleanup' = {}
      BY <1>5 DEF PushCleanup
    <2>2. Fresh(cleanup) \in ChangesetInfo /\ Fresh(cleanup).els = cleanup
      BY FreshType DEF TypeOK
    <2>3. Apart(cleanup, Els(queue))
      BY QueuedIsEls DEF ExclusiveWork, Apart
    <2>4. QueueOnce(queue') /\ Els(queue') = Els(queue) \cup cleanup
      BY <1>3, <2>1, <2>2, <2>3, AppendOnce DEF TypeOK
    <2>5. \A v \in Worker :
            Apart(InHand(v), Els(queue') \cup pwork \cup {} \cup AvailableIn(status))
      BY <2>4, QueuedIsEls DEF ExclusiveWork, Apart
    <2>6. /\ Apart(Els(queue'), pwork \cup {} \cup AvailableIn(status))
          /\ Apart(pwork, {} \cup AvailableIn(status)) /\ Apart({}, AvailableIn(status))
      BY <2>4, QueuedIsEls DEF ExclusiveWork, Apart
    <2>7. ExclusiveWork'
      BY <1>1, <2>1, <2>4, <2>5, <2>6, QueuedIsEls DEF ExclusiveWork, QueueOnce, InHand
    <2>8. QED BY <1>2, <2>7
  <1>6. QED BY <1>4, <1>5

-----------------------------------------------------------------------------
(* Every step of apply() keeps IInv.                                       *)

\* Steps that at most fail what remains.
LEMMA ExclusiveWaiting ==
    ASSUME IInv,
           \/ PollFinished \/ PollFailed \/ PollRoom \/ PollFull
           \/ KeepWaiting \/ DecideToGiveUp \/ GiveUp \/ StartWork \/ JoinThreads
    PROVE  ExclusiveWork' /\ HandsEmpty'
  <1> USE DEF IInv
  <1>1. UNCHANGED <<queue, pwork, wpc, work, doom>>
    BY DEF PollFinished, PollFailed, PollRoom, PollFull, KeepWaiting, DecideToGiveUp, GiveUp,
           StartWork, JoinThreads, workerVars, producerVars
  <1>2. ppc # "push"
    BY DEF PollFinished, PollFailed, PollRoom, PollFull, KeepWaiting, DecideToGiveUp, GiveUp,
           StartWork, JoinThreads
  <1>3. FailRemaining \/ UNCHANGED changesetVars
    BY DEF PollFinished, PollFailed, PollRoom, PollFull, KeepWaiting, DecideToGiveUp, GiveUp,
           StartWork, JoinThreads
  <1>4. cleanup' = cleanup /\ AvailableIn(status') \subseteq AvailableIn(status)
    BY <1>3, SettlingAvailable, ChangesetKept
  <1>5. pwork = {}
    BY <1>2 DEF HandsEmpty
  <1>6. HandsEmpty'
    BY <1>1, <1>5 DEF HandsEmpty
  <1>7. ExclusiveWork'
    BY <1>1, <1>4 DEF ExclusiveWork, Queued, InHand, Apart
  <1>8. QED BY <1>6, <1>7

\* calculateChangeset takes from the Available elements only.
LEMMA ExclusiveCalculate ==
    ASSUME IInv, CalculateWork
    PROVE  ExclusiveWork' /\ HandsEmpty'
  <1> USE DEF IInv
  <1> DEFINE info == Calculate(status, Unsent)
  <1>1. status \in Statuses /\ info \subseteq AvailableIn(status)
    BY CalculateType DEF TypeOK
  <1>2. /\ UNCHANGED <<queue, cleanup, wpc, work, doom>>
        /\ pwork' = info /\ (info # {} => ppc' = "push")
        /\ status' = With(status, info \cup sendBuffer, "Sent")
    BY DEF CalculateWork, workerVars
  <1>3. AvailableIn(status') = AvailableIn(status) \ (info \cup sendBuffer)
    BY <1>1, <1>2, AvailableWith DEF ElementStatus
  <1> HIDE DEF info
  <1>4. HandsEmpty'
    BY <1>2 DEF HandsEmpty
  <1>5. \A w \in Worker :
          Apart(InHand(w), Queued \cup pwork' \cup cleanup \cup AvailableIn(status'))
    BY <1>1, <1>2, <1>3 DEF ExclusiveWork, Apart
  <1>6. /\ Apart(Queued, pwork' \cup cleanup \cup AvailableIn(status'))
        /\ Apart(pwork', cleanup \cup AvailableIn(status'))
        /\ Apart(cleanup, AvailableIn(status'))
    BY <1>1, <1>2, <1>3 DEF ExclusiveWork, Apart
  <1>7. Queued' = Queued
    BY <1>2 DEF Queued
  <1>8. /\ \A i, j \in 1..Len(queue) : i # j => Apart(queue[i].els, queue[j].els)
        /\ \A v, w \in Worker : v # w => Apart(InHand(v), InHand(w))
        /\ \A w \in Worker : Apart(work[w].els, doom[w])
    BY DEF ExclusiveWork
  <1>9. ExclusiveWork'
    BY <1>2, <1>5, <1>6, <1>7, <1>8 DEF ExclusiveWork, InHand
  <1>10. QED BY <1>4, <1>9

LEMMA ExclusivePush ==
    ASSUME IInv, PushWork
    PROVE  ExclusiveWork' /\ HandsEmpty'
  <1> USE DEF IInv
  <1>1. /\ UNCHANGED <<cleanup, status, wpc, work, doom>>
        /\ queue' = Append(queue, Fresh(pwork)) /\ pwork' = {}
    BY DEF PushWork, workerVars, changesetVars
  <1>2. HandsEmpty'
    BY <1>1 DEF HandsEmpty
  <1>3. QueueOnce(queue) /\ Apart(pwork, Els(queue))
    BY QueuedIsEls DEF ExclusiveWork, QueueOnce, Apart
  <1>4. QueueOnce(queue') /\ Els(queue') = Els(queue) \cup pwork
    BY <1>1, <1>3, AppendOnce, FreshType DEF TypeOK
  <1>5. \A w \in Worker : Apart(InHand(w), Els(queue') \cup {} \cup cleanup \cup AvailableIn(status))
    BY <1>4, QueuedIsEls DEF ExclusiveWork, Apart
  <1>6. /\ Apart(Els(queue'), {} \cup cleanup \cup AvailableIn(status))
        /\ Apart({}, cleanup \cup AvailableIn(status))
        /\ Apart(cleanup, AvailableIn(status))
    BY <1>4, QueuedIsEls DEF ExclusiveWork, Apart
  <1>7. ExclusiveWork'
    BY <1>1, <1>4, <1>5, <1>6, QueuedIsEls DEF ExclusiveWork, QueueOnce, InHand
  <1>8. QED BY <1>2, <1>7

-----------------------------------------------------------------------------
(* The theorem.                                                            *)

LEMMA InvariantInit == Init => ExclusiveWork /\ HandsEmpty
  <1> SUFFICES ASSUME Init PROVE ExclusiveWork /\ HandsEmpty
    OBVIOUS
  <1>1. /\ queue = <<>> /\ pwork = {} /\ cleanup = {}
        /\ \A w \in Worker : work[w].els = {} /\ doom[w] = {}
    BY DEF Init, NoWork, Fresh
  <1>2. Queued = {}
    BY <1>1 DEF Queued
  <1>3. ExclusiveWork
    BY <1>1, <1>2 DEF ExclusiveWork, InHand, Apart
  <1>4. QED BY <1>1, <1>3 DEF HandsEmpty

LEMMA InvariantStep == IInv /\ [Next]_vars => ExclusiveWork' /\ HandsEmpty'
  <1> SUFFICES ASSUME IInv, [Next]_vars PROVE ExclusiveWork' /\ HandsEmpty'
    OBVIOUS
  <1>1. CASE Producer
    BY <1>1, ExclusiveWaiting, ExclusiveCalculate, ExclusivePush DEF Producer
  <1>2. ASSUME NEW w \in Worker, Thread(w) PROVE ExclusiveWork' /\ HandsEmpty'
    BY <1>2, ExclusiveStill, ExclusiveRequeue, ExclusiveSettle, ExclusiveSplit, ExclusiveTake,
       ExclusiveCleanup DEF Thread, Reply
  <1>3. CASE UNCHANGED vars
    BY <1>3 DEF IInv, ExclusiveWork, HandsEmpty, Queued, InHand, vars, changesetVars,
                producerVars, workerVars
  <1>4. QED BY <1>1, <1>2, <1>3 DEF Next, Finished

\* Whatever the API answers, however the threads interleave and however
\* changesets are split, retried, failed and cleaned up, no element is in two
\* changesets and none that is in a changeset can be picked for another.
THEOREM WorkIsExclusive == Spec => []ExclusiveWork
  <1>1. Init => IInv
    BY TypeInit, InvariantInit DEF IInv
  <1>2. IInv /\ [Next]_vars => IInv'
    BY TypeStep, InvariantStep DEF IInv
  <1>3. IInv => ExclusiveWork
    BY DEF IInv
  <1>4. QED BY <1>1, <1>2, <1>3, PTL DEF Spec

-----------------------------------------------------------------------------
(***************************************************************************)
(* Proofs of what an upload promises for its elements: none is lost, what  *)
(* is reported is true, a changeset that is done is settled, what was set  *)
(* aside goes last, and the whole implements ChangesetContract.            *)
(*                                                                         *)
(* The argument has two halves.  First, every step of the threads and of   *)
(* apply() is one of seven kinds of steps of the elements, whoever takes   *)
(* it: elements are sent, applied, finalized, failed, split or given up,   *)
(* or only change hands.  Then each promise is an invariant of these       *)
(* seven, and knows nothing of threads, queues and retries any more.       *)
(***************************************************************************)

\* The elements that wait for an answer.
Pending(st) == {e \in Element : st[e] \in {"Buffering", "Sent"}}

Out == {"exit", "stopped"}

AllOut == \A w \in Worker : wpc[w] \in Out

\* What a thread's place says of it in a plain upload.
Places ==
    \A w \in Worker :
      /\ threadStatus[w] = "Failed" => wpc[w] \in Out
      /\ wpc[w] = "gone" => work[w].els \cap Gone # {}
      /\ wpc[w] # "overload"

Base == IInv /\ Places /\ sendBuffer = {}

-----------------------------------------------------------------------------
(* What a step does to the elements.                                       *)

\* Elements change hands; only with a thread that fails are some forgotten.
Shuffles ==
    /\ UNCHANGED <<status, applied, processedCount, failedCount, sendBuffer, gaveUp>>
    /\ Answering' = Answering
    /\ InFlight' \subseteq InFlight
    /\ HasFailedThread' \/ InFlight' = InFlight

Sends ==
    \E S \in SUBSET AvailableIn(status) :
      /\ status' = With(status, S, "Sent")
      /\ InFlight' = InFlight \cup S
      /\ Answering' = Answering
      /\ UNCHANGED <<applied, processedCount, failedCount, sendBuffer, gaveUp>>

Applies ==
    \E S \in SUBSET (InFlight \ Answering) :
      /\ S # {} /\ Apart(S, Gone)
      /\ \A e \in S : Requires(e) \subseteq applied \cup S
      /\ applied' = applied \cup S
      /\ Answering' = Answering \cup S
      /\ InFlight' = InFlight
      /\ UNCHANGED <<status, processedCount, failedCount, sendBuffer, gaveUp>>

Finalizes ==
    \E S \in SUBSET InFlight :
      /\ \/ S \subseteq Answering /\ Answering' = Answering \ S
         \/ Answering' = Answering /\ \E e \in Gone \ Answering : S = {e}
      /\ status' = With(status, S, "Finalized")
      /\ processedCount' = processedCount + Cardinality(S)
      /\ InFlight' = InFlight \ S
      /\ UNCHANGED <<applied, failedCount, sendBuffer, gaveUp>>

Fails ==
    \E w \in Worker, F \in SUBSET (InFlight \ Answering) :
      /\ status' = With(status, FailureOf(status, F), "Failed")
      /\ failedCount' = counted[w] + Cardinality(FailureOf(status, F))
      /\ InFlight' = InFlight \ F
      /\ Answering' = Answering
      /\ UNCHANGED <<applied, processedCount, sendBuffer, gaveUp>>

\* Elements become Available again, or fail: only what is gone may fail and stay.
Divides ==
    \E V, F \in SUBSET (InFlight \ Answering) :
      /\ V = {} \/ F = {}
      /\ LET st == With(status, V, "Available")
         IN  /\ status' = With(st, FailureOf(st, F), "Failed")
             /\ failedCount' = failedCount + Cardinality(FailureOf(st, F))
      /\ InFlight \ (V \cup F) \subseteq InFlight'
      /\ InFlight' \subseteq InFlight \ V /\ InFlight' \cap F \subseteq Gone
      /\ Answering' = Answering
      /\ UNCHANGED <<applied, processedCount, sendBuffer, gaveUp>>

Abandons ==
    /\ FailRemaining
    /\ gaveUp' \/ (AllOut /\ gaveUp' = gaveUp)
    /\ InFlight' = InFlight /\ Answering' = Answering
    /\ UNCHANGED applied

ElementStep ==
    /\ Shuffles \/ Sends \/ Abandons \/ (~AllOut /\ (Applies \/ Finalizes \/ Fails \/ Divides))
    /\ \A v \in Worker : counted'[v] \in {0, counted[v], failedCount}

-----------------------------------------------------------------------------
(* The elements under way when a thread has taken a step.                  *)

\* Thread w puts N on the queue and C into the cleanup.
Moves(w, N, C) ==
    /\ Els(queue') = Els(queue) \cup N
    /\ \A v \in Worker \ {w} : work'[v] = work[v] /\ doom'[v] = doom[v] /\ wpc'[v] = wpc[v]
    /\ pwork' = pwork /\ cleanup' = cleanup \cup C

\* The places of the elements, one part of ExclusiveWork at a time.
LEMMA HandsApart ==
    ASSUME IInv
    PROVE  /\ \A v, w \in Worker : v # w => Apart(InHand(v), InHand(w))
           /\ \A w \in Worker :
                /\ Apart(work[w].els, doom[w])
                /\ Apart(InHand(w), Els(queue) \cup pwork \cup cleanup \cup AvailableIn(status))
           /\ Apart(Els(queue), pwork \cup cleanup \cup AvailableIn(status))
           /\ Apart(pwork, cleanup \cup AvailableIn(status))
           /\ Apart(cleanup, AvailableIn(status))
           /\ InFlight = Els(queue) \cup (UNION {InHand(v) : v \in Worker}) \cup pwork \cup cleanup
           /\ InFlight' = Els(queue') \cup (UNION {InHand(v)' : v \in Worker})
                            \cup pwork' \cup cleanup'
  BY QueuedIsEls DEF IInv, ExclusiveWork, InFlight

LEMMA Hands ==
    ASSUME IInv, NEW w \in Worker
    PROVE  /\ InHand(w) \subseteq InFlight /\ Apart(work[w].els, doom[w])
           /\ wpc[w] = "ok" => InHand(w) = work[w].els /\ work[w].els \subseteq Answering
           /\ wpc[w] # "ok" => Apart(InHand(w), Answering)
           /\ Apart(InFlight, AvailableIn(status))
           /\ Answering \subseteq InFlight /\ InFlight \subseteq Element
  <1>1. InHand(w) \subseteq InFlight /\ Apart(work[w].els, doom[w])
    BY DEF InFlight, IInv, ExclusiveWork
  <1>2. wpc[w] = "ok" => InHand(w) = work[w].els /\ work[w].els \subseteq Answering
    BY DEF InHand, IInv, HandsEmpty, Dooming, Answering
  <1>3. ASSUME wpc[w] # "ok" PROVE Apart(InHand(w), Answering)
    <2>1. ASSUME NEW v \in Worker, wpc[v] = "ok" PROVE Apart(InHand(w), work[v].els)
      BY <1>3, <2>1 DEF IInv, ExclusiveWork, InHand, Apart
    <2>2. QED BY <2>1 DEF Answering, Apart
  <1>4. Apart(InFlight, AvailableIn(status))
    <2>1. \A v \in Worker : Apart(InHand(v), AvailableIn(status))
      BY HandsApart DEF Apart
    <2>2. Apart(UNION {InHand(v) : v \in Worker}, AvailableIn(status))
      BY <2>1 DEF Apart
    <2>3. QED BY <2>2, HandsApart DEF Apart
  <1>5. Answering \subseteq InFlight
    BY DEF Answering, InFlight, InHand
  <1>6. InFlight \subseteq Element
    <2>1. \A v \in Worker : InHand(v) \subseteq Element
      BY ThreadType DEF InHand, IInv, TypeOK
    <2>2. \A i \in 1..Len(queue) : queue[i] \in ChangesetInfo
      BY DEF IInv, TypeOK
    <2>3. Els(queue) \subseteq Element
      BY <2>2 DEF Els, ChangesetInfo
    <2>4. pwork \subseteq Element /\ cleanup \subseteq Element
      BY DEF IInv, TypeOK
    <2>5. QED BY <2>1, <2>3, <2>4, HandsApart
  <1>7. QED BY <1>1, <1>2, <1>3, <1>4, <1>5, <1>6

LEMMA AfterMove ==
    ASSUME IInv, NEW w \in Worker, NEW N, NEW C, Moves(w, N, C)
    PROVE  /\ InFlight' = (InFlight \ InHand(w)) \cup N \cup C \cup work'[w].els \cup doom'[w]
           /\ wpc'[w] # "ok" => Answering' = Answering \ InHand(w)
           /\ wpc'[w] = "ok" /\ wpc[w] # "ok" => Answering' = Answering \cup work'[w].els
  <1> DEFINE others == UNION {InHand(v) : v \in Worker \ {w}}
             hand1 == work'[w].els \cup doom'[w]
             told(v) == IF wpc[v] = "ok" THEN work[v].els ELSE {}
             told1(v) == IF wpc'[v] = "ok" THEN work'[v].els ELSE {}
  <1>1. \A v \in Worker \ {w} : InHand(v)' = InHand(v) /\ told1(v) = told(v)
    BY DEF Moves, InHand
  <1>2. Apart(InHand(w), others) /\ Apart(InHand(w), Els(queue) \cup pwork \cup cleanup)
    <2>1. \A v \in Worker \ {w} : Apart(InHand(w), InHand(v))
      BY HandsApart
    <2>2. QED BY <2>1, HandsApart DEF Apart
  <1>3. InFlight = Els(queue) \cup InHand(w) \cup others \cup pwork \cup cleanup
    BY HandsApart
  <1>4. InFlight' = Els(queue') \cup hand1 \cup others \cup pwork' \cup cleanup'
    <2>1. InHand(w)' = hand1
      BY DEF InHand
    <2>2. (UNION {InHand(v)' : v \in Worker}) = hand1 \cup others
      BY <1>1, <2>1
    <2>3. QED BY <2>2, HandsApart
  <1>5. /\ Els(queue') = Els(queue) \cup N
        /\ pwork' = pwork /\ cleanup' = cleanup \cup C
    BY DEF Moves
  <1>6. /\ Answering = UNION {told(v) : v \in Worker}
        /\ Answering' = UNION {told1(v) : v \in Worker}
    BY DEF Answering
  <1>7. \A v \in Worker \ {w} : Apart(told(v), InHand(w))
    BY DEF IInv, ExclusiveWork, InHand, Apart
  <1>8. told(w) \subseteq InHand(w)
    BY DEF InHand
  <1>9. wpc'[w] # "ok" => Answering' = Answering \ InHand(w)
    BY <1>1, <1>6, <1>7, <1>8 DEF Apart
  <1>10. wpc'[w] = "ok" /\ wpc[w] # "ok" => Answering' = Answering \cup work'[w].els
    BY <1>1, <1>6
  <1> HIDE DEF others, hand1
  <1>11. InFlight' = (InFlight \ InHand(w)) \cup N \cup C \cup hand1
    BY <1>2, <1>3, <1>4, <1>5 DEF Apart
  <1>12. QED BY <1>9, <1>10, <1>11 DEF hand1

-----------------------------------------------------------------------------
(* A thread only touches what is its own.                                  *)

\* Where a thread goes, what it holds and what it says of itself.
LEMMA OwnSteps ==
    ASSUME NEW w \in Worker, Thread(w)
    PROVE  /\ \E pc : Goto(w, pc)
           /\ work' = work \/ \E info : work' = [work EXCEPT ![w] = info]
           /\ threadStatus' = threadStatus \/ \E s : SetThreadStatus(w, s)
           /\ UNCHANGED failVars \/ (\E S, pc : Doom(w, S, pc)) \/ WriteFailure(w)
  <1>1. CASE \/ BeginLoop(w) \/ SeeDone(w) \/ FindNoWork(w) \/ BeginWork(w) \/ CreateChangeset(w)
             \/ DropEmpty(w) \/ Upload(w) \/ StopWhenTold(w) \/ FindIdle(w) \/ GoIdle(w) \/ Exit(w)
    BY <1>1 DEF BeginLoop, SeeDone, FindNoWork, BeginWork, CreateChangeset, DropEmpty, Upload,
                StopWhenTold, FindIdle, GoIdle, Exit, poolVars, Release
  <1>2. CASE \/ FailToCreate(w) \/ RetryClosed(w) \/ FixVersion(w) \/ RetryOther(w)
             \/ RetryUnavailable(w) \/ FinalizeGone(w) \/ FailThenPush(w)
    BY <1>2 DEF FailToCreate, RetryClosed, FixVersion, RetryOther, RetryUnavailable, FinalizeGone,
                FailThenPush, Push, poolVars, Release
  <1>3. CASE Accept(w) \/ QuitVersion(w) \/ FailOther(w) \/ FailThenDrop(w) \/ FailThenQuit(w)
    BY <1>3 DEF Accept, QuitVersion, FailOther, FailThenDrop, FailThenQuit, poolVars, Release, Doom
  <1>4. CASE PushSplit(w) \/ FailSplit(w) \/ PushUnsplit(w) \/ DropUnsplit(w) \/ FailUnsplit(w)
    BY <1>4 DEF PushSplit, FailSplit, PushUnsplit, DropUnsplit, FailUnsplit, Push, poolVars,
                Release, Doom
  <1>5. CASE TakeWork(w) \/ PushCleanup(w)
    BY <1>5 DEF TakeWork, PushCleanup, poolVars
  <1>6. QED BY <1>1, <1>2, <1>3, <1>4, <1>5 DEF Thread, Reply

LEMMA OthersStay ==
    ASSUME TypeOK, NEW w \in Worker, Thread(w)
    PROVE  /\ \A v \in Worker \ {w} :
                /\ work'[v] = work[v] /\ doom'[v] = doom[v] /\ wpc'[v] = wpc[v]
                /\ threadStatus'[v] = threadStatus[v] /\ counted'[v] = counted[v]
           /\ counted'[w] \in {0, counted[w], failedCount}
  <1>1. /\ \A v \in Worker \ {w} : wpc'[v] = wpc[v]
        /\ \A v \in Worker \ {w} : work'[v] = work[v]
        /\ \A v \in Worker \ {w} : threadStatus'[v] = threadStatus[v]
    <2>1. \A v \in Worker \ {w} : wpc'[v] = wpc[v]
      BY OwnSteps DEF TypeOK, Goto
    <2>2. \A v \in Worker \ {w} : work'[v] = work[v]
      BY OwnSteps DEF TypeOK
    <2>3. \A v \in Worker \ {w} : threadStatus'[v] = threadStatus[v]
      BY OwnSteps DEF TypeOK, SetThreadStatus
    <2>4. QED BY <2>1, <2>2, <2>3
  <1>2. /\ \A v \in Worker \ {w} : doom'[v] = doom[v] /\ counted'[v] = counted[v]
        /\ counted'[w] \in {0, counted[w], failedCount}
    <2>1. CASE UNCHANGED failVars
      BY <2>1 DEF failVars
    <2>2. CASE \E S, pc : Doom(w, S, pc)
      BY <2>2 DEF Doom, TypeOK
    <2>3. CASE WriteFailure(w)
      BY <2>3 DEF WriteFailure, TypeOK
    <2>4. QED BY <2>1, <2>2, <2>3, OwnSteps
  <1>3. QED BY <1>1, <1>2

\* What a step does to the thread's own place.
LEMMA OwnPlace ==
    ASSUME PlainUpload, TypeOK, Places, NEW w \in Worker, Thread(w)
    PROVE  /\ threadStatus'[w] = "Failed" => wpc'[w] \in Out
           /\ wpc'[w] = "gone" => work'[w].els \cap Gone # {}
           /\ wpc'[w] # "overload"
           /\ wpc[w] \in Out => Exit(w) /\ wpc'[w] \in Out
           /\ threadStatus[w] = "Failed" => threadStatus'[w] = "Failed"
  <1>1. threadStatus[w] = "Failed" => wpc[w] \in Out
    BY DEF Places
  <1> DEFINE quiet == {"loop", "exit", "taken", "empty", "idle", "upload", "failPush", "failDrop"}
  <1>2. CASE \/ BeginLoop(w) \/ SeeDone(w) \/ TakeWork(w) \/ FindNoWork(w) \/ CreateChangeset(w)
             \/ DropEmpty(w) \/ FindIdle(w)
    <2>1. wpc[w] \notin Out /\ wpc'[w] \in quiet /\ threadStatus' = threadStatus
      BY <1>2, OwnPart DEF BeginLoop, SeeDone, TakeWork, FindNoWork, CreateChangeset, DropEmpty,
         FindIdle, poolVars, Out
    <2>2. QED BY <1>1, <2>1
  <1>3. CASE Accept(w) \/ RetryClosed(w) \/ FixVersion(w) \/ FinalizeGone(w) \/ RetryOther(w)
             \/ FailOther(w) \/ FailThenPush(w) \/ FailThenDrop(w) \/ PushCleanup(w)
    <2>1. wpc[w] \notin Out /\ threadStatus' = threadStatus
      BY <1>3 DEF Accept, RetryClosed, FixVersion, FinalizeGone, RetryOther, FailOther,
         FailThenPush, FailThenDrop, PushCleanup, CanFixVersion, Answered, poolVars, Out
    <2>2. Goto(w, "loop") \/ \E S : Doom(w, S, "failDrop")
      BY <1>3 DEF Accept, RetryClosed, FixVersion, FinalizeGone, RetryOther, FailOther,
         FailThenPush, FailThenDrop, PushCleanup, Push
    <2>3. wpc'[w] \in quiet
      BY <2>2, OwnPart
    <2>4. QED BY <1>1, <2>1, <2>3
  <1>4. CASE PushSplit(w) \/ FailSplit(w) \/ PushUnsplit(w) \/ DropUnsplit(w) \/ FailUnsplit(w)
    <2>1. wpc[w] \notin Out /\ threadStatus' = threadStatus
      BY <1>4 DEF PushSplit, FailSplit, PushUnsplit, DropUnsplit, FailUnsplit, Splits, Answered,
         poolVars, Out
    <2>2. Goto(w, "loop") \/ \E S : Doom(w, S, "failPush") \/ Doom(w, S, "failDrop")
      BY <1>4 DEF PushSplit, FailSplit, PushUnsplit, DropUnsplit, FailUnsplit, Push
    <2>3. wpc'[w] \in quiet
      BY <2>2, OwnPart
    <2>4. QED BY <1>1, <2>1, <2>3
  <1>5. CASE Upload(w)
    <2>1. wpc[w] \notin Out /\ threadStatus' = threadStatus /\ work' = work
      BY <1>5 DEF Upload, poolVars, Out
    <2>2. \/ wpc'[w] = Answer(work[w].els)
          \/ wpc'[w] \in Responses \ {"lost"}
      BY <1>5, OwnPart DEF Upload, PlainUpload, Apart
    <2>3. wpc'[w] # "overload" /\ (wpc'[w] = "gone" => work[w].els \cap Gone # {})
      BY <2>2 DEF PlainUpload, Apart, Answer
    <2>4. QED BY <1>1, <2>1, <2>3
  <1>6. CASE BeginWork(w)
    <2>1. wpc[w] = "taken" /\ wpc'[w] \in {"upload", "create"} /\ threadStatus'[w] = "Working"
      BY <1>6, OwnPart DEF BeginWork, SetThreadStatus, TypeOK
    <2>2. QED BY <1>1, <2>1 DEF Out
  <1>7. CASE FailToCreate(w) \/ RetryUnavailable(w) \/ QuitVersion(w) \/ FailThenQuit(w)
    <2>1. wpc[w] \notin Out
      BY <1>7 DEF FailToCreate, RetryUnavailable, QuitVersion, FailThenQuit, CanFixVersion,
         Answered, Out
    <2>2. \/ wpc'[w] = "exit"
          \/ wpc'[w] \in {"loop", "failQuit"} /\ threadStatus' = threadStatus
      BY <1>7, OwnPart DEF FailToCreate, RetryUnavailable, QuitVersion, FailThenQuit
    <2>3. QED BY <1>1, <2>1, <2>2 DEF Out
  <1>8. CASE StopWhenTold(w) \/ GoIdle(w)
    <2>1. /\ wpc[w] \in {"empty", "idle"} /\ wpc'[w] \in {"exit", "loop"}
          /\ threadStatus'[w] \in {"Completed", "Idle"}
      BY <1>8, OwnPart DEF StopWhenTold, GoIdle, NothingToDo, SetThreadStatus, TypeOK
    <2>2. QED BY <1>1, <2>1 DEF Out
  <1>9. CASE Exit(w)
    <2>1. /\ wpc[w] = "exit" /\ wpc'[w] = "stopped"
          /\ threadStatus[w] = "Failed" => threadStatus'[w] = "Failed"
      BY <1>9, OwnPart DEF Exit, SetThreadStatus, TypeOK
    <2>2. QED BY <1>9, <2>1 DEF Out
  <1>10. QED
    BY <1>2, <1>3, <1>4, <1>5, <1>6, <1>7, <1>8, <1>9 DEF Thread, Reply

\* A split that adds nothing deals out what it was given.
LEMMA SplitSound ==
    ASSUME PlainUpload, TypeOK, NEW w \in Worker, NEW x \in SplitChangeset(w)
    PROVE  /\ x.adds = {} /\ x \in SplitOutcome
           /\ Cardinality(work[w].els) = 1 => x = Unsplit(Splitting(w))
           /\ Cardinality(work[w].els) # 1 /\ Apart(work[w].els, AvailableIn(status))
                => SplitsSoundly(x, work[w].els, {})
  <1> DEFINE S == work[w].els
  <1>1. /\ x \in SplitOutcome /\ Splitting(w).els = S
        /\ status \in Statuses /\ S \in SUBSET Element
    BY SplitType, ThreadType DEF TypeOK
  <1>2. CASE Cardinality(S) = 1
    BY <1>1, <1>2 DEF SplitChangeset, Unsplit
  <1>3. CASE Cardinality(S) # 1
    <2>1. CASE x \in SplitInHalf(S)
      BY <1>1, <1>3, <2>1, SplitInHalfAssumption DEF SplitsSoundly
    <2>2. CASE x \in SplitByHint(status, S)
      <3>1. x.adds = {}
        BY <1>1, <1>3, <2>2 DEF PlainUpload
      <3>2. Apart(S, AvailableIn(status)) => SplitsSoundly(x, S, AvailableIn(status))
        BY <1>1, <1>3, <2>2, SplitByHintAssumption
      <3>3. QED BY <1>1, <1>3, <3>1, <3>2 DEF SplitsSoundly
    <2>3. QED BY <1>1, <1>3, <2>1, <2>2 DEF SplitChangeset
  <1>4. QED BY <1>2, <1>3

-----------------------------------------------------------------------------
(* Base is an invariant.                                                   *)

\* Nothing waits to be marked Sent: only splits that add elements fill the buffer.
LEMMA NothingBuffered ==
    ASSUME PlainUpload, TypeOK, sendBuffer = {}, [Next]_vars
    PROVE  sendBuffer' = {}
  <1>1. CASE Producer
    <2>1. UNCHANGED changesetVars \/ FailRemaining \/ sendBuffer' = {}
      BY <1>1 DEF Producer, PollFinished, PollFailed, PollRoom, PollFull, CalculateWork, PushWork,
                  KeepWaiting, DecideToGiveUp, GiveUp, StartWork, JoinThreads
    <2>2. QED BY <2>1 DEF changesetVars, FailRemaining
  <1>2. ASSUME NEW w \in Worker, Thread(w) PROVE sendBuffer' = {}
    <2>1. CASE \/ BeginLoop(w) \/ SeeDone(w) \/ TakeWork(w) \/ FindNoWork(w) \/ BeginWork(w)
               \/ CreateChangeset(w) \/ FailToCreate(w) \/ DropEmpty(w) \/ Upload(w)
               \/ StopWhenTold(w) \/ PushCleanup(w) \/ FindIdle(w) \/ GoIdle(w) \/ Exit(w)
      BY <2>1 DEF BeginLoop, SeeDone, TakeWork, FindNoWork, BeginWork, CreateChangeset,
         FailToCreate, DropEmpty, Upload, StopWhenTold, PushCleanup, FindIdle, GoIdle, Exit,
         changesetVars
    <2>2. CASE \/ Accept(w) \/ RetryClosed(w) \/ FixVersion(w) \/ QuitVersion(w)
               \/ FinalizeGone(w) \/ RetryOther(w) \/ FailOther(w) \/ RetryUnavailable(w)
      BY <2>2 DEF Accept, RetryClosed, FixVersion, QuitVersion, FinalizeGone, RetryOther,
         FailOther, RetryUnavailable, Finalize, changesetVars
    <2>3. CASE FailThenPush(w) \/ FailThenDrop(w) \/ FailThenQuit(w)
      BY <2>3 DEF FailThenPush, FailThenDrop, FailThenQuit, WriteFailure, Fail
    <2>4. CASE PushSplit(w) \/ FailSplit(w) \/ PushUnsplit(w) \/ DropUnsplit(w) \/ FailUnsplit(w)
      <3>1. PICK x \in SplitChangeset(w) : ApplySplit(x)
        BY <2>4 DEF PushSplit, FailSplit, PushUnsplit, DropUnsplit, FailUnsplit
      <3>2. QED BY <3>1, SplitSound DEF ApplySplit
    <2>5. QED BY <1>2, <2>1, <2>2, <2>3, <2>4 DEF Thread, Reply
  <1>3. CASE UNCHANGED vars
    BY <1>3 DEF vars, changesetVars
  <1>4. QED BY <1>1, <1>2, <1>3 DEF Next, Finished

LEMMA BaseStep ==
    ASSUME PlainUpload, Base, [Next]_vars
    PROVE  /\ Base'
           /\ HasFailedThread => HasFailedThread'
           /\ AllOut => AllOut'
  <1>1. IInv'
    BY TypeStep, InvariantStep DEF Base, IInv
  <1>2. sendBuffer' = {}
    BY NothingBuffered DEF Base, IInv
  <1>3. CASE Producer
    <2>1. UNCHANGED <<wpc, work, threadStatus>>
      BY <1>3 DEF Producer, PollFinished, PollFailed, PollRoom, PollFull, CalculateWork, PushWork,
                  KeepWaiting, DecideToGiveUp, GiveUp, StartWork, JoinThreads, workerVars, poolVars
    <2>2. QED BY <1>1, <1>2, <2>1 DEF Base, Places, HasFailedThread, AllOut
  <1>4. ASSUME NEW w \in Worker, Thread(w)
        PROVE  Places' /\ (HasFailedThread => HasFailedThread') /\ (AllOut => AllOut')
    <2>1. TypeOK /\ Places
      BY DEF Base, IInv
    <2>2. \A v \in Worker \ {w} :
            work'[v] = work[v] /\ wpc'[v] = wpc[v] /\ threadStatus'[v] = threadStatus[v]
      BY <1>4, <2>1, OthersStay
    <2>3. /\ threadStatus'[w] = "Failed" => wpc'[w] \in Out
          /\ wpc'[w] = "gone" => work'[w].els \cap Gone # {}
          /\ wpc'[w] # "overload"
          /\ wpc[w] \in Out => wpc'[w] \in Out
          /\ threadStatus[w] = "Failed" => threadStatus'[w] = "Failed"
      BY <1>4, <2>1, OwnPlace
    <2>4. Places'
      BY <2>1, <2>2, <2>3 DEF Places
    <2>5. HasFailedThread => HasFailedThread'
      BY <2>2, <2>3 DEF HasFailedThread
    <2>6. AllOut => AllOut'
      BY <2>2, <2>3 DEF AllOut
    <2>7. QED BY <2>4, <2>5, <2>6
  <1>5. CASE UNCHANGED vars
    <2>1. UNCHANGED <<wpc, work, threadStatus>>
      BY <1>5 DEF vars, workerVars, poolVars
    <2>2. QED BY <1>1, <1>2, <2>1 DEF Base, Places, HasFailedThread, AllOut
  <1>6. QED BY <1>1, <1>2, <1>3, <1>4, <1>5 DEF Next, Finished, Base

LEMMA BaseInit == Init => Base
  <1>1. Init => Places /\ sendBuffer = {}
    BY DEF Init, Places
  <1>2. QED BY <1>1, TypeInit, InvariantInit DEF Base, IInv

-----------------------------------------------------------------------------
(* Every step is one of the seven.                                         *)

Kept == UNCHANGED <<status, applied, processedCount, failedCount, sendBuffer, gaveUp>>

\* A thread that hands on all it has, or fails and forgets it.
LEMMA Shuffled ==
    ASSUME IInv, NEW w \in Worker, NEW N, NEW C, Moves(w, N, C), Kept,
           wpc[w] # "ok", wpc'[w] # "ok",
           N \cup C \cup work'[w].els \cup doom'[w] \subseteq InHand(w),
           HasFailedThread' \/ N \cup C \cup work'[w].els \cup doom'[w] = InHand(w)
    PROVE  Shuffles
  <1>1. InFlight' = (InFlight \ InHand(w)) \cup (N \cup C \cup work'[w].els \cup doom'[w])
    BY AfterMove
  <1>2. Answering' = Answering
    <2>1. Answering' = Answering \ InHand(w)
      BY AfterMove
    <2>2. Apart(InHand(w), Answering)
      BY Hands
    <2>3. QED BY <2>1, <2>2 DEF Apart
  <1>3. InHand(w) \subseteq InFlight
    BY Hands
  <1>4. InFlight' \subseteq InFlight /\ (HasFailedThread' \/ InFlight' = InFlight)
    BY <1>1, <1>3
  <1>5. QED BY <1>2, <1>4 DEF Shuffles, Kept

\* Work that goes back on the queue.
LEMMA Pushed ==
    ASSUME IInv, NEW w \in Worker, NEW info \in ChangesetInfo, info.els \subseteq work[w].els,
           queue' = Append(queue, info)
    PROVE  Els(queue') = Els(queue) \cup info.els
  <1>1. QueueOnce(queue) /\ queue \in Seq(ChangesetInfo)
    BY DEF IInv, ExclusiveWork, QueueOnce, TypeOK
  <1>2. Apart(info.els, Els(queue))
    BY HandsApart DEF InHand, Apart
  <1>3. QED BY <1>1, <1>2, AppendOnce

LEMMA ThreadMoves ==
    ASSUME IInv, NEW w \in Worker, Thread(w), NEW N, NEW C,
           Els(queue') = Els(queue) \cup N, pwork' = pwork, cleanup' = cleanup \cup C
    PROVE  Moves(w, N, C)
  BY OthersStay DEF Moves, IInv

\* The thread keeps what it has, or had nothing.
LEMMA StillShuffles ==
    ASSUME Base, NEW w \in Worker, Thread(w),
           \/ BeginLoop(w) \/ SeeDone(w) \/ FindNoWork(w) \/ BeginWork(w) \/ CreateChangeset(w)
           \/ DropEmpty(w) \/ StopWhenTold(w) \/ FindIdle(w) \/ GoIdle(w) \/ Exit(w)
    PROVE  Shuffles
  <1> USE DEF Base
  <1>1. /\ UNCHANGED <<queue, pwork, doom>> /\ UNCHANGED changesetVars
        /\ UNCHANGED <<applied, gaveUp>>
        /\ wpc[w] # "ok" /\ \E pc : pc # "ok" /\ Goto(w, pc)
        /\ work' = work \/ (Release(w) /\ work[w].els = {})
    BY DEF BeginLoop, SeeDone, FindNoWork, BeginWork, CreateChangeset, DropEmpty,
           StopWhenTold, FindIdle, GoIdle, NothingToDo, Exit, producerVars, serverVars, failVars
  <1>2. Moves(w, {}, {})
    BY <1>1, ThreadMoves DEF changesetVars
  <1>3. wpc'[w] # "ok" /\ work'[w].els = work[w].els /\ doom'[w] = doom[w]
    BY <1>1, OwnPart DEF IInv
  <1>4. Kept
    BY <1>1 DEF Kept, changesetVars
  <1>5. {} \cup {} \cup work'[w].els \cup doom'[w] = InHand(w)
    BY <1>3 DEF InHand
  <1>6. QED BY <1>1, <1>2, <1>3, <1>4, <1>5, Shuffled

\* The thread queues its work again, or sets it aside to fail.
LEMMA RequeueShuffles ==
    ASSUME Base, NEW w \in Worker, Thread(w),
           \/ FailToCreate(w) \/ RetryClosed(w) \/ FixVersion(w) \/ RetryOther(w)
           \/ RetryUnavailable(w)
    PROVE  Shuffles
  <1> USE DEF Base
  <1>1. \E info \in ChangesetInfo : queue' = Append(queue, info) /\ info.els = work[w].els
    <2>1. TypeOK /\ work[w] \in ChangesetInfo
      BY ThreadType DEF IInv
    <2>2. CASE FailToCreate(w) \/ RetryUnavailable(w)
      BY <2>1, <2>2 DEF FailToCreate, RetryUnavailable
    <2>3. CASE RetryClosed(w)
      BY <2>1, <2>3 DEF RetryClosed, Push
    <2>4. CASE FixVersion(w)
      BY <2>1, <2>4, RetryType DEF FixVersion, Push
    <2>5. CASE RetryOther(w)
      BY <2>1, <2>5, RetryType DEF RetryOther, Push
    <2>6. QED BY <2>2, <2>3, <2>4, <2>5
  <1>2. /\ UNCHANGED <<pwork, doom, applied, gaveUp>> /\ UNCHANGED changesetVars /\ Release(w)
    BY DEF FailToCreate, RetryClosed, FixVersion, RetryOther, RetryUnavailable, Push,
           producerVars, serverVars, failVars
  <1>3. /\ wpc[w] # "ok" /\ wpc[w] \notin Dooming
        /\ \E pc : pc # "ok" /\ Goto(w, pc)
    BY DEF FailToCreate, RetryClosed, FixVersion, RetryOther, RetryUnavailable, Push,
           CanFixVersion, Answered, Dooming
  <1>4. Moves(w, work[w].els, {})
    BY <1>1, <1>2, Pushed, ThreadMoves DEF changesetVars
  <1>5. wpc'[w] # "ok" /\ work'[w].els = {} /\ doom'[w] = doom[w] /\ doom[w] = {}
    BY <1>2, <1>3, OwnPart DEF IInv, HandsEmpty
  <1>6. work[w].els \cup {} \cup work'[w].els \cup doom'[w] = InHand(w)
    BY <1>5 DEF InHand
  <1>7. Kept
    BY <1>2 DEF Kept, changesetVars
  <1>8. QED BY <1>3, <1>4, <1>5, <1>6, <1>7, Shuffled

LEMMA DoomShuffles ==
    ASSUME Base, NEW w \in Worker, Thread(w), QuitVersion(w) \/ FailOther(w)
    PROVE  Shuffles
  <1> USE DEF Base
  <1>1. /\ UNCHANGED <<queue, pwork, applied, gaveUp>> /\ UNCHANGED changesetVars /\ Release(w)
        /\ wpc[w] # "ok" /\ wpc[w] \notin Dooming
    BY DEF QuitVersion, FailOther, producerVars, serverVars, CanFixVersion, Answered, Dooming
  <1>2. \/ \E pc \in Dooming : Doom(w, work[w].els, pc)
        \/ Goto(w, "exit") /\ SetThreadStatus(w, "Failed") /\ UNCHANGED failVars
    BY DEF QuitVersion, FailOther, Dooming
  <1>3. Moves(w, {}, {})
    BY <1>1, ThreadMoves DEF changesetVars
  <1>4. doom[w] = {} /\ work'[w].els = {}
    BY <1>1, OwnPart DEF IInv, HandsEmpty
  <1>5. \/ wpc'[w] # "ok" /\ doom'[w] = work[w].els
        \/ wpc'[w] # "ok" /\ doom'[w] = {} /\ HasFailedThread'
    <2>1. CASE \E pc \in Dooming : Doom(w, work[w].els, pc)
      BY <2>1, OwnPart DEF IInv, Dooming
    <2>2. CASE Goto(w, "exit") /\ SetThreadStatus(w, "Failed") /\ UNCHANGED failVars
      <3>1. threadStatus'[w] = "Failed"
        BY <2>2 DEF SetThreadStatus, IInv, TypeOK
      <3>2. QED BY <1>4, <2>2, <3>1, OwnPart DEF IInv, HasFailedThread, failVars
    <2>3. QED BY <1>2, <2>1, <2>2
  <1>6. Kept
    BY <1>1 DEF Kept, changesetVars
  <1>7. QED BY <1>1, <1>3, <1>4, <1>5, <1>6, Shuffled DEF InHand

\* The head of the queue, or the cleanup, changes hands.
LEMMA TakeShuffles ==
    ASSUME Base, NEW w \in Worker, Thread(w), TakeWork(w) \/ PushCleanup(w)
    PROVE  Shuffles
  <1> USE DEF Base
  <1>1. /\ UNCHANGED <<pwork, doom, applied, gaveUp, threadStatus>>
        /\ UNCHANGED <<status, processedCount, failedCount, sendBuffer>>
        /\ wpc[w] \in {"loop", "idle"} /\ \E pc \in {"loop", "taken"} : Goto(w, pc)
    BY DEF TakeWork, PushCleanup, producerVars, serverVars, failVars, changesetVars, poolVars
  <1>2. doom[w] = {} /\ work[w].els = {}
    BY <1>1 DEF IInv, HandsEmpty, Dooming, Unburdened
  <1>3. wpc'[w] # "ok" /\ \A v \in Worker \ {w} : wpc'[v] = wpc[v] /\ work'[v] = work[v]
    BY <1>1, OwnPart, OthersStay DEF IInv
  <1>4. Answering' = Answering
    <2>1. \A v \in Worker : (wpc'[v] = "ok") <=> (wpc[v] = "ok")
      BY <1>1, <1>3
    <2>2. \A v \in Worker : wpc[v] = "ok" => work'[v] = work[v]
      BY <1>1, <1>3
    <2>3. QED BY <2>1, <2>2 DEF Answering
  <1>5. Els(queue') \cup work'[w].els \cup cleanup' = Els(queue) \cup work[w].els \cup cleanup
    <2>1. CASE TakeWork(w)
      <3>1. Els(queue) = Head(queue).els \cup Els(Tail(queue))
        BY <2>1, TailOnce DEF TakeWork, IInv, TypeOK, ExclusiveWork, QueueOnce
      <3>2. work'[w] = Head(queue) /\ queue' = Tail(queue) /\ cleanup' = cleanup
        BY <2>1 DEF TakeWork, IInv, TypeOK, changesetVars
      <3>3. QED BY <1>2, <3>1, <3>2
    <2>2. CASE PushCleanup(w)
      <3>1. Fresh(cleanup) \in ChangesetInfo /\ Fresh(cleanup).els = cleanup
        BY FreshType DEF IInv, TypeOK
      <3>2. Els(Append(queue, Fresh(cleanup))) = Els(queue) \cup cleanup
        <4>1. QueueOnce(queue) /\ queue \in Seq(ChangesetInfo)
          BY DEF IInv, ExclusiveWork, QueueOnce, TypeOK
        <4>2. Apart(cleanup, Els(queue))
          BY HandsApart DEF Apart
        <4>3. QED BY <3>1, <4>1, <4>2, AppendOnce
      <3>3. work' = work
        BY <2>2 DEF PushCleanup
      <3>4. \/ queue' = Append(queue, Fresh(cleanup)) /\ cleanup' = {}
            \/ queue' = queue /\ cleanup' = cleanup
        BY <2>2 DEF PushCleanup
      <3>5. QED BY <3>2, <3>3, <3>4
    <2>3. QED BY <2>1, <2>2
  <1>6. InFlight' = InFlight
    <2> DEFINE others == UNION {InHand(v) : v \in Worker \ {w}}
    <2>1. InHand(w) = work[w].els /\ InHand(w)' = work'[w].els
      BY <1>1, <1>2 DEF InHand
    <2>2. \A v \in Worker \ {w} : InHand(v)' = InHand(v)
      BY <1>1, <1>3 DEF InHand
    <2>3. /\ (UNION {InHand(v) : v \in Worker}) = work[w].els \cup others
          /\ (UNION {InHand(v)' : v \in Worker}) = work'[w].els \cup others
      BY <2>1, <2>2
    <2> HIDE DEF others
    <2>4. QED BY <1>1, <1>5, <2>3, HandsApart
  <1>7. QED BY <1>1, <1>4, <1>6 DEF Shuffles

\* An upload is applied, all of it, or nothing changes but the answer.
LEMMA UploadApplies ==
    ASSUME PlainUpload, Base, NEW w \in Worker, Thread(w), Upload(w)
    PROVE  Shuffles \/ Applies
  <1> USE DEF Base
  <1>1. /\ UNCHANGED <<queue, pwork, work, doom, gaveUp>> /\ UNCHANGED changesetVars
        /\ wpc[w] = "upload" /\ work[w].els # {}
    BY DEF Upload, producerVars, failVars
  <1>2. Moves(w, {}, {})
    BY <1>1, ThreadMoves DEF changesetVars
  <1>3. doom[w] = {} /\ InHand(w) = work[w].els
    BY <1>1 DEF IInv, HandsEmpty, Dooming, InHand
  <1>4. \/ wpc'[w] = "ok" /\ Answer(work[w].els) = "ok" /\ applied' = applied \cup work[w].els
        \/ wpc'[w] # "ok" /\ applied' = applied
    <2>1. \/ wpc'[w] = Answer(work[w].els)
             /\ applied' = IF Answer(work[w].els) = "ok" THEN applied \cup work[w].els ELSE applied
          \/ wpc'[w] \in Responses /\ applied' = applied
      BY OwnPart DEF Upload, IInv, PlainUpload, Apart
    <2>2. "ok" \notin Responses
      BY WriterAssumption DEF Refusals
    <2>3. QED BY <2>1, <2>2
  <1>5. CASE wpc'[w] = "ok" /\ Answer(work[w].els) = "ok" /\ applied' = applied \cup work[w].els
    <2>1. Answering' = Answering \cup work[w].els
      BY <1>1, <1>2, <1>5, AfterMove
    <2>2. InFlight' = (InFlight \ InHand(w)) \cup {} \cup {} \cup work'[w].els \cup doom'[w]
      BY <1>2, AfterMove
    <2>3. InHand(w) \subseteq InFlight /\ Apart(InHand(w), Answering)
      BY <1>1, Hands
    <2>4. InFlight' = InFlight
      BY <1>1, <1>3, <2>2, <2>3
    <2>5. work[w].els \in SUBSET (InFlight \ Answering)
      BY <1>3, <2>3 DEF Apart
    <2>6. /\ Apart(work[w].els, Gone)
          /\ \A e \in work[w].els : Requires(e) \subseteq applied \cup work[w].els
      BY <1>5 DEF Answer, Apart
    <2>7. QED BY <1>1, <1>5, <2>1, <2>4, <2>5, <2>6 DEF Applies, changesetVars
  <1>6. CASE wpc'[w] # "ok" /\ applied' = applied
    <2>1. {} \cup {} \cup work'[w].els \cup doom'[w] = InHand(w)
      BY <1>1, <1>3
    <2>2. Kept
      BY <1>1, <1>6 DEF Kept, changesetVars
    <2>3. QED BY <1>1, <1>2, <1>6, <2>1, <2>2, Shuffled
  <1>7. QED BY <1>4, <1>5, <1>6

\* The answer that a changeset is applied, or that an element is gone.
LEMMA AcceptFinalizes ==
    ASSUME Base, NEW w \in Worker, Thread(w), Accept(w)
    PROVE  Finalizes
  <1> USE DEF Base
  <1>1. /\ UNCHANGED <<queue, pwork, doom, applied, gaveUp>>
        /\ wpc[w] = "ok" /\ Finalize(work[w].els) /\ Release(w) /\ Goto(w, "loop")
    BY DEF Accept, Answered, producerVars, failVars, serverVars
  <1>2. Moves(w, {}, {})
    BY <1>1, ThreadMoves DEF Finalize
  <1>3. doom[w] = {} /\ InHand(w) = work[w].els /\ work[w].els \subseteq Answering
    BY <1>1, Hands DEF IInv, HandsEmpty, Dooming
  <1>4. wpc'[w] = "loop" /\ work'[w].els = {}
    BY <1>1, OwnPart DEF IInv
  <1>5. Answering' = Answering \ InHand(w)
    BY <1>2, <1>4, AfterMove
  <1>6. InFlight' = (InFlight \ InHand(w)) \cup {} \cup {} \cup work'[w].els \cup doom'[w]
    BY <1>2, AfterMove
  <1>7. InHand(w) \in SUBSET InFlight
    BY Hands
  <1>8. QED BY <1>1, <1>3, <1>4, <1>5, <1>6, <1>7 DEF Finalizes, Finalize

LEMMA GoneFinalizes ==
    ASSUME Base, NEW w \in Worker, Thread(w), FinalizeGone(w)
    PROVE  Finalizes
  <1> USE DEF Base
  <1>1. PICK e \in work[w].els \cap Gone :
          /\ Finalize({e}) /\ Push(w, Shrunk(work[w], work[w].els \ {e}))
    BY DEF FinalizeGone
  <1>2. /\ UNCHANGED <<pwork, doom, applied, gaveUp>>
        /\ wpc[w] = "gone"
    BY DEF FinalizeGone, Answered, producerVars, failVars, serverVars
  <1>3. /\ Shrunk(work[w], work[w].els \ {e}) \in ChangesetInfo
        /\ Shrunk(work[w], work[w].els \ {e}).els = work[w].els \ {e}
    BY ThreadType, ShrunkType DEF IInv
  <1>4. Moves(w, work[w].els \ {e}, {})
    <2>1. Els(queue') = Els(queue) \cup (work[w].els \ {e})
      BY <1>1, <1>3, Pushed DEF Push
    <2>2. QED BY <1>1, <1>2, <2>1, ThreadMoves DEF Finalize
  <1>5. wpc'[w] = "loop" /\ work'[w].els = {} /\ doom[w] = {} /\ InHand(w) = work[w].els
    BY <1>1, <1>2, OwnPart DEF Push, IInv, HandsEmpty, Dooming, InHand
  <1>6. Answering' = Answering \ InHand(w) /\ Apart(InHand(w), Answering)
    BY <1>2, <1>4, <1>5, AfterMove, Hands
  <1>7. InFlight' = (InFlight \ InHand(w)) \cup (work[w].els \ {e}) \cup {} \cup work'[w].els
                      \cup doom'[w]
    BY <1>4, AfterMove
  <1>8. InHand(w) \subseteq InFlight
    BY Hands
  <1>9. /\ InFlight' = InFlight \ {e} /\ Answering' = Answering
        /\ {e} \in SUBSET InFlight /\ e \in Gone \ Answering
    BY <1>2, <1>5, <1>6, <1>7, <1>8 DEF Apart
  <1>10. /\ status' = With(status, {e}, "Finalized")
         /\ processedCount' = processedCount + Cardinality({e})
         /\ UNCHANGED <<failedCount, sendBuffer>>
    BY <1>1 DEF Finalize
  <1>11. QED BY <1>2, <1>9, <1>10 DEF Finalizes

\* The second half of failing elements.
LEMMA WriteFails ==
    ASSUME Base, NEW w \in Worker, Thread(w),
           FailThenPush(w) \/ FailThenDrop(w) \/ FailThenQuit(w)
    PROVE  Fails
  <1> USE DEF Base
  <1>1. /\ UNCHANGED <<pwork, applied, gaveUp>> /\ WriteFailure(w)
        /\ wpc[w] \in Dooming /\ \E pc \in {"loop", "exit"} : Goto(w, pc)
    BY DEF FailThenPush, FailThenDrop, FailThenQuit, Push, producerVars, serverVars, Dooming
  <1>2. /\ status' = With(status, FailureOf(status, doom[w]), "Failed")
        /\ failedCount' = counted[w] + Cardinality(FailureOf(status, doom[w]))
        /\ UNCHANGED <<processedCount, sendBuffer, cleanup>>
        /\ doom'[w] = {}
    BY <1>1 DEF WriteFailure, Fail, IInv, TypeOK
  <1>3. wpc'[w] # "ok" /\ wpc[w] # "ok"
    BY <1>1, OwnPart DEF IInv, Dooming
  <1>4. Els(queue') = Els(queue) \cup work[w].els /\ work'[w].els = {}
    <2>1. CASE FailThenPush(w)
      BY <2>1, ThreadType, Pushed, OwnPart DEF FailThenPush, Push, IInv
    <2>2. CASE FailThenDrop(w) \/ FailThenQuit(w)
      <3>1. queue' = queue /\ work' = work /\ wpc[w] \in {"failDrop", "failQuit"}
        BY <2>2 DEF FailThenDrop, FailThenQuit
      <3>2. work[w].els = {}
        BY <3>1 DEF IInv, HandsEmpty, Unburdened
      <3>3. QED BY <3>1, <3>2
    <2>3. QED BY <2>1, <2>2
  <1>5. Moves(w, work[w].els, {})
    BY <1>1, <1>2, <1>4, ThreadMoves
  <1>6. Answering' = Answering \ InHand(w) /\ Apart(InHand(w), Answering)
    BY <1>3, <1>5, AfterMove, Hands
  <1>7. InFlight' = (InFlight \ InHand(w)) \cup work[w].els \cup {} \cup work'[w].els \cup doom'[w]
    BY <1>5, AfterMove
  <1>8. InHand(w) \subseteq InFlight /\ Apart(work[w].els, doom[w])
    BY Hands
  <1>9. InFlight' = InFlight \ doom[w]
    BY <1>2, <1>4, <1>7, <1>8 DEF InHand, Apart
  <1>10. Answering' = Answering /\ doom[w] \in SUBSET (InFlight \ Answering)
    BY <1>6, <1>8 DEF InHand, Apart
  <1>11. QED BY <1>1, <1>2, <1>9, <1>10 DEF Fails

LEMMA WithNothing ==
    ASSUME NEW st \in Statuses, NEW s
    PROVE  With(st, {}, s) = st
  BY DEF With, Statuses

\* A split leaves what it was given with the thread, on the queue or in the
\* cleanup, except for what is Available again or fails.
LEMMA Divided ==
    ASSUME PlainUpload, Base, NEW w \in Worker, Thread(w), NEW N,
           NEW x \in SplitChangeset(w), ApplySplit(x),
           Splits(w), wpc'[w] # "ok", UNCHANGED <<pwork, applied, gaveUp>>,
           Els(queue') = Els(queue) \cup N,
           LET O == N \cup x.orphan \cup work'[w].els \cup doom'[w]
           IN  /\ O \cup x.avail \cup x.fails = work[w].els
               /\ Apart(x.avail, O) /\ O \cap x.fails \subseteq Gone
               /\ x.avail = {} \/ x.fails = {}
    PROVE  Divides
  <1> USE DEF Base
  <1> DEFINE O == N \cup x.orphan \cup work'[w].els \cup doom'[w]
  <1>1. x.adds = {} /\ x \in SplitOutcome /\ status \in Statuses
    BY SplitSound DEF IInv, TypeOK
  <1>2. wpc[w] # "ok" /\ wpc[w] \notin Dooming
    BY DEF Splits, Answered, Dooming
  <1>3. doom[w] = {} /\ InHand(w) = work[w].els
    BY <1>2 DEF IInv, HandsEmpty, InHand
  <1>4. Moves(w, N, x.orphan)
    BY ThreadMoves DEF ApplySplit
  <1>5. Answering' = Answering \ InHand(w) /\ Apart(InHand(w), Answering)
    BY <1>2, <1>4, AfterMove, Hands
  <1>6. InFlight' = (InFlight \ InHand(w)) \cup O
    BY <1>4, AfterMove
  <1>7. InHand(w) \subseteq InFlight
    BY Hands
  <1>8. /\ O \cup x.avail \cup x.fails = work[w].els
        /\ Apart(x.avail, O) /\ O \cap x.fails \subseteq Gone
        /\ x.avail = {} \/ x.fails = {}
    OBVIOUS
  <1> HIDE DEF O
  <1>9. /\ InFlight \ (x.avail \cup x.fails) \subseteq InFlight'
        /\ InFlight' \subseteq InFlight \ x.avail /\ InFlight' \cap x.fails \subseteq Gone
    BY <1>3, <1>6, <1>7, <1>8 DEF Apart
  <1>10. Answering' = Answering /\ x.avail \in SUBSET (InFlight \ Answering)
         /\ x.fails \in SUBSET (InFlight \ Answering)
    BY <1>3, <1>5, <1>7, <1>8 DEF Apart
  <1> DEFINE st == With(status, x.avail, "Available")
  <1>11. st \in Statuses
    BY <1>1, WithType DEF ElementStatus
  <1>12. With(st, x.adds, "Buffering") = st
    BY <1>1, <1>11, WithNothing
  <1>13. /\ status' = With(st, FailureOf(st, x.fails), "Failed")
         /\ failedCount' = failedCount + Cardinality(FailureOf(st, x.fails))
         /\ UNCHANGED <<processedCount, sendBuffer>>
    BY <1>1, <1>12 DEF ApplySplit
  <1>14. QED BY <1>8, <1>9, <1>10, <1>13 DEF Divides

\* What is left of a changeset that has more than one element, or just one.
LEMMA SplitMany ==
    ASSUME PlainUpload, Base, NEW w \in Worker, NEW x \in SplitChangeset(w),
           Cardinality(work[w].els) # 1
    PROVE  /\ x.rest \cup x.split \cup x.avail \cup x.orphan \cup x.fails = work[w].els
           /\ Apart(x.avail, x.rest \cup x.split \cup x.orphan)
           /\ Apart(x.fails, x.rest \cup x.split \cup x.orphan \cup x.avail)
           /\ x.split = {} => x.rest = {}
           /\ x.avail = {} \/ x.fails = {}
  <1>1. Apart(work[w].els, AvailableIn(status)) /\ TypeOK
    BY DEF Base, IInv, ExclusiveWork, InHand, Apart
  <1>2. SplitsSoundly(x, work[w].els, {}) /\ x.adds = {}
    BY <1>1, SplitSound
  <1>3. QED BY <1>2 DEF SplitsSoundly

LEMMA SplitOne ==
    ASSUME PlainUpload, Base, NEW w \in Worker, NEW x \in SplitChangeset(w),
           Cardinality(work[w].els) = 1
    PROVE  /\ x.rest = work[w].els /\ x.split = {} /\ x.avail = {} /\ x.orphan = {}
           /\ x.fails = IF Splitting(w).attempted THEN work[w].els ELSE {}
           /\ x.rest # {} /\ ~x.error
           /\ wpc[w] = "gone" => Splitting(w).attempted
  <1>1. x = Unsplit(Splitting(w)) /\ Splitting(w).els = work[w].els
    BY SplitSound, SplitType DEF Base, IInv
  <1>2. /\ x.rest = work[w].els /\ x.split = {} /\ x.avail = {} /\ x.orphan = {}
        /\ x.fails = IF Splitting(w).attempted THEN work[w].els ELSE {}
        /\ ~x.error
    BY <1>1 DEF Unsplit
  <1>3. work[w].els # {}
    BY FS_EmptySet
  <1>4. wpc[w] = "gone" => Splitting(w).attempted
    BY DEF Splitting, Base, IInv, TypeOK, ChangesetInfo
  <1>5. QED BY <1>2, <1>3, <1>4

LEMMA PushSplitDivides ==
    ASSUME PlainUpload, Base, NEW w \in Worker, Thread(w), PushSplit(w)
    PROVE  Divides
  <1> USE DEF Base
  <1>1. PICK x \in SplitChangeset(w) :
          /\ x.split # {} /\ ApplySplit(x)
          /\ queue' = queue \o <<Shrunk(Splitting(w), x.rest), Fresh(x.split)>>
    BY DEF PushSplit
  <1>2. /\ UNCHANGED <<pwork, doom, applied, gaveUp>> /\ Release(w) /\ Goto(w, "loop")
        /\ Splits(w) /\ wpc[w] \notin Dooming
    BY DEF PushSplit, producerVars, failVars, serverVars, Splits, Answered, Dooming
  <1> DEFINE one == Shrunk(Splitting(w), x.rest)
             two == Fresh(x.split)
  <1>3. /\ one \in ChangesetInfo /\ one.els = x.rest
        /\ two \in ChangesetInfo /\ two.els = x.split
    BY SplitType, ShrunkType, FreshType DEF SplitOutcome, IInv
  <1>4. Cardinality(work[w].els) # 1
    BY <1>1, SplitOne
  <1>5. Els(queue') = Els(queue) \cup (x.rest \cup x.split)
    <2>1. queue \in Seq(ChangesetInfo) /\ QueueOnce(queue)
      BY DEF IInv, TypeOK, ExclusiveWork, QueueOnce
    <2>2. queue' = Append(Append(queue, one), two)
      BY <1>1, <1>3, <2>1
    <2> HIDE DEF one, two
    <2>3. Append(queue, one) \in Seq(ChangesetInfo)
      BY <1>3, <2>1
    <2>4. Apart(x.rest \cup x.split, Els(queue)) /\ Apart(x.rest, x.split)
      <3>1. Apart(work[w].els, Els(queue))
        BY HandsApart DEF InHand, Apart
      <3>2. x.rest \cup x.split \subseteq work[w].els
        BY <1>4, SplitMany
      <3>3. QED BY <3>1, <3>2, SplitParts, SplitSound DEF Apart, IInv
    <2>5. /\ QueueOnce(Append(queue, one))
          /\ Els(Append(queue, one)) = Els(queue) \cup x.rest
      BY <1>3, <2>1, <2>4, AppendOnce DEF Apart
    <2>6. Apart(two.els, Els(Append(queue, one)))
      BY <1>3, <2>4, <2>5 DEF Apart
    <2>7. Els(Append(Append(queue, one), two)) = Els(Append(queue, one)) \cup two.els
      BY <1>3, <2>3, <2>5, <2>6, AppendOnce
    <2>8. QED BY <1>3, <2>2, <2>5, <2>7
  <1>6. wpc'[w] # "ok" /\ work'[w].els = {} /\ doom'[w] = {}
    BY <1>2, OwnPart DEF IInv, HandsEmpty
  <1> DEFINE N == x.rest \cup x.split
             O == N \cup x.orphan \cup work'[w].els \cup doom'[w]
  <1>7. O = x.rest \cup x.split \cup x.orphan
    BY <1>6
  <1>8. /\ O \cup x.avail \cup x.fails = work[w].els
        /\ Apart(x.avail, O) /\ O \cap x.fails \subseteq Gone
        /\ x.avail = {} \/ x.fails = {}
    BY <1>4, <1>7, SplitMany DEF Apart
  <1> HIDE DEF N
  <1>9. QED BY <1>1, <1>2, <1>5, <1>6, <1>8, Divided DEF N

LEMMA FailSplitDivides ==
    ASSUME PlainUpload, Base, NEW w \in Worker, Thread(w), FailSplit(w)
    PROVE  Divides
  <1> USE DEF Base
  <1>1. PICK x \in SplitChangeset(w) :
          /\ x.error /\ ApplySplit(x)
          /\ work' = [work EXCEPT ![w] = Shrunk(Splitting(w), x.rest)]
          /\ Doom(w, x.split, "failPush")
    BY DEF FailSplit
  <1>2. UNCHANGED <<queue, pwork, applied, gaveUp>> /\ Splits(w)
    BY DEF FailSplit, producerVars, serverVars
  <1>3. Shrunk(Splitting(w), x.rest).els = x.rest
    BY SplitType, ShrunkType DEF SplitOutcome, IInv
  <1>4. work'[w].els = x.rest /\ doom'[w] = x.split /\ wpc'[w] # "ok"
    BY <1>1, <1>3, OwnPart DEF IInv, TypeOK
  <1>5. Cardinality(work[w].els) # 1
    BY <1>1, SplitOne
  <1> DEFINE O == {} \cup x.orphan \cup work'[w].els \cup doom'[w]
  <1>6. O = x.rest \cup x.split \cup x.orphan
    BY <1>4
  <1>7. /\ O \cup x.avail \cup x.fails = work[w].els
        /\ Apart(x.avail, O) /\ O \cap x.fails \subseteq Gone
        /\ x.avail = {} \/ x.fails = {}
    BY <1>5, <1>6, SplitMany DEF Apart
  <1>8. Els(queue') = Els(queue) \cup {}
    BY <1>2
  <1>9. QED BY <1>1, <1>2, <1>4, <1>7, <1>8, Divided

\* One element of which the API says that it is gone is gone.
LEMMA GoneAlone ==
    ASSUME Base, NEW w \in Worker, wpc[w] = "gone", Cardinality(work[w].els) = 1
    PROVE  work[w].els \subseteq Gone
  <1>1. work[w].els \in SUBSET Element
    BY ThreadType DEF Base, IInv
  <1>2. PICK e : work[w].els = {e}
    BY <1>1, FS_Singleton, CountElements
  <1>3. work[w].els \cap Gone # {}
    BY DEF Base, Places
  <1>4. QED BY <1>2, <1>3

LEMMA UnsplitDivides ==
    ASSUME PlainUpload, Base, NEW w \in Worker, Thread(w),
           PushUnsplit(w) \/ DropUnsplit(w) \/ FailUnsplit(w)
    PROVE  Divides
  <1> USE DEF Base
  <1>1. /\ UNCHANGED <<pwork, applied, gaveUp>> /\ Splits(w)
        /\ wpc[w] \notin Dooming /\ wpc[w] # "overload" /\ Release(w)
    BY DEF PushUnsplit, DropUnsplit, FailUnsplit, producerVars, serverVars, Splits, Answered,
           Dooming, Push, Places
  <1>2. doom[w] = {} /\ work'[w].els = {}
    BY <1>1, OwnPart DEF IInv, HandsEmpty
  <1>3. CASE PushUnsplit(w)
    <2> DEFINE retry(x) == [Shrunk(Splitting(w), x.rest) EXCEPT !.attempted = @ \/ Unresolved(w)]
    <2>1. PICK x \in SplitChangeset(w) :
            /\ x.split = {} /\ ApplySplit(x) /\ Push(w, retry(x))
            /\ wpc[w] = "gone" \/ Unresolved(w)
      BY <1>1, <1>3 DEF PushUnsplit
    <2>2. retry(x) \in ChangesetInfo /\ retry(x).els = x.rest
      <3> DEFINE info == Shrunk(Splitting(w), x.rest)
                 b == info.attempted \/ Unresolved(w)
      <3>1. info \in ChangesetInfo /\ info.els = x.rest
        BY SplitType, ShrunkType DEF SplitOutcome, IInv
      <3>2. b \in BOOLEAN
        OBVIOUS
      <3>3. retry(x) = [info EXCEPT !.attempted = b]
        OBVIOUS
      <3> HIDE DEF info, b, retry
      <3>4. QED BY <3>1, <3>2, <3>3, RetryType
    <2> HIDE DEF retry
    <2>3. x.rest \subseteq work[w].els
      BY SplitMany, SplitOne
    <2>4. Els(queue') = Els(queue) \cup x.rest
      BY <2>1, <2>2, <2>3, Pushed DEF Push
    <2>5. wpc'[w] # "ok" /\ doom'[w] = {}
      BY <1>2, <1>3, <2>1, OwnPart DEF PushUnsplit, Push, IInv, failVars
    <2> DEFINE O == x.rest \cup x.orphan \cup work'[w].els \cup doom'[w]
    <2>6. /\ O \cup x.avail \cup x.fails = work[w].els
          /\ Apart(x.avail, O) /\ O \cap x.fails \subseteq Gone
          /\ x.avail = {} \/ x.fails = {}
      <3>1. O = x.rest \cup x.orphan
        BY <1>2, <2>5
      <3>2. CASE Cardinality(work[w].els) # 1
        BY <2>1, <3>1, <3>2, SplitMany DEF Apart
      <3>3. CASE Cardinality(work[w].els) = 1
        <4>1. Unresolved(w) => x.fails = {}
          BY <3>3, SplitOne DEF Unresolved
        <4>2. wpc[w] = "gone" => work[w].els \subseteq Gone
          BY <3>3, GoneAlone
        <4>3. QED BY <2>1, <3>1, <3>3, <4>1, <4>2, SplitOne DEF Apart
      <3>4. QED BY <3>2, <3>3
    <2>7. QED BY <1>1, <2>1, <2>4, <2>5, <2>6, Divided
  <1>4. CASE DropUnsplit(w)
    <2>1. PICK x \in SplitChangeset(w) :
            /\ x.split = {} /\ ApplySplit(x)
            /\ wpc[w] = "gone" => x.rest = {}
            /\ Unresolved(w) => x.rest = {}
      BY <1>4 DEF DropUnsplit
    <2>2. queue' = queue /\ doom'[w] = {} /\ wpc'[w] # "ok"
      BY <1>2, <1>4, OwnPart DEF DropUnsplit, IInv, failVars
    <2> DEFINE O == {} \cup x.orphan \cup work'[w].els \cup doom'[w]
    <2>3. O = x.orphan
      BY <1>2, <2>2
    <2>4. /\ O \cup x.avail \cup x.fails = work[w].els
          /\ Apart(x.avail, O) /\ O \cap x.fails \subseteq Gone
          /\ x.avail = {} \/ x.fails = {}
      <3>1. CASE Cardinality(work[w].els) # 1
        BY <2>1, <2>3, <3>1, SplitMany DEF Apart
      <3>2. CASE Cardinality(work[w].els) = 1
        <4>1. wpc[w] # "gone" /\ ~Unresolved(w)
          BY <2>1, <3>2, SplitOne
        <4>2. wpc[w] # "closed"
          BY <1>1, <3>2, WriterAssumption DEF Splits, Answered, PlainUpload
        <4>3. Splitting(w).attempted
          BY <1>1, <4>1, <4>2 DEF Splits, Answered, Unresolved
        <4>4. QED BY <2>3, <3>2, <4>3, SplitOne DEF Apart
      <3>3. QED BY <3>1, <3>2
    <2>5. Els(queue') = Els(queue) \cup {}
      BY <2>2
    <2>6. QED BY <1>1, <2>1, <2>2, <2>4, <2>5, Divided
  <1>5. CASE FailUnsplit(w)
    <2>1. PICK x \in SplitChangeset(w) :
            /\ x.split = {} /\ x.rest # {} /\ ApplySplit(x) /\ Doom(w, x.rest, "failDrop")
      BY <1>5 DEF FailUnsplit
    <2>2. queue' = queue /\ doom'[w] = x.rest /\ wpc'[w] # "ok" /\ Unresolved(w)
      BY <1>5, <2>1, OwnPart DEF FailUnsplit, IInv
    <2>3. Cardinality(work[w].els) = 1
      BY <2>1, SplitMany
    <2> DEFINE O == {} \cup x.orphan \cup work'[w].els \cup doom'[w]
    <2>4. /\ O \cup x.avail \cup x.fails = work[w].els
          /\ Apart(x.avail, O) /\ O \cap x.fails \subseteq Gone
          /\ x.avail = {} \/ x.fails = {}
      BY <1>2, <2>2, <2>3, SplitOne DEF Apart, Unresolved
    <2>5. Els(queue') = Els(queue) \cup {}
      BY <2>2
    <2>6. QED BY <1>1, <2>1, <2>2, <2>4, <2>5, Divided
  <1>6. QED BY <1>3, <1>4, <1>5

LEMMA ThreadShape ==
    ASSUME PlainUpload, Base, NEW w \in Worker, Thread(w)
    PROVE  ElementStep
  <1>1. \A v \in Worker : counted'[v] \in {0, counted[v], failedCount}
    BY OthersStay DEF Base, IInv
  <1>2. CASE Exit(w)
    BY <1>1, <1>2, StillShuffles DEF ElementStep
  <1>3. CASE ~Exit(w)
    <2>1. ~AllOut
      BY <1>3, OwnPlace DEF Base, IInv, AllOut
    <2>2. Shuffles \/ Applies \/ Finalizes \/ Fails \/ Divides
      BY <1>3, StillShuffles, RequeueShuffles, DoomShuffles, TakeShuffles, UploadApplies,
         AcceptFinalizes, GoneFinalizes, WriteFails, PushSplitDivides, FailSplitDivides,
         UnsplitDivides DEF Thread, Reply
    <2>3. QED BY <1>1, <2>1, <2>2 DEF ElementStep
  <1>4. QED BY <1>2, <1>3

LEMMA ProducerShape ==
    ASSUME PlainUpload, Base, Producer
    PROVE  ElementStep
  <1> USE DEF Base
  <1>1. UNCHANGED workerVars /\ UNCHANGED <<applied, threadStatus>>
    BY DEF Producer, PollFinished, PollFailed, PollRoom, PollFull, CalculateWork, PushWork,
           KeepWaiting, DecideToGiveUp, GiveUp, StartWork, JoinThreads, poolVars, serverVars
  <1>2. /\ \A v \in Worker : counted'[v] \in {0, counted[v], failedCount}
        /\ Answering' = Answering
        /\ (UNION {InHand(v)' : v \in Worker}) = (UNION {InHand(v) : v \in Worker})
    BY <1>1 DEF workerVars, failVars, Answering, InHand
  <1>3. CASE PollFinished \/ PollRoom \/ PollFull \/ KeepWaiting \/ DecideToGiveUp \/ StartWork
    <2>1. UNCHANGED <<queue, pwork, gaveUp>> /\ UNCHANGED changesetVars
      BY <1>3 DEF PollFinished, PollRoom, PollFull, KeepWaiting, DecideToGiveUp, StartWork,
                  producerVars
    <2>2. InFlight' = InFlight
      BY <1>2, <2>1, HandsApart DEF changesetVars
    <2>3. QED BY <1>1, <1>2, <2>1, <2>2 DEF ElementStep, Shuffles, changesetVars
  <1>4. CASE CalculateWork
    <2> DEFINE S == Calculate(status, Unsent)
    <2>1. S \in SUBSET AvailableIn(status)
      BY CalculateType DEF IInv, TypeOK
    <2>2. /\ status' = With(status, S, "Sent") /\ pwork' = S
          /\ UNCHANGED <<processedCount, failedCount, cleanup, queue, gaveUp>>
          /\ sendBuffer' = sendBuffer /\ pwork = {}
      BY <1>4 DEF CalculateWork, IInv, HandsEmpty
    <2> HIDE DEF S
    <2>3. InFlight' = InFlight \cup S
      BY <1>2, <2>2, HandsApart
    <2>4. Sends
      BY <1>1, <1>2, <2>1, <2>2, <2>3 DEF Sends
    <2>5. QED BY <1>2, <2>4 DEF ElementStep
  <1>5. CASE PushWork
    <2>1. /\ UNCHANGED gaveUp /\ UNCHANGED changesetVars /\ pwork' = {}
          /\ queue' = Append(queue, Fresh(pwork))
      BY <1>5 DEF PushWork
    <2>2. Els(queue') = Els(queue) \cup pwork
      <3>1. Fresh(pwork) \in ChangesetInfo /\ Fresh(pwork).els = pwork
        BY FreshType DEF IInv, TypeOK
      <3>2. QueueOnce(queue) /\ queue \in Seq(ChangesetInfo)
        BY DEF IInv, ExclusiveWork, QueueOnce, TypeOK
      <3>3. Apart(pwork, Els(queue))
        BY HandsApart DEF Apart
      <3>4. QED BY <2>1, <3>1, <3>2, <3>3, AppendOnce
    <2>3. InFlight' = InFlight
      BY <1>2, <2>1, <2>2, HandsApart DEF changesetVars
    <2>4. QED BY <1>1, <1>2, <2>1, <2>3 DEF ElementStep, Shuffles, changesetVars
  <1>6. CASE PollFailed \/ GiveUp \/ JoinThreads
    <2>1. UNCHANGED <<queue, pwork>>
      BY <1>6 DEF PollFailed, GiveUp, JoinThreads
    <2>2. \/ FailRemaining /\ (gaveUp' \/ (AllOut /\ gaveUp' = gaveUp))
          \/ UNCHANGED changesetVars /\ gaveUp' = gaveUp
      BY <1>6 DEF PollFailed, GiveUp, JoinThreads, AllThreadsFailed, Places, AllOut, Out
    <2>3. cleanup' = cleanup
      BY <2>2 DEF FailRemaining, changesetVars
    <2>4. InFlight' = InFlight
      BY <1>2, <2>1, <2>3, HandsApart
    <2>5. Abandons \/ Shuffles
      BY <1>1, <1>2, <2>2, <2>4 DEF Abandons, Shuffles, changesetVars
    <2>6. QED BY <1>2, <2>5 DEF ElementStep
  <1>7. QED BY <1>3, <1>4, <1>5, <1>6 DEF Producer

\* Every step is one of the seven, or changes nothing.
LEMMA Shapes ==
    ASSUME PlainUpload, Base, [Next]_vars
    PROVE  ElementStep
  <1>1. ASSUME UNCHANGED vars PROVE ElementStep
    <2>1. /\ UNCHANGED <<status, applied, processedCount, failedCount, sendBuffer, gaveUp,
                         queue, work, doom, wpc, pwork, cleanup, counted>>
      BY <1>1 DEF vars, changesetVars, producerVars, workerVars, failVars, serverVars
    <2>2. InFlight' = InFlight /\ Answering' = Answering
      BY <2>1 DEF InFlight, Queued, InHand, Answering
    <2>3. QED BY <2>1, <2>2 DEF ElementStep, Shuffles
  <1>2. QED BY <1>1, ThreadShape, ProducerShape DEF Next, Finished

-----------------------------------------------------------------------------
(* The sets of elements that the steps move.                               *)

FinalIn(st) == {e \in Element : st[e] = "Finalized"}

LEMMA WithSets ==
    ASSUME NEW st \in Statuses, NEW S \in SUBSET Element
    PROVE  /\ FailedIn(With(st, S, "Failed")) = FailedIn(st) \cup S
           /\ FinalIn(With(st, S, "Failed")) = FinalIn(st) \ S
           /\ Pending(With(st, S, "Failed")) = Pending(st) \ S
           /\ FailedIn(With(st, S, "Finalized")) = FailedIn(st) \ S
           /\ FinalIn(With(st, S, "Finalized")) = FinalIn(st) \cup S
           /\ Pending(With(st, S, "Finalized")) = Pending(st) \ S
           /\ FailedIn(With(st, S, "Sent")) = FailedIn(st) \ S
           /\ FinalIn(With(st, S, "Sent")) = FinalIn(st) \ S
           /\ Pending(With(st, S, "Sent")) = Pending(st) \cup S
           /\ FailedIn(With(st, S, "Available")) = FailedIn(st) \ S
           /\ FinalIn(With(st, S, "Available")) = FinalIn(st) \ S
           /\ Pending(With(st, S, "Available")) = Pending(st) \ S
  <1>1. /\ FailedIn(With(st, S, "Failed")) = FailedIn(st) \cup S
        /\ FinalIn(With(st, S, "Failed")) = FinalIn(st) \ S
        /\ Pending(With(st, S, "Failed")) = Pending(st) \ S
    BY DEF With, FailedIn, FinalIn, Pending
  <1>2. /\ FailedIn(With(st, S, "Finalized")) = FailedIn(st) \ S
        /\ FinalIn(With(st, S, "Finalized")) = FinalIn(st) \cup S
        /\ Pending(With(st, S, "Finalized")) = Pending(st) \ S
    BY DEF With, FailedIn, FinalIn, Pending
  <1>3. /\ FailedIn(With(st, S, "Sent")) = FailedIn(st) \ S
        /\ FinalIn(With(st, S, "Sent")) = FinalIn(st) \ S
        /\ Pending(With(st, S, "Sent")) = Pending(st) \cup S
    BY DEF With, FailedIn, FinalIn, Pending
  <1>4. /\ FailedIn(With(st, S, "Available")) = FailedIn(st) \ S
        /\ FinalIn(With(st, S, "Available")) = FinalIn(st) \ S
        /\ Pending(With(st, S, "Available")) = Pending(st) \ S
    BY DEF With, FailedIn, FinalIn, Pending
  <1>5. QED BY <1>1, <1>2, <1>3, <1>4

\* Every element is in one of four sets.
LEMMA Partition ==
    ASSUME NEW st \in Statuses
    PROVE  /\ Element = AvailableIn(st) \cup Pending(st) \cup FinalIn(st) \cup FailedIn(st)
           /\ Apart(FinalIn(st), FailedIn(st)) /\ Apart(AvailableIn(st), FinalIn(st))
           /\ Apart(AvailableIn(st), FailedIn(st)) /\ Apart(AvailableIn(st), Pending(st))
           /\ {e \in Element : st[e] \notin Settled} = AvailableIn(st) \cup Pending(st)
           /\ FinalIn(st) \subseteq Element /\ FailedIn(st) \subseteq Element
  BY DEF Statuses, ElementStatus, AvailableIn, Pending, FinalIn, FailedIn, Settled, Apart

\* When nothing is to blame, nothing fails.
LEMMA NoFailure ==
    ASSUME NEW st \in Statuses
    PROVE  FailureOf(st, {}) = {}
  <1>1. Element \in SelfSufficient
    BY RequiresAssumption DEF SelfSufficient
  <1>2. /\ \A A \in SelfSufficient : Apart(A, {}) => Apart(A, FailureOf(st, {}))
        /\ FailureOf(st, {}) \subseteq Element
    BY FailureAssumption
  <1>3. QED BY <1>1, <1>2 DEF Apart

\* What fails with F.
LEMMA Failed ==
    ASSUME NEW st \in Statuses, NEW F \in SUBSET Element
    PROVE  LET failing == FailureOf(st, F)
           IN  /\ F \subseteq FailedIn(st) \cup failing
               /\ failing \subseteq Element /\ Apart(failing, FailedIn(st))
               /\ failing \cap Gone \subseteq F
               /\ \A A \in SelfSufficient : Apart(A, F) => Apart(A, failing)
  BY FailureAssumption DEF Apart

LEMMA Flight ==
    ASSUME Base
    PROVE  /\ Answering \subseteq InFlight /\ InFlight \subseteq Element
           /\ Apart(InFlight, AvailableIn(status)) /\ status \in Statuses
  BY Hands, WriterAssumption DEF Base, IInv, TypeOK

LEMMA AnsweringStays == Answering' \subseteq InFlight'
  BY DEF Answering, InFlight, InHand

\* A split either makes elements Available or fails some.
LEMMA DividesOne ==
    ASSUME Base, Divides
    PROVE  \/ \E V \in SUBSET (InFlight \ Answering) :
                /\ status' = With(status, V, "Available") /\ failedCount' = failedCount
                /\ InFlight' = InFlight \ V
           \/ \E F \in SUBSET (InFlight \ Answering) :
                /\ status' = With(status, FailureOf(status, F), "Failed")
                /\ failedCount' = failedCount + Cardinality(FailureOf(status, F))
                /\ InFlight \ F \subseteq InFlight' /\ InFlight' \subseteq InFlight
                /\ InFlight' \cap F \subseteq Gone
  <1>1. PICK V, F \in SUBSET (InFlight \ Answering) :
          /\ V = {} \/ F = {}
          /\ LET st == With(status, V, "Available")
             IN  /\ status' = With(st, FailureOf(st, F), "Failed")
                 /\ failedCount' = failedCount + Cardinality(FailureOf(st, F))
          /\ InFlight \ (V \cup F) \subseteq InFlight'
          /\ InFlight' \subseteq InFlight \ V /\ InFlight' \cap F \subseteq Gone
    BY DEF Divides
  <1>2. CASE V = {}
    <2>1. With(status, V, "Available") = status
      BY <1>2, Flight, WithNothing
    <2>2. QED BY <1>1, <1>2, <2>1
  <1>3. CASE F = {}
    <2> DEFINE st == With(status, V, "Available")
    <2>1. st \in Statuses
      BY Flight, WithType DEF ElementStatus
    <2>2. FailureOf(st, F) = {}
      BY <1>3, <2>1, NoFailure
    <2>3. With(st, {}, "Failed") = st
      BY <2>1, WithNothing
    <2>4. Cardinality({}) = 0 /\ failedCount \in Nat
      BY FS_EmptySet DEF Base, IInv, TypeOK
    <2>5. InFlight' = InFlight \ V
      BY <1>1, <1>3
    <2>6. status' = st /\ failedCount' = failedCount
      BY <1>1, <2>2, <2>3, <2>4
    <2>7. QED BY <2>5, <2>6
  <1>4. QED BY <1>1, <1>2, <1>3

-----------------------------------------------------------------------------
(* No element is lost.                                                     *)

Tracked == HasFailedThread \/ Pending(status) \subseteq InFlight

LEMMA TrackedStep ==
    ASSUME PlainUpload, Base, Tracked, [Next]_vars
    PROVE  Tracked'
  <1>1. HasFailedThread => HasFailedThread'
    BY BaseStep
  <1>2. SUFFICES ASSUME Pending(status) \subseteq InFlight
                 PROVE  HasFailedThread' \/ Pending(status') \subseteq InFlight'
    BY <1>1 DEF Tracked
  <1>3. CASE Shuffles
    BY <1>2, <1>3 DEF Shuffles
  <1>4. CASE Sends
    <2>1. PICK S \in SUBSET AvailableIn(status) :
            status' = With(status, S, "Sent") /\ InFlight' = InFlight \cup S
      BY <1>4 DEF Sends
    <2>2. Pending(status') = Pending(status) \cup S
      BY <2>1, Flight, WithSets DEF AvailableIn
    <2>3. QED BY <1>2, <2>1, <2>2
  <1>5. CASE Abandons
    <2> DEFINE remaining == {e \in Element : status[e] \notin Settled}
    <2>1. Pending(status') = Pending(status) \ remaining
      BY <1>5, Flight, WithSets DEF Abandons, FailRemaining
    <2>2. Pending(status) \subseteq remaining
      BY DEF Pending, Settled
    <2>3. QED BY <2>1, <2>2
  <1>6. CASE Applies
    BY <1>2, <1>6 DEF Applies
  <1>7. CASE Finalizes
    <2>1. PICK S \in SUBSET InFlight :
            status' = With(status, S, "Finalized") /\ InFlight' = InFlight \ S
      BY <1>7 DEF Finalizes
    <2>2. Pending(status') = Pending(status) \ S
      BY <2>1, Flight, WithSets
    <2>3. QED BY <1>2, <2>1, <2>2
  <1>8. ASSUME NEW F \in SUBSET (InFlight \ Answering),
               status' = With(status, FailureOf(status, F), "Failed"),
               InFlight \ F \subseteq InFlight'
        PROVE  Pending(status') \subseteq InFlight'
    <2>1. F \subseteq FailedIn(status) \cup FailureOf(status, F) /\ FailureOf(status, F) \subseteq Element
      BY Flight, Failed
    <2>2. Pending(status') = Pending(status) \ FailureOf(status, F)
      BY <1>8, <2>1, Flight, WithSets
    <2>3. Apart(Pending(status), FailedIn(status))
      BY DEF Pending, FailedIn, Apart
    <2>4. QED BY <1>2, <1>8, <2>1, <2>2, <2>3 DEF Apart
  <1>9. CASE Fails
    <2>1. PICK F \in SUBSET (InFlight \ Answering) :
            status' = With(status, FailureOf(status, F), "Failed") /\ InFlight' = InFlight \ F
      BY <1>9 DEF Fails
    <2>2. QED BY <2>1, <1>8
  <1>10. CASE Divides
    <2>1. ASSUME NEW V \in SUBSET (InFlight \ Answering),
                 status' = With(status, V, "Available"), InFlight' = InFlight \ V
          PROVE  Pending(status') \subseteq InFlight'
      <3>1. Pending(status') = Pending(status) \ V
        BY <2>1, Flight, WithSets
      <3>2. QED BY <1>2, <2>1, <3>1
    <2>2. QED BY <1>8, <1>10, <2>1, DividesOne
  <1>11. QED BY <1>3, <1>4, <1>5, <1>6, <1>7, <1>9, <1>10, Shapes DEF ElementStep

\* In a plain upload no element is ever forgotten: as long as no thread has failed,
\* an element that was sent and not answered is on the queue, in the hands of a
\* thread, with the producer or in the cleanup, whatever was split and retried.
THEOREM NothingIsLost ==
    ASSUME PlainUpload
    PROVE  Spec => []NothingLost
  <1>1. Init => Base /\ Tracked
    <2>1. Init => Pending(status) = {}
      BY DEF Init, Pending
    <2>2. QED BY <2>1, BaseInit DEF Tracked
  <1>2. Base /\ Tracked /\ [Next]_vars => Base' /\ Tracked'
    BY BaseStep, TrackedStep
  <1>3. Base /\ Tracked => NothingLost
    BY DEF Tracked, NothingLost, Pending
  <1>4. QED BY <1>1, <1>2, <1>3, PTL DEF Spec

-----------------------------------------------------------------------------
(* What is reported is true.                                               *)
(*                                                                         *)
(* An element fails by itself or because something it requires fails.  What*)
(* has failed may still be under way, in a changeset that another thread   *)
(* holds; it is dead when it is not, and what is deleted already is dead   *)
(* from the start.  The argument: the server can apply what has been       *)
(* applied without any dead element, and whatever can be applied without   *)
(* the dead has not failed.                                                *)

Dead == (FailedIn(status) \ InFlight) \cup Gone

Spared == \A A \in SelfSufficient : Apart(A, Dead) => Apart(A, FailedIn(status))

Reported ==
    /\ applied \in SelfSufficient /\ Apart(applied, Dead)
    /\ applied \subseteq FinalIn(status) \cup Answering
    /\ FinalIn(status) \subseteq applied \cup Gone
    /\ Apart(FailedIn(status), applied)

Honest ==
    /\ Answering \subseteq applied
    /\ Apart(FinalIn(status), InFlight)
    /\ gaveUp \/ (Reported /\ (Spared \/ AllOut))

\* Elements that are settled by a failure of F were neither applied nor final.
LEMMA FailureSpares ==
    ASSUME Base, Reported, Apart(FinalIn(status), InFlight),
           NEW F \in SUBSET (InFlight \ Answering)
    PROVE  /\ Apart(FailureOf(status, F), applied)
           /\ Apart(FailureOf(status, F), FinalIn(status))
  <1> DEFINE failing == FailureOf(status, F)
  <1>1. Apart(applied, F)
    BY DEF Reported, Apart
  <1>2. /\ failing \cap Gone \subseteq F
        /\ \A A \in SelfSufficient : Apart(A, F) => Apart(A, failing)
    BY Flight, Failed
  <1>3. Apart(applied, failing)
    BY <1>1, <1>2 DEF Reported
  <1> HIDE DEF failing
  <1>4. Apart(failing, FinalIn(status))
    BY <1>2, <1>3 DEF Reported, Apart
  <1>5. QED BY <1>3, <1>4 DEF Apart, failing

\* A failure of F, of which only what is gone stays under way.
LEMMA HonestFailure ==
    ASSUME Base, Honest, NEW F \in SUBSET (InFlight \ Answering),
           status' = With(status, FailureOf(status, F), "Failed"),
           InFlight \ F \subseteq InFlight', InFlight' \subseteq InFlight,
           InFlight' \cap F \subseteq Gone,
           Answering' = Answering, UNCHANGED <<applied, gaveUp>>, ~AllOut
    PROVE  Honest'
  <1> DEFINE failing == FailureOf(status, F)
  <1>1. /\ F \subseteq FailedIn(status) \cup failing
        /\ failing \subseteq Element /\ Apart(failing, FailedIn(status))
        /\ failing \cap Gone \subseteq F
        /\ \A A \in SelfSufficient : Apart(A, F) => Apart(A, failing)
    BY Flight, Failed
  <1>2. /\ FailedIn(status') = FailedIn(status) \cup failing
        /\ FinalIn(status') = FinalIn(status) \ failing
    BY <1>1, Flight, WithSets
  <1>3. Answering' \subseteq applied' /\ Apart(FinalIn(status'), InFlight')
    BY <1>2 DEF Honest, Apart
  <1>4. ASSUME ~gaveUp PROVE Reported' /\ Spared'
    <2>1. Reported /\ Spared
      BY <1>4 DEF Honest
    <2>2. Apart(failing, applied) /\ Apart(failing, FinalIn(status))
      BY <2>1, FailureSpares DEF Honest
    <2>3. Dead' = ((FailedIn(status) \cup failing) \ InFlight') \cup Gone
      BY <1>2 DEF Dead
    <2> HIDE DEF failing
    <2>4. Dead \subseteq Dead' /\ F \subseteq Dead'
      BY <1>1, <2>3 DEF Dead
    <2>5. Dead' \subseteq Dead \cup F \cup failing
      BY <2>3 DEF Dead
    <2>6. Apart(applied, F)
      BY <2>1 DEF Honest, Reported, Apart
    <2>7. Spared'
      <3>1. SUFFICES ASSUME NEW A \in SelfSufficient, Apart(A, Dead')
                     PROVE  Apart(A, FailedIn(status'))
        BY DEF Spared
      <3>2. Apart(A, FailedIn(status)) /\ Apart(A, failing)
        BY <1>1, <2>1, <2>4, <3>1 DEF Spared, Apart
      <3>3. QED BY <1>2, <3>2 DEF Apart
    <2>8. Apart(applied, Dead')
      BY <2>1, <2>2, <2>5, <2>6 DEF Reported, Apart
    <2>9. FinalIn(status') = FinalIn(status)
      BY <1>2, <2>2 DEF Apart
    <2>10. Apart(FailedIn(status'), applied)
      BY <1>2, <2>1, <2>2 DEF Reported, Apart
    <2>11. Reported'
      BY <2>1, <2>8, <2>9, <2>10 DEF Reported
    <2>12. QED BY <2>7, <2>11
  <1>5. QED BY <1>3, <1>4 DEF Honest

\* Steps that fail and finalize nothing, in terms of what is dead.
LEMMA HonestSame ==
    ASSUME Base, Honest, FinalIn(status') = FinalIn(status),
           FailedIn(status') \subseteq FailedIn(status),
           Dead \subseteq Dead', Dead' \subseteq Dead \cup (InFlight \ Answering),
           Apart(FinalIn(status), InFlight'),
           Answering' = Answering, UNCHANGED <<applied, gaveUp>>, AllOut => AllOut'
    PROVE  Honest'
  <1>1. ASSUME ~gaveUp PROVE Reported' /\ (Spared' \/ AllOut')
    <2>1. Reported /\ (Spared \/ AllOut)
      BY <1>1 DEF Honest
    <2>2. Apart(applied, InFlight \ Answering)
      BY <2>1 DEF Honest, Reported, Apart
    <2>3. Apart(applied, Dead')
      BY <2>1, <2>2 DEF Reported, Apart
    <2>4. Reported'
      BY <2>1, <2>3 DEF Reported, Apart
    <2>5. Spared => Spared'
      BY DEF Spared, Apart
    <2>6. QED BY <2>1, <2>4, <2>5
  <1>2. QED BY <1>1 DEF Honest

LEMMA HonestShuffles ==
    ASSUME Base, Honest, Shuffles, AllOut => AllOut'
    PROVE  Honest'
  <1>1. /\ InFlight' \subseteq InFlight /\ Answering \subseteq InFlight'
        /\ status' = status
    BY AnsweringStays DEF Shuffles
  <1>2. Dead' = (FailedIn(status) \ InFlight') \cup Gone
    BY <1>1 DEF Dead
  <1>3. Dead \subseteq Dead' /\ Dead' \subseteq Dead \cup (InFlight \ Answering)
    BY <1>1, <1>2 DEF Dead
  <1>4. Apart(FinalIn(status), InFlight')
    BY <1>1 DEF Honest, Apart
  <1>5. QED BY <1>1, <1>3, <1>4, HonestSame DEF Shuffles

LEMMA HonestSends ==
    ASSUME Base, Honest, Sends, AllOut => AllOut'
    PROVE  Honest'
  <1>1. PICK S \in SUBSET AvailableIn(status) :
          /\ status' = With(status, S, "Sent") /\ InFlight' = InFlight \cup S
          /\ Answering' = Answering /\ UNCHANGED <<applied, gaveUp>>
    BY DEF Sends
  <1>2. Apart(S, FinalIn(status)) /\ Apart(S, FailedIn(status)) /\ S \subseteq Element
    BY DEF AvailableIn, FinalIn, FailedIn, Apart
  <1>3. FinalIn(status') = FinalIn(status) /\ FailedIn(status') = FailedIn(status)
    <2>1. /\ FinalIn(status') = FinalIn(status) \ S
          /\ FailedIn(status') = FailedIn(status) \ S
      BY <1>1, <1>2, Flight, WithSets
    <2>2. QED BY <1>2, <2>1 DEF Apart
  <1>4. Dead' = Dead
    BY <1>1, <1>2, <1>3 DEF Dead, Apart
  <1>5. Apart(FinalIn(status), InFlight')
    BY <1>1, <1>2 DEF Honest, Apart
  <1>6. QED BY <1>1, <1>3, <1>4, <1>5, HonestSame

LEMMA HonestFrees ==
    ASSUME Base, Honest, AllOut => AllOut',
           NEW V \in SUBSET (InFlight \ Answering),
           status' = With(status, V, "Available"), InFlight' = InFlight \ V,
           Answering' = Answering, UNCHANGED <<applied, gaveUp>>
    PROVE  Honest'
  <1>1. /\ FinalIn(status') = FinalIn(status) \ V
        /\ FailedIn(status') = FailedIn(status) \ V
    BY Flight, WithSets
  <1>2. FinalIn(status') = FinalIn(status)
    BY <1>1 DEF Honest, Apart
  <1>3. Dead' = Dead
    BY <1>1 DEF Dead
  <1>4. Apart(FinalIn(status), InFlight')
    BY DEF Honest, Apart
  <1>5. QED BY <1>1, <1>2, <1>3, <1>4, HonestSame

LEMMA HonestApplies ==
    ASSUME Base, Honest, Applies, ~AllOut
    PROVE  Honest'
  <1>1. PICK S \in SUBSET (InFlight \ Answering) :
          /\ Apart(S, Gone)
          /\ \A e \in S : Requires(e) \subseteq applied \cup S
          /\ applied' = applied \cup S
          /\ Answering' = Answering \cup S
    BY DEF Applies
  <1>2. InFlight' = InFlight /\ UNCHANGED <<status, gaveUp>>
    BY DEF Applies
  <1>3. Answering' \subseteq applied' /\ Apart(FinalIn(status'), InFlight')
    BY <1>1, <1>2 DEF Honest
  <1>4. ASSUME ~gaveUp PROVE Reported' /\ Spared'
    <2>1. Reported /\ Spared
      BY <1>4 DEF Honest
    <2>2. Dead' = Dead
      BY <1>2 DEF Dead
    <2>3. Spared'
      BY <1>2, <2>1, <2>2 DEF Spared
    <2>4. S \subseteq Element
      BY Flight
    <2>5. applied' \in SelfSufficient
      <3>1. applied \subseteq Element /\ \A e \in applied : Requires(e) \subseteq applied
        BY <2>1 DEF Reported, SelfSufficient
      <3>2. QED BY <1>1, <2>4, <3>1 DEF SelfSufficient
    <2>6. Apart(applied', Dead)
      BY <1>1, <2>1 DEF Reported, Dead, Apart
    <2>7. Apart(FailedIn(status), applied')
      BY <2>1, <2>5, <2>6 DEF Spared, Apart
    <2>8. QED BY <1>1, <1>2, <2>1, <2>2, <2>3, <2>5, <2>6, <2>7 DEF Reported
  <1>5. QED BY <1>2, <1>3, <1>4 DEF Honest

LEMMA HonestFinalizes ==
    ASSUME Base, Honest, Finalizes, ~AllOut
    PROVE  Honest'
  <1>1. PICK S \in SUBSET InFlight :
          /\ \/ S \subseteq Answering /\ Answering' = Answering \ S
             \/ Answering' = Answering /\ \E e \in Gone \ Answering : S = {e}
          /\ status' = With(status, S, "Finalized")
          /\ InFlight' = InFlight \ S
    BY DEF Finalizes
  <1>2. UNCHANGED <<applied, gaveUp>>
    BY DEF Finalizes
  <1>3. /\ FailedIn(status') = FailedIn(status) \ S
        /\ FinalIn(status') = FinalIn(status) \cup S
    BY <1>1, Flight, WithSets
  <1>4. Answering' \subseteq applied' /\ Apart(FinalIn(status'), InFlight')
    BY <1>1, <1>2, <1>3 DEF Honest, Apart
  <1>5. ASSUME ~gaveUp PROVE Reported' /\ Spared'
    <2>1. Reported /\ Spared
      BY <1>5 DEF Honest
    <2>2. Dead' = Dead
      BY <1>1, <1>3 DEF Dead
    <2>3. Spared'
      BY <1>3, <2>1, <2>2 DEF Spared, Apart
    <2>4. applied' \subseteq FinalIn(status') \cup Answering'
      BY <1>1, <1>2, <1>3, <2>1 DEF Reported
    <2>5. FinalIn(status') \subseteq applied' \cup Gone
      BY <1>1, <1>2, <1>3, <2>1 DEF Reported, Honest
    <2>6. Apart(FailedIn(status'), applied')
      BY <1>2, <1>3, <2>1 DEF Reported, Apart
    <2>7. QED BY <1>2, <2>1, <2>2, <2>3, <2>4, <2>5, <2>6 DEF Reported
  <1>6. QED BY <1>2, <1>4, <1>5 DEF Honest

LEMMA HonestAbandons ==
    ASSUME Base, Honest, Abandons, AllOut => AllOut'
    PROVE  Honest'
  <1> DEFINE remaining == {e \in Element : status[e] \notin Settled}
  <1>1. /\ status' = With(status, remaining, "Failed")
        /\ InFlight' = InFlight /\ Answering' = Answering /\ applied' = applied
        /\ gaveUp' \/ (AllOut /\ gaveUp' = gaveUp)
    BY DEF Abandons, FailRemaining
  <1>2. /\ FailedIn(status') = FailedIn(status) \cup remaining
        /\ FinalIn(status') = FinalIn(status) \ remaining
    BY <1>1, Flight, WithSets
  <1>3. Apart(remaining, FinalIn(status))
    BY DEF FinalIn, Settled, Apart
  <1> HIDE DEF remaining
  <1>4. FinalIn(status') = FinalIn(status)
    BY <1>2, <1>3 DEF Apart
  <1>5. ASSUME ~gaveUp' PROVE Reported' /\ AllOut'
    <2>1. Reported /\ AllOut
      BY <1>1, <1>5 DEF Honest
    <2>2. Answering = {}
      BY <2>1 DEF Answering, AllOut, Out
    <2>3. Apart(FailedIn(status'), applied)
      BY <1>2, <1>3, <2>1, <2>2 DEF Reported, Apart
    <2>4. Apart(applied, Dead')
      <3>1. Dead' \subseteq FailedIn(status') \cup Gone
        BY DEF Dead
      <3>2. Apart(applied, Gone)
        BY <2>1 DEF Reported, Dead, Apart
      <3>3. QED BY <2>3, <3>1, <3>2 DEF Apart
    <2>5. QED BY <1>1, <1>4, <2>1, <2>3, <2>4 DEF Reported
  <1>6. QED BY <1>1, <1>4, <1>5 DEF Honest

LEMMA HonestStep ==
    ASSUME PlainUpload, Base, Honest, [Next]_vars
    PROVE  Honest'
  <1>1. AllOut => AllOut'
    BY BaseStep
  <1>2. CASE ~AllOut /\ Fails
    <2>1. PICK F \in SUBSET (InFlight \ Answering) :
            /\ status' = With(status, FailureOf(status, F), "Failed")
            /\ InFlight' = InFlight \ F
      BY <1>2 DEF Fails
    <2>2. Answering' = Answering /\ UNCHANGED <<applied, gaveUp>>
      BY <1>2 DEF Fails
    <2>3. QED BY <1>2, <2>1, <2>2, HonestFailure
  <1>3. CASE ~AllOut /\ Divides
    <2>1. Answering' = Answering /\ UNCHANGED <<applied, gaveUp>>
      BY <1>3 DEF Divides
    <2>2. CASE \E V \in SUBSET (InFlight \ Answering) :
                 status' = With(status, V, "Available") /\ InFlight' = InFlight \ V
      BY <1>1, <2>1, <2>2, HonestFrees
    <2>3. CASE \E F \in SUBSET (InFlight \ Answering) :
                 /\ status' = With(status, FailureOf(status, F), "Failed")
                 /\ InFlight \ F \subseteq InFlight' /\ InFlight' \subseteq InFlight
                 /\ InFlight' \cap F \subseteq Gone
      BY <1>3, <2>1, <2>3, HonestFailure
    <2>4. QED BY <1>3, <2>2, <2>3, DividesOne
  <1>4. QED
    BY <1>1, <1>2, <1>3, Shapes, HonestShuffles, HonestSends, HonestApplies, HonestFinalizes,
       HonestAbandons DEF ElementStep

LEMMA HonestInit == Init => Honest
  <1> SUFFICES ASSUME Init PROVE Honest
    OBVIOUS
  <1>1. FinalIn(status) = {} /\ FailedIn(status) = {} /\ applied = {}
    BY DEF Init, FinalIn, FailedIn
  <1>2. Answering = {}
    BY DEF Init, Answering
  <1>3. Reported /\ Spared
    BY <1>1, <1>2 DEF Reported, Spared, SelfSufficient, Apart
  <1>4. QED BY <1>1, <1>2, <1>3 DEF Honest, Apart

\* In a plain upload a report is true whatever the API answers and however failures
\* spread from one thread's changeset to another's: what is reported as failed has
\* not been applied, and what is final has, or was gone before.
THEOREM ReportsAreTrue ==
    ASSUME PlainUpload
    PROVE  Spec => []ReportIsTrue
  <1>1. Init => Base /\ Honest
    BY BaseInit, HonestInit
  <1>2. Base /\ Honest /\ [Next]_vars => Base' /\ Honest'
    BY BaseStep, HonestStep
  <1>3. Base /\ Honest => ReportIsTrue
    BY DEF Honest, Reported, ReportIsTrue, FinalIn, FailedIn, Apart
  <1>4. QED BY <1>1, <1>2, <1>3, PTL DEF Spec

-----------------------------------------------------------------------------
(* A changeset that is done is settled.                                    *)
(*                                                                         *)
(* Final elements stay final in a plain upload.  Failed ones need not stay *)
(* failed: a half split may make one Available again that another thread   *)
(* has failed.  Where they do, the counts never run ahead of the elements, *)
(* although the failed count is read in one step and written in another.   *)

LEMMA GivenUp ==
    ASSUME PlainUpload, Base, [Next]_vars
    PROVE  gaveUp => gaveUp'
  BY Shapes DEF ElementStep, Shuffles, Sends, Applies, Finalizes, Fails, Divides, Abandons

\* What is final stays final, and what fails was not final.
LEMMA FinalStays ==
    ASSUME PlainUpload, Base, Honest, [Next]_vars, ~gaveUp
    PROVE  FinalIn(status) \subseteq FinalIn(status')
  <1>1. Reported /\ Apart(FinalIn(status), InFlight)
    BY DEF Honest
  <1>2. CASE Shuffles \/ Applies
    BY <1>2 DEF Shuffles, Applies
  <1>3. CASE Sends
    <2>1. PICK S \in SUBSET AvailableIn(status) : status' = With(status, S, "Sent")
      BY <1>3 DEF Sends
    <2>2. FinalIn(status') = FinalIn(status) \ S
      BY <2>1, Flight, WithSets DEF AvailableIn
    <2>3. QED BY <2>1, <2>2, Flight, Partition DEF Apart
  <1>4. CASE Abandons
    <2> DEFINE remaining == {e \in Element : status[e] \notin Settled}
    <2>1. FinalIn(status') = FinalIn(status) \ remaining
      BY <1>4, Flight, WithSets DEF Abandons, FailRemaining
    <2>2. QED BY <2>1 DEF FinalIn, Settled
  <1>5. CASE Finalizes
    <2>1. PICK S \in SUBSET InFlight : status' = With(status, S, "Finalized")
      BY <1>5 DEF Finalizes
    <2>2. QED BY <2>1, Flight, WithSets
  <1>6. ASSUME NEW F \in SUBSET (InFlight \ Answering),
               status' = With(status, FailureOf(status, F), "Failed")
        PROVE  FinalIn(status) \subseteq FinalIn(status')
    <2>1. FinalIn(status') = FinalIn(status) \ FailureOf(status, F)
      BY <1>6, Flight, Failed, WithSets
    <2>2. QED BY <1>1, <2>1, FailureSpares DEF Apart
  <1>7. CASE Fails
    BY <1>6, <1>7 DEF Fails
  <1>8. CASE Divides
    <2>1. ASSUME NEW V \in SUBSET (InFlight \ Answering), status' = With(status, V, "Available")
          PROVE  FinalIn(status) \subseteq FinalIn(status')
      <3>1. FinalIn(status') = FinalIn(status) \ V
        BY <2>1, Flight, WithSets
      <3>2. QED BY <1>1, <3>1 DEF Apart
    <2>2. QED BY <1>6, <1>8, <2>1, DividesOne
  <1>9. QED BY <1>2, <1>3, <1>4, <1>5, <1>7, <1>8, Shapes DEF ElementStep

CountsHold ==
    /\ processedCount <= Cardinality(FinalIn(status))
    /\ failedCount <= Cardinality(FailedIn(status))
    /\ \A w \in Worker : counted[w] <= Cardinality(FailedIn(status))

Counted == gaveUp \/ CountsHold

\* Sets that only grow, and by how much.
LEMMA Grown ==
    ASSUME NEW A \in SUBSET Element, NEW B \in SUBSET Element
    PROVE  /\ A \subseteq B => Cardinality(A) <= Cardinality(B)
           /\ Apart(A, B) => Cardinality(A \cup B) = Cardinality(A) + Cardinality(B)
           /\ Cardinality(A) \in Nat /\ Cardinality(B) \in Nat
  <1>1. IsFiniteSet(A) /\ IsFiniteSet(B) /\ Cardinality(A) \in Nat /\ Cardinality(B) \in Nat
    BY CountElements
  <1>2. A \subseteq B => Cardinality(A) <= Cardinality(B)
    BY <1>1, FS_Subset
  <1>3. ASSUME Apart(A, B) PROVE Cardinality(A \cup B) = Cardinality(A) + Cardinality(B)
    <2>1. Cardinality(A \cup B) = Cardinality(A) + Cardinality(B) - Cardinality(A \cap B)
      BY <1>1, FS_Union
    <2>2. Cardinality(A \cap B) = 0
      BY <1>3, FS_EmptySet DEF Apart
    <2>3. QED BY <1>1, <2>1, <2>2
  <1>4. QED BY <1>1, <1>2, <1>3

\* What a step adds to the counts it adds to the elements.
LEMMA CountStep ==
    ASSUME PlainUpload, Base, Honest, CountsHold, [Next]_vars, ~gaveUp, ~gaveUp',
           FailedIn(status) \subseteq FailedIn(status')
    PROVE  /\ processedCount' <= Cardinality(FinalIn(status'))
           /\ failedCount' <= Cardinality(FailedIn(status'))
  <1> DEFINE fin == FinalIn(status)
             fin1 == FinalIn(status')
             bad == FailedIn(status)
             bad1 == FailedIn(status')
  <1>1. /\ fin \in SUBSET Element /\ fin1 \in SUBSET Element
        /\ bad \in SUBSET Element /\ bad1 \in SUBSET Element
    BY DEF FinalIn, FailedIn
  <1>2. fin \subseteq fin1 /\ bad \subseteq bad1
    BY FinalStays
  <1>3. /\ Cardinality(fin) <= Cardinality(fin1) /\ Cardinality(bad) <= Cardinality(bad1)
        /\ Cardinality(fin) \in Nat /\ Cardinality(fin1) \in Nat
        /\ Cardinality(bad) \in Nat /\ Cardinality(bad1) \in Nat
    BY <1>1, <1>2, Grown
  <1>4. /\ processedCount <= Cardinality(fin) /\ failedCount <= Cardinality(bad)
        /\ \A w \in Worker : counted[w] <= Cardinality(bad) /\ counted[w] \in Nat
        /\ processedCount \in Nat /\ failedCount \in Nat
    BY DEF CountsHold, Base, IInv, TypeOK
  <1>5. CASE Shuffles \/ Sends \/ Applies
    <2>1. processedCount' = processedCount /\ failedCount' = failedCount
      BY <1>5 DEF Shuffles, Sends, Applies
    <2> HIDE DEF fin, fin1, bad, bad1
    <2>2. QED BY <1>3, <1>4, <2>1 DEF fin1, bad1
  <1>6. CASE Finalizes
    <2>1. PICK S \in SUBSET InFlight :
            /\ status' = With(status, S, "Finalized")
            /\ processedCount' = processedCount + Cardinality(S)
      BY <1>6 DEF Finalizes
    <2>2. failedCount' = failedCount
      BY <1>6 DEF Finalizes
    <2>3. fin1 = fin \cup S /\ S \in SUBSET Element /\ Apart(fin, S)
      BY <2>1, Flight, WithSets DEF Honest, Apart
    <2> HIDE DEF fin, fin1, bad, bad1
    <2>4. Cardinality(fin1) = Cardinality(fin) + Cardinality(S) /\ Cardinality(S) \in Nat
      BY <1>1, <2>3, Grown
    <2>5. QED BY <1>3, <1>4, <2>1, <2>2, <2>4 DEF fin1, bad1
  <1>7. ASSUME NEW F \in SUBSET (InFlight \ Answering), NEW n \in Nat, n <= Cardinality(bad),
               status' = With(status, FailureOf(status, F), "Failed"),
               failedCount' = n + Cardinality(FailureOf(status, F)),
               processedCount' = processedCount
        PROVE  processedCount' <= Cardinality(fin1) /\ failedCount' <= Cardinality(bad1)
    <2> DEFINE failing == FailureOf(status, F)
    <2>1. failing \in SUBSET Element /\ Apart(bad, failing)
      BY Flight, Failed DEF Apart
    <2>2. bad1 = bad \cup failing
      BY <1>7, <2>1, Flight, WithSets
    <2> HIDE DEF fin, fin1, bad, bad1, failing
    <2>3. Cardinality(bad1) = Cardinality(bad) + Cardinality(failing) /\ Cardinality(failing) \in Nat
      BY <1>1, <2>1, <2>2, Grown
    <2>4. failedCount' = n + Cardinality(failing)
      BY <1>7 DEF failing
    <2>5. QED BY <1>3, <1>4, <1>7, <2>3, <2>4
  <1>8. CASE Fails
    <2>1. PICK w \in Worker, F \in SUBSET (InFlight \ Answering) :
            /\ status' = With(status, FailureOf(status, F), "Failed")
            /\ failedCount' = counted[w] + Cardinality(FailureOf(status, F))
      BY <1>8 DEF Fails
    <2>2. processedCount' = processedCount
      BY <1>8 DEF Fails
    <2>3. counted[w] \in Nat /\ counted[w] <= Cardinality(bad)
      BY <1>4
    <2>4. QED BY <1>7, <2>1, <2>2, <2>3
  <1>9. CASE Divides
    <2>1. processedCount' = processedCount
      BY <1>9 DEF Divides
    <2>2. \/ failedCount' = failedCount
          \/ \E F \in SUBSET (InFlight \ Answering) :
               /\ status' = With(status, FailureOf(status, F), "Failed")
               /\ failedCount' = failedCount + Cardinality(FailureOf(status, F))
      BY <1>9, DividesOne
    <2>3. CASE failedCount' = failedCount
      <3> HIDE DEF fin, fin1, bad, bad1
      <3>1. QED BY <1>3, <1>4, <2>1, <2>3 DEF fin1, bad1
    <2>4. QED BY <1>4, <1>7, <2>1, <2>2, <2>3
  <1>10. CASE Abandons
    <2> DEFINE remaining == {e \in Element : status[e] \notin Settled}
    <2>1. /\ status' = With(status, remaining, "Failed")
          /\ failedCount' = failedCount + Cardinality(remaining)
          /\ processedCount' = processedCount
      BY <1>10 DEF Abandons, FailRemaining
    <2>2. bad1 = bad \cup remaining
      BY <2>1, Flight, WithSets
    <2>3. Apart(bad, remaining) /\ remaining \in SUBSET Element
      BY DEF FailedIn, Settled, Apart
    <2> HIDE DEF fin, fin1, bad, bad1, remaining
    <2>4. /\ Cardinality(bad1) = Cardinality(bad) + Cardinality(remaining)
          /\ Cardinality(remaining) \in Nat
      BY <1>1, <2>2, <2>3, Grown
    <2>5. QED BY <1>3, <1>4, <2>1, <2>4 DEF fin1, bad1
  <1>11. QED BY <1>5, <1>6, <1>8, <1>9, <1>10, Shapes DEF ElementStep

LEMMA CountedStep ==
    ASSUME PlainUpload, Base, Honest, Counted, [Next]_vars,
           ~gaveUp => FailedIn(status) \subseteq FailedIn(status')
    PROVE  Counted'
  <1> SUFFICES ASSUME ~gaveUp' PROVE CountsHold'
    BY DEF Counted
  <1>1. ~gaveUp /\ CountsHold
    BY GivenUp DEF Counted
  <1>2. /\ processedCount' <= Cardinality(FinalIn(status'))
        /\ failedCount' <= Cardinality(FailedIn(status'))
    BY <1>1, CountStep
  <1>3. ASSUME NEW w \in Worker PROVE counted'[w] <= Cardinality(FailedIn(status'))
    <2>1. counted'[w] \in {0, counted[w], failedCount}
      BY Shapes DEF ElementStep
    <2>2. /\ Cardinality(FailedIn(status)) <= Cardinality(FailedIn(status'))
          /\ Cardinality(FailedIn(status)) \in Nat /\ Cardinality(FailedIn(status')) \in Nat
      BY <1>1, Grown DEF FailedIn
    <2>3. /\ counted[w] <= Cardinality(FailedIn(status)) /\ counted[w] \in Nat
          /\ failedCount <= Cardinality(FailedIn(status)) /\ failedCount \in Nat
      BY <1>1 DEF CountsHold, Base, IInv, TypeOK
    <2>4. CASE counted'[w] = 0
      BY <2>2, <2>4
    <2>5. CASE counted'[w] = counted[w]
      BY <2>2, <2>3, <2>5
    <2>6. CASE counted'[w] = failedCount
      BY <2>2, <2>3, <2>6
    <2>7. QED BY <2>1, <2>4, <2>5, <2>6
  <1>4. QED BY <1>2, <1>3 DEF CountsHold

LEMMA CountedInit == Init => Counted
  <1> SUFFICES ASSUME Init PROVE CountsHold
    BY DEF Counted
  <1>1. Cardinality(FinalIn(status)) \in Nat /\ Cardinality(FailedIn(status)) \in Nat
    BY CountElements DEF FinalIn, FailedIn
  <1>2. processedCount = 0 /\ failedCount = 0 /\ \A w \in Worker : counted[w] = 0
    BY DEF Init
  <1>3. QED BY <1>1, <1>2 DEF CountsHold

LEMMA CountedSettles ==
    ASSUME Base, Counted
    PROVE  DoneMeansSettled
  <1> SUFFICES ASSUME ~gaveUp, IsDone PROVE \A e \in Element : status[e] \in Settled
    BY DEF DoneMeansSettled
  <1> DEFINE fin == FinalIn(status)
             bad == FailedIn(status)
  <1>1. fin \in SUBSET Element /\ bad \in SUBSET Element /\ Apart(fin, bad)
    BY DEF FinalIn, FailedIn, Apart
  <1>2. processedCount <= Cardinality(fin) /\ failedCount <= Cardinality(bad)
    BY DEF Counted, CountsHold
  <1>3. processedCount \in Nat /\ failedCount \in Nat
    BY DEF Base, IInv, TypeOK
  <1> HIDE DEF fin, bad
  <1>4. /\ Cardinality(fin \cup bad) = Cardinality(fin) + Cardinality(bad)
        /\ Cardinality(fin) \in Nat /\ Cardinality(bad) \in Nat
    BY <1>1, Grown
  <1>5. /\ IsFiniteSet(Element) /\ Total = Cardinality(Element) /\ Total \in Nat
        /\ Cardinality(fin \cup bad) <= Cardinality(Element)
        /\ Cardinality(Element) = Cardinality(fin \cup bad) => Element = fin \cup bad
    BY <1>1, CountElements, ElementAssumption, FS_Subset DEF Total
  <1>6. Total <= processedCount + failedCount
    BY DEF IsDone
  <1>7. Cardinality(Element) = Cardinality(fin \cup bad)
    BY <1>2, <1>3, <1>4, <1>5, <1>6
  <1>8. QED BY <1>5, <1>7 DEF fin, bad, FinalIn, FailedIn, Settled

\* In a plain upload in which what has failed stays failed, isDone is what its comment
\* says, although two threads may count failures on top of the same count: the counts
\* fall behind the elements and never run ahead of them.
THEOREM DoneIsSettled ==
    ASSUME PlainUpload
    PROVE  Spec /\ FailuresStandAtFirst => []DoneMeansSettled
  <1>1. Init => Base /\ Honest /\ Counted
    BY BaseInit, HonestInit, CountedInit
  <1>2. Base /\ Honest /\ Counted /\ [Next]_vars
          /\ [~gaveUp => FailedIn(status) \subseteq FailedIn(status')]_vars
          => Base' /\ Honest' /\ Counted'
    <2> SUFFICES ASSUME Base, Honest, Counted, [Next]_vars,
                        [~gaveUp => FailedIn(status) \subseteq FailedIn(status')]_vars
                 PROVE  Base' /\ Honest' /\ Counted'
      OBVIOUS
    <2>1. ~gaveUp => FailedIn(status) \subseteq FailedIn(status')
      BY DEF vars, changesetVars, FailedIn
    <2>2. QED BY <2>1, BaseStep, HonestStep, CountedStep
  <1>3. Base /\ Honest /\ Counted => DoneMeansSettled
    BY CountedSettles
  <1>4. QED BY <1>1, <1>2, <1>3, PTL DEF Spec, FailuresStandAtFirst

-----------------------------------------------------------------------------
(* What is settled is settled for good, and the upload keeps its contract. *)

\* In a plain upload in which what has failed stays failed, nothing that was reported
\* of an element is taken back until apply() gives up: neither a retry nor a split
\* nor a failure that spreads touches what is final.
THEOREM SettledStays ==
    ASSUME PlainUpload
    PROVE  Spec /\ FailuresStandAtFirst => SettledForGood
  <1>1. Init => Base /\ Honest
    BY BaseInit, HonestInit
  <1>2. Base /\ Honest /\ [Next]_vars => Base' /\ Honest'
    BY BaseStep, HonestStep
  <1>3. Base /\ Honest /\ [Next]_vars
          /\ [~gaveUp => FailedIn(status) \subseteq FailedIn(status')]_vars
          => [~gaveUp => \A e \in Element : status[e] \in Settled => status'[e] = status[e]]_vars
    <2> SUFFICES ASSUME Base, Honest, [Next]_vars, ~gaveUp,
                        [~gaveUp => FailedIn(status) \subseteq FailedIn(status')]_vars,
                        NEW e \in Element, status[e] \in Settled
                 PROVE  status'[e] = status[e]
      OBVIOUS
    <2>1. FailedIn(status) \subseteq FailedIn(status')
      BY DEF vars, changesetVars, FailedIn
    <2>2. FinalIn(status) \subseteq FinalIn(status')
      BY FinalStays
    <2>3. QED BY <2>1, <2>2 DEF Settled, FailedIn, FinalIn
  <1>4. QED BY <1>1, <1>2, <1>3, PTL DEF Spec, FailuresStandAtFirst, SettledForGood

\* What the contract is told of the elements of S when they take a status.
LEMMA Reports ==
    ASSUME NEW st \in Statuses, NEW S \in SUBSET Element, NEW s \in ElementStatus
    PROVE  \A e \in Element :
             ReportOf(With(st, S, s)[e]) = IF e \in S THEN ReportOf(s) ELSE ReportOf(st[e])
  BY DEF With

LEMMA ReportCases ==
    ASSUME NEW s \in ElementStatus
    PROVE  /\ ReportOf(s) \in {"waiting", "sent"} <=> s \notin Settled
           /\ ReportOf(s) = "sent" <=> s \in {"Buffering", "Sent"}
           /\ ReportOf(s) = "failed" <=> s = "Failed"
           /\ ReportOf(s) = "final" <=> s = "Finalized"
  BY DEF ElementStatus, Settled, ReportOf

\* A step that changes the status of open elements of which none is applied.
LEMMA Rearranges ==
    ASSUME Base, NEW S \in SUBSET Element, NEW s \in ElementStatus, s # "Finalized",
           status' = With(status, S, s), Apart(S, applied \cup FinalIn(status)),
           s = "Failed" \/ Apart(S, FailedIn(status)),
           Answering' = Answering, UNCHANGED <<applied, gaveUp>>
    PROVE  Contract!Arrange
  <1>1. status \in Statuses
    BY Flight
  <1>2. ASSUME NEW e \in Element, ReportOf(status'[e]) # ReportOf(status[e])
        PROVE  /\ ReportOf(status[e]) \in {"waiting", "sent"} /\ e \notin applied
               /\ ReportOf(status'[e]) \in {"waiting", "sent", "failed"}
    <2>1. e \in S /\ status'[e] = s
      BY <1>2 DEF With
    <2>2. status[e] \in ElementStatus /\ status[e] # "Finalized" /\ e \notin applied
      BY <1>1, <2>1 DEF Apart, FinalIn, Statuses
    <2>3. status[e] # "Failed"
      BY <1>2, <2>1 DEF Apart, FailedIn
    <2>4. ReportOf(status[e]) \in {"waiting", "sent"}
      BY <2>2, <2>3, ReportCases DEF Settled
    <2>5. ReportOf(s) \in {"waiting", "sent", "failed"}
      BY ReportCases DEF Settled
    <2>6. QED BY <2>1, <2>2, <2>4, <2>5
  <1>3. QED BY <1>2 DEF Contract!Arrange, Contract!Open

\* A step that leaves what the contract speaks of alone.
LEMMA ContractStutters ==
    ASSUME Answering' = Answering, UNCHANGED <<status, applied, gaveUp>>
    PROVE  UNCHANGED Contract!vars
  BY DEF Contract!vars

LEMMA ContractArranges ==
    ASSUME PlainUpload, Base, Honest, ~gaveUp, FailedIn(status) \subseteq FailedIn(status'),
           Sends \/ Fails \/ Divides
    PROVE  Contract!Arrange
  <1>1. Reported /\ Apart(FinalIn(status), InFlight)
    BY DEF Honest
  <1>2. CASE Sends
    <2>1. PICK S \in SUBSET AvailableIn(status) :
            /\ status' = With(status, S, "Sent")
            /\ Answering' = Answering /\ UNCHANGED <<applied, gaveUp>>
      BY <1>2 DEF Sends
    <2>2. Apart(AvailableIn(status), applied)
      BY <1>1, Flight, Partition DEF Reported, Apart
    <2>3. S \subseteq Element /\ Apart(S, applied \cup FinalIn(status)) /\ Apart(S, FailedIn(status))
      BY <2>2, Flight, Partition DEF Apart, AvailableIn
    <2>4. QED BY <2>1, <2>3, Rearranges DEF ElementStatus
  <1>3. ASSUME NEW F \in SUBSET (InFlight \ Answering),
               status' = With(status, FailureOf(status, F), "Failed"),
               Answering' = Answering, UNCHANGED <<applied, gaveUp>>
        PROVE  Contract!Arrange
    <2>1. FailureOf(status, F) \subseteq Element
      BY Flight, Failed
    <2>2. Apart(FailureOf(status, F), applied \cup FinalIn(status))
      BY <1>1, FailureSpares DEF Apart
    <2>3. QED BY <1>3, <2>1, <2>2, Rearranges DEF ElementStatus
  <1>4. CASE Fails
    BY <1>3, <1>4 DEF Fails
  <1>5. CASE Divides
    <2>1. Answering' = Answering /\ UNCHANGED <<applied, gaveUp>>
      BY <1>5 DEF Divides
    <2>2. ASSUME NEW V \in SUBSET (InFlight \ Answering), status' = With(status, V, "Available")
          PROVE  Contract!Arrange
      <3>1. V \subseteq Element /\ FailedIn(status') = FailedIn(status) \ V
        BY <2>2, Flight, WithSets
      <3>2. Apart(V, applied \cup FinalIn(status)) /\ Apart(V, FailedIn(status))
        BY <1>1, <3>1 DEF Reported, Apart
      <3>3. QED BY <2>1, <2>2, <3>1, <3>2, Rearranges DEF ElementStatus
    <2>3. QED BY <1>3, <1>5, <2>1, <2>2, DividesOne
  <1>6. QED BY <1>2, <1>4, <1>5

LEMMA ContractApplies ==
    ASSUME PlainUpload, Base, Honest, ~gaveUp, Reported', Applies
    PROVE  Contract!Apply
  <1>1. PICK S \in SUBSET (InFlight \ Answering) :
          /\ S # {} /\ applied' = applied \cup S /\ Answering' = Answering \cup S
    BY DEF Applies
  <1>2. UNCHANGED <<status, gaveUp>>
    BY DEF Applies
  <1>3. S \in (SUBSET Element) \ {{}}
    BY <1>1, Flight
  <1>4. Apart(S, applied) /\ Apart(S, FinalIn(status))
    BY DEF Honest, Reported, Apart
  <1>5. Apart(S, FailedIn(status))
    BY <1>1, <1>2 DEF Reported, Apart
  <1>6. \A e \in S : ReportOf(status[e]) = "sent"
    <2> SUFFICES ASSUME NEW e \in S PROVE ReportOf(status[e]) = "sent"
      OBVIOUS
    <2>1. e \in Element /\ e \in Pending(status)
      BY <1>3, <1>4, <1>5, Flight, Partition DEF Apart
    <2>2. QED BY <2>1, ReportCases DEF Pending, ElementStatus
  <1>7. QED BY <1>1, <1>2, <1>3, <1>4, <1>6 DEF Contract!Apply, Apart

LEMMA ContractFinalizes ==
    ASSUME PlainUpload, Base, Honest, ~gaveUp, FailedIn(status) \subseteq FailedIn(status'),
           Finalizes
    PROVE  Contract!Acknowledge \/ Contract!Skip
  <1>1. PICK S \in SUBSET InFlight :
          /\ \/ S \subseteq Answering /\ Answering' = Answering \ S
             \/ Answering' = Answering /\ \E e \in Gone \ Answering : S = {e}
          /\ status' = With(status, S, "Finalized")
    BY DEF Finalizes
  <1>2. UNCHANGED <<applied, gaveUp>>
    BY DEF Finalizes
  <1>3. S \subseteq Element /\ status \in Statuses
    BY Flight
  <1>4. Apart(S, FailedIn(status))
    BY <1>1, <1>3, WithSets DEF Apart
  <1>5. \A e \in S : ReportOf(status[e]) = "sent"
    <2> SUFFICES ASSUME NEW e \in S PROVE ReportOf(status[e]) = "sent"
      OBVIOUS
    <2>1. e \in Element /\ e \in Pending(status)
      BY <1>3, <1>4, Flight, Partition DEF Apart, Honest
    <2>2. QED BY <2>1, ReportCases DEF Pending, ElementStatus
  <1>6. ReportOf("Finalized") = "final"
    BY ReportCases DEF ElementStatus
  <1>7. [e \in Element |-> ReportOf(status'[e])]
          = [e \in Element |-> IF e \in S THEN "final" ELSE ReportOf(status[e])]
    <2>1. \A e \in Element :
            ReportOf(With(status, S, "Finalized")[e])
              = IF e \in S THEN "final" ELSE ReportOf(status[e])
      BY <1>3, <1>6, Reports DEF ElementStatus
    <2>2. QED BY <1>1, <2>1
  <1>8. CASE S \subseteq Answering /\ Answering' = Answering \ S
    <2> DEFINE report == [e \in Element |-> ReportOf(status[e])]
    <2>1. \A e \in S : report[e] = "sent"
      BY <1>3, <1>5
    <2>2. report' = [e \in Element |-> IF e \in S THEN "final" ELSE report[e]]
      BY <1>7
    <2>3. S \in SUBSET Answering
      BY <1>8
    <2>4. QED BY <1>2, <1>8, <2>1, <2>2, <2>3 DEF Contract!Acknowledge
  <1>9. CASE Answering' = Answering /\ \E e \in Gone \ Answering : S = {e}
    <2>1. PICK e \in Gone : S = {e}
      BY <1>9
    <2>2. e \in Gone \ applied /\ e \in Element
      BY <1>3, <2>1 DEF Honest, Reported, Dead, Apart
    <2>3. [d \in Element |-> ReportOf(status'[d])]
            = [[d \in Element |-> ReportOf(status[d])] EXCEPT ![e] = "final"]
      BY <1>7, <2>1, <2>2
    <2>4. QED BY <1>2, <1>5, <1>9, <2>1, <2>2, <2>3 DEF Contract!Skip
  <1>10. QED BY <1>1, <1>8, <1>9

LEMMA ContractAbandons ==
    ASSUME PlainUpload, Base, Honest, Honest', ~gaveUp, Abandons
    PROVE  Contract!Arrange \/ Contract!GiveUp
  <1> DEFINE remaining == {e \in Element : status[e] \notin Settled}
  <1>1. /\ status' = With(status, remaining, "Failed")
        /\ Answering' = Answering /\ UNCHANGED applied /\ gaveUp' \in BOOLEAN
    BY DEF Abandons, FailRemaining, Base, IInv, TypeOK
  <1>2. status \in Statuses /\ remaining \in SUBSET Element
    BY Flight
  <1>3. \A e \in Element : e \in remaining <=> ReportOf(status[e]) \in {"waiting", "sent"}
    BY <1>2, ReportCases DEF Statuses
  <1>4. ReportOf("Failed") = "failed"
    BY ReportCases DEF ElementStatus
  <1>5. Apart(remaining, FinalIn(status))
    BY DEF FinalIn, Settled, Apart
  <1>6. FailedIn(status') = FailedIn(status) \cup remaining
    BY <1>1, <1>2, WithSets
  <1> HIDE DEF remaining
  <1>7. CASE ~gaveUp'
    <2>1. Apart(remaining, applied)
      BY <1>1, <1>6, <1>7 DEF Honest, Reported, Apart
    <2>2. UNCHANGED gaveUp
      BY <1>7, <1>1 DEF Abandons
    <2>3. QED BY <1>1, <1>2, <1>5, <2>1, <2>2, Rearranges DEF ElementStatus, Apart
  <1>8. CASE gaveUp'
    <2>1. [e \in Element |-> ReportOf(status'[e])]
            = [e \in Element |-> IF ReportOf(status[e]) \in {"waiting", "sent"} THEN "failed"
                                 ELSE ReportOf(status[e])]
      BY <1>1, <1>2, <1>3, <1>4, Reports DEF ElementStatus
    <2>2. gaveUp' = TRUE
      BY <1>1, <1>8
    <2>3. QED BY <1>1, <2>1, <2>2 DEF Contract!GiveUp, Contract!Open
  <1>9. QED BY <1>7, <1>8

LEMMA ContractStep ==
    ASSUME PlainUpload, Base, Honest, [Next]_vars,
           ~gaveUp => FailedIn(status) \subseteq FailedIn(status')
    PROVE  [Contract!Next]_(Contract!vars)
  <1>1. CASE gaveUp
    BY <1>1, GivenUp DEF Contract!Next, Contract!Abandoned
  <1>2. CASE ~gaveUp
    <2>1. Honest' /\ ElementStep
      BY HonestStep, Shapes
    <2>2. CASE Shuffles
      BY <2>2, ContractStutters DEF Shuffles
    <2>3. CASE Applies
      <3>1. Reported'
        BY <1>2, <2>1, <2>3 DEF Honest, Applies
      <3>2. QED BY <1>2, <2>3, <3>1, ContractApplies DEF Contract!Next
    <2>4. QED
      BY <1>2, <2>1, <2>2, <2>3, ContractArranges, ContractFinalizes, ContractAbandons
         DEF ElementStep, Contract!Next
  <1>3. QED BY <1>1, <1>2

LEMMA ContractInit == Init => Contract!Init
  <1> SUFFICES ASSUME Init PROVE Contract!Init
    OBVIOUS
  <1>1. Answering = {} /\ applied = {} /\ gaveUp = FALSE
    BY DEF Init, Answering
  <1>2. \A e \in Element : ReportOf(status[e]) = "waiting"
    BY DEF Init, ReportOf
  <1>3. QED BY <1>1, <1>2 DEF Contract!Init

\* A plain upload in which what has failed stays failed does what ChangesetContract
\* promises, whatever the threads, the splits and the retries do: every step of a
\* thread is a step of the contract or none.
THEOREM ContractKept ==
    ASSUME PlainUpload
    PROVE  Spec /\ FailuresStandAtFirst => KeepsContract
  <1>1. Init => Base /\ Honest /\ Contract!Init
    BY BaseInit, HonestInit, ContractInit
  <1>2. Base /\ Honest /\ [Next]_vars => Base' /\ Honest'
    BY BaseStep, HonestStep
  <1>3. Base /\ Honest /\ [Next]_vars
          /\ [~gaveUp => FailedIn(status) \subseteq FailedIn(status')]_vars
          => [Contract!Next]_(Contract!vars)
    <2> SUFFICES ASSUME Base, Honest, [Next]_vars,
                        [~gaveUp => FailedIn(status) \subseteq FailedIn(status')]_vars
                 PROVE  [Contract!Next]_(Contract!vars)
      OBVIOUS
    <2>1. ~gaveUp => FailedIn(status) \subseteq FailedIn(status')
      BY DEF vars, changesetVars, FailedIn
    <2>2. QED BY <2>1, ContractStep
  <1>4. QED BY <1>1, <1>2, <1>3, PTL DEF Spec, FailuresStandAtFirst, KeepsContract, Contract!Spec

-----------------------------------------------------------------------------
(* Where nothing fails with another element.                               *)

\* What has failed is not under way, so no split can make it Available again.
Clear == gaveUp \/ AllOut \/ Apart(FailedIn(status), InFlight)

LEMMA ClearStep ==
    ASSUME PlainUpload, NoSpread, Gone = {}, Base, Clear, [Next]_vars
    PROVE  Clear' /\ (~gaveUp => FailedIn(status) \subseteq FailedIn(status'))
  <1> DEFINE bad == FailedIn(status)
             bad1 == FailedIn(status')
  <1>1. /\ AllOut => AllOut'
        /\ gaveUp => gaveUp'
        /\ ElementStep
    BY BaseStep, GivenUp, Shapes
  <1>2. CASE Shuffles \/ Applies
    <2>1. bad1 = bad /\ InFlight' \subseteq InFlight
      BY <1>2 DEF Shuffles, Applies
    <2>2. QED BY <1>1, <2>1 DEF Clear, Apart
  <1>3. CASE Sends
    <2>1. PICK S \in SUBSET AvailableIn(status) :
            status' = With(status, S, "Sent") /\ InFlight' = InFlight \cup S
      BY <1>3 DEF Sends
    <2>2. S \subseteq Element /\ bad1 = bad \ S
      BY <2>1, Flight, WithSets DEF AvailableIn
    <2>3. Apart(bad, S)
      BY <2>1, Flight, Partition DEF Apart
    <2> HIDE DEF bad, bad1
    <2>4. bad1 = bad /\ (Apart(bad, InFlight) => Apart(bad1, InFlight'))
      BY <2>1, <2>2, <2>3 DEF Apart
    <2>5. QED BY <1>1, <2>4 DEF Clear, bad, bad1
  <1>4. CASE Abandons
    <2> DEFINE remaining == {e \in Element : status[e] \notin Settled}
    <2>1. gaveUp' \/ AllOut'
      BY <1>1, <1>4 DEF Abandons
    <2>2. bad1 = bad \cup remaining
      BY <1>4, Flight, WithSets DEF Abandons, FailRemaining
    <2>3. QED BY <2>1, <2>2 DEF Clear
  <1>5. ASSUME NEW S \in SUBSET InFlight, bad1 = bad \ S, InFlight' = InFlight \ S, ~AllOut
        PROVE  Clear' /\ (~gaveUp => bad \subseteq bad1)
    <2> HIDE DEF bad, bad1
    <2>1. Apart(bad, InFlight) => Apart(bad1, InFlight') /\ bad1 = bad
      BY <1>5 DEF Apart
    <2>2. QED BY <1>1, <1>5, <2>1 DEF Clear, bad, bad1
  <1>6. ASSUME NEW F \in SUBSET (InFlight \ Answering), ~AllOut,
               status' = With(status, FailureOf(status, F), "Failed"),
               InFlight' \subseteq InFlight, InFlight' \cap F \subseteq Gone
        PROVE  Clear' /\ (~gaveUp => bad \subseteq bad1)
    <2>1. FailureOf(status, F) \subseteq F /\ F \subseteq Element
      BY Flight DEF NoSpread
    <2>2. bad1 = bad \cup FailureOf(status, F)
      BY <1>6, <2>1, Flight, WithSets
    <2> HIDE DEF bad, bad1
    <2>3. Apart(bad, InFlight) => Apart(bad1, InFlight')
      BY <1>6, <2>1, <2>2 DEF Apart
    <2>4. QED BY <1>1, <1>6, <2>2, <2>3 DEF Clear, bad, bad1
  <1>7. CASE ~AllOut /\ Finalizes
    <2>1. PICK S \in SUBSET InFlight :
            status' = With(status, S, "Finalized") /\ InFlight' = InFlight \ S
      BY <1>7 DEF Finalizes
    <2>2. bad1 = bad \ S
      BY <2>1, Flight, WithSets
    <2>3. QED BY <1>5, <1>7, <2>1, <2>2
  <1>8. CASE ~AllOut /\ Fails
    <2>1. PICK F \in SUBSET (InFlight \ Answering) :
            status' = With(status, FailureOf(status, F), "Failed") /\ InFlight' = InFlight \ F
      BY <1>8 DEF Fails
    <2>2. QED BY <1>6, <1>8, <2>1
  <1>9. CASE ~AllOut /\ Divides
    <2>1. ASSUME NEW V \in SUBSET (InFlight \ Answering),
                 status' = With(status, V, "Available"), InFlight' = InFlight \ V
          PROVE  Clear' /\ (~gaveUp => bad \subseteq bad1)
      <3>1. bad1 = bad \ V
        BY <2>1, Flight, WithSets
      <3>2. QED BY <1>5, <1>9, <2>1, <3>1
    <2>2. QED BY <1>6, <1>9, <2>1, DividesOne
  <1>10. QED BY <1>1, <1>2, <1>3, <1>4, <1>7, <1>8, <1>9 DEF ElementStep

\* Where nothing fails with another element and nothing is deleted already, what has
\* failed stays failed: no changeset that a thread still holds has a failed element.
THEOREM FailuresStandAlone ==
    ASSUME PlainUpload, NoSpread, Gone = {}
    PROVE  Spec => FailuresStandAtFirst
  <1>1. Init => Base /\ Clear
    <2>1. Init => FailedIn(status) = {}
      BY DEF Init, FailedIn
    <2>2. QED BY <2>1, BaseInit DEF Clear, Apart
  <1>2. Base /\ Clear /\ [Next]_vars => Base' /\ Clear'
    BY BaseStep, ClearStep
  <1>3. Base /\ Clear /\ [Next]_vars
          => [~gaveUp => FailedIn(status) \subseteq FailedIn(status')]_vars
    BY ClearStep
  <1>4. QED BY <1>1, <1>2, <1>3, PTL DEF Spec, FailuresStandAtFirst

\* There the contract, and with it what isDone says and that no report is taken back,
\* needs no further assumption.
THEOREM ContractKeptAlone ==
    ASSUME PlainUpload, NoSpread, Gone = {}
    PROVE  Spec => KeepsContract /\ SettledForGood /\ []DoneMeansSettled
  BY FailuresStandAlone, ContractKept, SettledStays, DoneIsSettled, PTL

\* Only the first thread empties the cleanup, when it is due.
LEMMA OnlyPushed ==
    ASSUME TypeOK, [Next]_vars, cleanup # {}, cleanup' = {}
    PROVE  ~AllOut /\ CleanupDue
  <1>1. ASSUME NEW w \in Worker, Thread(w) PROVE PushCleanup(w)
    <2>1. CASE Reply(w)
      <3>1. CASE Accept(w) \/ RetryClosed(w) \/ FixVersion(w) \/ QuitVersion(w) \/ FinalizeGone(w)
                 \/ RetryOther(w) \/ FailOther(w) \/ RetryUnavailable(w)
        BY <3>1 DEF Accept, RetryClosed, FixVersion, QuitVersion, FinalizeGone, RetryOther,
           FailOther, RetryUnavailable, Finalize, changesetVars
      <3>2. CASE FailThenPush(w) \/ FailThenDrop(w) \/ FailThenQuit(w)
        BY <3>2 DEF FailThenPush, FailThenDrop, FailThenQuit, WriteFailure, Fail
      <3>3. CASE PushSplit(w) \/ FailSplit(w) \/ PushUnsplit(w) \/ DropUnsplit(w) \/ FailUnsplit(w)
        <4>1. \E x : ApplySplit(x)
          BY <3>3 DEF PushSplit, FailSplit, PushUnsplit, DropUnsplit, FailUnsplit
        <4>2. QED BY <4>1 DEF ApplySplit
      <3>4. QED BY <2>1, <3>1, <3>2, <3>3 DEF Reply
    <2>2. CASE ~Reply(w)
      BY <1>1, <2>2 DEF Thread, BeginLoop, SeeDone, TakeWork, FindNoWork, BeginWork, CreateChangeset,
         FailToCreate, DropEmpty, Upload, StopWhenTold, FindIdle, GoIdle, Exit, changesetVars
    <2>3. QED BY <2>1, <2>2
  <1>2. ~Producer /\ ~Finished /\ ~UNCHANGED vars
    BY DEF Producer, Finished, PollFinished, PollFailed, PollRoom, PollFull, CalculateWork,
       PushWork, KeepWaiting, DecideToGiveUp, GiveUp, StartWork, JoinThreads, FailRemaining, vars,
       changesetVars
  <1>3. PICK w \in Worker : PushCleanup(w)
    BY <1>1, <1>2 DEF Next
  <1>4. wpc[w] = "idle" /\ CleanupDue
    BY <1>3 DEF PushCleanup
  <1>5. QED BY <1>4 DEF AllOut, Out

\* When the cleanup is due and the counts do not run ahead, nothing else is open.
LEMMA CleanupLast ==
    ASSUME Base, Honest, Counted, Clear, ~gaveUp, ~AllOut, CleanupDue
    PROVE  \A e \in Element \ cleanup : status[e] \in Settled
  <1> DEFINE fin == FinalIn(status)
             bad == FailedIn(status)
  <1>1. /\ fin \in SUBSET Element /\ bad \in SUBSET Element /\ cleanup \in SUBSET Element
        /\ Apart(fin, bad)
    BY DEF FinalIn, FailedIn, Apart, Base, IInv, TypeOK
  <1>2. cleanup \subseteq InFlight
    BY DEF InFlight
  <1>3. Apart(fin \cup bad, cleanup)
    BY <1>2 DEF Honest, Clear, Apart
  <1>4. /\ processedCount <= Cardinality(fin) /\ failedCount <= Cardinality(bad)
        /\ processedCount \in Nat /\ failedCount \in Nat
    BY DEF Counted, CountsHold, Base, IInv, TypeOK
  <1>5. Total <= processedCount + failedCount + Cardinality(cleanup)
    BY DEF CleanupDue
  <1> HIDE DEF fin, bad
  <1>6. /\ Cardinality(fin \cup bad) = Cardinality(fin) + Cardinality(bad)
        /\ Cardinality(fin) \in Nat /\ Cardinality(bad) \in Nat
    BY <1>1, Grown
  <1>7. /\ Cardinality((fin \cup bad) \cup cleanup) = Cardinality(fin \cup bad) + Cardinality(cleanup)
        /\ Cardinality(cleanup) \in Nat
    BY <1>1, <1>3, Grown
  <1> DEFINE all == (fin \cup bad) \cup cleanup
  <1>8. all \in SUBSET Element
    BY <1>1
  <1> HIDE DEF all
  <1>9. /\ Total = Cardinality(Element) /\ Total \in Nat
        /\ Cardinality(all) <= Cardinality(Element)
        /\ Cardinality(Element) = Cardinality(all) => Element = all
    BY <1>8, CountElements, ElementAssumption, FS_Subset DEF Total
  <1>10. Cardinality(Element) = Cardinality(all)
    BY <1>4, <1>5, <1>6, <1>7, <1>9 DEF all
  <1>11. QED BY <1>9, <1>10 DEF all, fin, bad, FinalIn, FailedIn, Settled

\* There, until apply() gives up, the deletes that splits have set aside are queued only
\* when everything else has been settled, whatever was split, retried or failed before.
THEOREM CleanupGoesLast ==
    ASSUME PlainUpload, NoSpread, Gone = {}
    PROVE  Spec => CleanupIsLast
  <1>1. Init => Base /\ Honest /\ Counted /\ Clear
    <2>1. Init => FailedIn(status) = {} /\ ~gaveUp
      BY DEF Init, FailedIn
    <2>2. QED BY <2>1, BaseInit, HonestInit, CountedInit DEF Clear, Apart
  <1>2. Base /\ Honest /\ Counted /\ Clear /\ [Next]_vars => Base' /\ Honest' /\ Counted' /\ Clear'
    BY BaseStep, HonestStep, CountedStep, ClearStep
  <1>3. Base /\ Honest /\ Counted /\ Clear /\ [Next]_vars
          => [~gaveUp /\ cleanup # {} /\ cleanup' = {} =>
                \A e \in Element \ cleanup : status[e] \in Settled]_vars
    <2> SUFFICES ASSUME Base, Honest, Counted, Clear, [Next]_vars,
                        ~gaveUp, cleanup # {}, cleanup' = {}
                 PROVE  \A e \in Element \ cleanup : status[e] \in Settled
      OBVIOUS
    <2>1. ~AllOut /\ CleanupDue
      BY OnlyPushed DEF Base, IInv
    <2>2. QED BY <2>1, CleanupLast
  <1>4. QED BY <1>1, <1>2, <1>3, PTL DEF Spec, CleanupIsLast

-----------------------------------------------------------------------------
(* When apply() returns.                                                   *)
(*                                                                         *)
(* A thread leaves its loop because it failed, because all is done or      *)
(* because it was told to; it is told to by apply(), which fails what      *)
(* remains, or by a thread that failed.                                    *)

AllSettled == \A e \in Element : status[e] \in Settled

Ending ==
    /\ gaveUp => AllSettled
    /\ threadsCanExit => HasFailedThread \/ AllSettled
    /\ (\E w \in Worker : wpc[w] \in Out) => HasFailedThread \/ AllSettled
    /\ AllSettledAtEnd

\* Why a thread stops, or tells the others to.
LEMMA ThreadEnds ==
    ASSUME TypeOK, NEW w \in Worker, Thread(w)
    PROVE  /\ UNCHANGED <<ppc, gaveUp>>
           /\ threadsCanExit' = threadsCanExit \/ threadStatus'[w] = "Failed"
           /\ wpc'[w] \in Out =>
                \/ wpc[w] \in Out \/ threadStatus'[w] = "Failed" \/ threadsCanExit
                \/ IsDone /\ status' = status
  <1>1. CASE SeeDone(w) \/ StopWhenTold(w) \/ Exit(w)
    <2>1. UNCHANGED <<ppc, gaveUp, threadsCanExit, status>>
      BY <1>1 DEF SeeDone, StopWhenTold, Exit, poolVars, producerVars, changesetVars
    <2>2. IsDone \/ threadsCanExit \/ wpc[w] \in Out
      BY <1>1 DEF SeeDone, StopWhenTold, Exit, Out
    <2>3. QED BY <2>1, <2>2
  <1>2. CASE \/ BeginLoop(w) \/ TakeWork(w) \/ FindNoWork(w) \/ BeginWork(w) \/ CreateChangeset(w)
             \/ DropEmpty(w) \/ PushCleanup(w) \/ FindIdle(w) \/ GoIdle(w)
    <2>1. UNCHANGED <<ppc, gaveUp, threadsCanExit>>
      BY <1>2 DEF BeginLoop, TakeWork, FindNoWork, BeginWork, CreateChangeset, DropEmpty,
         PushCleanup, FindIdle, GoIdle, poolVars, producerVars
    <2>2. wpc'[w] \in {"loop", "taken", "empty", "idle", "upload", "create"}
      BY <1>2, OwnPart DEF BeginLoop, TakeWork, FindNoWork, BeginWork, CreateChangeset, DropEmpty,
         PushCleanup, FindIdle, GoIdle
    <2>3. QED BY <2>1, <2>2 DEF Out
  <1>3. CASE Upload(w)
    <2>1. UNCHANGED <<ppc, gaveUp, threadsCanExit>>
      BY <1>3 DEF Upload, poolVars, producerVars
    <2>2. wpc'[w] \in Refusals \cup {"ok"}
      BY <1>3, OwnPart, WriterAssumption DEF Upload, Answer, Refusals
    <2>3. QED BY <2>1, <2>2 DEF Out, Refusals
  <1>4. CASE Accept(w) \/ RetryClosed(w) \/ FixVersion(w) \/ FinalizeGone(w) \/ RetryOther(w)
             \/ FailOther(w) \/ FailThenPush(w) \/ FailThenDrop(w)
    <2>1. UNCHANGED <<ppc, gaveUp, threadsCanExit>>
      BY <1>4 DEF Accept, RetryClosed, FixVersion, FinalizeGone, RetryOther, FailOther,
         FailThenPush, FailThenDrop, poolVars, producerVars
    <2>2. Goto(w, "loop") \/ \E S : Doom(w, S, "failDrop")
      BY <1>4 DEF Accept, RetryClosed, FixVersion, FinalizeGone, RetryOther, FailOther,
         FailThenPush, FailThenDrop, Push
    <2>3. QED BY <2>1, <2>2, OwnPart DEF Out
  <1>5. CASE PushSplit(w) \/ FailSplit(w) \/ PushUnsplit(w) \/ DropUnsplit(w) \/ FailUnsplit(w)
    <2>1. UNCHANGED <<ppc, gaveUp, threadsCanExit>>
      BY <1>5 DEF PushSplit, FailSplit, PushUnsplit, DropUnsplit, FailUnsplit, poolVars, producerVars
    <2>2. \/ Goto(w, "loop")
          \/ \E S : Doom(w, S, "failPush") \/ Doom(w, S, "failDrop")
      BY <1>5 DEF PushSplit, FailSplit, PushUnsplit, DropUnsplit, FailUnsplit, Push
    <2>3. QED BY <2>1, <2>2, OwnPart DEF Out
  <1>6. CASE FailToCreate(w) \/ RetryUnavailable(w) \/ QuitVersion(w) \/ FailThenQuit(w)
    <2>1. UNCHANGED <<ppc, gaveUp>>
      BY <1>6 DEF FailToCreate, RetryUnavailable, QuitVersion, FailThenQuit, producerVars
    <2>2. \/ threadStatus'[w] = "Failed"
          \/ wpc'[w] \in {"loop", "failQuit"} /\ threadsCanExit' = threadsCanExit
      BY <1>6, OwnPart DEF FailToCreate, RetryUnavailable, QuitVersion, FailThenQuit,
         SetThreadStatus, TypeOK
    <2>3. QED BY <2>1, <2>2 DEF Out
  <1>7. QED BY <1>1, <1>2, <1>3, <1>4, <1>5, <1>6 DEF Thread, Reply

\* What apply() does before it returns.
LEMMA ProducerEnds ==
    ASSUME TypeOK, Places, Producer
    PROVE  /\ UNCHANGED <<wpc, threadStatus>>
           /\ UNCHANGED <<gaveUp, threadsCanExit>> \/ AllSettled'
           /\ ppc' = "done" => \/ AllSettled'
                               \/ ~HasFailedThread /\ \A w \in Worker : wpc[w] \in Out
  <1>1. ASSUME FailRemaining PROVE AllSettled'
    BY <1>1 DEF FailRemaining, AllSettled, With, Settled, TypeOK, Statuses
  <1>2. UNCHANGED <<wpc, threadStatus>>
    BY DEF Producer, PollFinished, PollFailed, PollRoom, PollFull, CalculateWork, PushWork,
           KeepWaiting, DecideToGiveUp, GiveUp, StartWork, JoinThreads, workerVars, poolVars
  <1>3. CASE PollFailed \/ GiveUp
    BY <1>1, <1>2, <1>3 DEF PollFailed, GiveUp
  <1>4. CASE \/ PollFinished \/ PollRoom \/ PollFull \/ CalculateWork \/ PushWork
             \/ KeepWaiting \/ DecideToGiveUp \/ StartWork
    <2>1. UNCHANGED <<gaveUp, threadsCanExit>>
      BY <1>4 DEF PollFinished, PollRoom, PollFull, CalculateWork, PushWork, KeepWaiting,
         DecideToGiveUp, StartWork, poolVars, producerVars
    <2>2. ppc' # "done"
      BY <1>4 DEF PollFinished, PollRoom, PollFull, CalculateWork, PushWork, KeepWaiting,
         DecideToGiveUp, StartWork, producerVars
    <2>3. QED BY <1>2, <2>1, <2>2
  <1>5. CASE JoinThreads
    <2>1. UNCHANGED <<gaveUp, threadsCanExit>> /\ \A w \in Worker : wpc[w] \in Out
      BY <1>5 DEF JoinThreads, poolVars, Out
    <2>2. HasFailedThread => AllSettled'
      BY <1>1, <1>5 DEF JoinThreads
    <2>3. QED BY <1>2, <2>1, <2>2
  <1>6. QED BY <1>3, <1>4, <1>5 DEF Producer

\* When all is settled it stays so, if what has failed stays failed.
LEMMA SettledLasts ==
    ASSUME PlainUpload, Base, Honest, AllSettled, [Next]_vars,
           FailedIn(status) \subseteq FailedIn(status')
    PROVE  AllSettled'
  <1> DEFINE done(st) == FinalIn(st) \cup FailedIn(st)
  <1>1. AllSettled <=> Element \subseteq done(status)
    BY DEF AllSettled, Settled, FinalIn, FailedIn
  <1>2. AllSettled' <=> Element \subseteq done(status')
    BY DEF AllSettled, Settled, FinalIn, FailedIn
  <1>3. SUFFICES FinalIn(status) \subseteq done(status')
    BY <1>1, <1>2
  <1>4. Apart(FinalIn(status), InFlight)
    BY DEF Honest
  <1>5. CASE Shuffles \/ Applies
    BY <1>5 DEF Shuffles, Applies
  <1>6. CASE Sends
    <2>1. PICK S \in SUBSET AvailableIn(status) : status' = With(status, S, "Sent")
      BY <1>6 DEF Sends
    <2>2. S = {}
      BY <2>1 DEF AvailableIn, AllSettled, Settled
    <2>3. QED BY <2>1, <2>2, Flight, WithNothing
  <1>7. CASE Abandons
    <2> DEFINE remaining == {e \in Element : status[e] \notin Settled}
    <2>1. FinalIn(status') = FinalIn(status) \ remaining
      BY <1>7, Flight, WithSets DEF Abandons, FailRemaining
    <2>2. QED BY <2>1 DEF FinalIn, Settled
  <1>8. CASE Finalizes
    <2>1. PICK S \in SUBSET InFlight : status' = With(status, S, "Finalized")
      BY <1>8 DEF Finalizes
    <2>2. QED BY <2>1, Flight, WithSets
  <1>9. ASSUME NEW F \in SUBSET InFlight, status' = With(status, FailureOf(status, F), "Failed")
        PROVE  FinalIn(status) \subseteq done(status')
    <2>1. /\ FinalIn(status') = FinalIn(status) \ FailureOf(status, F)
          /\ FailedIn(status') = FailedIn(status) \cup FailureOf(status, F)
      BY <1>9, Flight, Failed, WithSets
    <2>2. QED BY <2>1
  <1>10. CASE Fails
    BY <1>9, <1>10 DEF Fails
  <1>11. CASE Divides
    <2>1. ASSUME NEW V \in SUBSET (InFlight \ Answering), status' = With(status, V, "Available")
          PROVE  FinalIn(status) \subseteq done(status')
      <3>1. FinalIn(status') = FinalIn(status) \ V
        BY <2>1, Flight, WithSets
      <3>2. QED BY <1>4, <3>1 DEF Apart
    <2>2. QED BY <1>9, <1>11, <2>1, DividesOne
  <1>12. QED BY <1>5, <1>6, <1>7, <1>8, <1>10, <1>11, Shapes DEF ElementStep

LEMMA EndingStep ==
    ASSUME PlainUpload, Base, Honest, Counted, Ending, [Next]_vars,
           FailedIn(status) \subseteq FailedIn(status')
    PROVE  Ending'
  <1>1. HasFailedThread => HasFailedThread'
    BY BaseStep
  <1>2. AllSettled => AllSettled'
    BY SettledLasts
  <1>3. TypeOK /\ Places /\ FirstWorker \in Worker
    BY WriterAssumption DEF Base, IInv
  <1>4. CASE Producer
    <2>1. /\ UNCHANGED <<wpc, threadStatus>>
          /\ UNCHANGED <<gaveUp, threadsCanExit>> \/ AllSettled'
          /\ ppc' = "done" => \/ AllSettled'
                              \/ ~HasFailedThread /\ \A w \in Worker : wpc[w] \in Out
      BY <1>3, <1>4, ProducerEnds
    <2>2. ppc' = "done" => AllSettled'
      BY <1>2, <1>3, <2>1 DEF Ending
    <2>3. QED BY <1>1, <1>2, <2>1, <2>2 DEF Ending, AllSettledAtEnd, AllSettled
  <1>5. ASSUME NEW w \in Worker, Thread(w) PROVE Ending'
    <2>1. /\ UNCHANGED <<ppc, gaveUp>>
          /\ threadsCanExit' = threadsCanExit \/ threadStatus'[w] = "Failed"
          /\ wpc'[w] \in Out =>
               \/ wpc[w] \in Out \/ threadStatus'[w] = "Failed" \/ threadsCanExit
               \/ IsDone /\ status' = status
      BY <1>3, <1>5, ThreadEnds
    <2>2. \A v \in Worker \ {w} : wpc'[v] = wpc[v]
      BY <1>3, <1>5, OthersStay
    <2>3. threadStatus'[w] = "Failed" => HasFailedThread'
      BY DEF HasFailedThread
    <2>4. IsDone => AllSettled
      BY CountedSettles DEF Ending, DoneMeansSettled, AllSettled
    <2>5. threadsCanExit' => HasFailedThread' \/ AllSettled'
      BY <1>1, <1>2, <2>1, <2>3 DEF Ending
    <2>6. (\E v \in Worker : wpc'[v] \in Out) => HasFailedThread' \/ AllSettled'
      BY <1>1, <1>2, <2>1, <2>2, <2>3, <2>4 DEF Ending
    <2>7. (gaveUp' => AllSettled') /\ (ppc' = "done" => AllSettled')
      BY <1>2, <2>1 DEF Ending, AllSettledAtEnd, AllSettled
    <2>8. QED BY <2>5, <2>6, <2>7 DEF Ending, AllSettledAtEnd, AllSettled
  <1>6. CASE UNCHANGED vars
    <2>1. UNCHANGED <<status, ppc, gaveUp, threadsCanExit, wpc, threadStatus>>
      BY <1>6 DEF vars, changesetVars, producerVars, poolVars, workerVars
    <2>2. QED BY <2>1 DEF Ending, AllSettledAtEnd, AllSettled, HasFailedThread
  <1>7. QED BY <1>4, <1>5, <1>6 DEF Next, Finished

\* In a plain upload in which no failure is revoked, every element is settled when
\* apply() returns: whichever of the threads failed, stopped or was told to, and
\* whatever they were still holding.
THEOREM SettledAtEnd ==
    ASSUME PlainUpload
    PROVE  Spec /\ FailuresStand => []AllSettledAtEnd
  <1>1. Init => Base /\ Honest /\ Counted /\ Ending
    <2>1. Init => Ending
      BY DEF Init, Ending, AllSettledAtEnd, Out
    <2>2. QED BY <2>1, BaseInit, HonestInit, CountedInit
  <1>2. Base /\ Honest /\ Counted /\ Ending /\ [Next]_vars
          /\ [FailedIn(status) \subseteq FailedIn(status')]_vars
          => Base' /\ Honest' /\ Counted' /\ Ending'
    <2> SUFFICES ASSUME Base, Honest, Counted, Ending, [Next]_vars,
                        [FailedIn(status) \subseteq FailedIn(status')]_vars
                 PROVE  Base' /\ Honest' /\ Counted' /\ Ending'
      OBVIOUS
    <2>1. FailedIn(status) \subseteq FailedIn(status')
      BY DEF vars, changesetVars, FailedIn
    <2>2. QED BY <2>1, BaseStep, HonestStep, CountedStep, EndingStep
  <1>3. Ending => AllSettledAtEnd
    BY DEF Ending
  <1>4. QED BY <1>1, <1>2, <1>3, PTL DEF Spec, FailuresStand
=============================================================================
