---------------------------- MODULE OsmApiWriter ----------------------------
(***************************************************************************)
(* OsmApiWriter uploads one changeset to the OSM API: the thread that calls*)
(* apply() cuts it into small changesets and queues them, a pool of worker *)
(* threads (_changesetThreadFunc) uploads them, and puts what the API      *)
(* refuses back on the queue, whole or split, or marks it failed.          *)
(*                                                                         *)
(* What is in a changeset is decided by XmlChangeset.  This module only    *)
(* assumes what the CONSTANT operators below promise; the MC modules       *)
(* instantiate them with XmlChangeset.tla, and TLC checks the promises.    *)
(*                                                                         *)
(* A definition marked "a fault" is not part of the model: it is a version *)
(* of the definition below it with a mistake that a property must notice.  *)
(***************************************************************************)
EXTENDS ChangesetElement, Sequences

CONSTANTS
    Worker, FirstWorker,      \* the worker threads; the one with index 0
    Creates,                  \* the elements that are created
    Calculate(_, _),          \* calculateChangeset
    SplitInHalf(_),           \* splitChangeset without a hint
    SplitByHint(_, _),        \* splitChangeset with a hint it recognises
    FailureOf(_, _),          \* what failNode, failWay and failRelation fail
    Requires(_),              \* server: what must be applied before an element
    Gone,                     \* server: elements that are deleted already
    Responses,                \* server: the failures that may be answered
    MaxFaults,                \* bound on those failures
    MaxChangesetSize,         \* _maxChangesetSize of the writer
    MaxPushSize,              \* _maxPushSize of the writer
    QueueSizeMultiplier,      \* QUEUE_SIZE_MULTIPLIER
    MaxFailureRetries,        \* MAX_FAILURE_RETRIES of a ChangesetInfo
    MaxVersionRetries,        \* MAX_VERSION_RETRIES of a ChangesetInfo
    MaxChangesetFailures      \* bad changeset ids after which a thread fails

\* The answers to an upload, by what the writer does with them: 200; 409 that
\* says the changeset is closed; 409 that names a version; 400, 404, 412 and
\* any other 409; 410; 500, 502 and 504; 401, 405, no answer at all and any
\* status not listed; 503.  A "lost" answer is one whose upload was applied.
Refusals == {"closed", "mismatch", "rejected", "gone", "overload", "other", "unavailable"}

Statuses == [Element -> ElementStatus]

\* What splitting a changeset yields: what stays, what is split out (error: to
\* be failed), what is Available again, what waits for the cleanup, what failed
\* on the way, and what was added to the split.
SplitOutcome ==
    [rest : SUBSET Element, split : SUBSET Element, avail : SUBSET Element,
     orphan : SUBSET Element, fails : SUBSET Element, adds : SUBSET Element,
     error : BOOLEAN]

Apart(A, B) == A \cap B = {}

\* A split of S, which may add elements of free, loses no element of S and puts
\* none in two places.
SplitsSoundly(x, S, free) ==
    /\ x \in SplitOutcome
    /\ x.rest \cup x.split \cup x.avail \cup x.orphan \cup x.fails = S \cup x.adds
    /\ x.adds \subseteq free /\ Apart(x.adds, x.avail)
    /\ Apart(x.rest, x.split) /\ Apart(x.rest, x.orphan) /\ Apart(x.split, x.orphan)
    /\ Apart(x.avail, x.rest \cup x.split \cup x.orphan)
    /\ Apart(x.fails, x.rest \cup x.split \cup x.orphan \cup x.avail)
    /\ x.split = {} => x.rest = {}
    /\ x.avail = {} \/ x.fails = {}

\* The sets of elements that the server can apply when it has nothing else.
SelfSufficient == {A \in SUBSET Element : \A e \in A : Requires(e) \subseteq A}

ASSUME WriterAssumption ==
    /\ IsFiniteSet(Worker) /\ FirstWorker \in Worker
    /\ Creates \subseteq Element /\ Gone \subseteq Element
    /\ Responses \subseteq Refusals \cup {"lost"}
    /\ MaxFaults \in Nat /\ QueueSizeMultiplier \in Nat
    /\ MaxChangesetSize \in Nat /\ MaxPushSize \in Nat
    /\ MaxFailureRetries \in Nat /\ MaxVersionRetries \in Nat
    /\ MaxChangesetFailures \in Nat

ASSUME CalculateAssumption ==
    \A st \in Statuses, n \in 0..Total : Calculate(st, n) \subseteq AvailableIn(st)

ASSUME SplitInHalfAssumption ==
    \A S \in SUBSET Element :
      Cardinality(S) # 1 => \A x \in SplitInHalf(S) : SplitsSoundly(x, S, {}) /\ ~x.error

ASSUME SplitByHintAssumption ==
    \A st \in Statuses, S \in SUBSET Element :
      Cardinality(S) # 1 =>
        \A x \in SplitByHint(st, S) :
          /\ x \in SplitOutcome
          /\ Apart(S, AvailableIn(st)) => SplitsSoundly(x, S, AvailableIn(st))

\* What is to fail fails, once.  A failure spreads only to what requires, directly
\* or not, something that fails, and not to what is deleted already.
ASSUME FailureAssumption ==
    \A st \in Statuses, F \in SUBSET Element :
      LET failing == FailureOf(st, F)
      IN  /\ F \ FailedIn(st) \subseteq failing
          /\ failing \subseteq Element \ FailedIn(st)
          /\ failing \cap Gone \subseteq F
          /\ \A A \in SelfSufficient : Apart(A, F) => Apart(A, failing)

ASSUME RequiresAssumption == \A e \in Element : Requires(e) \subseteq Element

\* The uploads of which most of the promises below hold: no split adds elements to
\* what it moves out, a closed changeset of one element is sent again, and the API
\* answers 200, or 409, 400, 404, 412, 503 and what is not listed, without having
\* applied anything, and 410 for what is deleted already.
PlainUpload ==
    /\ \A S \in SUBSET Element : Cardinality(S) # 1 =>
         \A st \in Statuses : \A x \in SplitByHint(st, S) : x.adds = {}
    /\ MaxChangesetSize >= 2
    /\ Apart(Responses, {"lost", "overload", "gone"})

\* Nothing fails with another element, as in changesets of which no created
\* element is part of another.
NoSpread == \A st \in Statuses, F \in SUBSET Element : FailureOf(st, F) \subseteq F

-----------------------------------------------------------------------------
VARIABLES
    \* XmlChangeset
    status,          \* the status of every element
    sentCount, processedCount, failedCount,
    sendBuffer,      \* _sendBuffer: marked Buffering, to become Sent
    cleanup,         \* _cleanup: deletes set aside for the end
    \* OsmApiWriter, shared by the threads
    queue,           \* _workQueue
    startFlag, threadsCanExit,
    threadStatus,    \* _threadStatus
    \* the thread in apply()
    ppc, pwork,
    pqueueEmpty,     \* local to one round of its loop
    gaveUp,          \* history: it has failed the elements that remained
    \* the worker threads
    wpc,             \* where it is; the answer it got while it deals with it
    work, open, changesetSize, changesetFailures,
    doom, counted,   \* elements to fail, and the failed count read for it
    \* the API
    applied,         \* elements whose change it has applied
    faults           \* failures it has answered

changesetVars == <<status, sentCount, processedCount, failedCount, sendBuffer, cleanup>>
poolVars == <<startFlag, threadsCanExit, threadStatus>>
producerVars == <<ppc, pqueueEmpty, pwork, gaveUp>>
sessionVars == <<open, changesetSize, changesetFailures>>
failVars == <<doom, counted>>
workerVars == <<wpc, work, sessionVars, failVars>>
serverVars == <<applied, faults>>
vars == <<changesetVars, queue, poolVars, producerVars, workerVars, serverVars>>

ThreadStatus == {"Idle", "Working", "Completed", "Failed"}

\* A ChangesetInfo, and a new one.
ChangesetInfo ==
    [els : SUBSET Element, attempted : BOOLEAN, failures : Nat, versions : Nat]

Fresh(S) == [els |-> S, attempted |-> FALSE, failures |-> 0, versions |-> 0]

NoWork == Fresh({})

\* A fault: what is moved to a split also stays.
ShrunkNothing(info, S) == [info EXCEPT !.failures = 0]

\* ChangesetInfo::add and remove start the failure retries over.
Shrunk(info, S) ==
    [info EXCEPT !.els = S, !.failures = IF S = info.els THEN info.failures ELSE 0]

Init ==
    /\ status = [e \in Element |-> "Available"]
    /\ sentCount = 0 /\ processedCount = 0 /\ failedCount = 0
    /\ sendBuffer = {} /\ cleanup = {}
    /\ queue = <<>>
    /\ startFlag = FALSE /\ threadsCanExit = FALSE
    /\ threadStatus = [w \in Worker |-> "Working"]
    /\ ppc = "poll" /\ pqueueEmpty = TRUE /\ pwork = {} /\ gaveUp = FALSE
    /\ wpc = [w \in Worker |-> "wait"]
    /\ work = [w \in Worker |-> NoWork]
    /\ open = [w \in Worker |-> FALSE]
    /\ changesetSize = [w \in Worker |-> 0]
    /\ changesetFailures = [w \in Worker |-> 0]
    /\ doom = [w \in Worker |-> {}]
    /\ counted = [w \in Worker |-> 0]
    /\ applied = {} /\ faults = 0

-----------------------------------------------------------------------------
(* XmlChangeset, as the threads see it.                                    *)

HasElementsToSend == Total > sentCount

\* A fault: what was sent counts as done.
SentIsDone == Total <= sentCount

IsDone == Total <= processedCount + failedCount

Unsent == IF Total > sentCount THEN Total - sentCount ELSE 0

ThreadsAreIdle == \A w \in Worker : threadStatus[w] # "Working"

AllThreadsFailed == \A w \in Worker : threadStatus[w] = "Failed"

HasFailedThread == \E w \in Worker : threadStatus[w] = "Failed"

With(st, S, s) == [e \in Element |-> IF e \in S THEN s ELSE st[e]]

\* A fault: what is final fails as well.
FailFinalToo ==
    LET remaining == {e \in Element : status[e] # "Failed"}
    IN  /\ status' = With(status, remaining, "Failed")
        /\ failedCount' = failedCount + Cardinality(remaining)
        /\ UNCHANGED <<sentCount, processedCount, sendBuffer, cleanup>>

\* failRemainingChangeset: anything that is not finalized or failed now is.
FailRemaining ==
    LET remaining == {e \in Element : status[e] \notin Settled}
    IN  /\ status' = With(status, remaining, "Failed")
        /\ failedCount' = failedCount + Cardinality(remaining)
        /\ UNCHANGED <<sentCount, processedCount, sendBuffer, cleanup>>

\* failNode, failWay and failRelation on the elements of F, when the failed
\* count that was read is n: an element that was never sent counts as sent.
Fail(F, n) ==
    LET failing == FailureOf(status, F)
    IN  /\ status' = With(status, failing, "Failed")
        /\ failedCount' = n + Cardinality(failing)
        /\ sentCount' = sentCount + Cardinality(failing \cap AvailableIn(status))
        /\ UNCHANGED <<processedCount, sendBuffer, cleanup>>

Finalize(S) ==
    /\ status' = With(status, S, "Finalized")
    /\ processedCount' = processedCount + Cardinality(S)
    /\ UNCHANGED <<sentCount, failedCount, sendBuffer, cleanup>>

-----------------------------------------------------------------------------
(* The thread in apply().                                                  *)

\* Nothing is left to send: out of the loop.
PollFinished ==
    /\ ppc = "poll" /\ ~HasElementsToSend
    /\ ppc' = "start"
    /\ UNCHANGED <<changesetVars, queue, poolVars, pqueueEmpty, pwork, gaveUp, workerVars,
                   serverVars>>

\* Every thread has failed: what remains fails.
PollFailed ==
    /\ ppc = "poll" /\ HasElementsToSend /\ AllThreadsFailed
    /\ FailRemaining
    /\ threadsCanExit' = TRUE
    /\ ppc' = "start"
    /\ UNCHANGED <<queue, startFlag, threadStatus, pqueueEmpty, pwork, gaveUp, workerVars,
                   serverVars>>

QueueHasRoom == Len(queue) < QueueSizeMultiplier * Cardinality(Worker)

PollRoom ==
    /\ ppc = "poll" /\ HasElementsToSend /\ ~AllThreadsFailed /\ QueueHasRoom
    /\ pqueueEmpty' = (queue = <<>>)
    /\ ppc' = "calculate"
    /\ UNCHANGED <<changesetVars, queue, poolVars, pwork, gaveUp, workerVars, serverVars>>

PollFull ==
    /\ ppc = "poll" /\ HasElementsToSend /\ ~AllThreadsFailed /\ ~QueueHasRoom
    /\ startFlag' = TRUE
    /\ UNCHANGED <<changesetVars, queue, threadsCanExit, threadStatus, producerVars,
                   workerVars, serverVars>>

\* calculateChangeset, under _changesetMutex.  It ends by marking everything in
\* _sendBuffer as Sent, what a split has put there included.
CalculateWork ==
    /\ ppc = "calculate"
    /\ LET info == Calculate(status, Unsent)
       IN  /\ status' = With(status, info \cup sendBuffer, "Sent")
           /\ sentCount' = sentCount + Cardinality(info)
           /\ pwork' = info
           /\ ppc' = IF info # {} THEN "push" ELSE "idle"
    /\ sendBuffer' = {}
    /\ UNCHANGED <<processedCount, failedCount, cleanup, queue, poolVars, pqueueEmpty,
                   gaveUp, workerVars, serverVars>>

PushWork ==
    /\ ppc = "push"
    /\ queue' = Append(queue, Fresh(pwork))
    /\ pwork' = {} /\ pqueueEmpty' = TRUE
    /\ ppc' = "poll"
    /\ UNCHANGED <<changesetVars, poolVars, gaveUp, workerVars, serverVars>>

\* The queue was empty, nothing can be calculated and no thread is Working.
Unsendable == pqueueEmpty /\ HasElementsToSend /\ ThreadsAreIdle

KeepWaiting ==
    /\ ppc = "idle" /\ ~Unsendable
    /\ startFlag' = TRUE /\ pqueueEmpty' = TRUE
    /\ ppc' = "poll"
    /\ UNCHANGED <<changesetVars, queue, threadsCanExit, threadStatus, pwork, gaveUp,
                   workerVars, serverVars>>

DecideToGiveUp ==
    /\ ppc = "idle" /\ Unsendable
    /\ ppc' = "giveUp"
    /\ UNCHANGED <<changesetVars, queue, poolVars, pqueueEmpty, pwork, gaveUp, workerVars,
                   serverVars>>

GiveUp ==
    /\ ppc = "giveUp"
    /\ FailRemaining
    /\ threadsCanExit' = TRUE
    /\ gaveUp' = TRUE
    /\ ppc' = "start"
    /\ UNCHANGED <<queue, startFlag, threadStatus, pqueueEmpty, pwork, workerVars, serverVars>>

StartWork ==
    /\ ppc = "start"
    /\ startFlag' = TRUE
    /\ ppc' = "join"
    /\ UNCHANGED <<changesetVars, queue, threadsCanExit, threadStatus, pqueueEmpty, pwork,
                   gaveUp, workerVars, serverVars>>

\* A fault: what a failed thread has left behind is not failed.
JoinThreadsOnly ==
    /\ ppc = "join"
    /\ \A w \in Worker : wpc[w] = "stopped"
    /\ ppc' = "done"
    /\ UNCHANGED <<changesetVars, queue, poolVars, pqueueEmpty, pwork, gaveUp, workerVars,
                   serverVars>>

JoinThreads ==
    /\ ppc = "join"
    /\ \A w \in Worker : wpc[w] = "stopped"
    /\ IF HasFailedThread THEN FailRemaining ELSE UNCHANGED changesetVars
    /\ ppc' = "done"
    /\ UNCHANGED <<queue, poolVars, pqueueEmpty, pwork, gaveUp, workerVars, serverVars>>

Producer ==
    \/ PollFinished \/ PollFailed \/ PollRoom \/ PollFull
    \/ CalculateWork \/ PushWork
    \/ KeepWaiting \/ DecideToGiveUp \/ GiveUp
    \/ StartWork \/ JoinThreads

-----------------------------------------------------------------------------
(* A worker thread between two uploads.                                    *)

Goto(w, pc) == wpc' = [wpc EXCEPT ![w] = pc]

Release(w) == work' = [work EXCEPT ![w] = NoWork]

SetThreadStatus(w, s) == threadStatus' = [threadStatus EXCEPT ![w] = s]

\* _waitForStart.
BeginLoop(w) ==
    /\ wpc[w] = "wait" /\ startFlag
    /\ Goto(w, "loop")
    /\ UNCHANGED <<changesetVars, queue, poolVars, producerVars, work, sessionVars,
                   failVars, serverVars>>

\* The head of the loop: done, or pop the queue.
SeeDone(w) ==
    /\ wpc[w] = "loop" /\ IsDone
    /\ Goto(w, "exit")
    /\ UNCHANGED <<changesetVars, queue, poolVars, producerVars, work, sessionVars,
                   failVars, serverVars>>

TakeWork(w) ==
    /\ wpc[w] = "loop" /\ ~IsDone /\ queue # <<>>
    /\ work' = [work EXCEPT ![w] = Head(queue)]
    /\ queue' = Tail(queue)
    /\ Goto(w, "taken")
    /\ UNCHANGED <<changesetVars, poolVars, producerVars, sessionVars, failVars, serverVars>>

FindNoWork(w) ==
    /\ wpc[w] = "loop" /\ ~IsDone /\ queue = <<>>
    /\ Goto(w, "empty")
    /\ UNCHANGED <<changesetVars, queue, poolVars, producerVars, work, sessionVars,
                   failVars, serverVars>>

\* Only now does the thread say that it is working.
BeginWork(w) ==
    /\ wpc[w] = "taken"
    /\ SetThreadStatus(w, "Working")
    /\ Goto(w, IF open[w] THEN "upload" ELSE "create")
    /\ changesetFailures' = [changesetFailures EXCEPT ![w] = IF open[w] THEN 0 ELSE @]
    /\ UNCHANGED <<changesetVars, queue, startFlag, threadsCanExit, producerVars, work,
                   open, changesetSize, failVars, serverVars>>

CreateChangeset(w) ==
    /\ wpc[w] = "create"
    /\ open' = [open EXCEPT ![w] = TRUE]
    /\ changesetSize' = [changesetSize EXCEPT ![w] = 0]
    /\ changesetFailures' = [changesetFailures EXCEPT ![w] = 0]
    /\ Goto(w, "upload")
    /\ UNCHANGED <<changesetVars, queue, poolVars, producerVars, work, failVars, serverVars>>

\* No changeset id: the work goes back; after enough of them the thread fails.
FailToCreate(w) ==
    /\ wpc[w] = "create" /\ faults < MaxFaults
    /\ faults' = faults + 1
    /\ queue' = Append(queue, work[w])
    /\ Release(w)
    /\ changesetFailures' = [changesetFailures EXCEPT ![w] = @ + 1]
    /\ IF changesetFailures[w] + 1 >= MaxChangesetFailures
       THEN SetThreadStatus(w, "Failed") /\ Goto(w, "exit")
       ELSE UNCHANGED threadStatus /\ Goto(w, "loop")
    /\ UNCHANGED <<changesetVars, startFlag, threadsCanExit, producerVars, open,
                   changesetSize, failVars, applied>>

DropEmpty(w) ==
    /\ wpc[w] = "upload" /\ work[w].els = {}
    /\ Release(w)
    /\ Goto(w, "loop")
    /\ UNCHANGED <<changesetVars, queue, poolVars, producerVars, sessionVars, failVars, serverVars>>

\* What the API answers to an upload of S when nothing goes wrong.
Answer(S) ==
    IF S \cap Gone # {} THEN "gone"
    ELSE IF \A e \in S : Requires(e) \subseteq applied \cup S THEN "ok"
    ELSE "rejected"

Upload(w) ==
    /\ wpc[w] = "upload" /\ work[w].els # {}
    /\ \/ /\ Goto(w, Answer(work[w].els))
          /\ applied' = IF Answer(work[w].els) = "ok" THEN applied \cup work[w].els ELSE applied
          /\ UNCHANGED faults
       \/ /\ faults < MaxFaults /\ faults' = faults + 1
          /\ \E r \in Responses \ {"lost"} : Goto(w, r)
          /\ UNCHANGED applied
       \/ /\ faults < MaxFaults /\ faults' = faults + 1
          /\ "lost" \in Responses /\ Answer(work[w].els) = "ok"
          /\ Goto(w, "other")
          /\ applied' = applied \cup work[w].els
    /\ UNCHANGED <<changesetVars, queue, poolVars, producerVars, work, sessionVars, failVars>>

-----------------------------------------------------------------------------
(* A worker thread and the API's answer.                                   *)

Answered(w, r) == wpc[w] = r

\* The changeset is applied.  The API closes its changeset when it is full, the
\* writer closes it when it is nearly so.
Accept(w) ==
    /\ Answered(w, "ok")
    /\ Finalize(work[w].els)
    /\ LET size == changesetSize[w] + Cardinality(work[w].els)
       IN  /\ changesetSize' = [changesetSize EXCEPT ![w] = size]
           /\ open' = [open EXCEPT ![w] =
                         size < MaxChangesetSize
                         /\ size + (3 * MaxPushSize) \div 2 <= MaxChangesetSize]
    /\ Release(w)
    /\ Goto(w, "loop")
    /\ UNCHANGED <<queue, poolVars, producerVars, changesetFailures, failVars, serverVars>>

\* Puts info back on the queue and goes on.
Push(w, info) ==
    /\ queue' = Append(queue, info)
    /\ Release(w)
    /\ Goto(w, "loop")

\* A changeset that was closed meanwhile is replaced by a new one.
StillOpen(w) == open' = [open EXCEPT ![w] = @ /\ wpc[w] # "closed"]

RetryClosed(w) ==
    /\ Answered(w, "closed")
    /\ Cardinality(work[w].els) <= MaxChangesetSize \div 2
    /\ StillOpen(w)
    /\ Push(w, work[w])
    /\ UNCHANGED <<changesetVars, poolVars, producerVars, changesetSize, changesetFailures,
                   failVars, serverVars>>

\* _fixConflict has counted a version retry.
VersionRetried(info) == [info EXCEPT !.versions = @ + 1]

\* _fixConflict finds a newer version of a changed element and takes it over.
CanFixVersion(w) == Answered(w, "mismatch") /\ ~(work[w].els \subseteq Creates)

FixVersion(w) ==
    /\ CanFixVersion(w)
    /\ VersionRetried(work[w]).versions < MaxVersionRetries
    /\ Push(w, VersionRetried(work[w]))
    /\ UNCHANGED <<changesetVars, poolVars, producerVars, sessionVars, failVars, serverVars>>

\* Leads to failing the elements of S.  The failed count is read here and
\* written by the next step: neither happens under a lock.
Doom(w, S, pc) ==
    /\ doom' = [doom EXCEPT ![w] = S]
    /\ counted' = [counted EXCEPT ![w] = failedCount]
    /\ Goto(w, pc)

\* The last retry: the thread fails, and its work with it if a retry after
\* another failure was already attempted.
QuitVersion(w) ==
    /\ CanFixVersion(w)
    /\ VersionRetried(work[w]).versions >= MaxVersionRetries
    /\ IF work[w].attempted
       THEN /\ Doom(w, work[w].els, "failQuit")
            /\ UNCHANGED <<threadStatus, threadsCanExit>>
       ELSE /\ Goto(w, "exit")
            /\ threadsCanExit' = TRUE
            /\ SetThreadStatus(w, "Failed")
            /\ UNCHANGED failVars
    /\ Release(w)
    /\ UNCHANGED <<changesetVars, queue, startFlag, producerVars, sessionVars, serverVars>>

\* The answers that end in splitChangeset, and the work as it is by then.
Splits(w) ==
    \/ Answered(w, "closed") /\ Cardinality(work[w].els) > MaxChangesetSize \div 2
    \/ \E r \in {"mismatch", "rejected", "gone", "overload"} : Answered(w, r)

Splitting(w) ==
    IF wpc[w] = "mismatch" THEN VersionRetried(work[w])
    ELSE [work[w] EXCEPT !.attempted =
            @ \/ (wpc[w] = "gone" /\ Cardinality(work[w].els) = 1)]

\* One element is not split: it fails if something was attempted for it before.
Unsplit(info) ==
    [rest |-> info.els, split |-> {}, avail |-> {}, orphan |-> {},
     fails |-> IF info.attempted THEN info.els ELSE {}, adds |-> {}, error |-> FALSE]

SplitChangeset(w) ==
    LET info == Splitting(w)
    IN  IF Cardinality(info.els) = 1 THEN {Unsplit(info)}
        ELSE SplitInHalf(info.els)
             \cup IF wpc[w] = "rejected" THEN SplitByHint(status, info.els) ELSE {}

\* What a split does to the elements, under _changesetMutex.  The sent count
\* does not change for what becomes Available again.
ApplySplit(x) ==
    LET st == With(With(status, x.avail, "Available"), x.adds, "Buffering")
        failing == FailureOf(st, x.fails)
    IN  /\ status' = With(st, failing, "Failed")
        /\ sentCount' = sentCount + Cardinality(x.adds)
                                  + Cardinality(failing \cap AvailableIn(st))
        /\ failedCount' = failedCount + Cardinality(failing)
        /\ sendBuffer' = sendBuffer \cup x.adds
        /\ cleanup' = cleanup \cup x.orphan
        /\ UNCHANGED processedCount

PushSplit(w) ==
    /\ Splits(w)
    /\ \E x \in SplitChangeset(w) :
         /\ x.split # {} /\ ~x.error
         /\ ApplySplit(x)
         /\ queue' = queue \o <<Shrunk(Splitting(w), x.rest), Fresh(x.split)>>
    /\ StillOpen(w)
    /\ Release(w)
    /\ Goto(w, "loop")
    /\ UNCHANGED <<poolVars, producerVars, changesetSize, changesetFailures, failVars, serverVars>>

\* The split out elements are the ones to blame: they fail, the rest is kept.
FailSplit(w) ==
    /\ Splits(w)
    /\ \E x \in SplitChangeset(w) :
         /\ x.error
         /\ ApplySplit(x)
         /\ work' = [work EXCEPT ![w] = Shrunk(Splitting(w), x.rest)]
         /\ Doom(w, x.split, "failPush")
    /\ UNCHANGED <<queue, poolVars, producerVars, sessionVars, serverVars>>

\* No split: either the work is a single element, or all of it is Available
\* again.  An element that can be resolved, once, is sent once more.
Unresolved(w) == wpc[w] \in {"mismatch", "rejected"} /\ ~Splitting(w).attempted

\* _resolveIssues: what is created has no newer version to take over.
CanResolve(S) == ~(S \subseteq Creates)

PushUnsplit(w) ==
    /\ Splits(w)
    /\ \E x \in SplitChangeset(w) :
         /\ x.split = {}
         /\ \/ wpc[w] = "overload"
            \/ wpc[w] = "gone" /\ x.rest # {}
            \/ Unresolved(w) /\ x.rest # {} /\ CanResolve(x.rest)
         /\ ApplySplit(x)
         /\ Push(w, [Shrunk(Splitting(w), x.rest) EXCEPT !.attempted = @ \/ Unresolved(w)])
    /\ UNCHANGED <<poolVars, producerVars, sessionVars, failVars, serverVars>>

DropUnsplit(w) ==
    /\ Splits(w)
    /\ \E x \in SplitChangeset(w) :
         /\ x.split = {}
         /\ wpc[w] # "overload"
         /\ wpc[w] = "gone" => x.rest = {}
         /\ Unresolved(w) => x.rest = {}
         /\ ApplySplit(x)
    /\ StillOpen(w)
    /\ Release(w)
    /\ Goto(w, "loop")
    /\ UNCHANGED <<queue, poolVars, producerVars, changesetSize, changesetFailures,
                   failVars, serverVars>>

FailUnsplit(w) ==
    /\ Splits(w) /\ Unresolved(w)
    /\ \E x \in SplitChangeset(w) :
         /\ x.split = {} /\ x.rest # {}
         /\ ApplySplit(x)
         /\ Doom(w, x.rest, "failDrop")
    /\ Release(w)
    /\ UNCHANGED <<queue, poolVars, producerVars, sessionVars, serverVars>>

\* A fault: the wrong element is taken to be gone.
FinalizeAny(w) ==
    /\ Answered(w, "gone") /\ Cardinality(work[w].els) > 1
    /\ \E e \in work[w].els :
         /\ Finalize({e})
         /\ Push(w, Shrunk(work[w], work[w].els \ {e}))
    /\ UNCHANGED <<poolVars, producerVars, sessionVars, failVars, serverVars>>

\* fixElementGoneDeletedFailure: the element need not be deleted twice.
FinalizeGone(w) ==
    /\ Answered(w, "gone") /\ Cardinality(work[w].els) > 1
    /\ \E e \in work[w].els \cap Gone :
         /\ Finalize({e})
         /\ Push(w, Shrunk(work[w], work[w].els \ {e}))
    /\ UNCHANGED <<poolVars, producerVars, sessionVars, failVars, serverVars>>

FailureRetried(info) == [info EXCEPT !.failures = @ + 1, !.attempted = TRUE]

RetryOther(w) ==
    /\ Answered(w, "other")
    /\ FailureRetried(work[w]).failures < MaxFailureRetries
    /\ Push(w, FailureRetried(work[w]))
    /\ UNCHANGED <<changesetVars, poolVars, producerVars, sessionVars, failVars, serverVars>>

FailOther(w) ==
    /\ Answered(w, "other")
    /\ FailureRetried(work[w]).failures >= MaxFailureRetries
    /\ Doom(w, work[w].els, "failDrop")
    /\ Release(w)
    /\ UNCHANGED <<changesetVars, queue, poolVars, producerVars, sessionVars, serverVars>>

RetryUnavailable(w) ==
    /\ Answered(w, "unavailable")
    /\ queue' = Append(queue, work[w])
    /\ Release(w)
    /\ changesetFailures' = [changesetFailures EXCEPT ![w] = @ + 1]
    /\ IF changesetFailures[w] + 1 >= MaxChangesetFailures
       THEN SetThreadStatus(w, "Failed") /\ Goto(w, "exit")
       ELSE UNCHANGED threadStatus /\ Goto(w, "loop")
    /\ UNCHANGED <<changesetVars, startFlag, threadsCanExit, producerVars, open,
                   changesetSize, failVars, serverVars>>

\* The second half of failing elements, and what follows it.
WriteFailure(w) ==
    /\ Fail(doom[w], counted[w])
    /\ doom' = [doom EXCEPT ![w] = {}]
    /\ counted' = [counted EXCEPT ![w] = 0]

\* A fault: the rest of the changeset is forgotten.
FailThenForget(w) ==
    /\ wpc[w] = "failPush"
    /\ WriteFailure(w)
    /\ Release(w)
    /\ Goto(w, "loop")
    /\ UNCHANGED <<queue, poolVars, producerVars, sessionVars, serverVars>>

FailThenPush(w) ==
    /\ wpc[w] = "failPush"
    /\ WriteFailure(w)
    /\ Push(w, work[w])
    /\ UNCHANGED <<poolVars, producerVars, sessionVars, serverVars>>

FailThenDrop(w) ==
    /\ wpc[w] = "failDrop"
    /\ WriteFailure(w)
    /\ Goto(w, "loop")
    /\ UNCHANGED <<queue, poolVars, producerVars, work, sessionVars, serverVars>>

FailThenQuit(w) ==
    /\ wpc[w] = "failQuit"
    /\ WriteFailure(w)
    /\ threadsCanExit' = TRUE
    /\ SetThreadStatus(w, "Failed")
    /\ Goto(w, "exit")
    /\ UNCHANGED <<queue, startFlag, producerVars, work, sessionVars, serverVars>>

Reply(w) ==
    \/ Accept(w) \/ RetryClosed(w) \/ FixVersion(w) \/ QuitVersion(w)
    \/ PushSplit(w) \/ FailSplit(w) \/ PushUnsplit(w) \/ DropUnsplit(w) \/ FailUnsplit(w)
    \/ FinalizeGone(w) \/ RetryOther(w) \/ FailOther(w) \/ RetryUnavailable(w)
    \/ FailThenPush(w) \/ FailThenDrop(w) \/ FailThenQuit(w)

-----------------------------------------------------------------------------
(* A worker thread that found the queue empty, and its end.                *)

\* A fault: idle threads are enough.
CleanupWhenIdle == cleanup # {}

\* Everything else has been answered and only the cleanup is left.  The counters
\* are read one after the other, but they only grow, and so does the cleanup until
\* the first thread takes it: what was read is never more than what is there.
CleanupDue ==
    /\ cleanup # {}
    /\ Total <= processedCount + failedCount + Cardinality(cleanup)

StopWhenTold(w) ==
    /\ wpc[w] = "empty" /\ threadsCanExit
    /\ SetThreadStatus(w, "Completed")
    /\ Goto(w, "exit")
    /\ UNCHANGED <<changesetVars, queue, startFlag, threadsCanExit, producerVars, work,
                   sessionVars, failVars, serverVars>>

\* The threads are looked at before the counters are.
FindIdle(w) ==
    /\ wpc[w] = "empty" /\ ~threadsCanExit /\ ~IsDone /\ ThreadsAreIdle
    /\ Goto(w, "idle")
    /\ UNCHANGED <<changesetVars, queue, poolVars, producerVars, work, sessionVars, failVars,
                   serverVars>>

\* Only the first thread queues the cleanup, the others keep looking.
PushCleanup(w) ==
    /\ wpc[w] = "idle" /\ CleanupDue
    /\ IF w = FirstWorker
       THEN queue' = Append(queue, Fresh(cleanup)) /\ cleanup' = {}
       ELSE UNCHANGED <<queue, cleanup>>
    /\ Goto(w, "loop")
    /\ UNCHANGED <<status, sentCount, processedCount, failedCount, sendBuffer, poolVars,
                   producerVars, work, sessionVars, failVars, serverVars>>

\* Nothing to clean up: somebody works, something is open or all is done.
NothingToDo(w) ==
    \/ wpc[w] = "empty" /\ ~threadsCanExit /\ (IsDone \/ ~ThreadsAreIdle)
    \/ wpc[w] = "idle" /\ ~CleanupDue

\* An idle thread closes its changeset when it has been idle for a while.
GoIdle(w) ==
    /\ NothingToDo(w)
    /\ SetThreadStatus(w, "Idle")
    /\ \/ UNCHANGED open
       \/ /\ threadStatus[w] = "Idle" /\ (wpc[w] = "idle" \/ ~IsDone)
          /\ open' = [open EXCEPT ![w] = FALSE]
    /\ Goto(w, "loop")
    /\ UNCHANGED <<changesetVars, queue, startFlag, threadsCanExit, producerVars, work,
                   changesetSize, changesetFailures, failVars, serverVars>>

\* A fault: a thread that failed counts as completed.
ExitCompleted(w) ==
    /\ wpc[w] = "exit"
    /\ open' = [open EXCEPT ![w] = FALSE]
    /\ SetThreadStatus(w, "Completed")
    /\ Goto(w, "stopped")
    /\ UNCHANGED <<changesetVars, queue, startFlag, threadsCanExit, producerVars, work,
                   changesetSize, changesetFailures, failVars, serverVars>>

Exit(w) ==
    /\ wpc[w] = "exit"
    /\ open' = [open EXCEPT ![w] = FALSE]
    /\ SetThreadStatus(w, IF threadStatus[w] = "Failed" THEN "Failed" ELSE "Completed")
    /\ Goto(w, "stopped")
    /\ UNCHANGED <<changesetVars, queue, startFlag, threadsCanExit, producerVars, work,
                   changesetSize, changesetFailures, failVars, serverVars>>

Thread(w) ==
    \/ BeginLoop(w) \/ SeeDone(w) \/ TakeWork(w) \/ FindNoWork(w)
    \/ BeginWork(w) \/ CreateChangeset(w) \/ FailToCreate(w) \/ DropEmpty(w)
    \/ Upload(w) \/ Reply(w)
    \/ StopWhenTold(w) \/ FindIdle(w) \/ PushCleanup(w) \/ GoIdle(w) \/ Exit(w)

\* apply() has returned.
Finished == ppc = "done" /\ UNCHANGED vars

Next == Producer \/ (\E w \in Worker : Thread(w)) \/ Finished

Spec == Init /\ [][Next]_vars

\* No thread is starved: threads are scheduled by the operating system, every
\* lock is held for a bounded time, and a request ends by answer or timeout.
Fairness == WF_vars(Producer) /\ \A w \in Worker : WF_vars(Thread(w))

FairSpec == Spec /\ Fairness

-----------------------------------------------------------------------------
(* Correctness.                                                            *)

WorkerPc == {"wait", "loop", "taken", "create", "upload", "failPush", "failDrop", "failQuit",
             "empty", "idle", "exit", "stopped", "ok"} \cup Refusals

ProducerPc == {"poll", "calculate", "push", "idle", "giveUp", "start", "join", "done"}

\* The type of the state of writer and changeset (OsmApiWriter.h,
\* OsmApiChangeset.h): every variable stays in its domain.
TypeOK ==
    /\ status \in Statuses
    /\ sentCount \in Nat /\ processedCount \in Nat /\ failedCount \in Nat
    /\ sendBuffer \subseteq Element /\ cleanup \subseteq Element
    /\ queue \in Seq(ChangesetInfo)
    /\ startFlag \in BOOLEAN /\ threadsCanExit \in BOOLEAN
    /\ threadStatus \in [Worker -> ThreadStatus]
    /\ ppc \in ProducerPc /\ pqueueEmpty \in BOOLEAN /\ gaveUp \in BOOLEAN
    /\ pwork \subseteq Element
    /\ wpc \in [Worker -> WorkerPc]
    /\ work \in [Worker -> ChangesetInfo]
    /\ open \in [Worker -> BOOLEAN]
    /\ changesetSize \in [Worker -> Nat] /\ changesetFailures \in [Worker -> Nat]
    /\ doom \in [Worker -> SUBSET Element] /\ counted \in [Worker -> Nat]
    /\ applied \subseteq Element /\ faults \in Nat

Queued == UNION {queue[i].els : i \in 1..Len(queue)}

InHand(w) == work[w].els \cup doom[w]

\* No element is in two changesets at once, and none that is in a changeset may
\* be picked for another: whatever the splits, retries and the cleanup did, no
\* change is uploaded by two threads.
ExclusiveWork ==
    /\ \A i, j \in 1..Len(queue) : i # j => Apart(queue[i].els, queue[j].els)
    /\ \A v, w \in Worker : v # w => Apart(InHand(v), InHand(w))
    /\ \A w \in Worker : /\ Apart(work[w].els, doom[w])
                         /\ Apart(InHand(w), Queued \cup pwork \cup cleanup \cup AvailableIn(status))
    /\ Apart(Queued, pwork \cup cleanup \cup AvailableIn(status))
    /\ Apart(pwork, cleanup \cup AvailableIn(status))
    /\ Apart(cleanup, AvailableIn(status))

InFlight ==
    Queued \cup (UNION {InHand(w) : w \in Worker}) \cup pwork \cup cleanup

\* An element that was sent is in some changeset until its fate is known: a
\* changeset is never dropped with unanswered elements in it, unless its
\* thread failed and apply() fails what remains.
NothingLost ==
    ~HasFailedThread =>
      \A e \in Element : status[e] \in {"Buffering", "Sent"} => e \in InFlight

\* isDone "Checks if all elements are either finalized or failed": the counts
\* it compares never run ahead of the elements, as long as apply() has not
\* given up on them.
DoneMeansSettled ==
    ~gaveUp /\ IsDone => \A e \in Element : status[e] \in Settled

\* The deletes that splits have set aside are queued when everything else has
\* been settled, whatever was split, retried, failed or gone before, unless
\* apply() has given up: it fails the cleanup too, and a split may still free an
\* element that it has failed.
CleanupIsLast ==
    [][~gaveUp /\ cleanup # {} /\ cleanup' = {} =>
         \A e \in Element \ cleanup : status[e] \in Settled]_vars

\* When apply() returns, every element has been settled.
AllSettledAtEnd == ppc = "done" => \A e \in Element : status[e] \in Settled

\* What is reported as failed was not applied, and what is final was, unless
\* an answer was lost or apply() gave up.
ReportIsTrue ==
    ~gaveUp => \A e \in Element :
                 /\ status[e] = "Failed" => e \notin applied
                 /\ status[e] = "Finalized" => e \in applied \cup Gone

\* A settled element is settled for good until apply() gives up.
SettledForGood ==
    [][~gaveUp => \A e \in Element : status[e] \in Settled => status'[e] = status[e]]_vars

\* What has failed stays failed, until apply() gives up and also after that.  A half
\* split need not keep to it: it makes Available what it cannot move, failed or not.
FailuresStandAtFirst == [][~gaveUp => FailedIn(status) \subseteq FailedIn(status')]_vars
FailuresStand == [][FailedIn(status) \subseteq FailedIn(status')]_vars

\* What the caller of apply() sees of an element: Buffering is a moment of being sent.
ReportOf(s) ==
    CASE s = "Available" -> "waiting"
      [] s \in {"Buffering", "Sent"} -> "sent"
      [] s = "Finalized" -> "final"
      [] s = "Failed" -> "failed"

\* What the API has applied and a thread is being told of.
Answering == UNION {work[w].els : w \in {v \in Worker : wpc[v] = "ok"}}

Contract == INSTANCE ChangesetContract WITH
    report    <- [e \in Element |-> ReportOf(status[e])],
    applied   <- applied,
    answering <- Answering,
    abandoned <- gaveUp

\* Threads, queue, splits and retries together do what the contract says: no change
\* is applied twice or acknowledged without having been applied, and no report is
\* taken back, until apply() gives up.
KeepsContract == Contract!Spec

\* apply() returns: the threads are told to stop, or see that all is done.
Terminates == <>(ppc = "done")

-----------------------------------------------------------------------------
(* What the comments of the code say and the code does not do; each is     *)
(* refuted by a run of its own.                                            *)

\* hasElementsToSend: "@return true if there are elements that haven't been
\* sent yet" (OsmApiChangeset.h:123-125).
AvailableIsToBeSent == AvailableIn(status) # {} => HasElementsToSend

\* isDone: "@return true if there aren't any elements left to receive updates
\* from" (OsmApiChangeset.h:127-129).
SettledMeansDone ==
    (\A e \in Element : status[e] \in Settled) /\ (\A w \in Worker : doom[w] = {}) => IsDone

\* "all of the threads are idle and not waiting for something to come back"
\* (OsmApiWriter.cpp:208-209), when apply() fails what remains.
GivesUpWhenQuiet == ppc = "giveUp" => queue = <<>> /\ \A w \in Worker : InHand(w) = {}
=============================================================================
