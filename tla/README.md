# Verification of Hootenanny's concurrent parts

Hootenanny conflates maps. Most of its code is geometry, schemas, file formats and databases; what a
model checker can settle is the code in which threads, requests, processes or a server's answers meet.
This directory holds TLA+ modules of five such parts and of two sequential ones that stand before the
first, a merge and a renaming whose cases are many and whose order matters, the TLC configurations that check them, and TLAPS
proofs about them:

1. the upload of a changeset to an OSM API server, with its retries, splits and failures (hoot-core);
2. the download of an area from such a server, box by box, by several threads (hoot-core);
3. the job runner of the web services, with cancelling and deleting (hoot-services);
4. the conversion to OGR formats through a bounded element cache, streamed or by two threads (hoot-core);
5. the parallel test runner, whose child processes die (hoot-test);
6. the derivation of a changeset from two maps, read as sorted streams (hoot-core);
7. the writing of derived changes, of one or several derivations, to an XML or an SQL file (hoot-core).

The upload comes first and has most of the modules: it has the most concurrency, the most failure
handling and the highest price of a mistake, a lost or duplicated change of somebody's map.

## The system and its parts

| component | state | operations | what is hard | what makes it correct |
|---|---|---|---|---|
| `OsmApiWriter` | work queue, thread states, start and exit flags | `apply`, `_changesetThreadFunc`, `_splitChangeset`, `_pushChangesets` | threads share queue, counters and states under different locks; outages; retries | no element in two uploads or in none; it returns; what it reports is true |
| `XmlChangeset`, `ChangesetInfo` | element status, sent / processed / failed counts, send buffer, cleanup | `calculateChangeset`, `splitChangeset`, `failChangeset`, `updateChangeset` | order among elements that refer to each other; splits that take things apart again | a changeset never overtakes what it depends on; counts agree with the elements |
| `ParallelBoundedApiReader` and its two callers | boxes, results, two counts, an error flag | `beginRead`, `_process`, `isComplete`, `hasMoreResults`, `stop` | completeness is a comparison of two counts read under two locks | some thread stays while boxes are left; every box is accounted for; it ends |
| job runner (`JobRunnable`, `JobStatusManagerImpl`, `ExternalCommandManagerImpl`, `JobCancellationResource`) | a row per job, running processes | run, fail, complete, cancel, delete | every change of a row reads it and then writes it; cancels race with commands | the row says what happened to the job |
| `ElementCacheLRU` | three maps and three lists in order of arrival | add, evict, look up | map and list must agree; looking is not use | it holds what came last |
| `OgrWriter`, `ElementTranslatorThread`, `OgrWriterThread` | two queues, a flag, the put-off relations | read, cache, translate, write, close | end of input; members that have been evicted | everything translated is written before the output is closed |
| `ProcessPool` (hoot-test) | two queues, restarts, failures | pop, run, restart, put back, give up | a child dies at any moment, with output unread | every test is run once to its end or known to be left |
| `ChangesetDeriver` | an element of each stream, counts, the next change | `hasMoreChanges`, `readNextChange` | three ways for two streams to compare, two for one to end first | the changes are the difference, in order |
| `ChangesetCleaner`, `OsmXmlChangesetFileWriter`, `OsmApiDbSqlChangesetFileWriter` | noted elements, open section, new ids | `_clean`, `write` | several changes of one element; references to elements that get new ids | the file turns the old map into the new one |
| `OsmApiMatchFailure`, loading a changeset | - | text and id maps, on one thread | text | not modelled |
| `InternalIdReserver`, database writers | ids, one transaction | sequential | - | not modelled |
| conflation, map, formats, network, user interface | - | - | geometry and real-valued scores; I/O | not a model checker's subject |

The parts meet in data, not in shared state: a bounded read or a job produces a map, a derivation a
changeset, which a job uploads with an `OsmApiWriter`. Each part is therefore modelled with its own
environment (a server, a database, an operating system that ends processes) and composed with what it
shares state with: the uploader with the changeset, the reader with its caller, the conversion with the
cache, the job with the requests about it.

`PROJECT.json` lists all components, the lines each definition models, and the hazards of this code
with the properties that are about them.

## Modules

The upload:

- **ChangesetElement** - the elements and their status (`ElementStatus`).
- **XmlChangeset** - what XmlChangeset decides, as operators on the statuses: `CalculateChangeset`
  (`calculateChangeset` with `addNode`, `addWay`, `addRelation` and the parents of deletes),
  `HalfSplits` (`splitChangeset` without a hint, with `moveOrRemove...` and `fixOrphanedNodesSplit`),
  `HintSplits` (the four `fix...Failure` functions) and `FailsWith` (`failNode`, `failWay`,
  `failRelation`). `getFirst` reads an unordered set: `HalfSplits` has an outcome for each choice.
- **OsmApiWriter** - the threads. `Producer` is `apply()`'s loop and what follows it, one action per
  stretch of code between two places where another thread can be observed; `Thread(w)` is
  `_changesetThreadFunc`. `wpc` holds where a thread is, or the answer it has just received: one
  value per group of response codes that the `switch` treats alike. What calculation and splitting
  yield are constant operators here, with assumptions that state the least they must promise.
- **ChangesetContract** - the upload as `apply()`'s caller sees it, without threads, queues or splits:
  a change is applied at most once, acknowledged exactly if it was applied, and no report is taken back.
  `OsmApiWriter` has the refinement mapping (`Contract == INSTANCE ChangesetContract WITH ...`).
- **ChangesetUpload** - writer and changeset composed, and `SelfContained`, which needs both.
- **MCUpload, MCDelete, MCOutage, MCDeleteParents, MCStillUsed, MCRevived** - concrete changesets for TLC. A
  `.cfg` puts `CalculateChangeset`, `HalfSplits`, `HintSplits` and `FailsWith` in the place of
  OsmApiWriter's constants, and TLC evaluates the assumptions about them on each of these changesets.
- **OsmApiWriter_proofs** - what is proved of the upload, for any operators in XmlChangeset's place that keep the
  assumptions; **ChangesetUpload_proofs** - that XmlChangeset's operators keep them, and `SelfContained`.

The others:

- **ParallelBoundedApiReader** - the reader's state and threads; **BoundedRead** - with the loop of
  `OsmApiReader::read` or `OsmJsonReader::_readFromHttp` (constant `Reader`) and the reader's
  destruction; **BoundedRead_proofs**.
- **JobRunner** - a job's thread (`RunJob`), a request to cancel it (`Cancel`), one to delete it;
  **MCJobs** - a derivation, the upload of what it derived, and an export; **MCTwoProcesses** - a job of two
  processes; **JobRunner_proofs**.
- **ElementCacheLRU** - one kind's map and list, and what adding does to them; **OgrConversion** - both
  ways to convert, over that cache; **MCOgr** - inputs; **OgrConversion_proofs**.
- **ProcessPool** - main thread, worker threads and children; **ProcessPool_proofs**.
- **ElementId** - ids and their order; **ChangesetDeriver** - the merge, one action per branch of
  `_nextChange`; **MCDeriver** - pairs of maps; **ChangesetDeriver_proofs**.
- **ChangesetFileWriter** - the cleaner and both writers, which get the changes ChangesetDeriver gives out
  (`Derived`); **MCFileWriter** - pairs of maps and lists of pairs; **ChangesetFileWriter_proofs**.

Definitions marked "a fault" are not part of the models. Each is a definition with a mistake in it
that one of the properties notices; `PROJECT.json` says which ("mutants").

### The upload: state and code

| variable | code |
|---|---|
| `status` | `ChangesetElement::_status` of every element |
| `sentCount`, `processedCount`, `failedCount` | `_sentCount`, `_processedCount`, `_failedCount` |
| `sendBuffer`, `cleanup` | `_sendBuffer`, `_cleanup` |
| `queue` | `_workQueue`; a `ChangesetInfo` keeps its elements, `_attemptedResolveChangesetIssues`, `_numFailureRetries`, `_numVersionRetries` |
| `startFlag`, `threadsCanExit`, `threadStatus` | `_startFlag`, `_threadsCanExit`, `_threadStatus` |
| `ppc`, `pwork`, `pqueueEmpty` | place, `changeset_info` and `queueSize == 0` in `apply()` |
| `wpc`, `work`, `open`, `changesetSize`, `changesetFailures` | place, `workInfo`, `id > 0`, `changesetSize`, `changeset_failures` in `_changesetThreadFunc` |
| `doom`, `counted` | elements about to fail, and the failed count read to be incremented |
| `applied`, `faults` | external: what the server has applied; how many failures it has answered |
| `gaveUp` | history: `apply()` failed what remained |

### The upload: atomicity

A step ends where the code releases a lock that another thread can take in between, and where a value
read without a lock is used later. So popping work and saying "Working" are two steps, and so are
reading the queue's size and calculating; the unlocked increments of the failed count are a step that
reads (`Doom`) and one that writes (`WriteFailure`). Inside a lock, one step.

An idle thread finds the queue empty, then the others idle (`FindIdle`), then compares the counts (`PushCleanup`, `GoIdle`):
three steps, each on what may have changed since the last.

The following is coarser than the code, on purpose: the three counts that `CleanupDue` adds up are read at once, since they
only grow and the cleanup is emptied only by the thread that has just read it; the failed counts added by `failRemainingChangeset` and by a split are one step
(the lost update is shown with `WriteFailure`); a pushed pair of changesets is pushed at once; a thread
that adds several to the failed count adds them in one write.

### The upload: data

An element is a model value with a kind, a change and references; a changeset is the set of its
elements. Versions, tags and coordinates are left out. A hint in an answer names elements of the
changeset; an answer that allows several is one outcome for each, and it need not be truthful. A
created element is named by the server when it is final. Ids of two kinds never collide. Relations
are not members of relations. The changeset is one that `fixMalformedInput` has left without
failed elements. A created member of a relation is filed with the creates, where the code files it under the relation's
change (OsmApiChangeset.cpp:917), which would lose it from a modified relation: when a changeset is calculated there is no such
member (`ModifiedTakeNoMember`); only a split might add one, and `FilingAssumption` leaves the changesets out in which it could.
The branch for the "remaining" changeset (`getFinished`) is left out: no code that
runs sets that flag. `ChangesetInfo`'s counts, limits and the sizes compared with them are kept.

### The bounded reader

| variable | code |
|---|---|
| `bboxes`, `totalEnvelopes` (one lock); `resultsList`, `totalResults` (another) | `_bboxes`, `_totalEnvelopes`, `_resultsList`, `_totalResults` |
| `fatalError`, `continueRunning` | `_fatalError`, `_continueRunning` |
| `tpc`, `envelopes`, `envelope` | place in `_process`, the local of `isComplete`, the box asked for |
| `cpc`, `more`, `seen`, `parsed` | place in the caller's loop, the locals of `hasMoreResults` and `isComplete`, what was taken |

A box is the sequence of quarters that leads to it, so that two boxes overlap exactly if one is a prefix
of the other. `isComplete` is two steps, `hasMoreResults` three. The answers are those `_process` tells
apart: a result, "too much data" (split), anything else (fatal).

### The job runner

| variable | code |
|---|---|
| `row` | the job's row of `job_status`: status, `status_detail`, and whether it has an owner |
| `jpc`, `cmd`, `failed`, `write`, `saw` | place in `processJob`, the command it is at, how the last one came out, the status being set and the row read to set it |
| `activeCommands`, `killed` | the runner a cancel can find, and whether its process was destroyed |
| `kpc`, `ksaw`, `krunner` | the request to cancel: place, row read, runner found |
| `unrecorded`, `faults` | history: the database refused a failure; how often it has failed |

`JobStatusManagerImpl` runs every call in a transaction of its own (`REQUIRES_NEW`, read committed):
reading the row and writing it are two steps, and the write is blind. A deleted row that somebody writes
is either gone for an update, or inserted again, without an owner. The marks an upload leaves on its
ancestors are made in the job's own transaction and so are one step, or none. A read of the row that fails is kept quiet
and gives no row (`getJobStatusObj`): the thread that looks whether it was cancelled then dies as if the row were deleted
(`CheckFails`, `CheckCancelled`).

### The conversion to OGR

| variable | code |
|---|---|
| `mode`, `limits` | `_translateMultithreaded`; the three cache sizes |
| `cache` | `ElementCacheLRU`: of each kind the ids in the map and the list |
| `elementQ`, `featuresQ`, `finished` | `elementQ`, `transFeaturesQ`, `finishedTranslating` |
| `mpc`, `tpc`, `wpc`, `feature` | places of `_convertToOgrMT` or `ElementStreamer::stream`, of the two threads, and the feature dequeued |
| `putOff`, `written` | `_unwrittenFirstPassRelationIds`, as positions in the input; what is in the output |

A feature is the element it was made of and whether its geometry is `whole`. The const lookups of the
cache dereference the end of a map when the id is not there, although the converters test for null:
what they return is undefined, so the geometry is then not whole or the process ends (`CrashStream`,
`Abort`). Members that a line goes without (`Skipped`) make it not whole too. A multipolygon is made of all members
below it: `Below` is the least set of elements closed under being a member (`Closed`). An exception that leaves a
thread ends the process (`Abort`), and so does destroying a thread that still runs (`Return`).

### The test runner

| variable | code |
|---|---|
| `jobs` | the two `JobQueue`s |
| `tpc`, `queue`, `test`, `restartCount`, `failures` | place in `processJobs`, its argument and locals, `_failures` |
| `child`, `output` | the `QProcess`: idle, testing or dead, and what it wrote and nobody has read |
| `verdict`, `done`, `gaveUp`, `crashes` | history and environment: how a test came out, which ended, who left, how many died |

`empty()` and `pop()` lock separately: two steps. A child's lines are `failure` and `finished`; any
other is output nobody acts on.

### Derivation and files

| variable | code |
|---|---|
| `from`, `to`, `numFrom`, `numTo` | the two streams and how much of them has been read (`_num...ElementsParsed`) |
| `fromE`, `toE`, `next`, `changesByType`, `allow` | `_fromE`, `_toE`, `_next`, `_changesByType`, `_allowDeletingReferenceFeatures` |
| `derived` | history: the changes given out |
| `format`, `clean`, `input` | which writer, `_clean` of the ChangesetCreator, the maps |
| `changesById`, `changes` | `_changesById`, `_changes` of the cleaner |
| `last`, `changeElement`, `parsedChangeIds` | the locals of `write`, `_parsedChangeIds` |
| `nextId`, `newIds` | `_newElementIdCtrs` or the database's sequences, `_newElementIdMappings` or `_remappedIds` |
| `file` | the statements written so far |

Streams are sorted by type and id without repetition, as the sorter of a map's elements leaves them. What
elements are compared by is `body` (with the version, and `meta` for metadata keys). In a file a statement is
its kind, its id and its references. `Executed` is what a statement does to a map: for a delete, also
to the elements that had the deleted one. Whether an element is outside the bounds is data; the callers that clean
switch that check off. Everything is sequential: a behaviour is determined by its input.

## Runs

The upload's runs have two worker threads and changesets of three to six elements. Two threads are enough for
every race between two threads and the producer; five or six elements give a way with shared nodes,
a parent relation and something unrelated to split from. The queue's limit is one per thread
(`QUEUE_SIZE_MULTIPLIER` is 2 in the code), so that it is full at times. `MaxFaults` bounds the failures the server may
answer: two of them interact in every way two can; an outage needs four, two for each thread. Retry
limits are 2, where the code has 3, 5 and 25: only reaching them matters. No symmetry is used: elements differ, and
thread 0 is special.

| run | question |
|---|---|
| `upload` | creates and modifies, with closed changesets, version mismatches, rejections with any hint and other failures |
| `delete` | deletes of used, shared and already deleted elements, and the final cleanup |
| `outage` | does `apply()` return when the server is down, under fairness |
| `bounded_read` | two threads and a caller over a grid of two boxes, one split (5 envelopes): one box left to share and one split are what the stale counts need |
| `jobs` | three jobs on one thread of the pool; the upload is cancelled, it or its parent deleted, and the database fails once |
| `pool` | two threads, four tests of which one is serial, `MAX_RESTART` 2 (3 in the code) and four dead children: enough for both threads to give up |
| `ogr` | 40 inputs of up to 9 elements, all cache sizes from 1 to 3 of each kind, both modes: caches smaller than, equal to and larger than every part |
| `derive` | all pairs of maps of up to three elements, each of them absent, the same, changed or tagged in either map, with deletes allowed or not: every branch, with and without something left in either stream |
| `changeset_file` | one provider: a map of four elements with everything that may become of them, and up to four new elements that refer to each other and to old ones, as long as no reference is lost; two providers: all ordered pairs of eight derivations that share elements |
| `lost_count`, `give_up`, `forward_member` | each refutes one statement of a comment, see "Findings" |

The properties of the upload, by what they are about:

- `KeepsContract` - the upload implements ChangesetContract; in particular a settled element stays as it is
  (`SettledForGood`, which only the configuration of a finding checks on its own).
- `ExclusiveWork` - no element is in two changesets at once, in the queue, in a thread's hands, with
  the producer or waiting for the cleanup; and none that is in one may be picked for another.
- `NothingLost` - an element that was sent and has no final answer is in some changeset.
- `DoneMeansSettled` - the counters never say "done" before every element is final or failed.
- `ReportIsTrue` - failed elements were not applied, final ones were (or had been deleted).
- `SelfContained` - a new changeset does not depend on changes another thread may still hold.
- `CleanupIsLast` - what was set aside goes when everything else is settled, unless `apply()` has given up.
- `AllSettledAtEnd`, `Terminates` - `apply()` returns, with every element settled.

`gaveUp` appears in some of them because of the finding `give_up`: once `apply()` fails elements that
a thread still holds, what that thread does with them contradicts the report. The contract says so with
`GiveUp` and `Abandoned`.

Of the bounded reader:

- `EnvelopesAdd` - envelopes counted = boxes waiting + asked for + results counted, but for an error.
- `SomeoneStays` - however stale the counts, the threads do not all leave while a box is left.
- `MissesOnlySplits` - a caller that has stopped without an error on the present number of envelopes has
  left no box behind.
- `Terminates` - the read ends and the reader is destroyed.

One thing the code does not promise is not among them: `hasMoreResults` looks at the list before it looks
at the counts. A result that arrives in between is counted but was not in the list, so the caller can
stop with a result untaken. No text of the repository says otherwise in terms a run could refute.

Of the job runner:

- `CompleteMeansDone` - a complete job has run all its commands, none of which failed.
- `CancelHolds` - a cancelled row changes only by deletion, or by a job that had read it before.
- `KilledIsLast` - a destroyed process is the job's last command, and the job is not complete.
- `CancelledNotFailed` - a job whose process a cancel destroyed is not failed, although the
  condition that is to ensure it (JobRunnable.java:90) compares an enum with a number and always holds. It
  holds of jobs whose only process is their first command (`ProcessFirst`), as the run's are; see "Findings"
  for the others.
- `ParentIsStale` - after an upload what it was made from is marked stale.
- `JobsSettle` - a row does not say "running" for ever, unless the thread died of an exception that is
  not caught or the database refused the failure.

Of the conversion:

- `NothingDropped` - what was read, has tags and was not put off is written once, at its place in the
  output, or is under way at its place in the queues.
- `ClosedIsComplete` - the output is closed when both queues are empty and nothing is in hand.
- `TornForAReason` - a geometry that is not its element's means that the cache overflowed (streamed: and
  that the element is a relation) or, with threads, that the input was incomplete.
- `CacheIsWindow` - the list of a kind is those cached last, in their order, at least as many as the cache
  is to hold. An element that comes again is listed again (see "Findings"; `MCOgr` has such inputs); while
  none does, the list is no longer than the limit and the map has just what is listed.
- `Terminates` - the conversion ends: done, refused or aborted.

Of the test runner:

- `OnePlace` - a test is with one thread, on its own queue or done, never lost or run by two.
- `SerialAlone` - serial tests are run by the first thread only.
- `LeftBehind` - tests are left on a queue only by threads that gave up, and one for each unless all did.
- `FailuresCounted` - a failed test is counted once.
- `WaitReturns` - `wait()` returns, unless retries are disabled and a child dies.

Of the derivation:

- `DerivesTheDifference` - what is given out is exactly the difference of the two maps.
- `GivenInOrder` - changes come in the order of type and id, which the writers rely on.

`CountedOnce` - the counts are those of the changes given out, however often somebody asks for more - is
proved and not among the runs' properties.

Of the files:

- `ReachesTarget` - executing the file of one derivation on the old map gives the new one, but for the
  names of new elements, and every reference points to what it pointed to.
- `RefsResolve` - a reference to a new element is to one that the file has created before.
- `CreatedApart`, `OneChangeEach` - no id is given twice; an SQL file has one change of an element.
- `FirstChangeWritten` - of several changes of an element the first, by its place in the lists that the
  writer gets, is written (in an SQL file the first real one; in an XML file the first if it is real).
- `DeletesFirst`, `DropsOnlyDeletes` - the cleaner hands on no delete after another change of the element,
  and drops nothing else.

`RefsResolve` needs that what is new comes before what refers to it (`NewComeFirst`). The inputs of
`changeset_file` are such, which `MCFileWriter` asserts; the run `forward_member` has relations that
refer to a new relation with a larger id, and there it fails.

Each part has its type invariant `TypeOK`, and all are proved (see "Proofs"). Only that of the conversion is
also checked by a run.

What the upload's passing runs leave out, because it breaks a promise that holds otherwise: answers 500, 502 and 504 (a
single element is failed and queued again, so it is counted twice) and lost answers (the protocol
cannot tell them from refusals). Both are in the model (`overload`, `lost`) and in the hazards.
`UploadStranded.cfg` uses `overload`.

### Fairness

Weak fairness is assumed of what the operating system schedules, and of nothing else:

- upload, bounded reader, conversion: each thread and the caller. Locks are held for a bounded time and a request
  ends by an answer or a timeout (the model takes some answer).
- jobs: each job's thread, its commands included (a command that never ends is out of scope), and a
  request to cancel once it has begun. Nobody has to cancel or delete anything.
- tests: the threads, the main thread, and that a test comes to its end (`FinishTest`). Children need not die or fail.

The server's, the database's and the user's choices are not fair: that they stop failing is a bound.

## Findings

Three runs end in a violation of what a comment says:

- `lost_count`: failing elements counts without a lock; a lost increment keeps `isDone` false
  (OsmApiChangeset.cpp:1846; OsmApiChangeset.h:127-128).
- `give_up`: between popping work and being Working a thread looks idle, and `apply()` fails what it
  holds (OsmApiWriter.cpp:208-230, 312-324).
- `forward_member`: a new relation's member relation, if its id is larger, is written with an id it does not
  get; in an XML file the relation becomes a member of itself (OsmApiDbSqlChangesetFileWriter.cpp:697-725).

Nine more disagreements have a configuration here, with which TLC finds the property violated, and are not
among the runs of `PROJECT.json`:

| configuration (module) | property | disagreement |
|---|---|---|
| UploadStranded (MCUpload) | `AvailableIsToBeSent` | elements made Available by a half split keep their sent count, so `hasElementsToSend` is false although they must be sent again (OsmApiChangeset.cpp:633-648, 790-804; OsmApiChangeset.h:123-124) |
| UploadRevived (MCRevived) | `DoneMeansSettled` | a half split makes a way Available that has failed meanwhile with a node of another thread's changeset; it stays counted as failed, so the upload is done while the way is neither uploaded nor failed (OsmApiChangeset.cpp:800-802, 1854-1860; OsmApiChangeset.h:127-128) |
| JobsCancelLost (MCTwoProcesses) | `CancelledNotFailed` | between two processes of a job its thread overwrites a cancel with RUNNING; the cancel then destroys the second process and the job is marked FAILED (JobStatusManagerImpl.java:342-362; JobRunnable.java:89: "Cancelled jobs also have non-zero exit code, but should not be marked FAILED"). An upload with tags has two processes (GrailResource.java:610-630) |
| MCDeleteParents | `SelfContained` | the answer about a node's parent ways replaces the answer about its parent relations (OsmApiChangeset.cpp:609-620) |
| MCStillUsed | `SettledForGood` | an element that a split added to the send buffer becomes Sent after it was Finalized (OsmApiChangeset.cpp:1383-1386; OsmApiChangesetElement.h:131) |
| OgrCachedTwice (MCOgr) | `AddTwiceIsNoOp` | an element that is cached already is listed again, and makes room for itself if the cache is full (ElementCacheLRU.cpp:79-87; ElementCache.h:78-79) |
| DeriverNoDeletes (MCDeriver) | `NoDeleteUnlessAllowed` | with deletes of reference data switched off, elements that are not Unknown1, as those of streamed inputs, are deleted (ChangesetDeriver.cpp:367; ConfigOptions.asciidoc:665-667) |
| WriterTwice (MCFileWriter) | `EachElementOnce` | the XML file has several changes of an element, since only elements at the border of a section are noted (OsmXmlChangesetFileWriter.cpp:170-174, 194-200) |
| CleanerKeeps (MCFileWriter) | `DeleteDiscarded` | a delete that comes before the modification stays (ChangesetCleaner.cpp:77-83; ChangesetCleaner.h:45-46) |

`MCStillUsed` is not a run because TLC takes too long to evaluate the assumptions for its six elements.

The inputs of the passing runs do not have the cases of the first five rows (no split meets an
element that failed meanwhile or was in the send buffer, none has `overload`, no node has parents of two kinds, no job has two
processes); the other properties are not promised by the passing runs of their parts.

## Proofs

TLAPS proves, for every value of the constants (any number of threads, elements, jobs, tests, any limits):

| module | theorem | property |
|---|---|---|
| OsmApiWriter_proofs | `TypeCorrect`, `WorkIsExclusive` | `TypeOK`, `ExclusiveWork` |
| | `NothingIsLost`, `ReportsAreTrue` | `NothingLost`, `ReportIsTrue` |
| | `DoneIsSettled`, `SettledStays`, `ContractKept`, `SettledAtEnd` | `DoneMeansSettled`, `SettledForGood`, `KeepsContract`, `AllSettledAtEnd` |
| | `FailuresStandAlone`, `ContractKeptAlone`, `CleanupGoesLast` | `FailuresStandAtFirst`, `KeepsContract` with `SettledForGood` and `DoneMeansSettled`, `CleanupIsLast` |
| ChangesetUpload_proofs | `ChangesetsAreSelfContained` | `SelfContained` |
| | `CalculatedIsAvailable`, `HalvesAreSound`, `HintsAreSound`, `HintsAddNothing`, `FailuresSpreadSoundly` | (XmlChangeset keeps the upload's assumptions) |
| | `ModifiedTakeNoMember` | (where a modified relation's created members are filed makes no difference) |
| BoundedRead_proofs | `TypeCorrect`, `EnvelopesAddUp`, `SomeoneAlwaysStays`, `OnlySplitsMissed` | `TypeOK`, `EnvelopesAdd`, `SomeoneStays`, `MissesOnlySplits` |
| JobRunner_proofs | `TypeCorrect`, `CompleteIsDone`, `CancelStands` | `TypeOK`, `CompleteMeansDone`, `CancelHolds` |
| | `KilledEnds`, `ParentsAreStale`, `CancelledIsNotFailed` | `KilledIsLast`, `ParentIsStale`, `CancelledNotFailed` |
| ProcessPool_proofs | `TypeCorrect`, `TestInOnePlace`, `SerialRunAlone` | `TypeOK`, `OnePlace`, `SerialAlone` |
| | `EachFailureCounted`, `FewAreLeft` | `FailuresCounted`, `LeftBehind` |
| OgrConversion_proofs | `TypeCorrect`, `NothingLeftAtClose`, `EachWrittenOnce` | `TypeOK`, `ClosedIsComplete`, `NothingDropped` |
| | `TornOnlyForAReason`, `CacheHoldsTheLast` | `TornForAReason`, `CacheIsWindow` |
| ChangesetDeriver_proofs | `TypeCorrect`, `DifferenceDerived`, `ChangesInOrder`, `CountsCorrect` | `TypeOK`, `DerivesTheDifference`, `GivenInOrder`, `CountedOnce` |
| ChangesetFileWriter_proofs | `TypeCorrect`, `NewIdsApart`, `SqlChangesOnce`, `DeletesComeFirst` | `TypeOK`, `CreatedApart`, `OneChangeEach`, `DeletesFirst` |
| | `OnlyDeletesDropped`, `FirstIsWritten`, `ReferencesResolve` | `DropsOnlyDeletes`, `FirstChangeWritten`, `RefsResolve` |
| | `FileReachesTarget` | `ReachesTarget` |

### What is assumed

All theorems assume the named assumptions about the constants of their modules, which TLC evaluates for the constants of
every passing run. For the upload these are `WriterAssumption` (the types of the
limits), `CalculateAssumption` (only Available elements are calculated), `SplitInHalfAssumption` and
`SplitByHintAssumption` (a split of a changeset loses no element and puts none in two places; it adds
only Available elements), `FailureAssumption` (what fails includes what was asked to, nothing fails twice, a
failure spreads only to what requires something that fails, and not to what is deleted already) and
`RequiresAssumption`. TLC checks these for XmlChangeset's operators on every changeset of the passing runs, and
`ChangesetUpload_proofs` proves the four about calculating, splitting and failing for every changeset: the first three
without a hypothesis, the last under `DeletesAreOld` and the second part of `Composed`. `HintsAddNothing` is the
first condition of `PlainUpload` (no split adds), under the hypothesis that no deleted element is used by another.

Most theorems of `OsmApiWriter_proofs` also have hypotheses, since the code breaks its promises without them:

- `PlainUpload` - no split adds elements to what it moves out, a closed changeset of one element is sent again
  and not split, and the API does not answer 410 for what is not deleted, 500, 502 or 504, nor loses an answer.
  `MCUpload` and `MCOutage` assert it; `MCDelete`, whose node b has a user that a split adds, does not have
  it, and there only TLC speaks.
- `FailuresStandAtFirst`, `FailuresStand` (until `apply()` gives up, or for good) - what has failed
  stays failed. `FailsWith` lets a failure spread from a new node to a way that another thread has sent, and when that
  thread's changeset is split in half the way becomes Available again: `UploadRevived` shows that the counts
  are then wrong. Only the theorems that compare counts with elements, or speak of reports that stay, need it.
  TLC finds the first to hold in the models of `upload` and `outage`, the second in that of `outage`, whose run
  checks `AllSettledAtEnd`; in that of `upload` a split may revive what `apply()` has failed
  when giving up, and `apply()` then returns with an element that is neither uploaded nor failed: one more
  consequence of the finding `give_up`, and with it alone (`gaveUp \/ AllSettledAtEnd` holds there).
- `NoSpread` and `Gone = {}` - nothing fails with another element and nothing is deleted already. Then failures do
  stand (`FailuresStandAlone`), and the contract is kept with no hypothesis about the behaviour. `MCOutage`
  asserts `NoSpread`. Uploads of deletes only are of this kind too, and their cleanup is what `CleanupGoesLast` is about.

- `Composed` - the writer calculates with `CalculateChangeset`, and the API wants what `Needs` says. Only
  `ChangesetUpload_proofs` has it; it is what the `.cfg` files say. `MCUpload` asserts it.
- `DeletesApart` - what refers to a deleted element is deleted with it and waits for nothing, and is either ways or
  relations. Without it `SelfContained` is false, as `MCDeleteParents` shows. `DeletesAreOld` - what is deleted refers to
  nothing created, and only deletes can be too late; otherwise a created node that fails would fail a delete that does
  not need it. `MCUpload` and `MCDelete` assert both.

In files, `ReferencesResolve` and `FileReachesTarget` assume `NewComeFirst` (a change of a new element creates it and
comes before what refers to it), and the latter `SoundMaps` too (what is in the old map has a database id, what is new has
none, and the new map has all it refers to). `MCFileWriter` asserts both for the inputs of `changeset_file`, and
`forward_member` shows what happens without the first. `CancelledIsNotFailed` assumes `ProcessFirst`, and a configuration
shows what happens otherwise.

### The arguments

**Upload, who has what.** `TypeOK` is inductive. `ExclusiveWork` is not: a thread that puts work into hands that
are not empty would overwrite what it holds, and a step that moves `doom` or `pwork` must know where it came from.
`IInv == TypeOK /\ ExclusiveWork /\ HandsEmpty` is: `HandsEmpty` says a thread holds work only in the places
where it deals with it, elements to fail only until it has failed them, and the producer a changeset
only until it has queued it. The argument then is a deal of cards: the elements are dealt between the
queue, the hands, the producer, the cleanup and the Available ones; each step of a thread deals anew only
what was in that thread's hand, plus what a split takes from the Available elements. The lemmas about
queues (`AppendOnce`, `TailOnce`, ...) carry this through `Append`, `Tail` and `\o`.

**Upload, what becomes of it.** Every step of `apply()` and of a thread is one of seven kinds of steps of the elements
(`Shapes`): they change hands (`Shuffles`), are sent, applied, finalized or failed, are taken apart by a
split (`Divides`), or are given up (`Abandons`). This is proved once, from `Base`: `IInv`, what a thread's place says of it
in a plain upload (`Places`), and that the send buffer is empty. What follows knows nothing of threads and queues:

- `Tracked` (`NothingLost`): a kind of step takes an element out of flight only with its answer.
- `Honest` (`ReportIsTrue`): the trouble is a failure that spreads to an element in another thread's hands, which the
  server may then apply although it is marked as failed. The server cannot: an element is dead if it has failed and is
  in no changeset, or was deleted already; whatever does not require something dead has not failed (`Spared`),
  and what has been applied requires nothing dead.
- `Counted` (`DoneMeansSettled`): there are never more elements counted as processed or as failed than there are final or
  failed ones, lost updates included, since a stale count is smaller.
- The contract: each kind of step is a step of `ChangesetContract` under the mapping, or a stutter (`ContractStep`).
- `Clear` (`FailuresStandAlone`): if nothing fails with another element, what has failed is in no changeset, and a
  split cannot reach it.
- `CleanupIsLast`: the condition for the cleanup compares counts. By `Counted` they bound the settled elements from below, by
  `Honest` and `Clear` those are none of the cleanup, so that the two together are all elements (`CleanupLast`).
- `Ending` (`AllSettledAtEnd`): a thread leaves only if it failed, was told to, or saw that all was done; whoever tells it
  has failed or has settled everything; and `apply()` fails what is left if a thread failed.

**Changesets.** `calculateChangeset`, `addNodes`, `addRelation` and the gathering of users are folds (`FoldLeft`), and
splitting in half is a loop. The provers know nothing of an operator that takes an operator, but a fold over a sequence is
what a function that iterates it makes of the last place; such a function exists (`FoldExists`, `RoundsExist`), so it is
the one that `FoldLeft` chooses (`MemberFold`, `AllFold`, `GatherFold`), and what every step keeps, the result keeps
(`Induction`, stated for a set of numbers and proved from the well-foundedness of `<`). `Takes` is what every adding step
keeps: what is new in the work was Available and is now Buffering. From it come `CalculatedIsAvailable` and, with what
moves, `HintsAreSound` (`Gathering`). `HalvesAreSound`: what is left, moved and made Available is the changeset, once
(`Halving`), and until half is moved each turn leaves one element less, so the loop does not end with everything left
(`Halfway`).

`SelfContained` compares a changeset with statuses that other threads change, so it is shown for the moment of the
calculation and then kept: after it only `Finalized` matters, which is not taken back. In a calculation the work marks
exactly what it holds (`Marks`), and what an element in it must come after is in it too or final (`InOrder`). Adding an
element keeps that by itself, except that a relation is added with only those of its created ways that can be sent and
fit. It is right nevertheless: relations come last in a round, when, unless the work is full (`Stuck`), every created way
is in it, cannot be sent, or does not fit (`Tried`, `Ready`), and with a way that cannot be sent or does not fit the
relation is not added either. The same makes `ModifiedTakeNoMember` true: by the round of the modified relations every
created node and way is taken, cannot be sent or does not fit. The invariant is `SInv`: `Base`, `Honest`, nothing left Buffering (`Unbuffered`), the
producer builds no changeset after giving up (`GaveUpAtEnd`), and `SelfContained`.

**Bounded reader.** `SomeoneStays` speaks of the moment when all have left and is not inductive.
`SomeoneKnows` is: unless there is no work, there is a thread that is running and, if the comparison is
its next step, compares with the present number of envelopes (`NotMisled`). A split makes every other thread's
number stale, but the thread that split goes back to its loop and will read anew; a thread that
is not misled leaves only on equal counts, and then `EnvelopesAdd` says that nothing waits and nobody asks.

**Jobs.** `CompleteMeansDone` needs what a job's thread knows where it is (`Steps`): `setCompleted` is called
after a failure too, and only the row that `setFailed` has changed stops it, so on the way to
`setCompleted` either all commands have succeeded or the row is known not to be running any more
(`Told`). `CancelHolds` needs `FreshInv`: `addJob` overwrites no row, since before it there is none and
no cancel has begun. `KilledIsLast`: a job with a destroyed process has not noticed yet or has failed and left its
commands (`Destroyed`). `ParentIsStale`: a job that has begun has parents that have ended (`Lineage`), so nobody writes their
rows but requests about them. `CancelledNotFailed`: until the first command is over the job's thread sets no status, so
a cancel that has destroyed its process has been written for good, and `setFailed` finds it (`Condemned`).

**Tests.** `OnePlace` is inductive with `Hands` (a thread has a test exactly while it reads, of the queue
it works on, and only the first thread has the serial one), `Heard` (the end of a test is the
last line its child writes, and unread output belongs to the test in hand), `Restarts`, `Begun` and `Empty`.
`FailuresCounted` needs that a failure is in the unread output exactly if the test in hand has failed (`Told`): then
reading the line counts it, and only once. For `LeftBehind` the moment to look at is when some thread has found the
parallel queue empty. From then on a test is put there only by a thread that gives up, or that will look for it itself:
there are never more tests than such threads (`FewLeft`), and when all have ended these are the ones that gave up.

**Conversion.** Types need `Ways`: each way of converting leaves the other's variables alone. `ClosedIsComplete` follows
from four facts: no thread works before it is started, the flag is set by a translator that has emptied its queue, the writer holds a feature only while it writes,
and it decides to stop only on seeing the flag and the empty queue together, after which neither changes.
`NothingDropped` is stated by positions in the input so that it is inductive with the types: each step moves one boundary
between what is written, what is queued and what is to come. `TornForAReason` needs that what is cached has come
(`HeldCame`), that all that came is there while nothing overflowed (`Full`), and, one by one, that what is cached was cached
with all its parts (`KeepsParts`); it is carried by the features from their making to the output (`AllExcused`).
`CacheIsWindow` is inductive with the types: an element that comes is one more of age 1 and all others grow older by one;
the list loses its last only when the map is full, and then it has as many as the limit, since the map has no more
elements than the list has places (`Listed`). While none comes twice the list repeats nothing, so it and the map are of one
size (`Window`).

**Derivation.** Each stream is cut in two: what has been dealt with (`FromDone`, `ToDone`) and the rest, the element
at hand being the first of the rest (`Heads`). What has been dealt with of one stream is smaller than the rest of the
other (`Merged`), so an element at hand that is the smaller one is missing in the other stream, which is what its branch
takes for granted. Then the changes given out are those the dealt-with parts call for, all of them (`Complete`) and no
others (`Sound`); at the end nothing is left. `GivenInOrder` follows since all changes given out are of elements
before both rests (`Behind`).

**Files.** New ids are kept apart by `Numbered`: the numbers in the file are below the next ones, which
only go up, also when references draw numbers (`AfterType`, which needs that a sequence has finitely many
references). `OneChangeEach` needs `Noted`. Of the cleaner, `Remembered` says that an element with a change that is no delete
is not remembered as deleted. The other properties speak of all that has been read. What is left is the end of the
lists (`Rest`), so the places that have been read are those before the present one (`Past`); each step reads one more
(`ReadOne`), and what holds of the places read holds of all of them at the end. For the cleaner that is `Kept`; for
first changes `WrittenSoFar`, with `NotedRead`: only an element of which a change has been read is noted, so nothing
stands in the way of a first change. For references it is `Introduced`: what is new and has been read has got the id of a
created element; a reference, being read later by `NewComeFirst`, finds it (`RefsSoFar`). The cleaner, which drops
only deletes, keeps that order (`CleanerInOrder`).

`FileReachesTarget` joins the derivation and the file. If all providers together hold one difference, the lists to be
written have each of its changes once (`Covers`), cleaned or not, since the cleaner has kept all it has read (`KeptAll`).
Executing the file is a fold again, and what is written next executes last: of the file so far, the elements that it is
about are as the new map has them, under the names given (`Done`, `GivenNames`), and the others as the old map has them
(`Undone`), but for references to what was deleted, and those elements are modified or deleted later (`ResultIs`). At the
end every change has been read, so all that differs has been written.

### Only model-checked

- Liveness (`Terminates` of the upload, the reader and the conversion, `JobsSettle`, `WaitReturns`): TLAPS has no proof
  rules for fairness here.
- That a split or a calculation has an outcome: `HalvesAreSound` and `HintsAreSound` are about all outcomes there are.
- The upload outside `PlainUpload`: the run `delete` checks `KeepsContract` and `CleanupIsLast` where splits add users and
  something is deleted already.

## Not modelled

- Conflation, geometry, tags and schemas, formats, user interfaces: correctness is a matter of real-valued
  scores, shapes and texts. That is most of the repository's code; these models cover a small share of its
  lines, and by intent those where an interleaving or a failure decides.
- Sorting streams in files (`ExternalMergeElementSorter`).
- The database writers, the id reservation and the services' own OSM API: sequential code inside one
  transaction; isolation is the database's.
- Loading and repairing a changeset, and the error texts of the API: one thread, text.
- Within the modelled parts: what `PROJECT.json` names under each component, in short: permissions and
  statistics of the upload, a whole map written to OGR at once, the non-const use of the element cache,
  relations in relations in a changeset.

What would come next: a run of the upload for 5xx answers and for version conflicts under fairness, which are hazards
noted at OsmApiWriter.cpp:460 and 526 and break the promises above; the contract without `PlainUpload`'s first condition,
which needs to know that a split adds an element only before anybody else sends it; and the
XML reader of changesets between the file and the upload, so that derivation, file and upload are one system.
