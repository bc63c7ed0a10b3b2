---------------------------- MODULE BoundedRead ----------------------------
(***************************************************************************)
(* A read with a ParallelBoundedApiReader: the loop of OsmApiReader::read  *)
(* and OsmJsonReader::_readFromHttp, which takes the results while the     *)
(* threads bring them, and the destruction of the reader.                  *)
(***************************************************************************)
EXTENDS ParallelBoundedApiReader, SequencesExt

CONSTANT Reader    \* the class that reads: "OsmApiReader" or "OsmJsonReader"

ASSUME ReaderAssumption == Reader \in {"OsmApiReader", "OsmJsonReader"}

VARIABLES
    cpc,         \* where the caller is
    more,        \* hasMoreResults: the list was not empty
    seen,        \* isComplete, called by the caller: the envelopes it has read
    parsed       \* the boxes whose results the caller has taken

callerVars == <<cpc, more, seen, parsed>>
vars == <<sharedVars, threadVars, callerVars>>

Ends == {"returned", "threw"}
CallerPlaces == {"begin", "look", "envelopes", "results", "take", "error"} \cup Ends
                \cup {"refused", "join", "gone"}

TypeOK ==
    /\ ReaderTypeOK
    /\ cpc \in CallerPlaces
    /\ more \in BOOLEAN
    /\ seen \in Nat
    /\ parsed \in SUBSET Box

Init ==
    /\ ReaderInit
    /\ cpc = "begin"
    /\ more = FALSE
    /\ seen = 0
    /\ parsed = {}

-----------------------------------------------------------------------------
Begin ==
    /\ cpc = "begin"
    /\ cpc' = "look"
    /\ BeginRead
    /\ UNCHANGED <<more, seen, parsed>>

\* beginRead throws when the area is larger than may be asked for.
Refuse ==
    /\ cpc = "begin"
    /\ cpc' = "refused"
    /\ UNCHANGED <<more, seen, parsed, sharedVars, threadVars>>

\* A fault: both conditions are needed.
HasMoreIfBoth(m, e) == (m /\ ~SaysComplete(e)) /\ ~fatalError

\* A fault: an error does not end the loop.
HasMoreInSpite(m, e) == m \/ ~SaysComplete(e)

\* hasMoreResults, once it has looked at the list and at the envelopes.
HasMoreResults(m, e) == (m \/ ~SaysComplete(e)) /\ ~fatalError

\* hasMoreResults looks at the list, then calls isComplete, then tests for an error.
Look ==
    /\ cpc = "look"
    /\ more' = (resultsList # <<>>)
    /\ cpc' = "envelopes"
    /\ UNCHANGED <<seen, parsed, sharedVars, threadVars>>

LookAtEnvelopes ==
    /\ cpc = "envelopes"
    /\ seen' = totalEnvelopes
    /\ cpc' = "results"
    /\ UNCHANGED <<more, parsed, sharedVars, threadVars>>

LookAtResults ==
    /\ cpc = "results"
    /\ cpc' = IF HasMoreResults(more, seen) THEN "take" ELSE "error"
    /\ more' = FALSE
    /\ UNCHANGED <<seen, parsed, sharedVars, threadVars>>

\* getSingleResult; without a result the caller sleeps.
TakeResult ==
    /\ cpc = "take"
    /\ resultsList # <<>>
    /\ parsed' = parsed \cup {Head(resultsList)}
    /\ resultsList' = Tail(resultsList)
    /\ cpc' = "look"
    /\ UNCHANGED <<more, seen, threadVars, bboxes, totalEnvelopes, totalResults, fatalError,
                   continueRunning>>

CallerSleeps ==
    /\ cpc = "take"
    /\ resultsList = <<>>
    /\ cpc' = "look"
    /\ UNCHANGED <<more, seen, parsed, sharedVars, threadVars>>

\* OsmApiReader parses what it takes at once, and throws if it cannot.
ParseFails ==
    /\ cpc = "take"
    /\ Reader = "OsmApiReader"
    /\ resultsList # <<>>
    /\ resultsList' = Tail(resultsList)
    /\ cpc' = "threw"
    /\ UNCHANGED <<more, seen, parsed, threadVars, bboxes, totalEnvelopes, totalResults, fatalError,
                   continueRunning>>

\* After the loop only OsmApiReader asks whether there was an error.
ChecksError == Reader = "OsmApiReader"

EndRead ==
    /\ cpc = "error"
    /\ cpc' = IF ChecksError /\ fatalError THEN "threw" ELSE "returned"
    /\ UNCHANGED <<more, seen, parsed, sharedVars, threadVars>>

\* The destructor: stop() clears the flag and joins the threads.
Stop ==
    /\ cpc \in Ends
    /\ continueRunning' = FALSE
    /\ cpc' = "join"
    /\ UNCHANGED <<more, seen, parsed, threadVars, bboxes, totalEnvelopes, resultsList, totalResults,
                   fatalError>>

Join ==
    /\ cpc = "join"
    /\ \A t \in Thread : tpc[t] = "ended"
    /\ cpc' = "gone"
    /\ UNCHANGED <<more, seen, parsed, sharedVars, threadVars>>

Caller ==
    \/ Begin \/ Refuse
    \/ Look \/ LookAtEnvelopes \/ LookAtResults
    \/ TakeResult \/ CallerSleeps \/ ParseFails
    \/ EndRead \/ Stop \/ Join

\* Nothing is left to do.
Over ==
    /\ cpc \in {"refused", "gone"}
    /\ UNCHANGED vars

Next ==
    \/ Caller
    \/ \E t \in Thread : Process(t) /\ UNCHANGED callerVars
    \/ Over

Spec == Init /\ [][Next]_vars

Fairness ==
    /\ WF_vars(Caller)
    /\ \A t \in Thread : WF_vars(Process(t) /\ UNCHANGED callerVars)

FairSpec == Spec /\ Fairness

-----------------------------------------------------------------------------
Begun == cpc \notin {"begin", "refused"}
Asking == {t \in Thread : tpc[t] = "request"}
Running == {t \in Thread : tpc[t] # "ended"}

\* Unless a request has failed, each envelope is counted once: it is on the queue,
\* with a thread, or its result is in (ParallelBoundedApiReader.h:158 "should match
\* _totalEnvelopes at the end to ensure all data has arrived").
EnvelopesAdd ==
    fatalError \/ totalEnvelopes = totalResults + Len(bboxes) + Cardinality(Asking)

\* A thread may take stale counts for the end, but as long as boxes are queued or
\* asked for, and there is no error, some thread goes on: the last one is not misled.
SomeoneStays ==
    Begun /\ continueRunning /\ ~fatalError /\ Running = {} =>
      bboxes = <<>> /\ Asking = {} /\ totalResults = totalEnvelopes

\* The caller's loop ends without an error only on equal counts, so the only boxes it
\* can miss come from splits it has not seen, or from answers after it looked.
MissesOnlySplits ==
    cpc \in {"error", "returned"} /\ ~fatalError /\ seen = totalEnvelopes =>
      bboxes = <<>> /\ Asking = {}

\* A read ends, and its reader is destroyed, whatever the API answers.
Terminates == <>(cpc \in {"refused", "gone"})
=============================================================================
