---------------------- MODULE ParallelBoundedApiReader ----------------------
(***************************************************************************)
(* hoot::ParallelBoundedApiReader: threads ask an API for the data of the  *)
(* boxes of an area.  A box the API finds too large is cut into quarters   *)
(* that go back on the queue.  The reader is complete when it has counted  *)
(* as many results as envelopes; the two counts have a mutex each, so they *)
(* are read one after the other.                                           *)
(*                                                                         *)
(* This module has the shared state and the threads; BoundedRead adds the  *)
(* caller that takes the results.                                          *)
(***************************************************************************)
EXTENDS Integers, Sequences, FiniteSets

CONSTANTS
    Thread,      \* the threads that beginRead starts
    GridSize,    \* number of boxes the area is cut into at first
    MaxEnvelopes \* bound: how many boxes the API's refusals may lead to

ASSUME BoundedReaderAssumption ==
    /\ IsFiniteSet(Thread) /\ Thread # {}
    /\ GridSize \in Nat \ {0}
    /\ MaxEnvelopes \in Nat

VARIABLES
    bboxes,           \* _bboxes
    totalEnvelopes,   \* _totalEnvelopes
    resultsList,      \* _resultsList: the boxes whose answers wait to be taken
    totalResults,     \* _totalResults
    fatalError,       \* _fatalError
    continueRunning,  \* _continueRunning
    tpc,              \* where each thread is in _process
    envelopes,        \* isComplete's local: the number of envelopes a thread has read
    envelope          \* the box each thread asks for

sharedVars == <<bboxes, totalEnvelopes, resultsList, totalResults, fatalError, continueRunning>>
threadVars == <<tpc, envelopes, envelope>>

\* A box is named by its place in the grid and the quarters that lead to it.
Box == Seq(Nat)
NoBox == <<>>

Quarters(b) == [q \in 1..4 |-> Append(b, q)]
Grid == [i \in 1..GridSize |-> <<i>>]

Places == {"unborn", "envelopes", "results", "take", "request", "ended"}

ReaderTypeOK ==
    /\ bboxes \in Seq(Box)
    /\ totalEnvelopes \in Nat
    /\ resultsList \in Seq(Box)
    /\ totalResults \in Nat
    /\ fatalError \in BOOLEAN
    /\ continueRunning \in BOOLEAN
    /\ tpc \in [Thread -> Places]
    /\ envelopes \in [Thread -> Nat]
    /\ envelope \in [Thread -> Box]

ReaderInit ==
    /\ bboxes = <<>>
    /\ totalEnvelopes = 0
    /\ resultsList = <<>>
    /\ totalResults = 0
    /\ fatalError = FALSE
    /\ continueRunning = TRUE
    /\ tpc = [t \in Thread |-> "unborn"]
    /\ envelopes = [t \in Thread |-> 0]
    /\ envelope = [t \in Thread |-> NoBox]

\* A fault: one result short.
SaysCompleteEarly(seen) == seen <= totalResults + 1 /\ totalResults > 0

\* isComplete, once both counts have been read.
SaysComplete(seen) == seen = totalResults /\ totalResults > 0

\* A fault: one too few.
GainTwo == 2

\* How many envelopes are added when 1 turns into 4.
Gain == 3

-----------------------------------------------------------------------------
\* The area is queued as a grid of boxes and the threads are started.
BeginRead ==
    /\ totalEnvelopes' = GridSize
    /\ bboxes' = bboxes \o Grid
    /\ tpc' = [t \in Thread |-> "envelopes"]
    /\ UNCHANGED <<resultsList, totalResults, fatalError, continueRunning, envelopes, envelope>>

\* _process: the head of the loop, isComplete's first half.
ReadEnvelopes(t) ==
    /\ tpc[t] = "envelopes"
    /\ envelopes' = [envelopes EXCEPT ![t] = totalEnvelopes]
    /\ tpc' = [tpc EXCEPT ![t] = "results"]
    /\ UNCHANGED <<envelope, sharedVars>>

\* isComplete's second half, and the two flags.
ReadResults(t) ==
    /\ tpc[t] = "results"
    /\ tpc' = [tpc EXCEPT ![t] =
                 IF ~SaysComplete(envelopes[t]) /\ continueRunning /\ ~fatalError
                 THEN "take" ELSE "ended"]
    /\ envelopes' = [envelopes EXCEPT ![t] = 0]
    /\ UNCHANGED <<envelope, sharedVars>>

\* The next box; without one the thread sleeps and starts over.
TakeBox(t) ==
    /\ tpc[t] = "take"
    /\ bboxes # <<>>
    /\ envelope' = [envelope EXCEPT ![t] = Head(bboxes)]
    /\ bboxes' = Tail(bboxes)
    /\ tpc' = [tpc EXCEPT ![t] = "request"]
    /\ UNCHANGED <<envelopes, totalEnvelopes, resultsList, totalResults, fatalError, continueRunning>>

Sleep(t) ==
    /\ tpc[t] = "take"
    /\ bboxes = <<>>
    /\ tpc' = [tpc EXCEPT ![t] = "envelopes"]
    /\ UNCHANGED <<envelopes, envelope, sharedVars>>

\* The request ends by an answer or a timeout; the thread goes back to its loop.
Answered(t) ==
    /\ tpc[t] = "request"
    /\ tpc' = [tpc EXCEPT ![t] = "envelopes"]
    /\ envelope' = [envelope EXCEPT ![t] = NoBox]
    /\ UNCHANGED <<envelopes, continueRunning>>

StoreResult(t) ==
    /\ Answered(t)
    /\ resultsList' = Append(resultsList, envelope[t])
    /\ totalResults' = totalResults + 1
    /\ UNCHANGED <<bboxes, totalEnvelopes, fatalError>>

\* 400: the box has too much data.
SplitBox(t) ==
    /\ Answered(t)
    /\ totalEnvelopes + Gain <= MaxEnvelopes
    /\ bboxes' = bboxes \o Quarters(envelope[t])
    /\ totalEnvelopes' = totalEnvelopes + Gain
    /\ UNCHANGED <<resultsList, totalResults, fatalError>>

\* 509, or anything else that is not expected.
FailFatally(t) ==
    /\ Answered(t)
    /\ fatalError' = TRUE
    /\ UNCHANGED <<bboxes, totalEnvelopes, resultsList, totalResults>>

Process(t) ==
    \/ ReadEnvelopes(t)
    \/ ReadResults(t)
    \/ TakeBox(t)
    \/ Sleep(t)
    \/ StoreResult(t)
    \/ SplitBox(t)
    \/ FailFatally(t)
=============================================================================
