------------------------ MODULE BoundedRead_proofs ------------------------
(***************************************************************************)
(* Proofs about BoundedRead: its types, the envelopes add up, and some     *)
(* thread stays as long as there is work, for any number of threads, boxes *)
(* and splits, although each thread may be misled by the two counts.       *)
(***************************************************************************)
EXTENDS BoundedRead, FiniteSetTheorems, TLAPS

\* A thread that is running and, if it compares the counts next, does so with the
\* present number of envelopes.
NotMisled(t) == t \in Running /\ (tpc[t] = "results" => envelopes[t] = totalEnvelopes)

NoWork == bboxes = <<>> /\ Asking = {} /\ totalResults = totalEnvelopes

\* SomeoneStays, made inductive: someone is not misled, or all is done.
SomeoneKnows ==
    Begun /\ continueRunning /\ ~fatalError => NoWork \/ \E t \in Thread : NotMisled(t)

\* Before the read begins there are no envelopes and no thread runs.
QuietBefore ==
    ~Begun => /\ bboxes = <<>> /\ totalEnvelopes = 0 /\ totalResults = 0
              /\ tpc = [t \in Thread |-> "unborn"]

IInv == TypeOK /\ QuietBefore /\ EnvelopesAdd /\ SomeoneKnows

-----------------------------------------------------------------------------
USE BoundedReaderAssumption

LEMMA GridIsBoxes == Grid \in Seq(Box) /\ Len(Grid) = GridSize
<1>1. \A i \in 1..GridSize : <<i>> \in Seq(Nat)
  OBVIOUS
<1> QED BY <1>1 DEF Grid, Box

LEMMA QuartersAreBoxes ==
  ASSUME NEW b \in Box
  PROVE  Quarters(b) \in Seq(Box) /\ Len(Quarters(b)) = 4
<1>1. \A q \in 1..4 : Append(b, q) \in Seq(Nat)
  BY DEF Box
<1> QED BY <1>1 DEF Quarters, Box

LEMMA ConcatLength ==
  ASSUME NEW S, NEW s \in Seq(S), NEW u \in Seq(S)
  PROVE  Len(s \o u) = Len(s) + Len(u)
OBVIOUS

\* A step of a thread keeps the types.
LEMMA ThreadTypes ==
  ASSUME ReaderTypeOK, NEW t \in Thread, Process(t)
  PROVE  ReaderTypeOK'
<1> USE DEF ReaderTypeOK, Places
<1>1. NoBox \in Box
  BY DEF NoBox, Box
<1>2. CASE ReadEnvelopes(t)
  BY <1>2 DEF ReadEnvelopes, sharedVars
<1>3. CASE ReadResults(t)
  BY <1>3 DEF ReadResults, sharedVars
<1>4. CASE TakeBox(t)
  <2>1. Head(bboxes) \in Box /\ Tail(bboxes) \in Seq(Box)
    BY <1>4 DEF TakeBox
  <2> QED BY <1>4, <2>1 DEF TakeBox
<1>5. CASE Sleep(t)
  BY <1>5 DEF Sleep, sharedVars
<1>6. CASE StoreResult(t)
  BY <1>6, <1>1 DEF StoreResult, Answered
<1>7. CASE SplitBox(t)
  <2>1. Quarters(envelope[t]) \in Seq(Box)
    BY QuartersAreBoxes
  <2> QED BY <1>7, <1>1, <2>1 DEF SplitBox, Answered, Gain
<1>8. CASE FailFatally(t)
  BY <1>8, <1>1 DEF FailFatally, Answered
<1> QED BY <1>2, <1>3, <1>4, <1>5, <1>6, <1>7, <1>8 DEF Process

LEMMA InitTypes ==
  ASSUME Init
  PROVE  TypeOK
<1>1. NoBox \in Box
  BY DEF NoBox, Box
<1>2. tpc \in [Thread -> Places] /\ envelopes \in [Thread -> Nat]
  BY DEF Init, ReaderInit, Places
<1>3. envelope \in [Thread -> Box]
  BY <1>1 DEF Init, ReaderInit
<1>4. bboxes \in Seq(Box) /\ resultsList \in Seq(Box)
  BY DEF Init, ReaderInit
<1>5. totalEnvelopes \in Nat /\ totalResults \in Nat /\ fatalError \in BOOLEAN
      /\ continueRunning \in BOOLEAN
  BY DEF Init, ReaderInit
<1>6. cpc \in CallerPlaces /\ more \in BOOLEAN /\ seen \in Nat /\ parsed \in SUBSET Box
  BY DEF Init, CallerPlaces
<1> QED BY <1>2, <1>3, <1>4, <1>5, <1>6 DEF TypeOK, ReaderTypeOK

\* A step of the caller keeps the types.
LEMMA CallerTypes ==
  ASSUME TypeOK, Caller
  PROVE  TypeOK'
<1> USE DEF TypeOK, ReaderTypeOK, CallerPlaces, Ends
<1>1. CASE Begin
  <2>1. Grid \in Seq(Box)
    BY GridIsBoxes
  <2> QED BY <1>1, <2>1 DEF Begin, BeginRead, Places
<1>2. CASE TakeResult
  <2>1. Head(resultsList) \in Box /\ Tail(resultsList) \in Seq(Box)
    BY <1>2 DEF TakeResult
  <2> QED BY <1>2, <2>1 DEF TakeResult, threadVars
<1>3. CASE ParseFails
  <2>1. Tail(resultsList) \in Seq(Box)
    BY <1>3 DEF ParseFails
  <2> QED BY <1>3, <2>1 DEF ParseFails, threadVars
<1>4. CASE Stop
  BY <1>4 DEF Stop, threadVars
<1>5. CASE LookAtEnvelopes
  BY <1>5 DEF LookAtEnvelopes, sharedVars, threadVars
<1>6. CASE LookAtResults
  BY <1>6 DEF LookAtResults, sharedVars, threadVars
<1>7. CASE Refuse \/ Look \/ CallerSleeps \/ EndRead \/ Join
  BY <1>7 DEF Refuse, Look, CallerSleeps, EndRead, Join, sharedVars, threadVars
<1> QED BY <1>1, <1>2, <1>3, <1>4, <1>5, <1>6, <1>7 DEF Caller

LEMMA NextTypes == TypeOK /\ [Next]_vars => TypeOK'
<1> SUFFICES ASSUME TypeOK, [Next]_vars PROVE TypeOK'
  OBVIOUS
<1>1. CASE Caller
  BY <1>1, CallerTypes
<1>2. ASSUME NEW t \in Thread, Process(t) /\ UNCHANGED callerVars PROVE TypeOK'
  BY <1>2, ThreadTypes DEF TypeOK, callerVars
<1>3. CASE UNCHANGED vars
  BY <1>3 DEF vars, sharedVars, threadVars, callerVars, TypeOK, ReaderTypeOK
<1> QED BY <1>1, <1>2, <1>3 DEF Next, Over

\* Every variable of a read keeps its type: the boxes queued, asked for and answered
\* are boxes, and both counts are natural numbers.
THEOREM TypeCorrect == Spec => []TypeOK
<1>1. TypeOK /\ [Next]_vars => TypeOK'
  BY NextTypes
<1> QED BY <1>1, InitTypes, PTL DEF Spec

-----------------------------------------------------------------------------
\* What the threads ask for, counted.
LEMMA AskingFinite == IsFiniteSet(Asking) /\ Cardinality(Asking) \in Nat
<1>1. Asking \in SUBSET Thread
  BY DEF Asking
<1> QED BY <1>1, FS_Subset, FS_CardinalityType

LEMMA TakesOne ==
  ASSUME TypeOK, NEW t \in Thread, TakeBox(t)
  PROVE  Cardinality(Asking') = Cardinality(Asking) + 1
<1>1. Asking' = Asking \cup {t} /\ t \notin Asking
  BY DEF TakeBox, Asking, TypeOK, ReaderTypeOK
<1> QED BY <1>1, AskingFinite, FS_AddElement

LEMMA AnswersOne ==
  ASSUME TypeOK, NEW t \in Thread, Answered(t)
  PROVE  Cardinality(Asking') = Cardinality(Asking) - 1
<1>1. Asking' = Asking \ {t} /\ t \in Asking
  BY DEF Answered, Asking, TypeOK, ReaderTypeOK
<1> QED BY <1>1, AskingFinite, FS_RemoveElement

LEMMA NoneAsking == Cardinality(Asking) = 0 => Asking = {}
BY AskingFinite, FS_EmptySet

LEMMA InitIInv ==
  ASSUME Init
  PROVE  IInv
<1>1. TypeOK
  BY InitTypes
<1>2. Asking = {}
  BY DEF Asking, Init, ReaderInit
<1>3. EnvelopesAdd
  BY <1>2, FS_EmptySet DEF EnvelopesAdd, Init, ReaderInit
<1> QED BY <1>1, <1>3 DEF IInv, QuietBefore, SomeoneKnows, Begun, Init, ReaderInit

\* A step of a thread keeps the sum, and leaves somebody who knows, or no work.
LEMMA ThreadStep ==
  ASSUME IInv, NEW t \in Thread, Process(t), UNCHANGED callerVars
  PROVE  QuietBefore' /\ EnvelopesAdd' /\ SomeoneKnows'
<1> USE DEF IInv, TypeOK, ReaderTypeOK
<1>1. Begun /\ Begun'
  BY DEF QuietBefore, Begun, callerVars, Process, ReadEnvelopes, ReadResults, TakeBox, Sleep,
         StoreResult, SplitBox, FailFatally, Answered
<1>2. QuietBefore'
  BY <1>1 DEF QuietBefore
<1>3. Cardinality(Asking) \in Nat
  BY AskingFinite
<1>4. ASSUME NEW u \in Thread, u # t, NotMisled(u),
             tpc'[u] = tpc[u], envelopes'[u] = envelopes[u], totalEnvelopes' = totalEnvelopes
      PROVE  NotMisled(u)'
  BY <1>4 DEF NotMisled, Running
<1>5. CASE ReadEnvelopes(t)
  <2>1. NotMisled(t)'
    BY <1>5 DEF ReadEnvelopes, NotMisled, Running, sharedVars
  <2>2. Asking' = Asking
    BY <1>5 DEF ReadEnvelopes, Asking
  <2> QED BY <1>2, <1>5, <2>1, <2>2 DEF SomeoneKnows, EnvelopesAdd, ReadEnvelopes, sharedVars
<1>6. CASE ReadResults(t)
  <2>1. Asking' = Asking
    BY <1>6 DEF ReadResults, Asking
  <2>2. EnvelopesAdd'
    BY <1>6, <2>1 DEF EnvelopesAdd, ReadResults, sharedVars
  <2>3. ASSUME NoWork PROVE NoWork'
    BY <1>6, <2>1, <2>3 DEF NoWork, ReadResults, sharedVars
  <2>4. ASSUME NEW u \in Thread, u # t, NotMisled(u) PROVE NotMisled(u)'
    BY <1>4, <1>6, <2>4 DEF ReadResults, sharedVars
  <2>5. ASSUME NotMisled(t), continueRunning, ~fatalError PROVE NoWork' \/ NotMisled(t)'
    <3>1. CASE SaysComplete(envelopes[t])
      <4>1. totalResults = totalEnvelopes
        BY <1>6, <2>5, <3>1 DEF NotMisled, SaysComplete, ReadResults
      <4>2. Len(bboxes) = 0 /\ Cardinality(Asking) = 0
        BY <1>3, <2>5, <4>1 DEF EnvelopesAdd
      <4>3. NoWork
        BY <4>1, <4>2, NoneAsking DEF NoWork
      <4> QED BY <4>3, <2>3
    <3>2. CASE ~SaysComplete(envelopes[t])
      BY <1>6, <2>5, <3>2 DEF NotMisled, Running, ReadResults
    <3> QED BY <3>1, <3>2
  <2>6. SomeoneKnows'
    <3> SUFFICES ASSUME continueRunning, ~fatalError
                 PROVE  NoWork' \/ \E u \in Thread : NotMisled(u)'
      BY <1>6 DEF SomeoneKnows, ReadResults, sharedVars
    <3>1. NoWork \/ \E u \in Thread : NotMisled(u)
      BY <1>1 DEF SomeoneKnows
    <3> QED BY <3>1, <2>3, <2>4, <2>5
  <2> QED BY <1>2, <2>2, <2>6
<1>7. CASE TakeBox(t)
  <2>1. Len(bboxes) \in Nat /\ Len(bboxes') = Len(bboxes) - 1
    BY <1>7 DEF TakeBox
  <2>2. Cardinality(Asking') = Cardinality(Asking) + 1
    BY <1>7, TakesOne
  <2>3. UNCHANGED <<totalEnvelopes, totalResults, fatalError>>
    BY <1>7 DEF TakeBox
  <2>4. EnvelopesAdd'
    BY <1>3, <2>1, <2>2, <2>3 DEF EnvelopesAdd
  <2>5. NotMisled(t)'
    BY <1>7 DEF TakeBox, NotMisled, Running
  <2> QED BY <1>2, <2>4, <2>5 DEF SomeoneKnows
<1>8. CASE Sleep(t)
  <2>1. NotMisled(t)'
    BY <1>8 DEF Sleep, NotMisled, Running
  <2>2. Asking' = Asking
    BY <1>8 DEF Sleep, Asking
  <2> QED BY <1>2, <1>8, <2>1, <2>2 DEF SomeoneKnows, EnvelopesAdd, Sleep, sharedVars
<1>9. CASE StoreResult(t)
  <2>1. EnvelopesAdd'
    BY <1>3, <1>9, AnswersOne DEF EnvelopesAdd, StoreResult
  <2>2. NotMisled(t)'
    BY <1>9 DEF StoreResult, Answered, NotMisled, Running
  <2> QED BY <1>2, <2>1, <2>2 DEF SomeoneKnows
<1>10. CASE SplitBox(t)
  <2>1. Len(bboxes \o Quarters(envelope[t])) = Len(bboxes) + 4
    <3>1. envelope[t] \in Box /\ bboxes \in Seq(Box)
      OBVIOUS
    <3>2. Quarters(envelope[t]) \in Seq(Box) /\ Len(Quarters(envelope[t])) = 4
      BY <3>1, QuartersAreBoxes
    <3> QED BY <3>1, <3>2, ConcatLength
  <2>2. EnvelopesAdd'
    BY <1>3, <1>10, <2>1, AnswersOne DEF EnvelopesAdd, SplitBox, Gain
  <2>3. NotMisled(t)'
    BY <1>10 DEF SplitBox, Answered, NotMisled, Running
  <2> QED BY <1>2, <2>2, <2>3 DEF SomeoneKnows
<1>11. CASE FailFatally(t)
  BY <1>2, <1>11 DEF FailFatally, EnvelopesAdd, SomeoneKnows
<1> QED BY <1>5, <1>6, <1>7, <1>8, <1>9, <1>10, <1>11 DEF Process

\* What the caller leaves alone when it only looks, takes results or waits.
LEMMA CallerLeaves ==
  ASSUME IInv, cpc # "begin", Begun, Begun', UNCHANGED <<threadVars, bboxes, totalEnvelopes, totalResults, fatalError>>,
         continueRunning' => continueRunning
  PROVE  QuietBefore' /\ EnvelopesAdd' /\ SomeoneKnows'
<1>1. Asking' = Asking /\ Running' = Running
  BY DEF Asking, Running, threadVars
<1>2. \A t \in Thread : NotMisled(t) => NotMisled(t)'
  BY <1>1 DEF NotMisled, threadVars
<1>3. NoWork => NoWork'
  BY <1>1 DEF NoWork
<1> QED BY <1>1, <1>2, <1>3 DEF IInv, QuietBefore, EnvelopesAdd, SomeoneKnows

LEMMA CallerStep ==
  ASSUME IInv, Caller
  PROVE  QuietBefore' /\ EnvelopesAdd' /\ SomeoneKnows'
<1>1. CASE Begin
  <2>1. tpc' = [t \in Thread |-> "envelopes"] /\ totalEnvelopes' = GridSize
        /\ bboxes = <<>> /\ bboxes' = bboxes \o Grid /\ totalResults' = 0 /\ cpc' = "look"
    BY <1>1 DEF Begin, BeginRead, IInv, QuietBefore, Begun
  <2>2. Asking' = {}
    BY <2>1 DEF Asking
  <2>3. Len(bboxes') = GridSize
    BY <2>1, GridIsBoxes
  <2>4. EnvelopesAdd'
    BY <2>1, <2>2, <2>3, FS_EmptySet DEF EnvelopesAdd
  <2>5. \A t \in Thread : NotMisled(t)'
    BY <2>1 DEF NotMisled, Running
  <2>6. QuietBefore'
    BY <2>1 DEF QuietBefore, Begun
  <2> QED BY <2>4, <2>5, <2>6 DEF SomeoneKnows
<1>2. CASE Refuse
  <2>1. Asking' = Asking /\ cpc' = "refused"
    BY <1>2 DEF Refuse, Asking, threadVars
  <2> QED BY <1>2, <2>1 DEF Refuse, IInv, QuietBefore, EnvelopesAdd, SomeoneKnows, Begun, threadVars,
             sharedVars
<1>3. CASE Look \/ LookAtEnvelopes \/ LookAtResults \/ TakeResult \/ CallerSleeps \/ ParseFails
            \/ EndRead \/ Stop \/ Join
  <2>1. cpc # "begin" /\ Begun /\ Begun'
    BY <1>3 DEF Look, LookAtEnvelopes, LookAtResults, TakeResult, CallerSleeps, ParseFails, EndRead,
                Stop, Join, Begun, Ends
  <2>2. UNCHANGED <<threadVars, bboxes, totalEnvelopes, totalResults, fatalError>>
        /\ (continueRunning' => continueRunning)
    BY <1>3 DEF Look, LookAtEnvelopes, LookAtResults, TakeResult, CallerSleeps, ParseFails, EndRead,
                Stop, Join, sharedVars
  <2> QED BY <2>1, <2>2, CallerLeaves
<1> QED BY <1>1, <1>2, <1>3 DEF Caller

LEMMA NextIInv == IInv /\ [Next]_vars => IInv'
<1> SUFFICES ASSUME IInv, [Next]_vars PROVE IInv'
  OBVIOUS
<1>1. TypeOK'
  BY NextTypes DEF IInv
<1>2. CASE Caller
  BY <1>1, <1>2, CallerStep DEF IInv
<1>3. ASSUME NEW t \in Thread, Process(t) /\ UNCHANGED callerVars PROVE IInv'
  BY <1>1, <1>3, ThreadStep DEF IInv
<1>4. CASE UNCHANGED vars
  <2>1. Asking' = Asking /\ Running' = Running /\ Begun' = Begun /\ NoWork' = NoWork
    BY <1>4 DEF Asking, Running, Begun, NoWork, vars, sharedVars, threadVars, callerVars
  <2>2. \A t \in Thread : NotMisled(t)' = NotMisled(t)
    BY <1>4, <2>1 DEF NotMisled, vars, sharedVars, threadVars
  <2> QED BY <1>1, <1>4, <2>1, <2>2 DEF IInv, QuietBefore, EnvelopesAdd, SomeoneKnows, vars,
             sharedVars, threadVars, callerVars
<1> QED BY <1>2, <1>3, <1>4 DEF Next, Over

\* Unless a request fails, each envelope is on the queue, with a thread or among the
\* results, so equal counts that were read at the same moment would mean the end.
THEOREM EnvelopesAddUp == Spec => []EnvelopesAdd
<1>1. IInv => EnvelopesAdd
  BY DEF IInv
<1> QED BY <1>1, InitIInv, NextIInv, PTL DEF Spec

\* However the threads are misled by the two counts, they do not all leave while there
\* is a box to ask for: no area is abandoned and the caller is not left waiting.
THEOREM SomeoneAlwaysStays == Spec => []SomeoneStays
<1>1. IInv => SomeoneStays
  BY DEF IInv, SomeoneKnows, SomeoneStays, NotMisled, NoWork
<1> QED BY <1>1, InitIInv, NextIInv, PTL DEF Spec

-----------------------------------------------------------------------------
\* A caller whose loop has ended without an error has seen equal counts, and results
\* are never uncounted.
Counted == cpc \in {"error", "returned"} /\ ~fatalError => seen <= totalResults

\* A step of a thread leaves the results counted, and an error stays one.
LEMMA ResultsGrow ==
  ASSUME TypeOK, NEW t \in Thread, Process(t)
  PROVE  totalResults <= totalResults' /\ (fatalError => fatalError')
<1> USE DEF TypeOK, ReaderTypeOK
<1>1. CASE StoreResult(t)
  BY <1>1 DEF StoreResult
<1>2. CASE ReadEnvelopes(t) \/ ReadResults(t) \/ TakeBox(t) \/ Sleep(t) \/ SplitBox(t)
           \/ FailFatally(t)
  BY <1>2 DEF ReadEnvelopes, ReadResults, TakeBox, Sleep, SplitBox, FailFatally, sharedVars
<1> QED BY <1>1, <1>2 DEF Process

LEMMA NextCounted == TypeOK /\ Counted /\ [Next]_vars => Counted'
<1> SUFFICES ASSUME TypeOK, Counted, [Next]_vars PROVE Counted'
  OBVIOUS
<1>1. CASE LookAtResults
  BY <1>1 DEF LookAtResults, Counted, HasMoreResults, SaysComplete, sharedVars, TypeOK, ReaderTypeOK
<1>2. CASE EndRead
  BY <1>2 DEF EndRead, Counted, sharedVars
<1>3. CASE Begin \/ Refuse \/ Look \/ LookAtEnvelopes \/ TakeResult \/ CallerSleeps
           \/ ParseFails \/ Stop \/ Join
  BY <1>3 DEF Begin, Refuse, Look, LookAtEnvelopes, TakeResult, CallerSleeps, ParseFails, Stop, Join,
              Counted
<1>4. ASSUME NEW t \in Thread, Process(t), UNCHANGED callerVars PROVE Counted'
  <2>1. totalResults <= totalResults' /\ (fatalError => fatalError')
    BY <1>4, ResultsGrow
  <2>2. totalResults \in Nat /\ totalResults' \in Nat /\ seen \in Nat
    BY <1>4, ThreadTypes DEF TypeOK, ReaderTypeOK
  <2> QED BY <1>4, <2>1, <2>2 DEF Counted, callerVars
<1>5. CASE UNCHANGED vars
  BY <1>5 DEF Counted, vars, sharedVars, callerVars
<1> QED BY <1>1, <1>2, <1>3, <1>4, <1>5 DEF Next, Caller, Over

\* A caller that has stopped without an error, on the present number of envelopes, has
\* left no box behind: what it misses has been split since it looked, or answered.
THEOREM OnlySplitsMissed == Spec => []MissesOnlySplits
<1>1. Init => Counted
  BY DEF Init, Counted
<1>2. TypeOK /\ EnvelopesAdd /\ Counted => MissesOnlySplits
  <2> SUFFICES ASSUME TypeOK, EnvelopesAdd, Counted,
                      cpc \in {"error", "returned"}, ~fatalError, seen = totalEnvelopes
               PROVE  bboxes = <<>> /\ Asking = {}
    BY DEF MissesOnlySplits
  <2>1. Cardinality(Asking) \in Nat /\ Len(bboxes) \in Nat
    BY AskingFinite DEF TypeOK, ReaderTypeOK
  <2>2. totalEnvelopes = totalResults + Len(bboxes) + Cardinality(Asking)
        /\ totalEnvelopes <= totalResults
    BY DEF EnvelopesAdd, Counted
  <2>3. totalEnvelopes \in Nat /\ totalResults \in Nat
    BY DEF TypeOK, ReaderTypeOK
  <2>4. Len(bboxes) = 0 /\ Cardinality(Asking) = 0
    BY <2>1, <2>2, <2>3
  <2> QED BY <2>4, AskingFinite, FS_EmptySet DEF TypeOK, ReaderTypeOK
<1> QED BY <1>1, <1>2, NextCounted, TypeCorrect, EnvelopesAddUp, PTL DEF Spec
=============================================================================
