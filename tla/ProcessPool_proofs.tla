------------------------- MODULE ProcessPool_proofs -------------------------
(***************************************************************************)
(* Proofs about ProcessPool: type correctness, that a test is in one       *)
(* place, that serial tests are run by the first thread only, what the     *)
(* pool counts as failed, and what it leaves behind.                       *)
(***************************************************************************)
EXTENDS ProcessPool, SequenceTheorems, FiniteSetTheorems, TLAPS

Held == {"read", "drain"}

\* What a thread holds and where it is: a thread that reads has a test, of the queue
\* it works on, and only such a thread has a child that tests.
Hands ==
    \A t \in Thread :
      /\ tpc[t] \in Held => test[t] \in Test
      /\ tpc[t] \notin Held => test[t] = NoTest
      /\ child[t] = "testing" => tpc[t] \in Held
      /\ tpc[t] \in Held => queue[t] = QueueOf(test[t])
      /\ queue[t] = "serial" => t = FirstThread

\* The end of a test is the last that its child writes, and is read before the next
\* test is begun.
Heard ==
    \A t \in Thread :
      /\ tpc[t] \in {"unborn", "look", "pop"} => output[t] = <<>>
      /\ \A i \in 1..Len(output[t]) :
           output[t][i] = "finished" => i = Len(output[t]) /\ child[t] # "testing"

\* A thread leaves its queue before it has lost MAX_RESTART children there.
Restarts == \A t \in Thread : restartCount[t] < MaxRestart

\* The queues are filled before the threads start.
Begun == \A t \in Thread : mpc \in {"add", "start"} => tpc[t] = "unborn"
Empty == mpc = "add" => Done = {} /\ \A q \in Queue : jobs[q] = {}

IInv == TypeOK /\ Restarts /\ Hands /\ Heard /\ Begun /\ Empty /\ OnePlace

-----------------------------------------------------------------------------
\* No test is called NoTest.
LEMMA NoTestIsNone == NoTest \notin Test
  BY PoolAssumption, SMT DEF NoTest

\* The pool starts in the invariant.
LEMMA InitIInv == Init => IInv
  <1> SUFFICES ASSUME Init PROVE IInv
    OBVIOUS
  <1>1. TypeOK
    BY PoolAssumption, SMT DEF Init, TypeOK, Queue, NoTest
  <1>2. Restarts
    BY PoolAssumption, SMT DEF Init, Restarts
  <1>3. Hands
    BY SMT DEF Init, Hands, Held, NoTest
  <1>4. Begun /\ Empty /\ Heard
    BY SMT DEF Init, Begun, Empty, Heard, Done
  <1>5. OnePlace
    BY SMT DEF Init, OnePlace, OnQueue, Queue
  <1> QED
    BY <1>1, <1>2, <1>3, <1>4, <1>5 DEF IInv

-----------------------------------------------------------------------------
\* What a child writes is a sequence of lines.
LEMMA NoLines == <<>> \in Seq(Line)
  BY SMT

LEMMA TailLines ==
    ASSUME NEW s \in Seq(Line), s # <<>>
    PROVE  Tail(s) \in Seq(Line)
  BY SMT

LEMMA AppendLines ==
    ASSUME NEW s \in Seq(Line), NEW l \in Line
    PROVE  Append(s, l) \in Seq(Line)
  BY SMT

\* Leaving a queue keeps the types of what it changes.
LEMMA LeaveTypes ==
    ASSUME TypeOK, NEW t \in Thread, LeaveQueue(t)
    PROVE  /\ child' \in [Thread -> {"idle", "testing", "dead"}]
           /\ output' \in [Thread -> Seq(Line)]
           /\ queue' \in [Thread -> Queue]
           /\ restartCount' \in [Thread -> 0..MaxRestart]
           /\ tpc' \in [Thread -> {"unborn", "look", "pop", "read", "drain", "ended"}]
  <1>t. /\ child \in [Thread -> {"idle", "testing", "dead"}]
        /\ output \in [Thread -> Seq(Line)]
        /\ queue \in [Thread -> Queue]
        /\ restartCount \in [Thread -> 0..MaxRestart]
        /\ tpc \in [Thread -> {"unborn", "look", "pop", "read", "drain", "ended"}]
    BY DEF TypeOK
  <1>1. CASE queue[t] = "serial"
    <2>1. /\ child' = [child EXCEPT ![t] = "idle"]
          /\ output' = [output EXCEPT ![t] = <<>>]
          /\ queue' = [queue EXCEPT ![t] = "parallel"]
          /\ restartCount' = [restartCount EXCEPT ![t] = 0]
          /\ tpc' = [tpc EXCEPT ![t] = "look"]
      BY <1>1 DEF LeaveQueue, NewChild
    <2> QED
      BY <1>t, <2>1, NoLines, PoolAssumption, SMT DEF Queue
  <1>2. CASE queue[t] # "serial"
    <2>1. /\ tpc' = [tpc EXCEPT ![t] = "ended"]
          /\ UNCHANGED <<child, output, queue, restartCount>>
      BY <1>2 DEF LeaveQueue
    <2> QED
      BY <1>t, <2>1, SMT
  <1> QED
    BY <1>1, <1>2

\* Every step keeps the types.
LEMMA TypeStep == IInv /\ [Next]_vars => TypeOK'
  <1> SUFFICES ASSUME IInv, [Next]_vars PROVE TypeOK'
    OBVIOUS
  <1> USE DEF TypeOK, Queue
  <1>t. TypeOK /\ Restarts /\ Hands
    BY DEF IInv
  <1>1. CASE AddJobs
    <2>1. jobs' \in [Queue -> SUBSET Test]
      <3>1. jobs' = [q \in Queue |-> IF q = "serial" THEN SerialTests ELSE Test \ SerialTests]
        BY <1>1, SMT DEF AddJobs, Added
      <3>2. SerialTests \in SUBSET Test /\ Test \ SerialTests \in SUBSET Test
        BY PoolAssumption
      <3> QED
        BY <3>1, <3>2
    <2> QED
      BY <1>t, <1>1, <2>1, SMT DEF AddJobs, threadVars, childVars
  <1>2. CASE StartProcessing
    BY <1>t, <1>2, SMT DEF StartProcessing, childVars
  <1>3. CASE Wait
    BY <1>t, <1>3, SMT DEF Wait, threadVars, childVars
  <1>4. ASSUME NEW t \in Thread, Work(t) PROVE TypeOK'
    <2>1. CASE FindJobs(t)
      BY <1>t, <2>1, SMT DEF FindJobs, mainVars, childVars
    <2>2. CASE FindNone(t)
      <3>1. LeaveQueue(t)
        BY <2>2 DEF FindNone
      <3> QED
        BY <1>t, <2>2, <3>1, LeaveTypes, SMT DEF FindNone, mainVars
    <2>3. CASE PopJob(t)
      BY <1>t, <2>3, SMTT(30) DEF PopJob, PopTest, mainVars
    <2>4. CASE PopNothing(t)
      BY <1>t, <2>4, SMT DEF PopNothing, mainVars, childVars
    <2>5. CASE ReadNothing(t)
      BY <1>t, <2>5, SMT DEF ReadNothing, vars, mainVars, threadVars, childVars
    <2>6. CASE ReadFinished(t)
      BY <1>t, <2>6, TailLines, SMTT(30) DEF ReadFinished, Reads, EndTest, mainVars, Hands, Held
    <2>7. CASE ReadFailure(t)
      <3>1. output' \in [Thread -> Seq(Line)]
        <4>1. Tail(output[t]) \in Seq(Line)
          BY <1>t, <2>7, TailLines DEF ReadFailure, Reads
        <4>2. output' = [output EXCEPT ![t] = Tail(output[t])]
          BY <2>7 DEF ReadFailure
        <4> QED
          BY <1>t, <4>1, <4>2, SMT
      <3>2. /\ failures' \in [Thread -> Nat]
            /\ tpc' \in [Thread -> {"unborn", "look", "pop", "read", "drain", "ended"}]
        <4>1. CASE retries
          <5>1. /\ failures' = [failures EXCEPT ![t] = @ + 1]
                /\ tpc' = [tpc EXCEPT ![t] = "drain"]
            BY <2>7, <4>1 DEF ReadFailure
          <5> QED
            BY <1>t, <5>1, SMT
        <4>2. CASE ~retries
          BY <1>t, <2>7, <4>2 DEF ReadFailure
        <4> QED
          BY <4>1, <4>2
      <3> QED
        BY <1>t, <2>7, <3>1, <3>2, SMT DEF ReadFailure, mainVars
    <2>8. CASE Drain(t)
      BY <1>t, <2>8, NoLines, SMTT(30) DEF Drain, EndTest, NewChild, mainVars, Hands, Held
    <2>9. CASE Restart(t)
      BY <1>t, <2>9, NoLines, PoolAssumption, SMTT(30)
      DEF Restart, FindDead, PutBack, MayRestart, NewChild, mainVars, Hands, Held
    <2>10. CASE GiveUp(t)
      <3>1. LeaveQueue(t)
        BY <2>10 DEF GiveUp
      <3>2. jobs' \in [Queue -> SUBSET Test]
        BY <1>t, <2>10, SMT DEF GiveUp, FindDead, PutBack, Hands, Held
      <3>3. test' \in [Thread -> Test \cup {NoTest}] /\ gaveUp' \in [Thread -> SUBSET Queue]
        BY <1>t, <2>10, SMT DEF GiveUp, FindDead
      <3> QED
        BY <1>t, <2>10, <3>1, <3>2, <3>3, LeaveTypes, SMT DEF GiveUp, mainVars
    <2> QED
      BY <1>4, <2>1, <2>2, <2>3, <2>4, <2>5, <2>6, <2>7, <2>8, <2>9, <2>10 DEF Work
  <1>5. ASSUME NEW t \in Thread, Child(t) PROVE TypeOK'
    <2>1. test[t] \in Test
      BY <1>t, <1>5 DEF Child, ReportFailure, FinishTest, Hands
    <2>2. CASE ReportFailure(t)
      <3>1. Append(output[t], "failure") \in Seq(Line)
        BY <1>t, AppendLines DEF Line
      <3>2. output' \in [Thread -> Seq(Line)]
        BY <1>t, <2>2, <3>1, SMT DEF ReportFailure
      <3> QED
        BY <1>t, <2>1, <2>2, <3>2, SMT DEF ReportFailure, mainVars, threadVars
    <2>3. CASE FinishTest(t)
      <3>1. Append(output[t], "finished") \in Seq(Line)
        BY <1>t, AppendLines DEF Line
      <3>2. output' \in [Thread -> Seq(Line)]
        BY <1>t, <2>3, <3>1, SMT DEF FinishTest
      <3> QED
        BY <1>t, <2>1, <2>3, <3>2, SMT DEF FinishTest, mainVars, threadVars
    <2> QED
      BY <1>5, <2>2, <2>3 DEF Child
  <1>6. ASSUME NEW t \in Thread, Crash(t) PROVE TypeOK'
    BY <1>t, <1>6, SMT DEF Crash, mainVars, threadVars
  <1>7. CASE UNCHANGED vars
    BY <1>t, <1>7, SMT DEF vars, mainVars, threadVars, childVars
  <1> QED
    BY <1>1, <1>2, <1>3, <1>4, <1>5, <1>6, <1>7 DEF Next, Main, Over

\* A thread's restarts stay below MAX_RESTART: it leaves the queue instead.
LEMMA RestartsStep == IInv /\ [Next]_vars => Restarts'
  <1> SUFFICES ASSUME IInv, [Next]_vars PROVE Restarts'
    OBVIOUS
  <1>t. TypeOK /\ Restarts
    BY DEF IInv
  <1>1. ASSUME NEW t \in Thread, Restart(t) PROVE Restarts'
    BY <1>t, <1>1, SMT DEF Restart, MayRestart, Restarts, TypeOK
  <1>2. ASSUME NEW t \in Thread, LeaveQueue(t) PROVE Restarts'
    <2>1. restartCount' = restartCount \/ restartCount' = [restartCount EXCEPT ![t] = 0]
      BY <1>2 DEF LeaveQueue
    <2>2. restartCount \in [Thread -> 0..MaxRestart] /\ 0 < MaxRestart
      BY <1>t, PoolAssumption, SMT DEF TypeOK
    <2> QED
      BY <1>t, <2>1, <2>2 DEF Restarts
  <1>3. CASE UNCHANGED restartCount
    BY <1>t, <1>3 DEF Restarts
  <1> QED
    BY <1>1, <1>2, <1>3 DEF Next, Main, Over, Work, Child, AddJobs, StartProcessing, Wait, FindJobs,
      FindNone, PopJob, PopNothing, ReadNothing, ReadFinished, ReadFailure, Drain, GiveUp,
      ReportFailure, FinishTest, Crash, vars, mainVars, threadVars, childVars

\* Threads start after the queues are filled.
LEMMA BegunStep == IInv /\ [Next]_vars => Begun' /\ Empty'
  <1> SUFFICES ASSUME IInv, [Next]_vars PROVE Begun' /\ Empty'
    OBVIOUS
  <1>t. TypeOK /\ Begun /\ Empty /\ Hands
    BY DEF IInv
  <1>1. CASE Main
    BY <1>t, <1>1, SMT DEF Main, AddJobs, StartProcessing, Wait, Begun, Empty, threadVars, TypeOK,
      Done
  <1>2. ASSUME NEW t \in Thread, Work(t) PROVE (Begun /\ Empty)'
    <2>1. UNCHANGED mpc
      BY <1>2 DEF Work, FindJobs, FindNone, PopJob, PopNothing, ReadNothing, ReadFinished,
        ReadFailure, Drain, Restart, GiveUp, vars, mainVars
    <2>2. tpc[t] # "unborn"
      BY <1>2, SMT DEF Work, FindJobs, FindNone, PopJob, PopNothing, ReadNothing, ReadFinished,
        ReadFailure, Drain, Restart, GiveUp, FindDead, Reads
    <2>3. mpc \notin {"add", "start"}
      BY <1>t, <2>2 DEF Begun
    <2> QED
      BY <2>1, <2>3 DEF Begun, Empty
  <1>3. ASSUME NEW t \in Thread, Child(t) \/ Crash(t) PROVE (Begun /\ Empty)'
    BY <1>t, <1>3 DEF Child, ReportFailure, FinishTest, Crash, mainVars, threadVars, Begun, Empty,
      Done
  <1>4. CASE UNCHANGED vars
    BY <1>t, <1>4 DEF vars, mainVars, threadVars, Begun, Empty, Done
  <1> QED
    BY <1>1, <1>2, <1>3, <1>4 DEF Next, Over

-----------------------------------------------------------------------------
\* A thread that reads the end of its test has read all its child wrote.
LEMMA HeadFinished ==
    ASSUME TypeOK, Heard, NEW t \in Thread,
           output[t] # <<>>, Head(output[t]) = "finished"
    PROVE  Len(output[t]) = 1 /\ child[t] # "testing"
  <1>1. output[t] \in Seq(Line)
    BY DEF TypeOK
  <1>2. 1 \in 1..Len(output[t]) /\ output[t][1] = "finished"
    BY <1>1, SMT
  <1> QED
    BY <1>2 DEF Heard

\* Output that has been read, or of a new child, says no more of an end than before.
LEMMA HeardStep == IInv /\ [Next]_vars => Heard'
  <1> SUFFICES ASSUME IInv, [Next]_vars PROVE Heard'
    OBVIOUS
  <1>t. /\ tpc \in [Thread -> {"unborn", "look", "pop", "read", "drain", "ended"}]
        /\ output \in [Thread -> Seq(Line)] /\ child \in [Thread -> {"idle", "testing", "dead"}]
        /\ TypeOK /\ Hands /\ Heard
    BY DEF IInv, TypeOK
  <1>1. CASE AddJobs \/ Wait
    BY <1>t, <1>1 DEF AddJobs, Wait, threadVars, childVars, Heard
  <1>2. CASE StartProcessing
    <2>1. \A t \in Thread : output[t] = <<>>
      BY <1>2, <1>t DEF StartProcessing, IInv, Begun, Heard
    <2> QED
      BY <1>t, <1>2, <2>1, SMT DEF StartProcessing, childVars, Heard
  <1>3. ASSUME NEW t \in Thread, Work(t) PROVE Heard'
    <2>1. CASE FindJobs(t)
      BY <1>t, <2>1, SMT DEF FindJobs, childVars, Heard
    <2>2. CASE FindNone(t)
      <3>1. output[t] = <<>>
        BY <1>t, <2>2 DEF FindNone, Heard
      <3>2. output' = output
        BY <1>t, <2>2, <3>1, SMT DEF FindNone, LeaveQueue, NewChild
      <3> QED
        BY <1>t, <2>2, <3>1, <3>2, SMT DEF FindNone, LeaveQueue, NewChild, Heard
    <2>3. CASE PopJob(t)
      <3>1. output[t] = <<>>
        BY <1>t, <2>3 DEF PopJob, Heard
      <3> QED
        BY <1>t, <2>3, <3>1, SMT DEF PopJob, Heard
    <2>4. CASE PopNothing(t)
      BY <1>t, <2>4, SMT DEF PopNothing, childVars, Heard
    <2>5. CASE ReadNothing(t)
      BY <1>t, <2>5 DEF ReadNothing, vars, threadVars, childVars, Heard
    <2>6. CASE ReadFinished(t)
      <3>1. Len(output[t]) = 1
        BY <1>t, <2>6, HeadFinished DEF ReadFinished, Reads
      <3>2. Tail(output[t]) \in Seq(Line) /\ Len(Tail(output[t])) = 0
        BY <1>t, <3>1, <2>6, HeadTailProperties DEF ReadFinished, Reads
      <3>3. Tail(output[t]) = <<>>
        BY <3>2, EmptySeq
      <3> QED
        BY <1>t, <2>6, <3>3, SMT DEF ReadFinished, EndTest, Heard
    <2>7. CASE ReadFailure(t)
      <3>1. output' = [output EXCEPT ![t] = Tail(output[t])] /\ UNCHANGED child
        BY <2>7 DEF ReadFailure
      <3>2. tpc' = tpc \/ tpc' = [tpc EXCEPT ![t] = "drain"]
        BY <2>7 DEF ReadFailure
      <3>3. tpc[t] = "read" /\ output[t] # <<>>
        BY <2>7 DEF ReadFailure, Reads
      <3>4. /\ Len(Tail(output[t])) = Len(output[t]) - 1
            /\ \A i \in 1..Len(Tail(output[t])) :
                 Tail(output[t])[i] = output[t][i + 1] /\ i + 1 \in 1..Len(output[t])
        BY <1>t, <3>3, SMT
      <3>5. /\ tpc'[t] \in {"read", "drain"}
            /\ \A u \in Thread \ {t} : tpc'[u] = tpc[u] /\ output'[u] = output[u]
            /\ output'[t] = Tail(output[t])
        BY <1>t, <3>1, <3>2, <3>3, SMT
      <3>6. \A i \in 1..Len(output'[t]) :
              output'[t][i] = "finished" => i = Len(output'[t]) /\ child[t] # "testing"
        BY <1>t, <3>4, <3>5, SMT DEF Heard
      <3> QED
        BY <1>t, <3>1, <3>5, <3>6, SMT DEF Heard
    <2>8. CASE Drain(t)
      BY <1>t, <2>8, SMT DEF Drain, NewChild, EndTest, Heard
    <2>9. CASE Restart(t)
      BY <1>t, <2>9, SMT DEF Restart, FindDead, NewChild, Heard
    <2>10. CASE GiveUp(t)
      BY <1>t, <2>10, SMT DEF GiveUp, FindDead, LeaveQueue, NewChild, Heard
    <2> QED
      BY <1>3, <2>1, <2>2, <2>3, <2>4, <2>5, <2>6, <2>7, <2>8, <2>9, <2>10 DEF Work
  <1>4. ASSUME NEW t \in Thread, NEW l \in Line, child[t] = "testing", UNCHANGED tpc,
               output' = [output EXCEPT ![t] = Append(@, l)],
               \/ l # "finished" /\ UNCHANGED child
               \/ child' = [child EXCEPT ![t] = "idle"]
        PROVE  Heard'
    <2>1. tpc[t] \notin {"unborn", "look", "pop"}
      BY <1>t, <1>4 DEF Hands, Held
    <2>2. \A i \in 1..Len(output[t]) : output[t][i] # "finished"
      BY <1>t, <1>4 DEF Heard
    <2>3. /\ Len(Append(output[t], l)) = Len(output[t]) + 1
          /\ \A i \in 1..Len(output[t]) : Append(output[t], l)[i] = output[t][i]
          /\ Append(output[t], l)[Len(output[t]) + 1] = l
      BY <1>t, SMT
    <2>4. /\ output'[t] = Append(output[t], l)
          /\ \A u \in Thread \ {t} : output'[u] = output[u] /\ child'[u] = child[u]
          /\ l = "finished" => child'[t] # "testing"
      BY <1>t, <1>4, SMT
    <2>5. \A i \in 1..Len(output'[t]) :
            output'[t][i] = "finished" => i = Len(output'[t]) /\ child'[t] # "testing"
      BY <1>t, <2>2, <2>3, <2>4, SMT
    <2> QED
      BY <1>t, <1>4, <2>1, <2>4, <2>5, SMT DEF Heard
  <1>5. ASSUME NEW t \in Thread, Child(t) PROVE Heard'
    <2>1. CASE ReportFailure(t)
      <3>1. "failure" \in Line /\ "failure" # "finished"
        BY DEF Line
      <3> QED
        BY <2>1, <3>1, <1>4 DEF ReportFailure, threadVars
    <2>2. CASE FinishTest(t)
      <3>1. "finished" \in Line
        BY DEF Line
      <3> QED
        BY <2>2, <3>1, <1>4 DEF FinishTest, threadVars
    <2> QED
      BY <1>5, <2>1, <2>2 DEF Child
  <1>6. ASSUME NEW t \in Thread, Crash(t) PROVE Heard'
    BY <1>t, <1>6, SMT DEF Crash, threadVars, Heard
  <1>7. CASE UNCHANGED vars
    BY <1>t, <1>7 DEF vars, threadVars, childVars, Heard
  <1> QED
    BY <1>1, <1>2, <1>3, <1>5, <1>6, <1>7 DEF Next, Main, Over

\* A thread that leaves its queue has no test, and a serial queue is the first thread's.
LEMMA LeaveHands ==
    ASSUME TypeOK, Hands, NEW t \in Thread, LeaveQueue(t), child[t] # "testing",
           test' = [test EXCEPT ![t] = NoTest]
    PROVE  Hands'
  <1>t. /\ tpc \in [Thread -> {"unborn", "look", "pop", "read", "drain", "ended"}]
        /\ test \in [Thread -> Test \cup {NoTest}]
        /\ queue \in [Thread -> Queue] /\ child \in [Thread -> {"idle", "testing", "dead"}]
    BY DEF TypeOK
  <1>1. test'[t] = NoTest /\ \A u \in Thread \ {t} : test'[u] = test[u]
    BY <1>t, SMT
  <1>2. tpc'[t] \notin Held /\ \A u \in Thread \ {t} : tpc'[u] = tpc[u] /\ queue'[u] = queue[u]
    BY <1>t, SMT DEF LeaveQueue, Held
  <1>3. queue'[t] # "serial"
    BY <1>t, SMT DEF LeaveQueue
  <1>4. child'[t] # "testing" /\ \A u \in Thread \ {t} : child'[u] = child[u]
    <2>1. CASE child' = [child EXCEPT ![t] = "idle"]
      BY <1>t, <2>1, SMT
    <2>2. CASE child' = child
      BY <2>2
    <2> QED
      BY <2>1, <2>2 DEF LeaveQueue, NewChild
  <1>5. ASSUME NEW u \in Thread, u # t
        PROVE  /\ tpc'[u] = tpc[u] /\ queue'[u] = queue[u]
               /\ test'[u] = test[u] /\ child'[u] = child[u]
    BY <1>1, <1>2, <1>4, <1>5
  <1> SUFFICES ASSUME NEW u \in Thread
               PROVE  /\ tpc'[u] \in Held => test'[u] \in Test
                      /\ tpc'[u] \notin Held => test'[u] = NoTest
                      /\ child'[u] = "testing" => tpc'[u] \in Held
                      /\ tpc'[u] \in Held => queue'[u] = QueueOf(test'[u])
                      /\ queue'[u] = "serial" => u = FirstThread
    BY DEF Hands, QueueOf
  <1>6. CASE u = t
    BY <1>1, <1>2, <1>3, <1>4, <1>6
  <1>7. CASE u # t
    BY <1>5, <1>7 DEF Hands
  <1> QED
    BY <1>6, <1>7

\* A step of a thread, or of its child, leaves what the others hold alone; what it
\* holds itself follows from the action.
LEMMA HandsStep == IInv /\ [Next]_vars => Hands'
  <1> SUFFICES ASSUME IInv, [Next]_vars PROVE Hands'
    OBVIOUS
  <1>t. /\ tpc \in [Thread -> {"unborn", "look", "pop", "read", "drain", "ended"}]
        /\ test \in [Thread -> Test \cup {NoTest}]
        /\ queue \in [Thread -> Queue] /\ child \in [Thread -> {"idle", "testing", "dead"}]
        /\ TypeOK /\ Hands /\ Heard /\ Begun /\ OnePlace
    BY DEF IInv, TypeOK
  <1>1. CASE AddJobs \/ Wait
    BY <1>t, <1>1 DEF AddJobs, Wait, threadVars, childVars, Hands, QueueOf
  <1>2. CASE StartProcessing
    BY <1>t, <1>2, SMT DEF StartProcessing, childVars, Hands, QueueOf, Begun, Held
  <1>3. ASSUME NEW t \in Thread, Work(t) PROVE Hands'
    <2>1. CASE FindJobs(t) \/ PopNothing(t)
      BY <1>t, <2>1, SMT DEF FindJobs, PopNothing, childVars, Hands, QueueOf, Held
    <2>2. CASE FindNone(t)
      <3>1. child[t] # "testing" /\ test' = [test EXCEPT ![t] = NoTest]
        BY <1>t, <2>2, SMT DEF FindNone, Hands, Held
      <3> QED
        BY <1>t, <2>2, <3>1, LeaveHands DEF FindNone
    <2>3. CASE PopJob(t)
      <3>1. PICK x \in Test : PopTest(t, x)
        BY <2>3 DEF PopJob
      <3>2. queue[t] = QueueOf(x)
        BY <1>t, <3>1, SMT DEF PopTest, First, OnePlace, OnQueue
      <3> QED
        BY <1>t, <2>3, <3>1, <3>2, SMT DEF PopJob, PopTest, Hands, Held, QueueOf
    <2>4. CASE ReadNothing(t)
      BY <1>t, <2>4 DEF ReadNothing, vars, threadVars, childVars, Hands, QueueOf
    <2>5. CASE ReadFinished(t)
      <3>1. child[t] # "testing"
        BY <1>t, <2>5, HeadFinished DEF ReadFinished, Reads
      <3> QED
        BY <1>t, <2>5, <3>1, SMT DEF ReadFinished, EndTest, Hands, Held, QueueOf
    <2>6. CASE ReadFailure(t)
      BY <1>t, <2>6, SMT DEF ReadFailure, Reads, Hands, Held, QueueOf
    <2>7. CASE Drain(t)
      BY <1>t, <2>7, SMT DEF Drain, NewChild, EndTest, Hands, Held, QueueOf
    <2>8. CASE Restart(t)
      BY <1>t, <2>8, SMT DEF Restart, FindDead, NewChild, Hands, Held, QueueOf
    <2>9. CASE GiveUp(t)
      <3>1. child[t] # "testing" /\ test' = [test EXCEPT ![t] = NoTest]
        BY <1>t, <2>9, SMT DEF GiveUp, FindDead
      <3> QED
        BY <1>t, <2>9, <3>1, LeaveHands DEF GiveUp
    <2> QED
      BY <1>3, <2>1, <2>2, <2>3, <2>4, <2>5, <2>6, <2>7, <2>8, <2>9 DEF Work
  <1>4. ASSUME NEW t \in Thread, Child(t) \/ Crash(t) PROVE Hands'
    BY <1>t, <1>4, SMT
    DEF Child, ReportFailure, FinishTest, Crash, threadVars, Hands, Held, QueueOf
  <1>5. CASE UNCHANGED vars
    BY <1>t, <1>5 DEF vars, threadVars, childVars, Hands, QueueOf
  <1> QED
    BY <1>1, <1>2, <1>3, <1>4, <1>5 DEF Next, Main, Over

-----------------------------------------------------------------------------
\* The end of a test adds it to what is done.
LEMMA DoneEnds ==
    ASSUME TypeOK, NEW t \in Thread, EndTest(t)
    PROVE  Done' = Done \cup {test[t]}
  <1>1. done'[t] = done[t] \cup {test[t]} /\ \A u \in Thread \ {t} : done'[u] = done[u]
    BY DEF EndTest, TypeOK
  <1> QED
    BY <1>1 DEF Done

\* What is put back goes to the queue it was taken from, and to no other.
LEMMA PutBackPlace ==
    ASSUME IInv, NEW t \in Thread, FindDead(t),
           UNCHANGED <<done, mpc>>
    PROVE  OnePlace'
  <1>t. /\ test \in [Thread -> Test \cup {NoTest}] /\ jobs \in [Queue -> SUBSET Test]
        /\ queue \in [Thread -> Queue]
        /\ Hands /\ OnePlace
    BY DEF IInv, TypeOK
  <1>s. Done' = Done
    BY DEF Done
  <1>1. test[t] \in Test /\ queue[t] = QueueOf(test[t])
    BY <1>t DEF FindDead, Hands, Held
  <1>2. test[t] # NoTest
    BY <1>1, NoTestIsNone
  <1>3. test'[t] = NoTest /\ \A u \in Thread \ {t} : test'[u] = test[u]
    BY <1>t, SMT DEF FindDead
  <1>4. \A q \in Queue : jobs'[q] = IF q = queue[t] THEN jobs[q] \cup {test[t]} ELSE jobs[q]
    BY <1>t DEF FindDead, PutBack
  <1>5. \A x \in Test : x # test[t] => OnQueue(x)' = OnQueue(x)
    BY <1>4, Zenon DEF OnQueue
  <1>6. OnQueue(test[t]) = {} /\ test[t] \notin Done
    BY <1>t, <1>2 DEF OnePlace
  <1>7. {q \in Queue : test[t] \in jobs'[q]} = {queue[t]}
    <2>1. \A q \in Queue : test[t] \in jobs'[q] <=> q = queue[t]
      BY <1>4, <1>6 DEF OnQueue
    <2> QED
      BY <1>t, <2>1
  <1>8. \A u \in Thread \ {t} : test[u] # test[t]
    BY <1>t, <1>2 DEF OnePlace
  <1>a. \A u, v \in Thread : test'[u] = test'[v] /\ test'[u] # NoTest => u = v
    BY <1>t, <1>3 DEF OnePlace
  <1>b. ASSUME NEW u \in Thread, test'[u] # NoTest
        PROVE  {q \in Queue : test'[u] \in jobs'[q]} = {} /\ test'[u] \notin Done
    <2>1. u # t /\ test'[u] = test[u] /\ test[u] \in Test
      BY <1>t, <1>3, <1>b
    <2>3. {q \in Queue : test[u] \in jobs'[q]} = {q \in Queue : test[u] \in jobs[q]}
      BY <1>4, <1>8, <2>1, Zenon
    <2> QED
      BY <1>t, <1>b, <2>1, <2>3 DEF OnePlace, OnQueue
  <1>c. ASSUME NEW x \in Test, OnQueue(x)' # {}
        PROVE  OnQueue(x)' = {QueueOf(x)} /\ x \notin Done
    <2>1. CASE x = test[t]
      BY <1>1, <1>6, <1>7, <2>1 DEF OnQueue
    <2>2. CASE x # test[t]
      BY <1>t, <1>5, <1>c, <2>2 DEF OnePlace
    <2> QED
      BY <2>1, <2>2
  <1>d. ASSUME NEW x \in Test, mpc' # "add"
        PROVE  OnQueue(x)' # {} \/ x \in Done \/ \E u \in Thread : test'[u] = x
    <2>1. CASE x = test[t]
      BY <1>7, <2>1 DEF OnQueue
    <2>2. CASE x # test[t]
      <3>1. OnQueue(x) # {} \/ x \in Done \/ \E u \in Thread : test[u] = x
        BY <1>t, <1>d DEF OnePlace
      <3> QED
        BY <1>3, <1>5, <2>2, <3>1
    <2> QED
      BY <2>1, <2>2
  <1> QED
    BY <1>s, <1>a, <1>b, <1>c, <1>d DEF OnePlace, OnQueue, QueueOf

\* The first test of a queue is taken by one thread.
LEMMA PopPlace ==
    ASSUME IInv, NEW t \in Thread, tpc[t] = "pop", NEW x \in Test, PopTest(t, x),
           UNCHANGED <<done, mpc>>
    PROVE  OnePlace'
  <1>t. /\ test \in [Thread -> Test \cup {NoTest}] /\ jobs \in [Queue -> SUBSET Test]
        /\ queue \in [Thread -> Queue]
        /\ Hands /\ OnePlace
    BY DEF IInv, TypeOK
  <1>s. Done' = Done
    BY DEF Done
  <1>1. x \in jobs[queue[t]] /\ x # NoTest /\ test[t] = NoTest
    BY <1>t, NoTestIsNone DEF PopTest, First, Hands, Held
  <1>2. OnQueue(x) = {queue[t]} /\ x \notin Done
    BY <1>t, <1>1 DEF OnePlace, OnQueue
  <1>3. test'[t] = x /\ \A u \in Thread \ {t} : test'[u] = test[u]
    BY <1>t, SMT DEF PopTest
  <1>4. \A q \in Queue : jobs'[q] = IF q = queue[t] THEN jobs[q] \ {x} ELSE jobs[q]
    BY <1>t DEF PopTest
  <1>5. \A q \in Queue : x \notin jobs'[q]
    BY <1>2, <1>4 DEF OnQueue
  <1>6. \A u \in Thread \ {t} : test[u] # x
    BY <1>t, <1>1, <1>2 DEF OnePlace
  <1>7. \A y \in Test : y # x => {q \in Queue : y \in jobs'[q]} = OnQueue(y)
    BY <1>4, Zenon DEF OnQueue
  <1>a. \A u, v \in Thread : test'[u] = test'[v] /\ test'[u] # NoTest => u = v
    BY <1>t, <1>3, <1>6 DEF OnePlace
  <1>b. ASSUME NEW u \in Thread, test'[u] # NoTest
        PROVE  {q \in Queue : test'[u] \in jobs'[q]} = {} /\ test'[u] \notin Done
    <2>1. CASE u = t
      BY <1>2, <1>3, <1>5, <2>1
    <2>2. CASE u # t
      BY <1>t, <1>3, <1>6, <1>7, <1>b, <2>2 DEF OnePlace
    <2> QED
      BY <2>1, <2>2
  <1>c. ASSUME NEW y \in Test, OnQueue(y)' # {}
        PROVE  OnQueue(y)' = {QueueOf(y)} /\ y \notin Done
    <2>1. y # x
      BY <1>5, <1>c DEF OnQueue
    <2> QED
      BY <1>t, <1>7, <1>c, <2>1 DEF OnePlace, OnQueue
  <1>d. ASSUME NEW y \in Test, mpc' # "add"
        PROVE  OnQueue(y)' # {} \/ y \in Done \/ \E u \in Thread : test'[u] = y
    <2>1. CASE y = x
      BY <1>3, <2>1
    <2>2. CASE y # x
      <3>1. OnQueue(y) # {} \/ y \in Done \/ \E u \in Thread : test[u] = y
        BY <1>t, <1>d DEF OnePlace
      <3>2. y # NoTest
        BY NoTestIsNone
      <3>3. (\E u \in Thread : test[u] = y) => \E u \in Thread : test'[u] = y
        BY <1>1, <1>3, <3>2
      <3> QED
        BY <1>7, <2>2, <3>1, <3>3 DEF OnQueue
    <2> QED
      BY <2>1, <2>2
  <1> QED
    BY <1>s, <1>a, <1>b, <1>c, <1>d DEF OnePlace, OnQueue, QueueOf

\* A test that has ended is with its thread no more.
LEMMA EndPlace ==
    ASSUME IInv, NEW t \in Thread, tpc[t] \in Held, EndTest(t),
           UNCHANGED <<jobs, mpc>>
    PROVE  OnePlace'
  <1>t. /\ test \in [Thread -> Test \cup {NoTest}]
        /\ Hands /\ OnePlace
    BY DEF IInv, TypeOK
  <1>1. test[t] \in Test /\ test[t] # NoTest
    BY <1>t, NoTestIsNone DEF Hands
  <1>2. test'[t] = NoTest /\ \A u \in Thread \ {t} : test'[u] = test[u]
    BY <1>t, SMT DEF EndTest
  <1>3. Done' = Done \cup {test[t]} /\ OnQueue(test[t]) = {}
    <2>1. Done' = Done \cup {test[t]}
      BY DoneEnds DEF IInv
    <2> QED
      BY <1>t, <1>1, <2>1 DEF OnePlace
  <1>4. \A u \in Thread \ {t} : test[u] # test[t]
    BY <1>t, <1>1 DEF OnePlace
  <1>a. \A u, v \in Thread : test'[u] = test'[v] /\ test'[u] # NoTest => u = v
    BY <1>t, <1>2 DEF OnePlace
  <1>b. \A u \in Thread :
          test'[u] # NoTest => OnQueue(test'[u]) = {} /\ test'[u] \notin Done'
    BY <1>t, <1>2, <1>3, <1>4 DEF OnePlace
  <1>c. \A x \in Test : OnQueue(x) # {} => OnQueue(x) = {QueueOf(x)} /\ x \notin Done'
    BY <1>t, <1>3 DEF OnePlace
  <1>d. ASSUME NEW x \in Test, mpc # "add"
        PROVE  OnQueue(x) # {} \/ x \in Done' \/ \E u \in Thread : test'[u] = x
    <2>1. OnQueue(x) # {} \/ x \in Done \/ \E u \in Thread : test[u] = x
      BY <1>t, <1>d DEF OnePlace
    <2> QED
      BY <1>2, <1>3, <2>1
  <1> QED
    BY <1>a, <1>b, <1>c, <1>d DEF OnePlace, OnQueue, QueueOf

\* Wherever a step leaves a test, it leaves it in one place.
LEMMA OnePlaceStep == IInv /\ [Next]_vars => OnePlace'
  <1> SUFFICES ASSUME IInv, [Next]_vars PROVE OnePlace'
    OBVIOUS
  <1>t. TypeOK /\ Hands /\ OnePlace /\ Empty /\ Begun
    BY DEF IInv
  <1>1. ASSUME UNCHANGED <<jobs, test, done>>, mpc' # "add" => mpc # "add"
        PROVE  OnePlace'
    <2>1. Done' = Done
      BY <1>1 DEF Done
    <2> QED
      BY <1>t, <1>1, <2>1 DEF OnePlace, OnQueue, QueueOf
  <1>2. CASE AddJobs
    <2>0. Done' = Done
      BY <1>2 DEF AddJobs, threadVars, Done
    <2>1. Done' = {} /\ \A t \in Thread : test'[t] = NoTest
      BY <1>t, <1>2, <2>0 DEF AddJobs, threadVars, Empty, Begun, Hands, Held
    <2>2. jobs'["serial"] = SerialTests /\ jobs'["parallel"] = Test \ SerialTests
      BY <1>2, SMT DEF AddJobs, Added
    <2>3. \A x \in Test : {q \in Queue : x \in jobs'[q]} = {QueueOf(x)}
      <3>1. \A x \in Test : \A q \in Queue : x \in jobs'[q] <=> q = QueueOf(x)
        BY <2>2 DEF Queue, QueueOf
      <3>2. \A x \in Test : QueueOf(x) \in Queue
        BY DEF Queue, QueueOf
      <3> QED
        BY <3>1, <3>2
    <2> QED
      BY <2>1, <2>3, NoTestIsNone DEF OnePlace, OnQueue, QueueOf
  <1>3. CASE StartProcessing \/ Wait
    BY <1>1, <1>3 DEF StartProcessing, Wait, threadVars
  <1>4. ASSUME NEW t \in Thread, Work(t) PROVE OnePlace'
    <2>1. CASE FindJobs(t) \/ FindNone(t) \/ PopNothing(t) \/ ReadNothing(t) \/ ReadFailure(t)
      BY <1>1, <2>1
      DEF FindJobs, FindNone, PopNothing, ReadNothing, ReadFailure, mainVars, vars, threadVars
    <2>2. CASE PopJob(t)
      BY <2>2, PopPlace DEF PopJob, mainVars
    <2>3. CASE ReadFinished(t) \/ Drain(t)
      BY <2>3, EndPlace DEF ReadFinished, Reads, Drain, Held, mainVars
    <2>4. CASE Restart(t) \/ GiveUp(t)
      BY <2>4, PutBackPlace DEF Restart, GiveUp, mainVars
    <2> QED
      BY <1>4, <2>1, <2>2, <2>3, <2>4 DEF Work
  <1>5. ASSUME NEW t \in Thread, Child(t) \/ Crash(t) PROVE OnePlace'
    BY <1>1, <1>5 DEF Child, ReportFailure, FinishTest, Crash, mainVars, threadVars
  <1>6. CASE UNCHANGED vars
    BY <1>1, <1>6 DEF vars, mainVars, threadVars
  <1> QED
    BY <1>2, <1>3, <1>4, <1>5, <1>6 DEF Next, Main, Over

-----------------------------------------------------------------------------
\* The invariant holds from the start and is kept by every step.
LEMMA Inductive == Spec => []IInv
  <1>1. IInv /\ [Next]_vars => IInv'
    BY TypeStep, RestartsStep, HandsStep, HeardStep, BegunStep, OnePlaceStep DEF IInv
  <1> QED
    BY InitIInv, <1>1, PTL DEF Spec

\* The variables of the pool have their types.
THEOREM TypeCorrect == Spec => []TypeOK
  <1>1. IInv => TypeOK
    BY DEF IInv
  <1> QED
    BY Inductive, <1>1, PTL

\* However many threads and tests, and whatever dies: no test is run by two threads at
\* once, and none is lost between the queues, the threads and those that are done.
THEOREM TestInOnePlace == Spec => []OnePlace
  <1>1. IInv => OnePlace
    BY DEF IInv
  <1> QED
    BY Inductive, <1>1, PTL

\* Serial tests are run by the first thread only, from the serial queue only.
THEOREM SerialRunAlone == Spec => []SerialAlone
  <1>1. IInv => SerialAlone
    <2> SUFFICES ASSUME IInv, NEW t \in Thread, test[t] \in SerialTests
                 PROVE  t = FirstThread /\ queue[t] = "serial"
      BY DEF SerialAlone
    <2>1. test[t] # NoTest
      BY NoTestIsNone, PoolAssumption
    <2>2. Hands
      BY DEF IInv
    <2>3. queue[t] = QueueOf(test[t])
      BY <2>1, <2>2 DEF Hands
    <2> QED
      BY <2>2, <2>3 DEF Hands, QueueOf
  <1> QED
    BY Inductive, <1>1, PTL

-----------------------------------------------------------------------------
\* What a thread's step does to another thread, and to how tests came out: only the
\* one that is popped is forgotten.
LEMMA WorkOthers ==
    ASSUME TypeOK, NEW t \in Thread, Work(t), NEW u \in Thread, u # t
    PROVE  /\ tpc'[u] = tpc[u] /\ test'[u] = test[u] /\ output'[u] = output[u]
           /\ queue'[u] = queue[u] /\ failures'[u] = failures[u] /\ done'[u] = done[u]
           /\ gaveUp'[u] = gaveUp[u]
  <1> USE DEF TypeOK, vars, mainVars, threadVars, childVars
  <1>1. CASE FindJobs(t) \/ PopNothing(t) \/ ReadNothing(t)
    BY <1>1 DEF FindJobs, PopNothing, ReadNothing
  <1>2. CASE FindNone(t)
    BY <1>2 DEF FindNone, LeaveQueue, NewChild
  <1>3. CASE PopJob(t)
    BY <1>3 DEF PopJob, PopTest
  <1>4. CASE ReadFinished(t) \/ Drain(t)
    BY <1>4 DEF ReadFinished, Drain, EndTest, NewChild
  <1>5. CASE ReadFailure(t)
    BY <1>5 DEF ReadFailure
  <1>6. CASE Restart(t)
    BY <1>6 DEF Restart, FindDead, NewChild
  <1>7. CASE GiveUp(t)
    BY <1>7 DEF GiveUp, FindDead, LeaveQueue, NewChild
  <1> QED
    BY <1>1, <1>2, <1>3, <1>4, <1>5, <1>6, <1>7 DEF Work

\* A thread's step keeps how the tests came out that are done or with a thread: it is
\* forgotten only of a test that is popped.
LEMMA WorkVerdicts ==
    ASSUME IInv, NEW t \in Thread, Work(t)
    PROVE  /\ retries' = retries
           /\ \A x \in Done : verdict'[x] = verdict[x]
           /\ \A u \in Thread : test[u] \in Test => verdict'[test[u]] = verdict[test[u]]
  <1>0. TypeOK /\ OnePlace
    BY DEF IInv
  <1>d. Done \subseteq Test
    BY <1>0 DEF TypeOK, Done
  <1>1. CASE UNCHANGED <<verdict, retries>>
    BY <1>1
  <1>2. CASE PopJob(t)
    <2>1. PICK x \in Test : PopTest(t, x)
      BY <1>2 DEF PopJob
    <2>2. x \in jobs[queue[t]] /\ queue[t] \in Queue
      BY <1>0, <2>1 DEF PopTest, First, TypeOK
    <2>3. x \notin Done /\ \A u \in Thread : test[u] # x
      BY <1>0, <2>2, NoTestIsNone DEF OnePlace, OnQueue
    <2>4. \A y \in Test : y # x => verdict'[y] = verdict[y]
      BY <1>0, <2>1 DEF PopTest, TypeOK
    <2> QED
      BY <1>2, <1>d, <2>3, <2>4 DEF PopJob, mainVars
  <1> QED
    BY <1>1, <1>2 DEF Work, FindJobs, FindNone, PopNothing, ReadNothing, ReadFinished, ReadFailure,
      Drain, Restart, GiveUp, vars, mainVars, childVars

\* A child's step changes how its own test came out, and nothing that is done.
LEMMA ChildVerdicts ==
    ASSUME IInv, NEW t \in Thread, Child(t)
    PROVE  /\ test[t] \in Test /\ tpc[t] \in Held
           /\ \A y \in Test : y # test[t] => verdict'[y] = verdict[y]
           /\ \A x \in Done : verdict'[x] = verdict[x]
  <1>0. TypeOK /\ Hands /\ OnePlace
    BY DEF IInv
  <1>1. test[t] \in Test /\ tpc[t] \in Held
    BY <1>0 DEF Child, ReportFailure, FinishTest, Hands
  <1>2. test[t] \notin Done
    BY <1>0, <1>1, NoTestIsNone DEF OnePlace
  <1>d. Done \subseteq Test
    BY <1>0 DEF TypeOK, Done
  <1>3. \A y \in Test : y # test[t] => verdict'[y] = verdict[y]
    BY <1>0 DEF Child, ReportFailure, FinishTest, TypeOK
  <1> QED
    BY <1>1, <1>2, <1>d, <1>3

-----------------------------------------------------------------------------
FailureRead(s) == \E i \in 1..Len(s) : s[i] = "failure"

\* With retries, a test that is being read has failed just if its child's output, none
\* of which has been read, says so; and a thread drains what has failed.
Told(t) ==
    retries =>
      /\ tpc[t] = "read" => (verdict[test[t]] = "failed" <=> FailureRead(output[t]))
      /\ tpc[t] = "drain" => verdict[test[t]] = "failed"

FailedOf(t) == {x \in done[t] : verdict[x] = "failed"}

Counted(t) ==
    failures[t] = IF retries
                  THEN Cardinality(FailedOf(t)) + (IF tpc[t] = "drain" THEN 1 ELSE 0)
                  ELSE 0

CountInv == IInv /\ \A t \in Thread : Told(t) /\ Counted(t)

LEMMA AppendFailure ==
    ASSUME NEW s \in Seq(Line), NEW l \in Line
    PROVE  FailureRead(Append(s, l)) <=> FailureRead(s) \/ l = "failure"
  <1>1. /\ Len(Append(s, l)) = Len(s) + 1 /\ Len(s) \in Nat
        /\ \A i \in 1..Len(s) : Append(s, l)[i] = s[i]
        /\ Append(s, l)[Len(s) + 1] = l
    BY SMT
  <1>2. \A i \in 1..(Len(s) + 1) : i = Len(s) + 1 \/ i \in 1..Len(s)
    BY <1>1, SMT
  <1>3. Len(s) + 1 \in 1..(Len(s) + 1) /\ \A i \in 1..Len(s) : i \in 1..(Len(s) + 1)
    BY <1>1, SMT
  <1> QED
    BY <1>1, <1>2, <1>3 DEF FailureRead

\* What a thread's own step does to what it has been told.
LEMMA ToldWork ==
    ASSUME IInv, NEW t \in Thread, Told(t), Work(t)
    PROVE  Told(t)'
  <1>0. TypeOK /\ Heard /\ retries' = retries
    BY WorkVerdicts DEF IInv
  <1>1. CASE tpc'[t] \notin Held
    BY <1>1 DEF Told, Held
  <1>2. CASE PopJob(t)
    <2>1. PICK x \in Test : PopTest(t, x)
      BY <1>2 DEF PopJob
    <2>2. test'[t] = x /\ verdict'[x] = "none" /\ tpc'[t] = "read"
      BY <1>0, <1>2, <2>1 DEF PopJob, PopTest, TypeOK
    <2>3. output'[t] = <<>>
      BY <1>0, <1>2 DEF PopJob, Heard
    <2>4. ~FailureRead(<<>>)
      BY SMT DEF FailureRead
    <2> QED
      BY <2>2, <2>3, <2>4 DEF Told
  <1>3. CASE ReadNothing(t)
    BY <1>3 DEF ReadNothing, vars, mainVars, threadVars, childVars, Told
  <1>4. CASE ReadFailure(t)
    <2> SUFFICES ASSUME retries PROVE Told(t)'
      BY <1>0 DEF Told
    <2>1. tpc'[t] = "drain" /\ test' = test /\ verdict' = verdict
      BY <1>0, <1>4 DEF ReadFailure, TypeOK
    <2>2. FailureRead(output[t])
      <3>1. output[t] \in Seq(Line) /\ output[t] # <<>> /\ Head(output[t]) = "failure"
        BY <1>0, <1>4 DEF ReadFailure, Reads, TypeOK
      <3>2. 1 \in 1..Len(output[t]) /\ output[t][1] = "failure"
        BY <3>1, SMT
      <3> QED
        BY <3>2 DEF FailureRead
    <2>3. verdict[test[t]] = "failed"
      BY <1>4, <2>2 DEF ReadFailure, Reads, Told
    <2> QED
      BY <2>1, <2>3 DEF Told
  <1>5. CASE FindJobs(t) \/ PopNothing(t)
    BY <1>0, <1>5 DEF FindJobs, PopNothing, TypeOK, Told
  <1>6. CASE FindNone(t) \/ GiveUp(t)
    <2>1. tpc'[t] \notin Held
      BY <1>0, <1>6 DEF FindNone, GiveUp, LeaveQueue, TypeOK, Held
    <2> QED
      BY <1>1, <2>1
  <1>7. CASE ReadFinished(t) \/ Drain(t) \/ Restart(t)
    BY <1>0, <1>7 DEF ReadFinished, Drain, Restart, EndTest, TypeOK, Told
  <1> QED
    BY <1>2, <1>3, <1>4, <1>5, <1>6, <1>7 DEF Work

\* What a child tells its thread.
LEMMA ToldChild ==
    ASSUME IInv, NEW t \in Thread, Told(t), Child(t)
    PROVE  Told(t)'
  <1>0. TypeOK /\ output[t] \in Seq(Line) /\ "failure" \in Line /\ "finished" \in Line
        /\ test[t] \in Test
    BY ChildVerdicts DEF IInv, TypeOK, Line
  <1>1. UNCHANGED <<retries, tpc, test>>
    BY DEF Child, ReportFailure, FinishTest, mainVars, threadVars
  <1>2. CASE ReportFailure(t)
    <2>1. verdict'[test[t]] = "failed" /\ output'[t] = Append(output[t], "failure")
      BY <1>0, <1>2 DEF ReportFailure, TypeOK
    <2>2. FailureRead(output'[t])
      BY <1>0, <2>1, AppendFailure
    <2> QED
      BY <1>1, <2>1, <2>2 DEF Told
  <1>3. CASE FinishTest(t)
    <2>1. /\ verdict'[test[t]] = "failed" <=> verdict[test[t]] = "failed"
          /\ output'[t] = Append(output[t], "finished")
      BY <1>0, <1>3 DEF FinishTest, TypeOK
    <2>2. FailureRead(output'[t]) <=> FailureRead(output[t])
      BY <1>0, <2>1, AppendFailure
    <2> QED
      BY <1>1, <2>1, <2>2 DEF Told
  <1> QED
    BY <1>2, <1>3 DEF Child

\* What happens to others leaves a thread's knowledge and count alone.
LEMMA CountedOthers ==
    ASSUME IInv, NEW u \in Thread, Told(u), Counted(u),
           retries' = retries, tpc'[u] = tpc[u], test'[u] = test[u], output'[u] = output[u],
           failures'[u] = failures[u], done'[u] = done[u],
           \A x \in Done : verdict'[x] = verdict[x],
           test[u] \in Test => verdict'[test[u]] = verdict[test[u]]
    PROVE  Told(u)' /\ Counted(u)'
  <1>1. tpc[u] \in Held => test[u] \in Test
    BY DEF IInv, Hands
  <1>2. Told(u)'
    BY <1>1 DEF Told, Held
  <1>3. done[u] \subseteq Done
    BY DEF Done
  <1>4. FailedOf(u)' = FailedOf(u)
    BY <1>3 DEF FailedOf
  <1> QED
    BY <1>2, <1>4 DEF Counted

\* A thread counts a failure when it reads of it, and the test is done when it has
\* drained the rest.
LEMMA CountedWork ==
    ASSUME IInv, NEW t \in Thread, Told(t), Counted(t), Work(t)
    PROVE  Counted(t)'
  <1>0. /\ TypeOK /\ Heard /\ Hands /\ OnePlace /\ retries' = retries
        /\ \A x \in Done : verdict'[x] = verdict[x]
    BY WorkVerdicts DEF IInv
  <1>1. done[t] \subseteq Done /\ done[t] \subseteq Test
    BY <1>0 DEF Done, TypeOK
  <1>f. IsFiniteSet(FailedOf(t))
    BY <1>1, PoolAssumption, FS_Subset DEF FailedOf
  <1>2. ASSUME done'[t] = done[t] PROVE FailedOf(t)' = FailedOf(t)
    BY <1>0, <1>1, <1>2 DEF FailedOf
  <1>3. CASE ReadFailure(t)
    <2>1. done'[t] = done[t] /\ tpc[t] = "read" /\ failures[t] \in Nat
      BY <1>0, <1>3 DEF ReadFailure, Reads, TypeOK
    <2>2. CASE retries
      <3>1. failures'[t] = failures[t] + 1 /\ tpc'[t] = "drain"
        BY <1>0, <1>3, <2>2 DEF ReadFailure, TypeOK
      <3>2. Cardinality(FailedOf(t)) \in Nat /\ failures[t] = Cardinality(FailedOf(t))
        BY <1>f, <2>1, <2>2, FS_CardinalityType DEF Counted
      <3>3. FailedOf(t)' = FailedOf(t)
        BY <1>2, <2>1
      <3> QED
        BY <1>0, <2>2, <3>1, <3>2, <3>3 DEF Counted
    <2>3. CASE ~retries
      BY <1>0, <1>3, <2>3 DEF ReadFailure, Counted
    <2> QED
      BY <2>2, <2>3
  <1>4. CASE ReadFinished(t) \/ Drain(t)
    <2>1. /\ failures' = failures /\ tpc'[t] = "look" /\ done'[t] = done[t] \cup {test[t]}
          /\ verdict' = verdict /\ tpc[t] \in Held
      BY <1>0, <1>4 DEF ReadFinished, Reads, Drain, EndTest, TypeOK, Held
    <2>2. test[t] \in Test /\ test[t] \notin done[t]
      BY <1>0, <1>1, <2>1, NoTestIsNone DEF Hands, OnePlace
    <2>3. CASE ~retries
      BY <1>0, <2>1, <2>3 DEF Counted
    <2>4. CASE retries /\ tpc[t] = "read"
      <3>1. ReadFinished(t)
        BY <1>4, <2>4 DEF Drain
      <3>2. ~FailureRead(output[t])
        <4>1. Len(output[t]) = 1 /\ output[t][1] = "finished"
          BY <1>0, <3>1, HeadFinished DEF ReadFinished, Reads
        <4>2. \A i \in 1..1 : i = 1
          BY SMT
        <4> QED
          BY <4>1, <4>2 DEF FailureRead
      <3>3. verdict[test[t]] # "failed"
        BY <2>4, <3>2 DEF Told
      <3>4. FailedOf(t)' = FailedOf(t)
        BY <2>1, <3>3 DEF FailedOf
      <3> QED
        BY <1>0, <2>1, <2>4, <3>4 DEF Counted
    <2>5. CASE retries /\ tpc[t] = "drain"
      <3>1. verdict[test[t]] = "failed"
        BY <2>5 DEF Told
      <3>2. FailedOf(t)' = FailedOf(t) \cup {test[t]} /\ test[t] \notin FailedOf(t)
        BY <2>1, <2>2, <3>1 DEF FailedOf
      <3>3. Cardinality(FailedOf(t) \cup {test[t]}) = Cardinality(FailedOf(t)) + 1
        BY <1>f, <3>2, FS_AddElement
      <3>4. failures[t] = Cardinality(FailedOf(t)) + 1 /\ Cardinality(FailedOf(t)) \in Nat
        BY <1>f, <2>5, FS_CardinalityType DEF Counted
      <3> QED
        BY <1>0, <2>1, <2>5, <3>2, <3>3, <3>4 DEF Counted
    <2> QED
      BY <2>1, <2>3, <2>4, <2>5 DEF Held
  <1>5. CASE ReadNothing(t)
    <2>1. UNCHANGED <<tpc, done, failures>>
      BY <1>5 DEF ReadNothing, vars, threadVars
    <2> QED
      BY <1>0, <1>2, <2>1 DEF Counted
  <1>6. CASE FindJobs(t) \/ FindNone(t) \/ PopJob(t) \/ PopNothing(t) \/ Restart(t) \/ GiveUp(t)
    <2>1. done' = done /\ failures' = failures
      BY <1>6 DEF FindJobs, FindNone, PopJob, PopNothing, Restart, GiveUp
    <2>2. tpc[t] # "drain" /\ tpc'[t] # "drain"
      BY <1>0, <1>6 DEF FindJobs, FindNone, PopJob, PopNothing, Restart, GiveUp, FindDead, LeaveQueue,
        TypeOK
    <2> QED
      BY <1>0, <1>2, <2>1, <2>2 DEF Counted
  <1> QED
    BY <1>3, <1>4, <1>5, <1>6 DEF Work

LEMMA NextCounted == CountInv /\ [Next]_vars => CountInv'
  <1> SUFFICES ASSUME CountInv, [Next]_vars PROVE CountInv'
    OBVIOUS
  <1>0. IInv /\ IInv' /\ \A t \in Thread : Told(t) /\ Counted(t)
    BY TypeStep, RestartsStep, HandsStep, HeardStep, BegunStep, OnePlaceStep DEF CountInv, IInv
  <1>1. ASSUME retries' = retries, test' = test, output' = output, failures' = failures,
               done' = done, verdict' = verdict, NEW u \in Thread,
               (tpc'[u] = tpc[u]) \/ (tpc'[u] = "look" /\ tpc[u] = "unborn")
        PROVE  Told(u)' /\ Counted(u)'
    <2>1. FailedOf(u)' = FailedOf(u)
      BY <1>1 DEF FailedOf
    <2>2. Told(u)'
      BY <1>0, <1>1 DEF Told
    <2> QED
      BY <1>0, <1>1, <2>1, <2>2 DEF Counted
  <1>2. ASSUME AddJobs \/ Wait, NEW u \in Thread PROVE Told(u)' /\ Counted(u)'
    <2>1. /\ retries' = retries /\ test' = test /\ output' = output /\ failures' = failures
          /\ done' = done /\ verdict' = verdict /\ tpc' = tpc
      BY <1>2 DEF AddJobs, Wait, threadVars, childVars
    <2>2. tpc'[u] = tpc[u]
      BY <2>1
    <2> QED
      BY <1>1, <2>1, <2>2
  <1>3. ASSUME StartProcessing, NEW u \in Thread PROVE Told(u)' /\ Counted(u)'
    <2>1. tpc[u] = "unborn" /\ tpc'[u] = "look"
      BY <1>0, <1>3 DEF StartProcessing, IInv, Begun
    <2> QED
      BY <1>1, <1>3, <2>1 DEF StartProcessing, childVars
  <1>4. ASSUME NEW t \in Thread, Work(t), NEW u \in Thread PROVE Told(u)' /\ Counted(u)'
    <2>1. CASE u = t
      BY <1>0, <1>4, <2>1, ToldWork, CountedWork
    <2>2. CASE u # t
      <3>1. /\ tpc'[u] = tpc[u] /\ test'[u] = test[u] /\ output'[u] = output[u]
            /\ failures'[u] = failures[u] /\ done'[u] = done[u]
        BY <1>0, <1>4, <2>2, WorkOthers DEF IInv
      <3>2. /\ retries' = retries
            /\ \A x \in Done : verdict'[x] = verdict[x]
            /\ test[u] \in Test => verdict'[test[u]] = verdict[test[u]]
        BY <1>0, <1>4, WorkVerdicts
      <3> QED
        BY <1>0, <3>1, <3>2, CountedOthers
    <2> QED
      BY <2>1, <2>2
  <1>5. ASSUME NEW t \in Thread, Child(t), NEW u \in Thread PROVE Told(u)' /\ Counted(u)'
    <2>1. UNCHANGED <<retries, tpc, test, failures, done>>
      BY <1>5 DEF Child, ReportFailure, FinishTest, mainVars, threadVars
    <2>2. CASE u = t
      <3>1. done[t] \subseteq Done /\ \A x \in Done : verdict'[x] = verdict[x]
        BY <1>0, <1>5, ChildVerdicts DEF Done
      <3>2. FailedOf(t)' = FailedOf(t)
        BY <2>1, <3>1 DEF FailedOf
      <3>3. Counted(t)'
        BY <1>0, <2>1, <3>2 DEF Counted
      <3> QED
        BY <1>0, <1>5, <2>2, <3>3, ToldChild
    <2>3. CASE u # t
      <3>1. output'[u] = output[u]
        BY <1>0, <1>5, <2>3 DEF Child, ReportFailure, FinishTest, IInv, TypeOK
      <3>2. test[u] \in Test => test[u] # test[t]
        BY <1>0, <2>3, NoTestIsNone DEF IInv, OnePlace
      <3> QED
        BY <1>0, <1>5, <2>1, <3>1, <3>2, ChildVerdicts, CountedOthers
    <2> QED
      BY <2>2, <2>3
  <1>6. ASSUME (\E t \in Thread : Crash(t)) \/ UNCHANGED vars, NEW u \in Thread
        PROVE  Told(u)' /\ Counted(u)'
    <2>1. /\ retries' = retries /\ test' = test /\ output' = output /\ failures' = failures
          /\ done' = done /\ verdict' = verdict /\ tpc' = tpc
      BY <1>6 DEF Crash, vars, mainVars, threadVars, childVars
    <2>2. tpc'[u] = tpc[u]
      BY <2>1
    <2> QED
      BY <1>1, <2>1, <2>2
  <1> QED
    BY <1>0, <1>2, <1>3, <1>4, <1>5, <1>6 DEF CountInv, Next, Main, Over

\* For any threads and tests, and whatever dies: with retries each thread counts the
\* tests that it has seen fail, each once, and without retries none are counted.
THEOREM EachFailureCounted == Spec => []FailuresCounted
  <1>1. Init => CountInv
    <2> SUFFICES ASSUME Init PROVE CountInv
      OBVIOUS
    <2>1. \A t \in Thread : Told(t)
      BY DEF Init, Told
    <2>2. ASSUME NEW t \in Thread PROVE Counted(t)
      <3>1. FailedOf(t) = {} /\ failures[t] = 0 /\ tpc[t] = "unborn"
        BY DEF Init, FailedOf
      <3> QED
        BY <3>1, FS_EmptySet DEF Counted
    <2> QED
      BY <2>1, <2>2, InitIInv DEF CountInv
  <1>2. CountInv => FailuresCounted
    BY DEF CountInv, Counted, FailedOf, FailuresCounted
  <1> QED
    BY <1>1, <1>2, NextCounted, PTL DEF Spec

-----------------------------------------------------------------------------
\* A thread may put a test back that nobody takes when it has given up, or take the
\* next one itself when it has not.
Loose(t) ==
    \/ "parallel" \in gaveUp[t]
    \/ queue[t] = "parallel" /\ tpc[t] \in {"look", "pop"}

LooseThreads == {t \in Thread : Loose(t)}

\* One that left the parallel queue because it was empty.
Satisfied(t) == tpc[t] = "ended" /\ "parallel" \notin gaveUp[t]

\* The serial queue comes first, and a thread that has left the parallel one is at its
\* end.
Leaves(t) ==
    /\ tpc[t] = "ended" => queue[t] = "parallel"
    /\ "parallel" \in gaveUp[t] => tpc[t] = "ended"
    /\ tpc[t] = "unborn" => queue[t] = IF t = FirstThread THEN "serial" ELSE "parallel"
    /\ mpc = "done" => tpc[t] = "ended"

SerialLeft ==
    queue[FirstThread] = "parallel" => jobs["serial"] = {} \/ "serial" \in gaveUp[FirstThread]

\* When one has found the parallel queue empty, what is there since was put back by
\* threads that have given up or that are about to look for it.
FewLeft ==
    (\E u \in Thread : Satisfied(u)) => Cardinality(jobs["parallel"]) <= Cardinality(LooseThreads)

LeaveInv == IInv /\ (\A t \in Thread : Leaves(t)) /\ SerialLeft /\ FewLeft

\* A test more for a thread more, and a test less for a thread less.
LEMMA OneMore ==
    ASSUME NEW P, NEW L, NEW M, NEW x, NEW t, IsFiniteSet(P), IsFiniteSet(M),
           L \cup {t} \subseteq M, t \notin L, Cardinality(P) <= Cardinality(L)
    PROVE  Cardinality(P \cup {x}) <= Cardinality(M)
  <1>1. IsFiniteSet(L) /\ IsFiniteSet(L \cup {t})
    BY FS_Subset
  <1>2. Cardinality(L \cup {t}) = Cardinality(L) + 1
    BY <1>1, FS_AddElement
  <1>3. Cardinality(L \cup {t}) <= Cardinality(M)
    BY FS_Subset
  <1>4. Cardinality(P \cup {x}) = Cardinality(P) \/ Cardinality(P \cup {x}) = Cardinality(P) + 1
    BY FS_AddElement
  <1>5. /\ Cardinality(P) \in Nat /\ Cardinality(L) \in Nat /\ Cardinality(M) \in Nat
    BY <1>1, FS_CardinalityType
  <1> QED
    BY <1>2, <1>3, <1>4, <1>5

LEMMA OneLess ==
    ASSUME NEW P, NEW L, NEW M, NEW x \in P, NEW t \in L, IsFiniteSet(P), IsFiniteSet(L),
           IsFiniteSet(M), L \ {t} \subseteq M, Cardinality(P) <= Cardinality(L)
    PROVE  Cardinality(P \ {x}) <= Cardinality(M)
  <1>1. Cardinality(P \ {x}) = Cardinality(P) - 1 /\ Cardinality(L \ {t}) = Cardinality(L) - 1
    BY FS_RemoveElement
  <1>2. Cardinality(L \ {t}) <= Cardinality(M)
    BY FS_Subset
  <1>3. Cardinality(P) \in Nat /\ Cardinality(L) \in Nat /\ Cardinality(M) \in Nat
    BY FS_CardinalityType
  <1> QED
    BY <1>1, <1>2, <1>3

\* Where a thread's own step takes it.
LEMMA LeavesWork ==
    ASSUME IInv, NEW t \in Thread, Leaves(t), Work(t)
    PROVE  Leaves(t)'
  <1>0. TypeOK /\ mpc' = mpc
    BY DEF IInv, Work, FindJobs, FindNone, PopJob, PopNothing, ReadNothing, ReadFinished, ReadFailure,
      Drain, Restart, GiveUp, vars, mainVars
  <1>m. tpc[t] # "ended" /\ tpc[t] # "unborn" /\ mpc # "done"
    BY DEF Work, FindJobs, FindNone, PopJob, PopNothing, ReadNothing, ReadFinished, Reads,
      ReadFailure, Drain, Restart, GiveUp, FindDead, Leaves
  <1>1. CASE FindJobs(t) \/ PopJob(t) \/ PopNothing(t) \/ ReadFinished(t) \/ Drain(t) \/ Restart(t)
    <2>1. gaveUp' = gaveUp /\ tpc'[t] \in {"look", "pop", "read"}
      BY <1>0, <1>1 DEF FindJobs, PopJob, PopNothing, ReadFinished, Drain, Restart, EndTest, TypeOK
    <2> QED
      BY <1>0, <1>m, <2>1 DEF Leaves
  <1>2. CASE ReadFailure(t) \/ ReadNothing(t)
    <2>1. gaveUp' = gaveUp /\ tpc'[t] \in {tpc[t], "drain"}
      BY <1>0, <1>2 DEF ReadFailure, ReadNothing, vars, threadVars, TypeOK
    <2> QED
      BY <1>0, <1>m, <2>1 DEF Leaves
  <1>3. CASE FindNone(t) \/ GiveUp(t)
    <2>0. LeaveQueue(t) /\ queue[t] \in Queue
      BY <1>0, <1>3 DEF FindNone, GiveUp, TypeOK
    <2>1. gaveUp'[t] \in {gaveUp[t], gaveUp[t] \cup {queue[t]}}
      BY <1>0, <1>3 DEF FindNone, GiveUp, TypeOK
    <2>2. CASE queue[t] = "serial"
      <3>1. tpc'[t] = "look"
        BY <1>0, <2>0, <2>2 DEF LeaveQueue, TypeOK
      <3>2. "parallel" \notin gaveUp'[t]
        BY <1>m, <2>1, <2>2 DEF Leaves
      <3> QED
        BY <1>0, <1>m, <3>1, <3>2 DEF Leaves
    <2>3. CASE queue[t] = "parallel"
      <3>1. tpc'[t] = "ended" /\ queue'[t] = "parallel"
        BY <1>0, <2>0, <2>3 DEF LeaveQueue, TypeOK
      <3> QED
        BY <1>0, <1>m, <3>1 DEF Leaves
    <2> QED
      BY <2>0, <2>2, <2>3 DEF Queue
  <1> QED
    BY <1>1, <1>2, <1>3 DEF Work

\* A thread that enters the parallel queue's loop, or keeps its place there, leaves the
\* queue as it is; one that takes a test or puts it back is loose before or after; and
\* one that ends satisfied has found the queue empty.
LEMMA WorkParallel ==
    ASSUME IInv, NEW t \in Thread, Leaves(t), Work(t)
    PROVE  /\ \/ jobs'["parallel"] = jobs["parallel"] /\ (Loose(t) => Loose(t)')
              \/ jobs'["parallel"] = {}
              \/ /\ \E x : jobs'["parallel"] = jobs["parallel"] \cup {x}
                 /\ ~Loose(t) /\ Loose(t)'
              \/ /\ \E x \in jobs["parallel"] : jobs'["parallel"] = jobs["parallel"] \ {x}
                 /\ Loose(t)
           /\ Satisfied(t)' => jobs'["parallel"] = {}
  <1>0. TypeOK /\ queue[t] \in Queue /\ jobs \in [Queue -> SUBSET Test]
        /\ "serial" \in Queue /\ "parallel" \in Queue
    BY DEF IInv, TypeOK, Queue
  <1>m. tpc[t] # "ended" /\ "parallel" \notin gaveUp[t]
    BY DEF Work, FindJobs, FindNone, PopJob, PopNothing, ReadNothing, ReadFinished, Reads,
      ReadFailure, Drain, Restart, GiveUp, FindDead, Leaves
  <1>1. CASE FindJobs(t) \/ PopNothing(t) \/ ReadFinished(t) \/ Drain(t)
    <2>1. /\ jobs' = jobs /\ queue' = queue /\ gaveUp' = gaveUp /\ tpc'[t] \in {"look", "pop"}
      BY <1>0, <1>1 DEF FindJobs, PopNothing, ReadFinished, Drain, EndTest, TypeOK
    <2> QED
      BY <1>m, <2>1 DEF Loose, Satisfied
  <1>2. CASE ReadFailure(t) \/ ReadNothing(t)
    <2>1. /\ jobs' = jobs /\ gaveUp' = gaveUp /\ tpc[t] \in Held /\ tpc'[t] \in {tpc[t], "drain"}
      BY <1>0, <1>2 DEF ReadFailure, Reads, ReadNothing, vars, threadVars, TypeOK, Held
    <2> QED
      BY <1>m, <2>1 DEF Loose, Satisfied, Held
  <1>3. CASE PopJob(t)
    <2>1. PICK x \in Test : PopTest(t, x)
      BY <1>3 DEF PopJob
    <2>2. /\ jobs' = [jobs EXCEPT ![queue[t]] = @ \ {x}] /\ x \in jobs[queue[t]]
          /\ gaveUp' = gaveUp /\ queue' = queue /\ tpc[t] = "pop" /\ tpc'[t] = "read"
      BY <1>0, <1>3, <2>1 DEF PopJob, PopTest, First, TypeOK
    <2>3. CASE queue[t] = "parallel"
      BY <1>0, <1>m, <2>2, <2>3 DEF Loose, Satisfied
    <2>4. CASE queue[t] = "serial"
      BY <1>0, <1>m, <2>2, <2>4 DEF Loose, Satisfied
    <2> QED
      BY <1>0, <2>3, <2>4 DEF Queue
  <1>4. CASE FindNone(t)
    <2>1. jobs' = jobs /\ jobs[queue[t]] = {} /\ LeaveQueue(t) /\ gaveUp' = gaveUp
      BY <1>4 DEF FindNone
    <2>2. CASE queue[t] = "parallel"
      BY <2>1, <2>2
    <2>3. CASE queue[t] = "serial"
      <3>1. tpc'[t] = "look"
        BY <1>0, <2>1, <2>3 DEF LeaveQueue, TypeOK
      <3> QED
        BY <1>m, <2>1, <2>3, <3>1 DEF Loose, Satisfied
    <2> QED
      BY <1>0, <2>2, <2>3 DEF Queue
  <1>5. CASE Restart(t)
    <2>1. /\ jobs' = [jobs EXCEPT ![queue[t]] = @ \cup {test[t]}]
          /\ gaveUp' = gaveUp /\ queue' = queue /\ tpc[t] = "read" /\ tpc'[t] = "look"
      BY <1>0, <1>5 DEF Restart, FindDead, PutBack, TypeOK
    <2>2. CASE queue[t] = "parallel"
      BY <1>0, <1>m, <2>1, <2>2 DEF Loose, Satisfied
    <2>3. CASE queue[t] = "serial"
      BY <1>0, <1>m, <2>1, <2>3 DEF Loose, Satisfied
    <2> QED
      BY <1>0, <2>2, <2>3 DEF Queue
  <1>6. CASE GiveUp(t)
    <2>1. /\ jobs' = [jobs EXCEPT ![queue[t]] = @ \cup {test[t]}] /\ tpc[t] = "read"
          /\ gaveUp'[t] = gaveUp[t] \cup {queue[t]} /\ LeaveQueue(t)
      BY <1>0, <1>6 DEF GiveUp, FindDead, PutBack, TypeOK
    <2>2. CASE queue[t] = "parallel"
      BY <1>0, <1>m, <2>1, <2>2 DEF Loose, Satisfied
    <2>3. CASE queue[t] = "serial"
      <3>1. tpc'[t] = "look"
        BY <1>0, <2>1, <2>3 DEF LeaveQueue, TypeOK
      <3> QED
        BY <1>0, <1>m, <2>1, <2>3, <3>1 DEF Loose, Satisfied
    <2> QED
      BY <1>0, <2>2, <2>3 DEF Queue
  <1> QED
    BY <1>1, <1>2, <1>3, <1>4, <1>5, <1>6 DEF Work

\* Only a thread that leaves the serial queue after its restarts leaves tests on it.
LEMMA SerialWork ==
    ASSUME IInv, SerialLeft, NEW t \in Thread, Work(t)
    PROVE  SerialLeft'
  <1>0. TypeOK /\ Hands /\ queue[t] \in Queue /\ jobs \in [Queue -> SUBSET Test]
        /\ "serial" \in Queue /\ "parallel" \in Queue /\ FirstThread \in Thread
    BY PoolAssumption DEF IInv, TypeOK, Queue
  <1>1. CASE jobs'["serial"] \subseteq jobs["serial"] /\ queue' = queue /\ gaveUp' = gaveUp
    BY <1>1 DEF SerialLeft
  <1>2. CASE FindNone(t) \/ GiveUp(t)
    <2>1. CASE queue[t] = "serial"
      <3>1. t = FirstThread
        BY <1>0, <2>1 DEF Hands
      <3>2. CASE FindNone(t)
        BY <2>1, <3>1, <3>2 DEF FindNone, SerialLeft
      <3>3. CASE GiveUp(t)
        <4>1. "serial" \in gaveUp'[t]
          BY <1>0, <2>1, <3>3 DEF GiveUp, TypeOK
        <4> QED
          BY <3>1, <4>1 DEF SerialLeft
      <3> QED
        BY <1>2, <3>2, <3>3
    <2>2. CASE queue[t] = "parallel"
      <3>1. jobs'["serial"] = jobs["serial"] /\ queue' = queue
        BY <1>0, <1>2, <2>2 DEF FindNone, GiveUp, FindDead, PutBack, LeaveQueue
      <3>2. gaveUp' \in {gaveUp, [gaveUp EXCEPT ![t] = @ \cup {queue[t]}]}
        BY <1>2 DEF FindNone, GiveUp
      <3>3. gaveUp'[FirstThread] \in {gaveUp[FirstThread], gaveUp[FirstThread] \cup {queue[t]}}
        BY <1>0, <3>2 DEF TypeOK
      <3> QED
        BY <3>1, <3>3 DEF SerialLeft
    <2> QED
      BY <1>0, <2>1, <2>2 DEF Queue
  <1>3. CASE PopJob(t)
    <2>1. PICK x \in Test : PopTest(t, x)
      BY <1>3 DEF PopJob
    <2>2. jobs' = [jobs EXCEPT ![queue[t]] = @ \ {x}]
      BY <2>1 DEF PopTest
    <2> QED
      BY <1>0, <1>1, <1>3, <2>2 DEF PopJob
  <1>4. CASE Restart(t)
    <2>1. jobs' = [jobs EXCEPT ![queue[t]] = @ \cup {test[t]}] /\ queue' = queue /\ gaveUp' = gaveUp
      BY <1>4 DEF Restart, FindDead, PutBack
    <2>2. CASE queue[t] = "serial"
      <3>1. t = FirstThread
        BY <1>0, <2>2 DEF Hands
      <3> QED
        BY <2>1, <2>2, <3>1 DEF SerialLeft
    <2>3. CASE queue[t] = "parallel"
      BY <1>0, <1>1, <2>1, <2>3
    <2> QED
      BY <1>0, <2>2, <2>3 DEF Queue
  <1> QED
    BY <1>1, <1>2, <1>3, <1>4 DEF Work, FindJobs, PopNothing, ReadNothing, ReadFinished, ReadFailure,
      Drain, vars, threadVars

\* A thread that leaves the parallel queue satisfied starts the bound, and the others'
\* steps keep it: a test is taken by a loose thread and put back by one that becomes
\* loose.
LEMMA FewWork ==
    ASSUME IInv, IInv', FewLeft, NEW t \in Thread, Leaves(t), Work(t)
    PROVE  FewLeft'
  <1>0. TypeOK /\ IsFiniteSet(Thread) /\ IsFiniteSet(jobs["parallel"])
    BY PoolAssumption, FS_Subset DEF IInv, TypeOK, Queue
  <1>1. \A u \in Thread \ {t} : (Loose(u)' <=> Loose(u)) /\ (Satisfied(u)' <=> Satisfied(u))
    BY <1>0, WorkOthers DEF Loose, Satisfied
  <1>2. IsFiniteSet(LooseThreads) /\ IsFiniteSet(LooseThreads')
    BY <1>0, FS_Subset DEF LooseThreads
  <1> SUFFICES ASSUME NEW u \in Thread, Satisfied(u)'
               PROVE  Cardinality(jobs'["parallel"]) <= Cardinality(LooseThreads')
    BY DEF FewLeft
  <1>3. CASE jobs'["parallel"] = {}
    BY <1>2, <1>3, FS_EmptySet, FS_CardinalityType
  <1>4. CASE jobs'["parallel"] # {}
    <2>1. Satisfied(u)
      BY <1>1, <1>4, WorkParallel
    <2>2. Cardinality(jobs["parallel"]) <= Cardinality(LooseThreads)
      BY <2>1 DEF FewLeft
    <2>3. CASE jobs'["parallel"] = jobs["parallel"] /\ (Loose(t) => Loose(t)')
      <3>1. LooseThreads \subseteq LooseThreads'
        BY <1>1, <2>3 DEF LooseThreads
      <3>2. Cardinality(LooseThreads) <= Cardinality(LooseThreads')
        BY <1>2, <3>1, FS_Subset
      <3>3. /\ Cardinality(LooseThreads) \in Nat /\ Cardinality(LooseThreads') \in Nat
            /\ Cardinality(jobs["parallel"]) \in Nat
        BY <1>0, <1>2, FS_CardinalityType
      <3> QED
        BY <2>2, <2>3, <3>2, <3>3
    <2>4. ASSUME NEW x, jobs'["parallel"] = jobs["parallel"] \cup {x}, ~Loose(t), Loose(t)'
          PROVE  Cardinality(jobs'["parallel"]) <= Cardinality(LooseThreads')
      <3>1. LooseThreads \cup {t} \subseteq LooseThreads' /\ t \notin LooseThreads
        BY <1>1, <2>4 DEF LooseThreads
      <3> QED
        BY <1>0, <1>2, <2>2, <2>4, <3>1, OneMore
    <2>5. ASSUME NEW x \in jobs["parallel"], jobs'["parallel"] = jobs["parallel"] \ {x}, Loose(t)
          PROVE  Cardinality(jobs'["parallel"]) <= Cardinality(LooseThreads')
      <3>1. LooseThreads \ {t} \subseteq LooseThreads' /\ t \in LooseThreads
        BY <1>1, <2>5 DEF LooseThreads
      <3> QED
        BY <1>0, <1>2, <2>2, <2>5, <3>1, OneLess
    <2> QED
      BY <1>4, <2>3, <2>4, <2>5, WorkParallel
  <1> QED
    BY <1>3, <1>4

LEMMA NextLeft == LeaveInv /\ [Next]_vars => LeaveInv'
  <1> SUFFICES ASSUME LeaveInv, [Next]_vars PROVE LeaveInv'
    OBVIOUS
  <1>0. /\ IInv /\ IInv' /\ (\A t \in Thread : Leaves(t)) /\ SerialLeft /\ FewLeft
        /\ FirstThread \in Thread
    BY PoolAssumption, TypeStep, RestartsStep, HandsStep, HeardStep, BegunStep, OnePlaceStep
    DEF LeaveInv, IInv
  <1>1. CASE AddJobs \/ StartProcessing
    <2>1. /\ \A u \in Thread : tpc[u] = "unborn" /\ tpc'[u] \in {"unborn", "look"}
          /\ queue' = queue /\ gaveUp' = gaveUp /\ mpc' # "done"
      BY <1>0, <1>1 DEF AddJobs, StartProcessing, threadVars, IInv, Begun
    <2>2. queue'[FirstThread] # "parallel"
      BY <1>0, <2>1 DEF Leaves
    <2>3. \A u \in Thread : ~Satisfied(u)'
      BY <2>1 DEF Satisfied
    <2> QED
      BY <1>0, <2>1, <2>2, <2>3 DEF LeaveInv, Leaves, SerialLeft, FewLeft
  <1>2. CASE Wait
    <2>1. /\ UNCHANGED <<jobs, tpc, queue, gaveUp>> /\ \A u \in Thread : tpc[u] = "ended"
      BY <1>2 DEF Wait, threadVars
    <2>2. LooseThreads' = LooseThreads /\ \A u \in Thread : Satisfied(u)' <=> Satisfied(u)
      BY <2>1 DEF LooseThreads, Loose, Satisfied
    <2> QED
      BY <1>0, <2>1, <2>2 DEF LeaveInv, Leaves, SerialLeft, FewLeft
  <1>3. ASSUME NEW t \in Thread, Work(t) PROVE LeaveInv'
    <2>1. mpc' = mpc
      BY <1>3 DEF Work, FindJobs, FindNone, PopJob, PopNothing, ReadNothing, ReadFinished,
        ReadFailure, Drain, Restart, GiveUp, vars, mainVars
    <2>2. ASSUME NEW u \in Thread, u # t PROVE Leaves(u)'
      BY <1>0, <1>3, <2>1, <2>2, WorkOthers DEF Leaves, IInv
    <2>3. Leaves(t)'
      BY <1>0, <1>3, LeavesWork
    <2>4. SerialLeft' /\ FewLeft'
      BY <1>0, <1>3, SerialWork, FewWork
    <2> QED
      BY <1>0, <2>2, <2>3, <2>4 DEF LeaveInv
  <1>4. CASE (\E t \in Thread : Child(t) \/ Crash(t)) \/ UNCHANGED vars
    <2>1. UNCHANGED <<mpc, jobs, tpc, queue, gaveUp>>
      BY <1>4 DEF Child, ReportFailure, FinishTest, Crash, vars, mainVars, threadVars
    <2>2. LooseThreads' = LooseThreads /\ \A u \in Thread : Satisfied(u)' <=> Satisfied(u)
      BY <2>1 DEF LooseThreads, Loose, Satisfied
    <2> QED
      BY <1>0, <2>1, <2>2 DEF LeaveInv, Leaves, SerialLeft, FewLeft
  <1> QED
    BY <1>1, <1>2, <1>3, <1>4 DEF Next, Main, Over

\* However many threads and tests, and whatever dies: when the pool is done, serial tests
\* are left only by a first thread that gave up, and, unless all threads have given up on
\* the parallel queue, no more tests are left there than threads that have.
THEOREM FewAreLeft == Spec => []LeftBehind
  <1>1. Init => LeaveInv
    BY InitIInv, PoolAssumption DEF Init, LeaveInv, Leaves, SerialLeft, FewLeft, Satisfied
  <1>2. ASSUME LeaveInv PROVE LeftBehind
    <2> SUFFICES ASSUME mpc = "done"
                 PROVE  /\ jobs["serial"] # {} => "serial" \in gaveUp[FirstThread]
                        /\ {t \in Thread : "parallel" \in gaveUp[t]} # Thread =>
                             Cardinality(jobs["parallel"])
                               <= Cardinality({t \in Thread : "parallel" \in gaveUp[t]})
      BY DEF LeftBehind
    <2>1. \A t \in Thread : tpc[t] = "ended" /\ queue[t] = "parallel"
      BY <1>2 DEF LeaveInv, Leaves
    <2>2. LooseThreads = {t \in Thread : "parallel" \in gaveUp[t]}
      BY <2>1 DEF LooseThreads, Loose
    <2>3. LooseThreads # Thread => \E u \in Thread : Satisfied(u)
      BY <2>1, <2>2 DEF Satisfied
    <2> QED
      BY <1>2, <2>1, <2>2, <2>3, PoolAssumption DEF LeaveInv, SerialLeft, FewLeft
  <1> QED
    BY <1>1, <1>2, NextLeft, PTL DEF Spec
=============================================================================
