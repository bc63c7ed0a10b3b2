---------------------------- MODULE ProcessPool ----------------------------
(***************************************************************************)
(* hoot-test's ProcessPool: threads take tests from two queues and have    *)
(* each a child process run them.  A child that dies is replaced and its   *)
(* test goes back on the queue, until the thread has lost too many.        *)
(*                                                                         *)
(* A definition marked "a fault" is not part of the model: it is a version *)
(* of the definition below it with a mistake that a property must notice.  *)
(***************************************************************************)
EXTENDS Integers, Sequences, FiniteSets

CONSTANTS
    Thread,       \* the threads of the pool
    FirstThread,  \* the one that gets the serial jobs
    Test,         \* the tests to run, numbered in the order of their names
    SerialTests,  \* those that cannot run while another of them does
    MaxRestart,   \* MAX_RESTART
    MaxCrashes    \* bound: how many children die

ASSUME PoolAssumption ==
    /\ IsFiniteSet(Thread) /\ FirstThread \in Thread
    /\ IsFiniteSet(Test) /\ Test \subseteq Nat \ {0}
    /\ SerialTests \subseteq Test
    /\ MaxRestart \in Nat \ {0}
    /\ MaxCrashes \in Nat

VARIABLES
    retries,      \* not _disableFailureRetries
    mpc,          \* where the main thread is
    jobs,         \* the two queues, sets of tests
    tpc,          \* where each thread is
    queue,        \* the queue each thread works on
    test,         \* the test each thread has popped, or NoTest
    restartCount, \* restart_count of each thread
    failures,     \* _failures
    gaveUp,       \* history: the queues each thread left because of its restarts
    child,        \* the child of each thread: "idle", "testing" or "dead"
    output,       \* what the child has written and the thread has not read
    verdict,      \* external: how each test last came out
    done,         \* history: the tests each thread has seen the end of
    crashes       \* how many children have died

mainVars == <<retries, mpc>>
threadVars == <<tpc, queue, test, restartCount, failures, gaveUp, done>>
childVars == <<child, output, verdict, crashes>>
vars == <<mainVars, jobs, threadVars, childVars>>

NoTest == 0
Queue == {"serial", "parallel"}
Line == {"failure", "finished"}

TypeOK ==
    /\ retries \in BOOLEAN
    /\ mpc \in {"add", "start", "wait", "done"}
    /\ jobs \in [Queue -> SUBSET Test]
    /\ tpc \in [Thread -> {"unborn", "look", "pop", "read", "drain", "ended"}]
    /\ queue \in [Thread -> Queue]
    /\ test \in [Thread -> Test \cup {NoTest}]
    /\ restartCount \in [Thread -> 0..MaxRestart]
    /\ failures \in [Thread -> Nat]
    /\ gaveUp \in [Thread -> SUBSET Queue]
    /\ child \in [Thread -> {"idle", "testing", "dead"}]
    /\ output \in [Thread -> Seq(Line)]
    /\ verdict \in [Test -> {"none", "passed", "failed"}]
    /\ done \in [Thread -> SUBSET Test]
    /\ crashes \in Nat

Init ==
    /\ retries \in BOOLEAN
    /\ mpc = "add"
    /\ jobs = [q \in Queue |-> {}]
    /\ tpc = [t \in Thread |-> "unborn"]
    /\ queue = [t \in Thread |-> IF t = FirstThread THEN "serial" ELSE "parallel"]
    /\ test = [t \in Thread |-> NoTest]
    /\ restartCount = [t \in Thread |-> 0]
    /\ failures = [t \in Thread |-> 0]
    /\ gaveUp = [t \in Thread |-> {}]
    /\ child = [t \in Thread |-> "idle"]
    /\ output = [t \in Thread |-> <<>>]
    /\ verdict = [x \in Test |-> "none"]
    /\ done = [t \in Thread |-> {}]
    /\ crashes = 0

-----------------------------------------------------------------------------
(* The main thread. *)

\* A fault: tests that are on the serial queue are added to the other one too.
AddedToBoth(serial) == Test

\* addJob of every test finds the serial ones on their queue already.
Added(serial) == Test \ serial

AddJobs ==
    /\ mpc = "add"
    /\ mpc' = "start"
    /\ jobs' = [serial |-> SerialTests, parallel |-> Added(SerialTests)]
    /\ UNCHANGED <<retries, threadVars, childVars>>

\* Each thread starts with a child of its own.
StartProcessing ==
    /\ mpc = "start"
    /\ mpc' = "wait"
    /\ tpc' = [t \in Thread |-> "look"]
    /\ UNCHANGED <<retries, jobs, queue, test, restartCount, failures, gaveUp, done, childVars>>

\* wait() returns, and the pool's user reports getFailures().
Wait ==
    /\ mpc = "wait"
    /\ \A t \in Thread : tpc[t] = "ended"
    /\ mpc' = "done"
    /\ UNCHANGED <<retries, jobs, threadVars, childVars>>

-----------------------------------------------------------------------------
(* A child: HootTest --listen. *)

ReportFailure(t) ==
    /\ child[t] = "testing"
    /\ verdict[test[t]] = "none"
    /\ verdict' = [verdict EXCEPT ![test[t]] = "failed"]
    /\ output' = [output EXCEPT ![t] = Append(@, "failure")]
    /\ UNCHANGED <<mainVars, jobs, threadVars, child, crashes>>

FinishTest(t) ==
    /\ child[t] = "testing"
    /\ verdict' = [verdict EXCEPT ![test[t]] = IF @ = "none" THEN "passed" ELSE @]
    /\ output' = [output EXCEPT ![t] = Append(@, "finished")]
    /\ child' = [child EXCEPT ![t] = "idle"]
    /\ UNCHANGED <<mainVars, jobs, threadVars, crashes>>

\* It dies, also between two tests or before its first.
Crash(t) ==
    /\ child[t] # "dead"
    /\ tpc[t] \notin {"unborn", "ended"}
    /\ crashes < MaxCrashes
    /\ crashes' = crashes + 1
    /\ child' = [child EXCEPT ![t] = "dead"]
    /\ UNCHANGED <<mainVars, jobs, threadVars, output, verdict>>

Child(t) == ReportFailure(t) \/ FinishTest(t)

-----------------------------------------------------------------------------
(* processJobs *)

NewChild(t) ==
    /\ child' = [child EXCEPT ![t] = "idle"]
    /\ output' = [output EXCEPT ![t] = <<>>]

FindJobs(t) ==
    /\ tpc[t] = "look"
    /\ jobs[queue[t]] # {}
    /\ tpc' = [tpc EXCEPT ![t] = "pop"]
    /\ UNCHANGED <<mainVars, jobs, queue, test, restartCount, failures, gaveUp, done, childVars>>

\* The process is reset between the queues, and told to finish after the second.
LeaveQueue(t) ==
    IF queue[t] = "serial"
    THEN /\ NewChild(t)
         /\ queue' = [queue EXCEPT ![t] = "parallel"]
         /\ restartCount' = [restartCount EXCEPT ![t] = 0]
         /\ tpc' = [tpc EXCEPT ![t] = "look"]
    ELSE /\ tpc' = [tpc EXCEPT ![t] = "ended"]
         /\ UNCHANGED <<child, output, queue, restartCount>>

FindNone(t) ==
    /\ tpc[t] = "look"
    /\ jobs[queue[t]] = {}
    /\ LeaveQueue(t)
    /\ UNCHANGED <<mainVars, jobs, test, failures, gaveUp, done, verdict, crashes>>

\* The set of names is popped from its beginning.
First(x, S) == x \in S /\ \A y \in S : x <= y

\* The test is written to the child, if it is alive.
PopTest(t, x) ==
    /\ First(x, jobs[queue[t]])
    /\ test' = [test EXCEPT ![t] = x]
    /\ jobs' = [jobs EXCEPT ![queue[t]] = @ \ {x}]
    /\ verdict' = [verdict EXCEPT ![x] = "none"]

PopJob(t) ==
    /\ tpc[t] = "pop"
    /\ \E x \in Test : PopTest(t, x)
    /\ child' = [child EXCEPT ![t] = IF @ = "idle" THEN "testing" ELSE @]
    /\ tpc' = [tpc EXCEPT ![t] = "read"]
    /\ UNCHANGED <<mainVars, queue, restartCount, failures, gaveUp, done, output, crashes>>

\* Another thread was faster.
PopNothing(t) ==
    /\ tpc[t] = "pop"
    /\ jobs[queue[t]] = {}
    /\ tpc' = [tpc EXCEPT ![t] = "look"]
    /\ UNCHANGED <<mainVars, jobs, queue, test, restartCount, failures, gaveUp, done, childVars>>

Reads(t, line) ==
    /\ tpc[t] = "read"
    /\ output[t] # <<>>
    /\ Head(output[t]) = line

\* The wait for output has timed out; the thread goes round its loop.
ReadNothing(t) ==
    /\ tpc[t] \in {"read", "drain"}
    /\ output[t] = <<>>
    /\ UNCHANGED vars

\* The test has ended.
EndTest(t) ==
    /\ done' = [done EXCEPT ![t] = @ \cup {test[t]}]
    /\ test' = [test EXCEPT ![t] = NoTest]
    /\ tpc' = [tpc EXCEPT ![t] = "look"]

ReadFinished(t) ==
    /\ Reads(t, "finished")
    /\ EndTest(t)
    /\ output' = [output EXCEPT ![t] = Tail(@)]
    /\ UNCHANGED <<mainVars, jobs, queue, restartCount, failures, gaveUp, child, verdict, crashes>>

\* While the child's output is not used up, its death may not have been noticed.
ReadFailure(t) ==
    /\ Reads(t, "failure")
    /\ output' = [output EXCEPT ![t] = Tail(@)]
    /\ IF retries
       THEN /\ failures' = [failures EXCEPT ![t] = @ + 1]
            /\ tpc' = [tpc EXCEPT ![t] = "drain"]
       ELSE UNCHANGED <<failures, tpc>>
    /\ UNCHANGED <<mainVars, jobs, queue, test, restartCount, gaveUp, done, child, verdict, crashes>>

\* A fault: the death of the child is not noticed.
DrainToTheEnd(t) ==
    /\ tpc[t] = "drain"
    /\ output[t] # <<>>
    /\ EndTest(t)
    /\ NewChild(t)
    /\ UNCHANGED <<mainVars, jobs, queue, restartCount, failures, gaveUp, verdict, crashes>>

\* A fault: a test that failed is run again.
DrainAndRetry(t) ==
    /\ tpc[t] = "drain"
    /\ child[t] = "dead" \/ output[t] # <<>>
    /\ jobs' = [jobs EXCEPT ![queue[t]] = @ \cup {test[t]}]
    /\ test' = [test EXCEPT ![t] = NoTest]
    /\ tpc' = [tpc EXCEPT ![t] = "look"]
    /\ NewChild(t)
    /\ UNCHANGED <<mainVars, queue, restartCount, failures, gaveUp, done, verdict, crashes>>

\* After a failure the thread reads up to the end, of the test or of the child, and
\* takes a new child.
Drain(t) ==
    /\ tpc[t] = "drain"
    /\ child[t] = "dead" \/ output[t] # <<>>
    /\ EndTest(t)
    /\ NewChild(t)
    /\ UNCHANGED <<mainVars, jobs, queue, restartCount, failures, gaveUp, verdict, crashes>>

\* A fault: the test is not put back.
PutBackNothing(t) == jobs

\* A fault: it is put on the queue of the serial tests.
PutBackSerial(t) == [jobs EXCEPT !["serial"] = @ \cup {test[t]}]

PutBack(t) == [jobs EXCEPT ![queue[t]] = @ \cup {test[t]}]

\* The child is found dead before the end of its test is read.
FindDead(t) ==
    /\ tpc[t] = "read"
    /\ child[t] = "dead"
    /\ retries
    /\ ~Reads(t, "finished")
    /\ test' = [test EXCEPT ![t] = NoTest]
    /\ jobs' = PutBack(t)

MayRestart(t) == restartCount[t] + 1 < MaxRestart

Restart(t) ==
    /\ FindDead(t)
    /\ MayRestart(t)
    /\ restartCount' = [restartCount EXCEPT ![t] = @ + 1]
    /\ NewChild(t)
    /\ tpc' = [tpc EXCEPT ![t] = "look"]
    /\ UNCHANGED <<mainVars, queue, failures, gaveUp, done, verdict, crashes>>

\* "failed to execute, exiting thread": the thread leaves the queue.
GiveUp(t) ==
    /\ FindDead(t)
    /\ ~MayRestart(t)
    /\ gaveUp' = [gaveUp EXCEPT ![t] = @ \cup {queue[t]}]
    /\ LeaveQueue(t)
    /\ UNCHANGED <<mainVars, failures, done, verdict, crashes>>

Work(t) ==
    \/ FindJobs(t) \/ FindNone(t) \/ PopJob(t) \/ PopNothing(t)
    \/ ReadNothing(t) \/ ReadFinished(t) \/ ReadFailure(t) \/ Drain(t)
    \/ Restart(t) \/ GiveUp(t)

Main == AddJobs \/ StartProcessing \/ Wait

\* Nothing is left to do.
Over == mpc = "done" /\ UNCHANGED vars

Next ==
    \/ Main
    \/ \E t \in Thread : Work(t) \/ Child(t) \/ Crash(t)
    \/ Over

Spec == Init /\ [][Next]_vars

\* Threads and children are scheduled, and a test comes to an end.
Fairness ==
    /\ WF_vars(Main)
    /\ \A t \in Thread : WF_vars(Work(t)) /\ WF_vars(FinishTest(t))

FairSpec == Spec /\ Fairness

-----------------------------------------------------------------------------
OnQueue(x) == {q \in Queue : x \in jobs[q]}
Done == UNION {done[t] : t \in Thread}
QueueOf(x) == IF x \in SerialTests THEN "serial" ELSE "parallel"

\* Whatever dies and is put back, a test is with one thread, on its own queue or done:
\* it is never run by two threads at once, and never lost between them.
OnePlace ==
    /\ \A t, u \in Thread : test[t] = test[u] /\ test[t] # NoTest => t = u
    /\ \A t \in Thread : test[t] # NoTest => OnQueue(test[t]) = {} /\ test[t] \notin Done
    /\ \A x \in Test : OnQueue(x) # {} => OnQueue(x) = {QueueOf(x)} /\ x \notin Done
    /\ \A x \in Test :
         mpc # "add" => OnQueue(x) # {} \/ x \in Done \/ \E t \in Thread : test[t] = x

\* Only the first thread runs serial tests ("First process gets the serial jobs",
\* ProcessPool.cpp:256), so no two of them run at once.
SerialAlone ==
    \A t \in Thread : test[t] \in SerialTests => t = FirstThread /\ queue[t] = "serial"

\* A test can be left behind: a thread that gives up puts its test back although the
\* others may have left, the queue being empty.  But unless all of them have given
\* up, each of those who did leaves no more than that one test behind.
LeftBehind ==
    mpc = "done" =>
      /\ jobs["serial"] # {} => "serial" \in gaveUp[FirstThread]
      /\ LET quitters == {t \in Thread : "parallel" \in gaveUp[t]}
         IN  quitters # Thread => Cardinality(jobs["parallel"]) <= Cardinality(quitters)

\* A test that fails is counted once, by the thread that ran it to its end, however
\* often it was started; without retries none is.
FailuresCounted ==
    \A t \in Thread :
      failures[t] = IF retries
                    THEN Cardinality({x \in done[t] : verdict[x] = "failed"})
                           + (IF tpc[t] = "drain" THEN 1 ELSE 0)
                    ELSE 0

\* A thread reads a dead child for ever.
Hangs(t) == tpc[t] = "read" /\ child[t] = "dead" /\ output[t] = <<>> /\ ~retries

\* wait() returns, whatever dies, unless retries are disabled and a child dies: then
\* its thread neither puts the test back nor looks for another end than the output's.
WaitReturns == <>(mpc = "done" \/ \E t \in Thread : Hangs(t))
=============================================================================
