----------------------------- MODULE JobRunner -----------------------------
(***************************************************************************)
(* hoot-services: jobs run in a pool of threads (JobProcessorImpl), each   *)
(* as a chain of commands (JobRunnable).  A job's state is one row of the  *)
(* database that the job, requests to cancel it and requests to delete it  *)
(* change (JobStatusManagerImpl), in transactions of their own.  The row   *)
(* is read and then written: between the two another may write it.         *)
(*                                                                         *)
(* A definition marked "a fault" is not part of the model: it is a version *)
(* of the definition below it with a mistake that a property must notice.  *)
(***************************************************************************)
EXTENDS Integers, Sequences, FiniteSets

CONSTANTS
    Job,          \* the jobs that are submitted
    Commands,     \* of each job: its commands, "external" (a process) or "internal"
    Upload,       \* the jobs that upload a changeset
    Parents,      \* of each job: the jobs its data come from
    PoolSize,     \* INTERNAL_JOB_THREAD_SIZE
    Cancelled,    \* bound: the jobs a user cancels, once each
    Deleted,      \* bound: the jobs a user deletes
    MaxFaults     \* bound: how often the database fails to read or change a row

ASSUME JobAssumption ==
    /\ IsFiniteSet(Job)
    /\ Commands \in [Job -> Seq({"external", "internal"})]
    /\ Parents \in [Job -> SUBSET Job]
    /\ Upload \subseteq Job /\ Cancelled \subseteq Job /\ Deleted \subseteq Job
    /\ PoolSize \in Nat \ {0}
    /\ MaxFaults \in Nat

VARIABLES
    row,          \* job_status: the row of each job
    jpc,          \* where each job's thread is
    cmd,          \* the number of the command it is at
    failed,       \* the loop over the commands ended by a failure
    write,        \* the status the thread is about to set, and what it does then
    saw,          \* the row it has read to do so
    activeCommands,  \* activeCommands of ExternalCommandManagerImpl: a command, or 0
    killed,       \* the process of the job's command has been destroyed
    kpc,          \* where the request to cancel each job is
    ksaw,         \* the row it has read
    krunner,      \* the runner it has found
    unrecorded,   \* history: setFailed could not change the row
    faults        \* how often the database has failed

jobVars == <<jpc, cmd, failed, write, saw>>
commandVars == <<activeCommands, killed>>
cancelVars == <<kpc, ksaw, krunner>>
historyVars == <<unrecorded, faults>>
vars == <<row, jobVars, commandVars, cancelVars, historyVars>>

Status == {"RUNNING", "COMPLETE", "FAILED", "CANCELLED"}
Detail == {"text", "STALE", "CONFLICTS"}
NoRow == [status |-> "none", detail |-> "text", owned |-> FALSE]
Row == [status : Status, detail : Detail, owned : BOOLEAN] \cup {NoRow}

\* A row that updateJobStatus inserts belongs to nobody.
NewRow(s, owned) == [status |-> s, detail |-> "text", owned |-> owned]

InCommand == {"starting", "process", "exited", "internal"}
After(s) == CASE s = "RUNNING" -> "next" [] s = "FAILED" -> "complete" [] s = "COMPLETE" -> "mark"
              [] s = "RAISED" -> "raised"
Ends == {"ended", "raised", "crashed"}
Place == {"queued", "add", "next", "check", "read", "write", "complete", "mark"}
           \cup InCommand \cup Ends
Running(j) == jpc[j] \notin Ends \cup {"queued"}

TypeOK ==
    /\ row \in [Job -> Row]
    /\ jpc \in [Job -> Place]
    /\ cmd \in [Job -> Nat]
    /\ failed \in [Job -> BOOLEAN]
    /\ write \in [Job -> {"RUNNING", "FAILED", "COMPLETE", "RAISED"}]
    /\ saw \in [Job -> Row]
    /\ activeCommands \in [Job -> Nat]
    /\ killed \in [Job -> BOOLEAN]
    /\ kpc \in [Job -> {"none", "read", "write", "lookup", "terminate", "answered", "refused",
                        "error"}]
    /\ ksaw \in [Job -> Row]
    /\ krunner \in [Job -> Nat]
    /\ unrecorded \in [Job -> BOOLEAN]
    /\ faults \in Nat

Init ==
    /\ row = [j \in Job |-> NoRow]
    /\ jpc = [j \in Job |-> "queued"]
    /\ cmd = [j \in Job |-> 0]
    /\ failed = [j \in Job |-> FALSE]
    /\ write = [j \in Job |-> "RUNNING"]
    /\ saw = [j \in Job |-> NoRow]
    /\ activeCommands = [j \in Job |-> 0]
    /\ killed = [j \in Job |-> FALSE]
    /\ kpc = [j \in Job |-> "none"]
    /\ ksaw = [j \in Job |-> NoRow]
    /\ krunner = [j \in Job |-> 0]
    /\ unrecorded = [j \in Job |-> FALSE]
    /\ faults = 0

-----------------------------------------------------------------------------
Goes(j, place) == jpc' = [jpc EXCEPT ![j] = place]

\* A thread of the pool is free.  The services offer the upload of a changeset when
\* the job that derived it has ended.
Start(j) ==
    /\ jpc[j] = "queued"
    /\ Cardinality({i \in Job : Running(i)}) < PoolSize
    /\ \A p \in Parents[j] : jpc[p] \in Ends
    /\ Goes(j, "add")
    /\ UNCHANGED <<row, cmd, failed, write, saw, commandVars, cancelVars, historyVars>>

AddJob(j) ==
    /\ jpc[j] = "add"
    /\ row' = [row EXCEPT ![j] = NewRow("RUNNING", TRUE)]
    /\ Goes(j, "next")
    /\ UNCHANGED <<cmd, failed, write, saw, commandVars, cancelVars, historyVars>>

AddJobFails(j) ==
    /\ jpc[j] = "add"
    /\ faults < MaxFaults
    /\ faults' = faults + 1
    /\ Goes(j, "crashed")
    /\ UNCHANGED <<row, cmd, failed, write, saw, commandVars, cancelVars, unrecorded>>

\* An external command's runner can be found by a cancel from here on.
NextCommand(j) ==
    /\ jpc[j] = "next"
    /\ cmd[j] < Len(Commands[j])
    /\ cmd' = [cmd EXCEPT ![j] = @ + 1]
    /\ killed' = [killed EXCEPT ![j] = FALSE]
    /\ IF Commands[j][cmd[j] + 1] = "external"
       THEN /\ activeCommands' = [activeCommands EXCEPT ![j] = cmd[j] + 1]
            /\ Goes(j, "starting")
       ELSE /\ UNCHANGED activeCommands
            /\ Goes(j, "internal")
    /\ UNCHANGED <<row, failed, write, saw, cancelVars, historyVars>>

CommandsDone(j) ==
    /\ jpc[j] = "next"
    /\ cmd[j] = Len(Commands[j])
    /\ Goes(j, "complete")
    /\ UNCHANGED <<row, cmd, failed, write, saw, commandVars, cancelVars, historyVars>>

\* The runner gets its watchdog and its process.
StartProcess(j) ==
    /\ jpc[j] = "starting"
    /\ Goes(j, "process")
    /\ UNCHANGED <<row, cmd, failed, write, saw, commandVars, cancelVars, historyVars>>

\* The process ends by itself, well or not, or because it was destroyed.
EndProcess(j) ==
    /\ jpc[j] = "process"
    /\ \E bad \in BOOLEAN :
         /\ killed[j] => bad
         /\ failed' = [failed EXCEPT ![j] = bad]
    /\ Goes(j, "exited")
    /\ UNCHANGED <<row, cmd, write, saw, commandVars, cancelVars, historyVars>>

\* What a job's thread does next is to set its status.
Sets(j, s) ==
    /\ write' = [write EXCEPT ![j] = s]
    /\ Goes(j, "read")

\* A fault: a failure ends the loop and is not recorded.
HandleResultSilently(j, bad) ==
    IF bad THEN Goes(j, "complete") /\ UNCHANGED write ELSE Sets(j, "RUNNING")

\* A fault: a failure does not end the loop.
HandleResultGoingOn(j, bad) == Sets(j, "RUNNING")

\* The result of a command: a failure is recorded unless the job has been cancelled,
\* or so the condition says (it compares an enum with a number and always holds).
HandleResult(j, bad) ==
    IF bad THEN Goes(j, "check") /\ UNCHANGED write ELSE Sets(j, "RUNNING")

LeaveCommand(j) ==
    /\ jpc[j] = "exited"
    /\ activeCommands' = [activeCommands EXCEPT ![j] = 0]
    /\ HandleResult(j, failed[j])
    /\ UNCHANGED <<row, cmd, failed, saw, killed, cancelVars, historyVars>>

InternalCommand(j) ==
    /\ jpc[j] = "internal"
    /\ \E bad \in BOOLEAN :
         /\ failed' = [failed EXCEPT ![j] = bad]
         /\ HandleResult(j, bad)
    /\ UNCHANGED <<row, cmd, saw, commandVars, cancelVars, historyVars>>

\* A command throws a WebApplicationException, or anything else: only the first is
\* caught and recorded.
CommandThrows(j) ==
    /\ jpc[j] \in {"starting", "internal"}
    /\ failed' = [failed EXCEPT ![j] = TRUE]
    /\ activeCommands' = [activeCommands EXCEPT ![j] = 0]
    /\ \/ Sets(j, "RAISED") /\ jpc[j] = "internal"
       \/ Goes(j, "crashed") /\ UNCHANGED write
    /\ UNCHANGED <<row, cmd, saw, killed, cancelVars, historyVars>>

\* getStatus() of a row that has been deleted throws.
CheckCancelled(j) ==
    /\ jpc[j] = "check"
    /\ IF row[j] = NoRow THEN Goes(j, "crashed") /\ UNCHANGED write ELSE Sets(j, "FAILED")
    /\ UNCHANGED <<row, cmd, failed, saw, commandVars, cancelVars, historyVars>>

\* The database fails: getJobStatusObj keeps that to itself and returns no row.
CheckFails(j) ==
    /\ jpc[j] = "check"
    /\ faults < MaxFaults
    /\ faults' = faults + 1
    /\ Goes(j, "crashed")
    /\ UNCHANGED <<row, cmd, failed, write, saw, commandVars, cancelVars, unrecorded>>

\* setCompleted is called whether or not a command has failed.
SetCompleted(j) ==
    /\ jpc[j] = "complete"
    /\ Sets(j, "COMPLETE")
    /\ UNCHANGED <<row, cmd, failed, saw, commandVars, cancelVars, historyVars>>

-----------------------------------------------------------------------------
(* updateJobStatus, by whoever has read the row r of job j and sets s. *)

Changed(r, s) == [status |-> s, detail |-> "text", owned |-> r.owned]

\* A fault: the row is not asked whether it is running.
WriteAlways(j, r, s) ==
    CASE r = NoRow  -> row' = [row EXCEPT ![j] = NewRow(s, FALSE)]
      [] r # NoRow  -> row' = [row EXCEPT ![j] =
                         IF @ = NoRow THEN NoRow ELSE Changed(r, s)]

\* A running row is written as it was read, with the new status, unless it has been
\* deleted since; without a row one is inserted; any other row stays as it is.
WriteStatus(j, r, s) ==
    CASE r = NoRow            -> row' = [row EXCEPT ![j] = NewRow(s, FALSE)]
      [] r.status = "RUNNING" -> row' = [row EXCEPT ![j] =
                                   IF @ = NoRow THEN NoRow
                                   ELSE Changed(r, s)]
      [] OTHER                -> UNCHANGED row

\* There is nothing to insert into: somebody has inserted the row already.
Clashes(j, r) == r = NoRow /\ row[j] # NoRow

\* A fault: the exception only changes the text.
TargetText(s) == IF s = "RAISED" THEN "RUNNING" ELSE s

\* setFailed for a failed command and for a WebApplicationException alike.
Target(s) == IF s = "RAISED" THEN "FAILED" ELSE s

ReadStatus(j) ==
    /\ jpc[j] = "read"
    /\ saw' = [saw EXCEPT ![j] = row[j]]
    /\ Goes(j, "write")
    /\ UNCHANGED <<row, cmd, failed, write, commandVars, cancelVars, historyVars>>

SetStatus(j) ==
    /\ jpc[j] = "write"
    /\ ~Clashes(j, saw[j])
    /\ WriteStatus(j, saw[j], Target(write[j]))
    /\ saw' = [saw EXCEPT ![j] = NoRow]
    /\ Goes(j, After(write[j]))
    /\ UNCHANGED <<cmd, failed, write, commandVars, cancelVars, historyVars>>

\* The database fails: setFailed keeps that to itself, the others throw.
SetStatusFails(j) ==
    /\ jpc[j] = "write"
    /\ Clashes(j, saw[j]) \/ faults < MaxFaults
    /\ faults' = IF Clashes(j, saw[j]) THEN faults ELSE faults + 1
    /\ saw' = [saw EXCEPT ![j] = NoRow]
    /\ IF Target(write[j]) = "FAILED"
       THEN /\ unrecorded' = [unrecorded EXCEPT ![j] = TRUE]
            /\ Goes(j, After(write[j]))
       ELSE /\ UNCHANGED unrecorded
            /\ Goes(j, "crashed")
    /\ UNCHANGED <<row, cmd, failed, write, commandVars, cancelVars>>

\* Upwards of j, S leaves out nobody whom the rows in it lead to.
Closed(j, S) == Parents[j] \subseteq S /\ \A i \in S : row[i] # NoRow => Parents[i] \subseteq S

\* setStale: the ancestors of a job, as far as their rows lead to them.
Ancestors(j) == {p \in Job : \A S \in SUBSET Job : Closed(j, S) => p \in S}

Detailed(r, d) == [status |-> r.status, detail |-> d, owned |-> r.owned]

\* A fault: what the upload came from is not marked.
MarksOnlyItself(j, mark) ==
    [i \in Job |-> IF i = j /\ row[i] # NoRow /\ mark THEN Detailed(row[i], "CONFLICTS")
                   ELSE row[i]]

\* An upload marks its ancestors stale, and itself if it has left files of conflicts.
Marks(j, mark) ==
    [i \in Job |->
       IF i = j /\ row[i] # NoRow /\ mark THEN Detailed(row[i], "CONFLICTS")
       ELSE IF i \in Ancestors(j) /\ row[i] # NoRow THEN Detailed(row[i], "STALE")
       ELSE row[i]]

Mark(j) ==
    /\ jpc[j] = "mark"
    /\ \E mark \in BOOLEAN : row' = IF j \in Upload THEN Marks(j, mark) ELSE row
    /\ Goes(j, "ended")
    /\ UNCHANGED <<cmd, failed, write, saw, commandVars, cancelVars, historyVars>>

\* The parent's directory was deleted with it: listing it throws, and the marks are
\* rolled back.
MarkThrows(j) ==
    /\ jpc[j] = "mark"
    /\ j \in Upload
    /\ \E p \in Parents[j] : row[p] = NoRow
    /\ Goes(j, "crashed")
    /\ UNCHANGED <<row, cmd, failed, write, saw, commandVars, cancelVars, historyVars>>

RunJob(j) ==
    \/ Start(j) \/ AddJob(j) \/ AddJobFails(j) \/ NextCommand(j) \/ CommandsDone(j)
    \/ StartProcess(j) \/ EndProcess(j) \/ LeaveCommand(j) \/ InternalCommand(j)
    \/ CommandThrows(j) \/ CheckCancelled(j) \/ CheckFails(j) \/ SetCompleted(j)
    \/ ReadStatus(j) \/ SetStatus(j) \/ SetStatusFails(j)
    \/ Mark(j) \/ MarkThrows(j)

-----------------------------------------------------------------------------
(* JobCancellationResource *)

CancelGoes(j, place) == kpc' = [kpc EXCEPT ![j] = place]

AskToCancel(j) ==
    /\ kpc[j] = "none"
    /\ j \in Cancelled
    /\ CancelGoes(j, IF row[j] = NoRow THEN "refused" ELSE "read")
    /\ UNCHANGED <<row, jobVars, commandVars, ksaw, krunner, historyVars>>

CancelReads(j) ==
    /\ kpc[j] = "read"
    /\ ksaw' = [ksaw EXCEPT ![j] = row[j]]
    /\ CancelGoes(j, "write")
    /\ UNCHANGED <<row, jobVars, commandVars, krunner, historyVars>>

CancelWrites(j) ==
    /\ kpc[j] = "write"
    /\ ~Clashes(j, ksaw[j])
    /\ WriteStatus(j, ksaw[j], "CANCELLED")
    /\ ksaw' = [ksaw EXCEPT ![j] = NoRow]
    /\ CancelGoes(j, "lookup")
    /\ UNCHANGED <<jobVars, commandVars, krunner, historyVars>>

CancelFails(j) ==
    /\ kpc[j] = "write"
    /\ Clashes(j, ksaw[j]) \/ faults < MaxFaults
    /\ faults' = IF Clashes(j, ksaw[j]) THEN faults ELSE faults + 1
    /\ ksaw' = [ksaw EXCEPT ![j] = NoRow]
    /\ CancelGoes(j, "error")
    /\ UNCHANGED <<row, jobVars, commandVars, krunner, unrecorded>>

\* terminate() looks for the runner of the job's command; between two commands there
\* is none.
FindRunner(j) ==
    /\ kpc[j] = "lookup"
    /\ krunner' = [krunner EXCEPT ![j] = activeCommands[j]]
    /\ CancelGoes(j, IF activeCommands[j] = 0 THEN "answered" ELSE "terminate")
    /\ UNCHANGED <<row, jobVars, commandVars, ksaw, historyVars>>

\* The runner may have ended since; before it has a watchdog, terminate throws.
Terminate(j) ==
    /\ kpc[j] = "terminate"
    /\ LET present == activeCommands[j] = krunner[j]
       IN  /\ killed' = [killed EXCEPT ![j] = @ \/ (present /\ jpc[j] = "process")]
           /\ CancelGoes(j, IF present /\ jpc[j] = "starting" THEN "error" ELSE "answered")
    /\ UNCHANGED <<row, jobVars, activeCommands, ksaw, krunner, historyVars>>

Cancel(j) ==
    \/ AskToCancel(j) \/ CancelReads(j) \/ CancelWrites(j) \/ CancelFails(j)
    \/ FindRunner(j) \/ Terminate(j)

\* JobResource: the owner deletes a job, whatever its state.
DeleteJob(j) ==
    /\ j \in Deleted
    /\ row[j].owned
    /\ row' = [row EXCEPT ![j] = NoRow]
    /\ UNCHANGED <<jobVars, commandVars, cancelVars, historyVars>>

\* All jobs have ended and nobody cancels or deletes anything any more.
Over ==
    /\ \A j \in Job : jpc[j] \in Ends
    /\ UNCHANGED vars

Next ==
    \/ \E j \in Job : RunJob(j) \/ Cancel(j) \/ DeleteJob(j)
    \/ Over

Spec == Init /\ [][Next]_vars

\* Threads run, commands end, and a request that has begun is carried out.
Fairness ==
    \A j \in Job : WF_vars(RunJob(j)) /\ WF_vars(kpc[j] # "none" /\ Cancel(j))

FairSpec == Spec /\ Fairness

-----------------------------------------------------------------------------
\* Only a job of which every command has succeeded is reported complete, although
\* setCompleted is called after a failure too, and cancels and deletes happen in
\* between.  Two ways remain: setFailed was refused by the database without a word,
\* and the row was deleted and came back, owned by nobody.
CompleteMeansDone ==
    \A j \in Job :
      row[j].status = "COMPLETE" /\ row[j].owned /\ ~unrecorded[j] =>
        ~failed[j] /\ cmd[j] = Len(Commands[j])

\* Once a cancel has been written, the job's own thread undoes it only if it had read
\* the row before, or if the row has been deleted.
CancelHolds ==
    [][\A j \in Job :
         row[j].status = "CANCELLED" /\ row'[j].status # "CANCELLED" =>
           row'[j] = NoRow \/ (jpc[j] = "write" /\ saw[j].status = "RUNNING")]_vars

\* A process that was destroyed is the job's last: no other command starts, and the
\* job is never reported complete.
KilledIsLast ==
    [][\A j \in Job :
         killed[j] => cmd'[j] = cmd[j]
                      /\ (row'[j].status = "COMPLETE" /\ row[j].status # "COMPLETE" =>
                            unrecorded[j] \/ ~row'[j].owned)]_vars

\* The status of a job is not "running" for ever, unless its thread died of an
\* exception that JobRunnable does not catch or the database refused the failure.
JobsSettle ==
    \A j \in Job : <>[](row[j].status = "RUNNING" => jpc[j] = "crashed" \/ unrecorded[j])

\* After an upload, what it was made from is stale, however its own status came out.
ParentIsStale ==
    \A j \in Upload :
      jpc[j] = "ended" => \A p \in Parents[j] \ Cancelled : row[p] # NoRow => row[p].detail = "STALE"

\* The only process of a job is its first command, as in the jobs that import, clip or
\* conflate maps; an export of several maps has more.
ProcessFirst ==
    \A j \in Job : \A n \in 1..Len(Commands[j]) : Commands[j][n] = "external" => n = 1

\* "Cancelled jobs also have non-zero exit code, but should not be marked FAILED"
\* (JobRunnable.java:89).  The condition below that comment does not see to it.  The
\* write of the row does, for the jobs of ProcessFirst only: a job whose process a
\* cancel destroyed is not failed, in a row that was not inserted after a deletion.
CancelledNotFailed ==
    \A j \in Job : killed[j] /\ row[j].owned => row[j].status # "FAILED"
=============================================================================
