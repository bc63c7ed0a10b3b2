-------------------------- MODULE JobRunner_proofs --------------------------
(***************************************************************************)
(* Proofs about JobRunner: its types, what a job reported complete has     *)
(* done, and what becomes of cancelled jobs and of the parents of uploads, *)
(* for any jobs, commands, cancels, deletes and number of database         *)
(* failures.                                                               *)
(***************************************************************************)
EXTENDS JobRunner, TLAPS

\* All commands of j have succeeded.
Done(j) == ~failed[j] /\ cmd[j] = Len(Commands[j])

\* The failure of j is in its row, or somebody else has ended the job, or the
\* database would not have it.
Told(j) == unrecorded[j] \/ row[j].status # "RUNNING"

Setting(j, s) == jpc[j] \in {"read", "write"} /\ write[j] = s

\* What the thread of j knows where it is.
Steps(j) ==
    /\ jpc[j] \in {"queued", "add", "next"} \/ Setting(j, "RUNNING") => ~failed[j]
    /\ jpc[j] = "complete" \/ (jpc[j] = "read" /\ write[j] = "COMPLETE") => Done(j) \/ Told(j)
    /\ jpc[j] = "write" /\ write[j] = "COMPLETE" =>
         Done(j) \/ unrecorded[j] \/ saw[j].status # "RUNNING"
    /\ jpc[j] = "write" /\ write[j] = "FAILED" /\ saw[j].status # "RUNNING" =>
         row[j].status # "RUNNING"
    /\ row[j].status = "COMPLETE" => jpc[j] \in Ends \cup {"mark"}
    /\ row[j].status = "COMPLETE" /\ row[j].owned /\ ~unrecorded[j] => Done(j)

IInv == TypeOK /\ \A j \in Job : Steps(j)

-----------------------------------------------------------------------------
USE JobAssumption

LEMMA RowTypes ==
  /\ NoRow \in Row /\ NoRow.status = "none" /\ ~NoRow.owned
  /\ \A s \in Status, o \in BOOLEAN :
       NewRow(s, o) \in Row /\ NewRow(s, o).status = s /\ NewRow(s, o).owned = o
BY DEF Row, NoRow, NewRow, Status, Detail

LEMMA RowSet ==
  ASSUME NEW r \in Row, r # NoRow, NEW s \in Status
  PROVE  Changed(r, s) \in Row /\ Changed(r, s).status = s
<1>1. r.owned \in BOOLEAN
  BY DEF Row
<1> QED BY <1>1 DEF Row, Detail, Changed

LEMMA RowMarked ==
  ASSUME NEW r \in Row, r # NoRow, NEW d \in Detail
  PROVE  /\ Detailed(r, d) \in Row
         /\ Detailed(r, d).status = r.status
         /\ Detailed(r, d).owned = r.owned
<1>1. r.owned \in BOOLEAN /\ r.status \in Status
  BY DEF Row
<1> QED BY <1>1 DEF Row, Detailed

\* What updateJobStatus may do to the rows.
LEMMA Written ==
  ASSUME TypeOK, NEW j \in Job, NEW r \in Row, NEW s \in Status, WriteStatus(j, r, s)
  PROVE  /\ row' \in [Job -> Row]
         /\ \A i \in Job \ {j} : row'[i] = row[i]
         /\ r = NoRow => row'[j].status = s /\ ~row'[j].owned
         /\ r.status = "RUNNING" => row'[j] = NoRow \/ row'[j].status = s
         /\ r # NoRow /\ r.status # "RUNNING" => row' = row
<1>0. row \in [Job -> Row]
  BY DEF TypeOK
<1>1. CASE r = NoRow
  <2>1. row' = [row EXCEPT ![j] = NewRow(s, FALSE)] /\ r.status # "RUNNING"
    BY <1>1, RowTypes DEF WriteStatus
  <2>2. NewRow(s, FALSE) \in Row /\ NewRow(s, FALSE).status = s /\ ~NewRow(s, FALSE).owned
    BY RowTypes
  <2> QED BY <1>0, <1>1, <2>1, <2>2
<1>2. CASE r.status = "RUNNING"
  <2>1. r # NoRow
    BY <1>2, RowTypes
  <2>2. Changed(r, s) \in Row /\ Changed(r, s).status = s
    BY <2>1, RowSet
  <2>3. row' = [row EXCEPT ![j] = IF @ = NoRow THEN NoRow ELSE Changed(r, s)]
    BY <1>2, <2>1 DEF WriteStatus
  <2>4. row' \in [Job -> Row] /\ \A i \in Job \ {j} : row'[i] = row[i]
    BY <1>0, <2>2, <2>3, RowTypes
  <2>5. row'[j] = NoRow \/ row'[j].status = s
    BY <1>0, <2>2, <2>3
  <2> QED BY <1>2, <2>1, <2>4, <2>5
<1>3. CASE r # NoRow /\ r.status # "RUNNING"
  BY <1>0, <1>3 DEF WriteStatus
<1> QED BY <1>1, <1>2, <1>3

LEMMA Marked ==
  ASSUME TypeOK, NEW j \in Job, NEW mark \in BOOLEAN
  PROVE  /\ Marks(j, mark) \in [Job -> Row]
         /\ \A i \in Job : /\ Marks(j, mark)[i].status = row[i].status
                           /\ Marks(j, mark)[i].owned = row[i].owned
                           /\ row[i] = NoRow => Marks(j, mark)[i] = NoRow
<1>1. ASSUME NEW i \in Job
      PROVE  /\ Marks(j, mark)[i] \in Row
             /\ Marks(j, mark)[i].status = row[i].status
             /\ Marks(j, mark)[i].owned = row[i].owned
             /\ row[i] = NoRow => Marks(j, mark)[i] = NoRow
  <2>1. row[i] \in Row /\ "CONFLICTS" \in Detail /\ "STALE" \in Detail
    BY DEF TypeOK, Detail
  <2>2. \/ Marks(j, mark)[i] = row[i]
        \/ row[i] # NoRow /\ Marks(j, mark)[i] = Detailed(row[i], "CONFLICTS")
        \/ row[i] # NoRow /\ Marks(j, mark)[i] = Detailed(row[i], "STALE")
    BY DEF Marks
  <2> QED BY <2>1, <2>2, RowMarked
<1>2. Marks(j, mark) = [i \in Job |-> Marks(j, mark)[i]]
  BY DEF Marks
<1> QED BY <1>1, <1>2

-----------------------------------------------------------------------------
LEMMA InitTypes ==
  ASSUME Init
  PROVE  TypeOK
<1>1. row \in [Job -> Row] /\ saw \in [Job -> Row] /\ ksaw \in [Job -> Row]
  BY RowTypes DEF Init
<1>2. jpc \in [Job -> Place]
  BY DEF Init, Place
<1>3. /\ cmd \in [Job -> Nat] /\ activeCommands \in [Job -> Nat] /\ krunner \in [Job -> Nat]
      /\ failed \in [Job -> BOOLEAN] /\ killed \in [Job -> BOOLEAN]
      /\ unrecorded \in [Job -> BOOLEAN]
      /\ write \in [Job -> {"RUNNING", "FAILED", "COMPLETE", "RAISED"}]
  BY DEF Init
<1> QED BY <1>1, <1>2, <1>3 DEF Init, TypeOK

\* A step of a job's thread, and the types of what it changes.
LEMMA GoesType ==
  ASSUME TypeOK, NEW j \in Job, NEW place \in Place, Goes(j, place)
  PROVE  jpc' \in [Job -> Place]
BY DEF TypeOK, Goes

LEMMA SetsType ==
  ASSUME TypeOK, NEW j \in Job, NEW s \in {"RUNNING", "FAILED", "COMPLETE", "RAISED"}, Sets(j, s)
  PROVE  jpc' \in [Job -> Place] /\ write' \in [Job -> {"RUNNING", "FAILED", "COMPLETE", "RAISED"}]
<1>1. jpc' \in [Job -> Place]
  BY GoesType DEF Sets, Place
<1>2. write' \in [Job -> {"RUNNING", "FAILED", "COMPLETE", "RAISED"}]
  BY DEF TypeOK, Sets
<1> QED BY <1>1, <1>2

LEMMA HandleResultType ==
  ASSUME TypeOK, NEW j \in Job, NEW bad \in BOOLEAN, HandleResult(j, bad)
  PROVE  jpc' \in [Job -> Place] /\ write' \in [Job -> {"RUNNING", "FAILED", "COMPLETE", "RAISED"}]
<1>1. CASE bad
  <2>1. jpc' \in [Job -> Place]
    BY <1>1, GoesType DEF HandleResult, Place
  <2> QED BY <1>1, <2>1 DEF HandleResult, TypeOK
<1>2. CASE ~bad
  BY <1>2, SetsType DEF HandleResult
<1> QED BY <1>1, <1>2

LEMMA AfterType ==
  ASSUME TypeOK, NEW j \in Job, Goes(j, After(write[j]))
  PROVE  jpc' \in [Job -> Place]
<1>1. After(write[j]) \in Place
  BY DEF TypeOK, After, Place, Ends
<1> QED BY <1>1, GoesType

LEMMA JobTypes ==
  ASSUME TypeOK, NEW j \in Job, RunJob(j)
  PROVE  TypeOK'
<1> USE DEF jobVars, commandVars, cancelVars, historyVars
<1> "add" \in Place /\ "next" \in Place /\ "crashed" \in Place /\ "starting" \in Place
    /\ "internal" \in Place /\ "complete" \in Place /\ "process" \in Place
    /\ "exited" \in Place /\ "check" \in Place /\ "write" \in Place /\ "ended" \in Place
  BY DEF Place, InCommand, Ends
<1>1. CASE Start(j)
  BY <1>1, GoesType DEF Start, TypeOK
<1>2. CASE AddJob(j)
  <2>1. row' \in [Job -> Row]
    BY <1>2, RowTypes DEF AddJob, Status, TypeOK
  <2> QED BY <1>2, <2>1, GoesType DEF AddJob, TypeOK
<1>3. CASE AddJobFails(j)
  BY <1>3, GoesType DEF AddJobFails, TypeOK
<1>4. CASE NextCommand(j)
  <2>1. jpc' \in [Job -> Place]
    BY <1>4, GoesType DEF NextCommand
  <2>2. activeCommands' \in [Job -> Nat] /\ cmd' \in [Job -> Nat] /\ killed' \in [Job -> BOOLEAN]
    BY <1>4 DEF NextCommand, TypeOK
  <2> QED BY <1>4, <2>1, <2>2 DEF NextCommand, TypeOK
<1>5. CASE CommandsDone(j)
  BY <1>5, GoesType DEF CommandsDone, TypeOK
<1>6. CASE StartProcess(j)
  BY <1>6, GoesType DEF StartProcess, TypeOK
<1>7. CASE EndProcess(j)
  <2>1. failed' \in [Job -> BOOLEAN]
    BY <1>7 DEF EndProcess, TypeOK
  <2> QED BY <1>7, <2>1, GoesType DEF EndProcess, TypeOK
<1>8. CASE LeaveCommand(j)
  <2>1. failed[j] \in BOOLEAN
    BY DEF TypeOK
  <2>2. activeCommands' \in [Job -> Nat]
    BY <1>8 DEF LeaveCommand, TypeOK
  <2> QED BY <1>8, <2>1, <2>2, HandleResultType DEF LeaveCommand, TypeOK
<1>9. CASE InternalCommand(j)
  <2>1. PICK bad \in BOOLEAN : failed' = [failed EXCEPT ![j] = bad] /\ HandleResult(j, bad)
    BY <1>9 DEF InternalCommand
  <2>2. failed' \in [Job -> BOOLEAN]
    BY <2>1 DEF TypeOK
  <2> QED BY <1>9, <2>1, <2>2, HandleResultType DEF InternalCommand, TypeOK
<1>10. CASE CommandThrows(j)
  <2>1. failed' \in [Job -> BOOLEAN] /\ activeCommands' \in [Job -> Nat]
    BY <1>10 DEF CommandThrows, TypeOK
  <2>2. jpc' \in [Job -> Place] /\ write' \in [Job -> {"RUNNING", "FAILED", "COMPLETE", "RAISED"}]
    BY <1>10, GoesType, SetsType DEF CommandThrows, TypeOK
  <2> QED BY <1>10, <2>1, <2>2 DEF CommandThrows, TypeOK
<1>11. CASE CheckCancelled(j)
  <2>1. jpc' \in [Job -> Place] /\ write' \in [Job -> {"RUNNING", "FAILED", "COMPLETE", "RAISED"}]
    BY <1>11, GoesType, SetsType DEF CheckCancelled, TypeOK
  <2> QED BY <1>11, <2>1 DEF CheckCancelled, TypeOK
<1>12. CASE SetCompleted(j)
  <2>1. jpc' \in [Job -> Place] /\ write' \in [Job -> {"RUNNING", "FAILED", "COMPLETE", "RAISED"}]
    BY <1>12, SetsType DEF SetCompleted
  <2> QED BY <1>12, <2>1 DEF SetCompleted, TypeOK
<1>13. CASE ReadStatus(j)
  <2>1. saw' \in [Job -> Row]
    BY <1>13 DEF ReadStatus, TypeOK
  <2> QED BY <1>13, <2>1, GoesType DEF ReadStatus, TypeOK
<1>14. CASE SetStatus(j)
  <2>1. Target(write[j]) \in Status /\ saw[j] \in Row
    BY DEF Target, Status, TypeOK
  <2>2. row' \in [Job -> Row]
    BY <1>14, <2>1, Written DEF SetStatus
  <2>3. saw' \in [Job -> Row]
    BY <1>14, RowTypes DEF SetStatus, TypeOK
  <2> QED BY <1>14, <2>2, <2>3, AfterType DEF SetStatus, TypeOK
<1>15. CASE SetStatusFails(j)
  <2>1. jpc' \in [Job -> Place]
    BY <1>15, AfterType, GoesType DEF SetStatusFails
  <2>2. saw' \in [Job -> Row]
    BY <1>15, RowTypes DEF SetStatusFails, TypeOK
  <2>3. unrecorded' \in [Job -> BOOLEAN]
    BY <1>15 DEF SetStatusFails, TypeOK
  <2>4. faults' \in Nat
    BY <1>15 DEF SetStatusFails, TypeOK
  <2> QED BY <1>15, <2>1, <2>2, <2>3, <2>4 DEF SetStatusFails, TypeOK
<1>16. CASE Mark(j)
  <2>1. row' \in [Job -> Row]
    BY <1>16, Marked DEF Mark, TypeOK
  <2> QED BY <1>16, <2>1, GoesType DEF Mark, TypeOK
<1>17. CASE MarkThrows(j)
  BY <1>17, GoesType DEF MarkThrows, TypeOK
<1>18. CASE CheckFails(j)
  BY <1>18, GoesType DEF CheckFails, TypeOK
<1> QED BY <1>1, <1>2, <1>3, <1>4, <1>5, <1>6, <1>7, <1>8, <1>9, <1>10, <1>11, <1>12, <1>13,
           <1>14, <1>15, <1>16, <1>17, <1>18
        DEF RunJob

LEMMA CancelTypes ==
  ASSUME TypeOK, NEW j \in Job, Cancel(j) \/ DeleteJob(j)
  PROVE  TypeOK'
<1> USE DEF jobVars, commandVars, cancelVars, historyVars
<1> DEFINE KPlace == {"none", "read", "write", "lookup", "terminate", "answered", "refused", "error"}
<1>0. ASSUME NEW place \in KPlace, CancelGoes(j, place) PROVE kpc' \in [Job -> KPlace]
  BY <1>0 DEF CancelGoes, TypeOK
<1>1. CASE AskToCancel(j)
  <2>1. kpc' \in [Job -> KPlace]
    BY <1>1, <1>0 DEF AskToCancel
  <2> QED BY <1>1, <2>1 DEF AskToCancel, TypeOK
<1>2. CASE CancelReads(j)
  <2>1. kpc' \in [Job -> KPlace] /\ ksaw' \in [Job -> Row]
    BY <1>2, <1>0 DEF CancelReads, TypeOK
  <2> QED BY <1>2, <2>1 DEF CancelReads, TypeOK
<1>3. CASE CancelWrites(j)
  <2>1. ksaw[j] \in Row /\ "CANCELLED" \in Status
    BY DEF TypeOK, Status
  <2>2. row' \in [Job -> Row]
    BY <1>3, <2>1, Written DEF CancelWrites
  <2>3. kpc' \in [Job -> KPlace] /\ ksaw' \in [Job -> Row]
    BY <1>3, <1>0, RowTypes DEF CancelWrites, TypeOK
  <2> QED BY <1>3, <2>2, <2>3 DEF CancelWrites, TypeOK
<1>4. CASE CancelFails(j)
  <2>1. kpc' \in [Job -> KPlace] /\ ksaw' \in [Job -> Row]
    BY <1>4, <1>0, RowTypes DEF CancelFails, TypeOK
  <2>2. faults' \in Nat
    BY <1>4 DEF CancelFails, TypeOK
  <2> QED BY <1>4, <2>1, <2>2 DEF CancelFails, TypeOK
<1>5. CASE FindRunner(j)
  <2>1. kpc' \in [Job -> KPlace] /\ krunner' \in [Job -> Nat]
    BY <1>5, <1>0 DEF FindRunner, TypeOK
  <2> QED BY <1>5, <2>1 DEF FindRunner, TypeOK
<1>6. CASE Terminate(j)
  <2>1. kpc' \in [Job -> KPlace]
    BY <1>6, <1>0 DEF Terminate
  <2>2. killed' \in [Job -> BOOLEAN]
    BY <1>6 DEF Terminate, TypeOK
  <2> QED BY <1>6, <2>1, <2>2 DEF Terminate, TypeOK
<1>7. CASE DeleteJob(j)
  <2>1. row' \in [Job -> Row]
    BY <1>7, RowTypes DEF DeleteJob, TypeOK
  <2> QED BY <1>7, <2>1 DEF DeleteJob, TypeOK
<1> QED BY <1>1, <1>2, <1>3, <1>4, <1>5, <1>6, <1>7 DEF Cancel

LEMMA NextTypes == TypeOK /\ [Next]_vars => TypeOK'
<1>1. ASSUME TypeOK, UNCHANGED vars PROVE TypeOK'
  BY <1>1 DEF TypeOK, vars, jobVars, commandVars, cancelVars, historyVars
<1> QED BY <1>1, JobTypes, CancelTypes DEF Next, Over

\* Every variable of the job runner keeps its type: in particular a row has one of
\* the statuses that JobRunnable knows, or is gone.
THEOREM TypeCorrect == Spec => []TypeOK
BY InitTypes, NextTypes, PTL DEF Spec

-----------------------------------------------------------------------------
\* What others may do to the row of i: leave its status, or make it one that is
\* neither running nor complete.
LEMMA OthersStep ==
  ASSUME TypeOK, NEW i \in Job, Steps(i),
         jpc'[i] = jpc[i], cmd'[i] = cmd[i], failed'[i] = failed[i], write'[i] = write[i],
         saw'[i] = saw[i], unrecorded'[i] = unrecorded[i],
         \/ row'[i].status \notin {"RUNNING", "COMPLETE"}
         \/ row'[i].status = row[i].status /\ row'[i].owned = row[i].owned
  PROVE  Steps(i)'
BY DEF Steps, Setting, Done, Told

\* A step of a job's thread that leaves the rows alone.
LEMMA QuietStep ==
  ASSUME TypeOK, NEW j \in Job, Steps(j), RunJob(j), row' = row, unrecorded' = unrecorded,
         jpc[j] \notin {"add", "write"}
  PROVE  Steps(j)'
<1> USE DEF Steps, Setting, Done, Told, TypeOK, jobVars, commandVars, cancelVars, historyVars,
            Goes, InCommand, Ends
<1>1. CASE Start(j) \/ CommandsDone(j) \/ StartProcess(j) \/ MarkThrows(j)
  BY <1>1 DEF Start, CommandsDone, StartProcess, MarkThrows
<1>2. CASE NextCommand(j)
  BY <1>2 DEF NextCommand
<1>3. CASE EndProcess(j)
  BY <1>3 DEF EndProcess
<1>4. CASE LeaveCommand(j)
  BY <1>4 DEF LeaveCommand, HandleResult, Sets
<1>5. CASE InternalCommand(j)
  BY <1>5 DEF InternalCommand, HandleResult, Sets
<1>6. CASE CommandThrows(j)
  BY <1>6 DEF CommandThrows, Sets
<1>7. CASE CheckCancelled(j) \/ CheckFails(j)
  BY <1>7 DEF CheckCancelled, CheckFails, Sets
<1>8. CASE SetCompleted(j)
  BY <1>8 DEF SetCompleted, Sets
<1>9. CASE ReadStatus(j)
  BY <1>9 DEF ReadStatus
<1>10. CASE Mark(j)
  BY <1>10 DEF Mark
<1> QED BY <1>1, <1>2, <1>3, <1>4, <1>5, <1>6, <1>7, <1>8, <1>9, <1>10
        DEF RunJob, SetStatus, SetStatusFails, AddJob, AddJobFails

LEMMA SetStatusStep ==
  ASSUME TypeOK, NEW j \in Job, Steps(j), SetStatus(j)
  PROVE  Steps(j)'
<1> DEFINE s == Target(write[j])
<1> USE DEF TypeOK
<1>1. saw[j] \in Row /\ s \in Status /\ jpc[j] = "write" /\ WriteStatus(j, saw[j], s)
  BY DEF SetStatus, Target, Status
<1>2. /\ row' \in [Job -> Row]
      /\ saw[j] = NoRow => row'[j].status = s /\ ~row'[j].owned
      /\ saw[j].status = "RUNNING" => row'[j] = NoRow \/ row'[j].status = s
      /\ saw[j] # NoRow /\ saw[j].status # "RUNNING" => row' = row
  <2> HIDE DEF s
  <2> QED BY <1>1, Written
<1>3. /\ jpc' = [jpc EXCEPT ![j] = After(write[j])]
      /\ cmd' = cmd /\ failed' = failed /\ write' = write /\ unrecorded' = unrecorded
  BY DEF SetStatus, Goes, historyVars
<1>4. row[j].status # "COMPLETE"
  BY <1>1 DEF Steps, Ends
<1>5. CASE write[j] = "RUNNING"
  <2>1. row'[j].status # "COMPLETE" /\ jpc'[j] = "next"
    BY <1>2, <1>3, <1>4, <1>5, RowTypes DEF Target, After
  <2>2. ~failed[j]
    BY <1>1, <1>5 DEF Steps, Setting
  <2> QED BY <1>3, <2>1, <2>2 DEF Steps, Setting
<1>6. CASE write[j] = "FAILED"
  <2>1. row'[j].status # "COMPLETE" /\ jpc'[j] = "complete"
    BY <1>2, <1>3, <1>4, <1>6, RowTypes DEF Target, After
  <2>2. row'[j].status # "RUNNING"
    BY <1>1, <1>2, <1>6, RowTypes DEF Steps, Target
  <2> QED BY <1>3, <2>1, <2>2 DEF Steps, Setting, Told
<1>7. CASE write[j] = "RAISED"
  <2>1. row'[j].status # "COMPLETE" /\ jpc'[j] = "raised"
    BY <1>2, <1>3, <1>4, <1>7, RowTypes DEF Target, After
  <2> QED BY <1>3, <2>1 DEF Steps, Setting
<1>8. CASE write[j] = "COMPLETE"
  <2>1. jpc'[j] = "mark"
    BY <1>3, <1>8 DEF After
  <2>2. row'[j].status = "COMPLETE" /\ row'[j].owned => saw[j].status = "RUNNING"
    BY <1>2, <1>4
  <2>3. Done(j) \/ unrecorded[j] \/ saw[j].status # "RUNNING"
    BY <1>1, <1>8 DEF Steps
  <2> QED BY <1>3, <2>1, <2>2, <2>3 DEF Steps, Setting, Done
<1> QED BY <1>5, <1>6, <1>7, <1>8

LEMMA SetStatusFailsStep ==
  ASSUME TypeOK, NEW j \in Job, Steps(j), SetStatusFails(j)
  PROVE  Steps(j)'
<1> USE DEF TypeOK
<1>1. /\ jpc[j] = "write" /\ row' = row
      /\ cmd' = cmd /\ failed' = failed /\ write' = write
      /\ row[j].status # "COMPLETE"
  BY DEF SetStatusFails, Steps, Ends
<1>2. CASE Target(write[j]) = "FAILED"
  BY <1>1, <1>2 DEF SetStatusFails, Goes, After, Target, Steps, Setting, Told
<1>3. CASE Target(write[j]) # "FAILED"
  BY <1>1, <1>3 DEF SetStatusFails, Goes, Steps, Setting
<1> QED BY <1>2, <1>3

\* A thread of a job keeps what it knows.
LEMMA OwnStep ==
  ASSUME TypeOK, NEW j \in Job, Steps(j), RunJob(j)
  PROVE  Steps(j)'
<1>1. CASE SetStatus(j)
  BY <1>1, SetStatusStep
<1>2. CASE SetStatusFails(j)
  BY <1>2, SetStatusFailsStep
<1>3. CASE AddJob(j)
  <2>1. jpc[j] = "add" /\ jpc'[j] = "next" /\ row'[j] = NewRow("RUNNING", TRUE)
        /\ UNCHANGED <<cmd, failed, write, saw, unrecorded>>
    BY <1>3 DEF AddJob, Goes, TypeOK, historyVars
  <2>2. row'[j].status = "RUNNING"
    BY <2>1, RowTypes DEF Status
  <2>3. ~failed[j]
    BY <2>1 DEF Steps
  <2> QED BY <2>1, <2>2, <2>3 DEF Steps, Setting
<1>4. CASE Mark(j)
  <2>1. PICK mark \in BOOLEAN : row' = IF j \in Upload THEN Marks(j, mark) ELSE row
    BY <1>4 DEF Mark
  <2>2. row'[j].status = row[j].status /\ row'[j].owned = row[j].owned
    BY <2>1, Marked
  <2> QED BY <1>4, <2>2 DEF Mark, Goes, Steps, Setting, Done, Ends, TypeOK, historyVars
<1>5. CASE Start(j) \/ NextCommand(j) \/ CommandsDone(j) \/ StartProcess(j)
           \/ EndProcess(j) \/ LeaveCommand(j) \/ InternalCommand(j) \/ CommandThrows(j)
           \/ CheckCancelled(j) \/ CheckFails(j) \/ SetCompleted(j) \/ ReadStatus(j) \/ MarkThrows(j)
  <2>1. row' = row /\ unrecorded' = unrecorded /\ jpc[j] \notin {"add", "write"}
    BY <1>5 DEF Start, NextCommand, CommandsDone, StartProcess,
                EndProcess, LeaveCommand, InternalCommand, CommandThrows, CheckCancelled, CheckFails,
                SetCompleted, ReadStatus, MarkThrows, historyVars
  <2> QED BY <2>1, QuietStep
<1>6. CASE AddJobFails(j)
  <2>1. jpc'[j] = "crashed" /\ UNCHANGED <<row, cmd, failed, write, saw, unrecorded>>
    BY <1>6 DEF AddJobFails, Goes, TypeOK
  <2> QED BY <2>1 DEF Steps, Setting, Done, Told, Ends
<1> QED BY <1>1, <1>2, <1>3, <1>4, <1>5, <1>6 DEF RunJob

\* It changes nothing of another job but the detail of its row.
LEMMA LeavesOthers ==
  ASSUME TypeOK, NEW j \in Job, RunJob(j), NEW i \in Job, i # j
  PROVE  /\ jpc'[i] = jpc[i] /\ cmd'[i] = cmd[i] /\ failed'[i] = failed[i]
         /\ write'[i] = write[i] /\ saw'[i] = saw[i] /\ unrecorded'[i] = unrecorded[i]
         /\ row'[i].status = row[i].status /\ row'[i].owned = row[i].owned
<1> USE DEF TypeOK, jobVars, commandVars, cancelVars, historyVars, Goes
<1>1. CASE SetStatus(j)
  <2>1. Target(write[j]) \in Status /\ saw[j] \in Row
    BY DEF Target, Status
  <2>2. row'[i] = row[i]
    BY <1>1, <2>1, Written DEF SetStatus
  <2> QED BY <1>1, <2>2 DEF SetStatus
<1>2. CASE Mark(j)
  <2>1. PICK mark \in BOOLEAN : row' = IF j \in Upload THEN Marks(j, mark) ELSE row
    BY <1>2 DEF Mark
  <2>2. row'[i].status = row[i].status /\ row'[i].owned = row[i].owned
    BY <2>1, Marked
  <2> QED BY <1>2, <2>2 DEF Mark
<1>3. CASE AddJob(j)
  BY <1>3 DEF AddJob
<1>4. CASE Start(j) \/ AddJobFails(j) \/ NextCommand(j) \/ CommandsDone(j) \/ StartProcess(j)
           \/ EndProcess(j) \/ MarkThrows(j)
  BY <1>4 DEF Start, AddJobFails, NextCommand, CommandsDone, StartProcess, EndProcess, MarkThrows
<1>5. CASE LeaveCommand(j) \/ InternalCommand(j) \/ CommandThrows(j)
           \/ CheckCancelled(j) \/ CheckFails(j) \/ SetCompleted(j) \/ ReadStatus(j) \/ SetStatusFails(j)
  BY <1>5 DEF LeaveCommand, InternalCommand, CommandThrows, CheckCancelled, CheckFails,
              SetCompleted, ReadStatus, SetStatusFails, HandleResult, Sets
<1> QED BY <1>1, <1>2, <1>3, <1>4, <1>5 DEF RunJob

\* Cancelling and deleting never make a job running or complete.
LEMMA RequestStep ==
  ASSUME TypeOK, NEW j \in Job, Cancel(j) \/ DeleteJob(j), NEW i \in Job
  PROVE  /\ UNCHANGED <<jobVars, unrecorded>>
         /\ \/ row'[i].status \notin {"RUNNING", "COMPLETE"}
            \/ row'[i].status = row[i].status /\ row'[i].owned = row[i].owned
<1> USE DEF TypeOK, historyVars
<1>1. CASE AskToCancel(j) \/ CancelReads(j) \/ CancelFails(j) \/ FindRunner(j) \/ Terminate(j)
  BY <1>1 DEF AskToCancel, CancelReads, CancelFails, FindRunner, Terminate
<1>2. CASE CancelWrites(j)
  <2>1. ksaw[j] \in Row /\ "CANCELLED" \in Status /\ WriteStatus(j, ksaw[j], "CANCELLED")
    BY <1>2 DEF CancelWrites, Status
  <2>2. \/ row'[i].status \notin {"RUNNING", "COMPLETE"}
        \/ row'[i].status = row[i].status /\ row'[i].owned = row[i].owned
    <3>1. CASE i = j
      <4>1. row'[j].status = "CANCELLED" \/ row'[j] = NoRow \/ row' = row
        BY <2>1, Written
      <4> QED BY <3>1, <4>1, RowTypes
    <3>2. CASE i # j
      <4>1. row'[i] = row[i]
        BY <2>1, <3>2, Written
      <4> QED BY <4>1
    <3> QED BY <3>1, <3>2
  <2> QED BY <1>2, <2>2 DEF CancelWrites
<1>3. CASE DeleteJob(j)
  BY <1>3, RowTypes DEF DeleteJob
<1> QED BY <1>1, <1>2, <1>3 DEF Cancel

LEMMA NextIInv == IInv /\ [Next]_vars => IInv'
<1> SUFFICES ASSUME IInv, [Next]_vars PROVE IInv'
  OBVIOUS
<1>1. TypeOK'
  BY NextTypes DEF IInv
<1>2. ASSUME NEW j \in Job, RunJob(j), NEW i \in Job PROVE Steps(i)'
  <2>1. CASE i = j
    BY <1>2, <2>1, OwnStep DEF IInv
  <2>2. CASE i # j
    BY <1>2, <2>2, LeavesOthers, OthersStep DEF IInv
  <2> QED BY <2>1, <2>2
<1>3. ASSUME NEW j \in Job, Cancel(j) \/ DeleteJob(j), NEW i \in Job PROVE Steps(i)'
  <2>1. UNCHANGED <<jpc, cmd, failed, write, saw, unrecorded>>
    BY <1>3, RequestStep DEF jobVars, IInv
  <2> QED BY <1>3, <2>1, RequestStep, OthersStep DEF IInv
<1>4. ASSUME UNCHANGED vars, NEW i \in Job PROVE Steps(i)'
  BY <1>4 DEF IInv, Steps, Setting, Done, Told, vars, jobVars, historyVars
<1> QED BY <1>1, <1>2, <1>3, <1>4 DEF IInv, Next, Over

LEMMA InitIInv ==
  ASSUME Init
  PROVE  IInv
<1>1. \A j \in Job : Steps(j)
  BY RowTypes DEF Init, Steps, Setting
<1> QED BY <1>1, InitTypes DEF IInv

\* A job that is reported complete, in a row of its own, has done all its commands,
\* whatever failed, was cancelled or deleted meanwhile, unless the database silently
\* refused to record its failure.
THEOREM CompleteIsDone == Spec => []CompleteMeansDone
<1>1. IInv => CompleteMeansDone
  BY DEF IInv, Steps, Done, CompleteMeansDone
<1> QED BY <1>1, InitIInv, NextIInv, PTL DEF Spec

-----------------------------------------------------------------------------
\* Before a job is added it has no row, and no cancel of it has begun.
Fresh(j) == jpc[j] \in {"queued", "add"} => row[j] = NoRow /\ kpc[j] \in {"none", "refused"}
FreshInv == TypeOK /\ \A j \in Job : Fresh(j)

\* What a step of a job's thread does to any job that it is not the addition of.
LEMMA RunKeepsRows ==
  ASSUME TypeOK, NEW j \in Job, RunJob(j), NEW i \in Job
  PROVE  /\ kpc' = kpc
         /\ jpc'[i] \in {"queued", "add"} => jpc[i] \in {"queued", "add"} /\ (i = j => row' = row)
         /\ row[i] = NoRow /\ i # j => row'[i] = NoRow
         /\ \/ row'[i].status = row[i].status
            \/ i = j /\ AddJob(j)
            \/ i = j /\ jpc[j] = "write" /\ saw[j].status = "RUNNING"
            \/ i = j /\ row[j] = NoRow
<1> USE DEF TypeOK, jobVars, commandVars, cancelVars, historyVars, Goes
<1>1. CASE SetStatus(j)
  <2>1. Target(write[j]) \in Status /\ saw[j] \in Row
    BY DEF Target, Status
  <2>2. /\ \A k \in Job \ {j} : row'[k] = row[k]
        /\ saw[j] # NoRow /\ saw[j].status # "RUNNING" => row' = row
    BY <1>1, <2>1, Written DEF SetStatus
  <2>3. saw[j] = NoRow => row[j] = NoRow
    BY <1>1 DEF SetStatus, Clashes
  <2>4. jpc[j] = "write" /\ jpc'[j] \notin {"queued", "add"} /\ kpc' = kpc
        /\ (i # j => jpc'[i] = jpc[i])
    BY <1>1 DEF SetStatus, After
  <2> QED BY <2>2, <2>3, <2>4
<1>2. CASE Mark(j)
  <2>1. PICK mark \in BOOLEAN : row' = IF j \in Upload THEN Marks(j, mark) ELSE row
    BY <1>2 DEF Mark
  <2>2. /\ Marks(j, mark)[i].status = row[i].status
        /\ row[i] = NoRow => Marks(j, mark)[i] = NoRow
    BY Marked
  <2>3. row'[i].status = row[i].status /\ (row[i] = NoRow => row'[i] = NoRow)
    BY <2>1, <2>2
  <2> QED BY <1>2, <2>3 DEF Mark
<1>3. CASE AddJob(j)
  BY <1>3 DEF AddJob
<1>4. CASE Start(j) \/ AddJobFails(j) \/ NextCommand(j) \/ CommandsDone(j) \/ StartProcess(j)
           \/ EndProcess(j) \/ MarkThrows(j)
  BY <1>4 DEF Start, AddJobFails, NextCommand, CommandsDone, StartProcess, EndProcess, MarkThrows
<1>5. CASE LeaveCommand(j) \/ InternalCommand(j) \/ CommandThrows(j)
           \/ CheckCancelled(j) \/ CheckFails(j) \/ SetCompleted(j) \/ ReadStatus(j)
  BY <1>5 DEF LeaveCommand, InternalCommand, CommandThrows, CheckCancelled, CheckFails,
              SetCompleted, ReadStatus, HandleResult, Sets
<1>6. CASE SetStatusFails(j)
  BY <1>6 DEF SetStatusFails, After
<1> QED BY <1>1, <1>2, <1>3, <1>4, <1>5, <1>6 DEF RunJob

\* What a request does to the rows and to the requests of a job.
LEMMA RequestKeepsRows ==
  ASSUME TypeOK, NEW j \in Job, Cancel(j) \/ DeleteJob(j), NEW i \in Job
  PROVE  /\ jpc' = jpc
         /\ row[i] = NoRow /\ kpc[i] \in {"none", "refused"} =>
              row'[i] = NoRow /\ kpc'[i] \in {"none", "refused"}
         /\ row'[i] = row[i] \/ row'[i] = NoRow \/ row'[i].status = "CANCELLED"
<1> USE DEF TypeOK, jobVars, CancelGoes
<1>1. CASE AskToCancel(j)
  BY <1>1 DEF AskToCancel
<1>2. CASE CancelReads(j) \/ CancelFails(j) \/ FindRunner(j) \/ Terminate(j)
  BY <1>2 DEF CancelReads, CancelFails, FindRunner, Terminate
<1>3. CASE CancelWrites(j)
  <2>1. ksaw[j] \in Row /\ "CANCELLED" \in Status /\ WriteStatus(j, ksaw[j], "CANCELLED")
    BY <1>3 DEF CancelWrites, Status
  <2>2. /\ \A k \in Job \ {j} : row'[k] = row[k]
        /\ row'[j].status = "CANCELLED" \/ row'[j] = NoRow \/ row' = row
    BY <2>1, Written
  <2> QED BY <1>3, <2>2 DEF CancelWrites
<1>4. CASE DeleteJob(j)
  BY <1>4 DEF DeleteJob, cancelVars
<1> QED BY <1>1, <1>2, <1>3, <1>4 DEF Cancel

LEMMA InitFresh ==
  ASSUME Init
  PROVE  FreshInv
<1>1. \A j \in Job : Fresh(j)
  BY DEF Init, Fresh
<1> QED BY <1>1, InitTypes DEF FreshInv

LEMMA NextFresh == FreshInv /\ [Next]_vars => FreshInv'
<1> SUFFICES ASSUME FreshInv, [Next]_vars PROVE FreshInv'
  OBVIOUS
<1>1. TypeOK'
  BY NextTypes DEF FreshInv
<1>2. ASSUME NEW j \in Job, RunJob(j), NEW i \in Job PROVE Fresh(i)'
  BY <1>2, RunKeepsRows DEF FreshInv, Fresh
<1>3. ASSUME NEW j \in Job, Cancel(j) \/ DeleteJob(j), NEW i \in Job PROVE Fresh(i)'
  BY <1>3, RequestKeepsRows DEF FreshInv, Fresh
<1>4. ASSUME UNCHANGED vars, NEW i \in Job PROVE Fresh(i)'
  BY <1>4 DEF FreshInv, Fresh, vars, jobVars, cancelVars
<1> QED BY <1>1, <1>2, <1>3, <1>4 DEF FreshInv, Next, Over

\* A cancel that has been written is undone only by the job's own thread, and only if
\* it read the row before the cancel, or by the deletion of the row.
THEOREM CancelStands == Spec => CancelHolds
<1> DEFINE Holds(j) ==
      row[j].status = "CANCELLED" /\ row'[j].status # "CANCELLED" =>
        row'[j] = NoRow \/ (jpc[j] = "write" /\ saw[j].status = "RUNNING")
<1>1. ASSUME FreshInv, [Next]_vars PROVE [\A j \in Job : Holds(j)]_vars
  <2>1. ASSUME NEW j \in Job, RunJob(j), NEW i \in Job PROVE Holds(i)
    <3>1. AddJob(j) => row[j] = NoRow
      BY <1>1 DEF AddJob, FreshInv, Fresh
    <3> QED BY <1>1, <2>1, <3>1, RunKeepsRows, RowTypes DEF FreshInv
  <2>2. ASSUME NEW j \in Job, Cancel(j) \/ DeleteJob(j), NEW i \in Job PROVE Holds(i)
    BY <1>1, <2>2, RequestKeepsRows DEF FreshInv
  <2> QED BY <1>1, <2>1, <2>2 DEF Next, Over
<1>2. Init => FreshInv
  BY InitFresh
<1>3. FreshInv /\ [Next]_vars => FreshInv'
  BY NextFresh
<1>4. Spec => [][\A j \in Job : Holds(j)]_vars
  BY <1>1, <1>2, <1>3, PTL DEF Spec
<1> QED BY <1>4 DEF CancelHolds

-----------------------------------------------------------------------------
\* A job is reported complete by its own thread, when it sets its status.
LEMMA WhoCompletes ==
  ASSUME TypeOK, [Next]_vars, NEW j \in Job,
         row'[j].status = "COMPLETE", row[j].status # "COMPLETE"
  PROVE  SetStatus(j)
<1>1. ASSUME NEW i \in Job, RunJob(i) PROVE i = j /\ SetStatus(j)
  <2>1. i = j
    BY <1>1, LeavesOthers
  <2>2. CASE AddJob(j)
    BY <2>2, RowTypes DEF AddJob, Status, TypeOK
  <2>3. CASE Mark(j)
    <3>1. PICK mark \in BOOLEAN : row' = IF j \in Upload THEN Marks(j, mark) ELSE row
      BY <2>3 DEF Mark
    <3>2. row'[j].status = row[j].status
      BY <3>1, Marked
    <3> QED BY <3>2
  <2>4. CASE row' = row
    BY <2>4
  <2> QED BY <1>1, <2>1, <2>2, <2>3, <2>4
          DEF RunJob, Start, AddJobFails, NextCommand, CommandsDone, StartProcess, EndProcess,
              LeaveCommand, InternalCommand, CommandThrows, CheckCancelled, CheckFails,
              SetCompleted, ReadStatus, SetStatusFails, MarkThrows
<1>2. ASSUME NEW i \in Job, Cancel(i) \/ DeleteJob(i) PROVE FALSE
  BY <1>2, RequestStep
<1> QED BY <1>1, <1>2 DEF Next, Over, vars

\* A process that has been destroyed has not ended yet, or has failed; and then the
\* thread has left the commands.
Destroyed(j) ==
    killed[j] => \/ jpc[j] = "process"
                 \/ failed[j] /\ jpc[j] \notin {"starting", "internal"}

KilledInv == IInv /\ \A j \in Job : Destroyed(j)

LEMMA DestroyedStep ==
  ASSUME TypeOK, NEW j \in Job, Steps(j), Destroyed(j), RunJob(j)
  PROVE  Destroyed(j)'
<1> USE DEF TypeOK, Destroyed, Goes, commandVars
<1>1. CASE Start(j) \/ AddJob(j) \/ AddJobFails(j) \/ CommandsDone(j) \/ StartProcess(j)
           \/ Mark(j) \/ MarkThrows(j) \/ ReadStatus(j)
  BY <1>1 DEF Start, AddJob, AddJobFails, CommandsDone, StartProcess, Mark, MarkThrows,
              ReadStatus, Steps
<1>2. CASE NextCommand(j)
  BY <1>2 DEF NextCommand
<1>3. CASE EndProcess(j)
  BY <1>3 DEF EndProcess
<1>4. CASE LeaveCommand(j)
  BY <1>4 DEF LeaveCommand, HandleResult, Sets
<1>5. CASE InternalCommand(j) \/ CommandThrows(j)
  BY <1>5 DEF InternalCommand, CommandThrows, HandleResult, Sets
<1>6. CASE CheckCancelled(j) \/ CheckFails(j) \/ SetCompleted(j)
  BY <1>6 DEF CheckCancelled, CheckFails, SetCompleted, Sets
<1>7. CASE SetStatus(j) \/ SetStatusFails(j)
  BY <1>7 DEF SetStatus, SetStatusFails, After
<1> QED BY <1>1, <1>2, <1>3, <1>4, <1>5, <1>6, <1>7 DEF RunJob

\* A step of one job's thread destroys no process of another.
LEMMA DestroysNoOther ==
  ASSUME TypeOK, NEW j \in Job, RunJob(j), NEW i \in Job, i # j
  PROVE  killed'[i] = killed[i]
BY DEF TypeOK, RunJob, Start, AddJob, AddJobFails, NextCommand, CommandsDone, StartProcess,
       EndProcess, LeaveCommand, InternalCommand, CommandThrows, CheckCancelled, CheckFails,
       SetCompleted, ReadStatus, SetStatus, SetStatusFails, Mark, MarkThrows, commandVars

\* A request destroys a process only while it runs.
LEMMA RequestDestroys ==
  ASSUME TypeOK, NEW j \in Job, Cancel(j) \/ DeleteJob(j), NEW i \in Job
  PROVE  killed'[i] = killed[i] \/ jpc[i] = "process"
BY DEF TypeOK, Cancel, AskToCancel, CancelReads, CancelWrites, CancelFails, FindRunner,
       Terminate, DeleteJob, commandVars

LEMMA NextKilled == KilledInv /\ [Next]_vars => KilledInv'
<1> SUFFICES ASSUME KilledInv, [Next]_vars PROVE KilledInv'
  OBVIOUS
<1>0. IInv /\ TypeOK /\ IInv'
  BY NextIInv DEF KilledInv, IInv
<1>1. ASSUME NEW j \in Job, RunJob(j), NEW i \in Job PROVE Destroyed(i)'
  <2>1. CASE i = j
    BY <1>0, <1>1, <2>1, DestroyedStep DEF KilledInv, IInv
  <2>2. CASE i # j
    BY <1>0, <1>1, <2>2, LeavesOthers, DestroysNoOther DEF KilledInv, Destroyed
  <2> QED BY <2>1, <2>2
<1>2. ASSUME NEW j \in Job, Cancel(j) \/ DeleteJob(j), NEW i \in Job PROVE Destroyed(i)'
  <2>1. UNCHANGED <<jpc, failed>>
    BY <1>0, <1>2, RequestStep DEF jobVars
  <2> QED BY <1>0, <1>2, <2>1, RequestDestroys DEF KilledInv, Destroyed
<1>3. ASSUME UNCHANGED vars, NEW i \in Job PROVE Destroyed(i)'
  BY <1>3 DEF KilledInv, Destroyed, vars, jobVars, commandVars
<1> QED BY <1>0, <1>1, <1>2, <1>3 DEF KilledInv, Next, Over

\* The commands of a job are counted by its own thread, when it takes the next one.
LEMMA WhoCounts ==
  ASSUME TypeOK, [Next]_vars, NEW j \in Job, cmd'[j] # cmd[j]
  PROVE  NextCommand(j)
<1>1. ASSUME NEW i \in Job, RunJob(i) PROVE i = j /\ NextCommand(j)
  BY <1>1, LeavesOthers
     DEF RunJob, Start, AddJob, AddJobFails, CommandsDone, StartProcess, EndProcess,
         LeaveCommand, InternalCommand, CommandThrows, CheckCancelled, CheckFails,
         SetCompleted, ReadStatus, SetStatus, SetStatusFails, Mark, MarkThrows
<1>2. ASSUME NEW i \in Job, Cancel(i) \/ DeleteJob(i) PROVE FALSE
  BY <1>2, RequestStep DEF jobVars
<1> QED BY <1>1, <1>2 DEF Next, Over, vars, jobVars

\* Once a cancel has destroyed a job's process, no other command of the job starts,
\* and the job is not reported complete, unless the database silently refused to
\* record the failure or the row was deleted and has come back.
THEOREM KilledEnds == Spec => KilledIsLast
<1> DEFINE Last(j) ==
      killed[j] => cmd'[j] = cmd[j]
                   /\ (row'[j].status = "COMPLETE" /\ row[j].status # "COMPLETE" =>
                         unrecorded[j] \/ ~row'[j].owned)
<1>1. ASSUME KilledInv, [Next]_vars, NEW j \in Job PROVE Last(j)
  <2> SUFFICES ASSUME killed[j] PROVE Last(j)
    OBVIOUS
  <2>0. TypeOK /\ Steps(j) /\ Steps(j)' /\ Destroyed(j)
    BY <1>1, NextIInv DEF KilledInv, IInv
  <2>1. ~NextCommand(j)
    BY <2>0 DEF NextCommand, Steps, Destroyed
  <2>2. cmd'[j] = cmd[j]
    BY <1>1, <2>0, <2>1, WhoCounts
  <2>3. ASSUME row'[j].status = "COMPLETE", row[j].status # "COMPLETE"
        PROVE  unrecorded[j] \/ ~row'[j].owned
    <3>1. SetStatus(j)
      BY <1>1, <2>0, <2>3, WhoCompletes
    <3>2. failed[j] /\ failed' = failed /\ unrecorded' = unrecorded
      BY <2>0, <3>1 DEF SetStatus, Destroyed, historyVars
    <3> QED BY <2>0, <2>3, <3>2 DEF Steps, Done
  <2> QED BY <2>2, <2>3
<1>2. Init => KilledInv
  BY InitIInv DEF KilledInv, Destroyed, Init
<1>3. KilledInv /\ [Next]_vars => [\A j \in Job : Last(j)]_vars
  BY <1>1
<1>4. Spec => [][\A j \in Job : Last(j)]_vars
  <2> HIDE DEF Last
  <2> QED BY <1>2, <1>3, NextKilled, PTL DEF Spec
<1> QED BY <1>4 DEF KilledIsLast

-----------------------------------------------------------------------------
LEMMA ParentsAreAncestors == \A j \in Job : Parents[j] \subseteq Ancestors(j)
BY DEF Ancestors, Closed

\* The detail of a row that an upload marks.
LEMMA MarkedDetail ==
  ASSUME TypeOK, NEW j \in Job, NEW mark \in BOOLEAN, NEW i \in Job, i # j, row[i] # NoRow
  PROVE  /\ Marks(j, mark)[i].detail \in {row[i].detail, "STALE"}
         /\ i \in Ancestors(j) => Marks(j, mark)[i].detail = "STALE"
BY DEF Marks, Detailed

\* What a job's thread does to the row of another job.
LEMMA RunMarks ==
  ASSUME TypeOK, NEW j \in Job, RunJob(j), NEW i \in Job, i # j, row'[i] # NoRow
  PROVE  row[i] # NoRow /\ row'[i].detail \in {row[i].detail, "STALE"}
<1> USE DEF TypeOK, commandVars
<1>1. CASE SetStatus(j)
  <2>1. Target(write[j]) \in Status /\ saw[j] \in Row
    BY DEF Target, Status
  <2>2. row'[i] = row[i]
    BY <1>1, <2>1, Written DEF SetStatus
  <2> QED BY <2>2
<1>2. CASE Mark(j)
  <2>1. PICK mark \in BOOLEAN : row' = IF j \in Upload THEN Marks(j, mark) ELSE row
    BY <1>2 DEF Mark
  <2>2. CASE j \notin Upload
    BY <2>1, <2>2
  <2>3. CASE j \in Upload
    <3>1. row' = Marks(j, mark)
      BY <2>1, <2>3
    <3>2. row[i] # NoRow
      BY <3>1, Marked
    <3>3. row'[i].detail \in {row[i].detail, "STALE"}
      BY <3>1, <3>2, MarkedDetail
    <3> QED BY <3>2, <3>3
  <2> QED BY <2>2, <2>3
<1>3. CASE AddJob(j)
  BY <1>3 DEF AddJob
<1>4. CASE row' = row
  BY <1>4
<1> QED BY <1>1, <1>2, <1>3, <1>4
        DEF RunJob, Start, AddJobFails, NextCommand, CommandsDone, StartProcess, EndProcess,
            LeaveCommand, InternalCommand, CommandThrows, CheckCancelled, CheckFails,
            SetCompleted, ReadStatus, SetStatusFails, MarkThrows

\* What a request does to the row of another job, and to its own request.
LEMMA RequestMinds ==
  ASSUME TypeOK, NEW j \in Job, Cancel(j) \/ DeleteJob(j), NEW i \in Job
  PROVE  /\ i # j => row'[i] = row[i] /\ kpc'[i] = kpc[i]
         /\ DeleteJob(j) => kpc' = kpc /\ row'[j] = NoRow
         /\ Cancel(j) => kpc[j] # "none" \/ j \in Cancelled
<1> USE DEF TypeOK, CancelGoes
<1>1. CASE AskToCancel(j) \/ CancelReads(j) \/ CancelFails(j) \/ FindRunner(j) \/ Terminate(j)
  <2>1. ~DeleteJob(j) \/ (row' = row /\ kpc' = kpc /\ row'[j] = NoRow)
    BY <1>1 DEF AskToCancel, CancelReads, CancelFails, FindRunner, Terminate, DeleteJob,
                cancelVars
  <2> QED BY <1>1, <2>1 DEF AskToCancel, CancelReads, CancelFails, FindRunner, Terminate
<1>2. CASE CancelWrites(j)
  <2>1. ksaw[j] \in Row /\ "CANCELLED" \in Status /\ WriteStatus(j, ksaw[j], "CANCELLED")
    BY <1>2 DEF CancelWrites, Status
  <2>2. i # j => row'[i] = row[i]
    BY <2>1, Written
  <2>3. ~DeleteJob(j)
    BY <1>2 DEF CancelWrites, DeleteJob, cancelVars
  <2> QED BY <1>2, <2>2, <2>3 DEF CancelWrites
<1>3. CASE DeleteJob(j)
  <2>1. row' = [row EXCEPT ![j] = NoRow] /\ kpc' = kpc
    BY <1>3 DEF DeleteJob, cancelVars
  <2>2. Cancel(j) => kpc[j] # "none" \/ j \in Cancelled
    BY DEF Cancel, AskToCancel, CancelReads, CancelWrites, CancelFails, FindRunner, Terminate
  <2> QED BY <2>1, <2>2
<1> QED BY <1>1, <1>2, <1>3 DEF Cancel

\* A job that has begun has parents that have ended, and nobody cancels a job but
\* those that are to be cancelled.
Lineage(j) ==
    /\ jpc[j] # "queued" => \A p \in Parents[j] : jpc[p] \in Ends
    /\ kpc[j] # "none" => j \in Cancelled

Stale(j) ==
    jpc[j] = "ended" => \A p \in Parents[j] \ Cancelled : row[p] # NoRow => row[p].detail = "STALE"

StaleInv == TypeOK /\ (\A j \in Job : Lineage(j)) /\ ParentIsStale

\* The thread of a job that has ended does nothing.
LEMMA EndsStay ==
  ASSUME TypeOK, NEW j \in Job, RunJob(j)
  PROVE  /\ jpc[j] \notin Ends
         /\ jpc'[j] # "queued"
         /\ jpc[j] = "queued" => \A p \in Parents[j] : jpc[p] \in Ends
         /\ jpc'[j] = "ended" => Mark(j)
<1> USE DEF TypeOK, Ends, Goes
<1>1. CASE Start(j) \/ AddJob(j) \/ AddJobFails(j) \/ CommandsDone(j) \/ StartProcess(j)
           \/ EndProcess(j) \/ Mark(j) \/ MarkThrows(j) \/ ReadStatus(j)
  BY <1>1 DEF Start, AddJob, AddJobFails, CommandsDone, StartProcess, EndProcess, Mark,
              MarkThrows, ReadStatus
<1>2. CASE NextCommand(j)
  BY <1>2 DEF NextCommand
<1>3. CASE LeaveCommand(j) \/ InternalCommand(j) \/ CommandThrows(j)
  BY <1>3 DEF LeaveCommand, InternalCommand, CommandThrows, HandleResult, Sets
<1>4. CASE CheckCancelled(j) \/ CheckFails(j) \/ SetCompleted(j)
  BY <1>4 DEF CheckCancelled, CheckFails, SetCompleted, Sets
<1>5. CASE SetStatus(j) \/ SetStatusFails(j)
  BY <1>5 DEF SetStatus, SetStatusFails, After
<1> QED BY <1>1, <1>2, <1>3, <1>4, <1>5 DEF RunJob

LEMMA NextLineage ==
  ASSUME TypeOK, \A j \in Job : Lineage(j), [Next]_vars
  PROVE  \A j \in Job : Lineage(j)'
<1>1. ASSUME NEW j \in Job, RunJob(j), NEW i \in Job PROVE Lineage(i)'
  <2>1. \A k \in Job : jpc[k] \in Ends => jpc'[k] \in Ends
    BY <1>1, EndsStay, LeavesOthers
  <2>2. jpc'[i] # "queued" => \A p \in Parents[i] : jpc[p] \in Ends
    BY <1>1, EndsStay, LeavesOthers DEF Lineage
  <2>3. kpc' = kpc
    BY <1>1, RunKeepsRows
  <2>4. Parents[i] \subseteq Job
    OBVIOUS
  <2> QED BY <2>1, <2>2, <2>3, <2>4 DEF Lineage
<1>2. ASSUME NEW j \in Job, Cancel(j) \/ DeleteJob(j), NEW i \in Job PROVE Lineage(i)'
  <2>1. jpc' = jpc
    BY <1>2, RequestStep DEF jobVars
  <2>2. kpc'[i] # "none" => i \in Cancelled
    BY <1>2, RequestMinds DEF Lineage
  <2> QED BY <2>1, <2>2 DEF Lineage
<1>3. ASSUME UNCHANGED vars, NEW i \in Job PROVE Lineage(i)'
  BY <1>3 DEF Lineage, vars, jobVars, cancelVars
<1> QED BY <1>1, <1>2, <1>3 DEF Next, Over

LEMMA NextStale == StaleInv /\ [Next]_vars => StaleInv'
<1> SUFFICES ASSUME StaleInv, [Next]_vars PROVE StaleInv'
  OBVIOUS
<1>0. TypeOK /\ TypeOK' /\ (\A j \in Job : Lineage(j)) /\ (\A j \in Upload : Stale(j))
      /\ Upload \subseteq Job
  BY NextTypes DEF StaleInv, ParentIsStale, Stale
<1>1. ASSUME NEW i \in Job, RunJob(i), NEW j \in Upload PROVE Stale(j)'
  <2> SUFFICES ASSUME jpc'[j] = "ended", NEW p \in Parents[j] \ Cancelled, row'[p] # NoRow
               PROVE  row'[p].detail = "STALE"
    BY DEF Stale
  <2>1. p \in Job /\ j \in Job /\ Parents[j] \subseteq Job
    BY <1>0
  <2>2. jpc[p] \in Ends /\ p # i
    <3>1. jpc[j] # "queued"
      BY <1>0, <1>1, <2>1, EndsStay, LeavesOthers DEF Mark
    <3>2. jpc[p] \in Ends
      BY <1>0, <2>1, <3>1 DEF Lineage
    <3> QED BY <1>0, <1>1, <3>2, EndsStay
  <2>3. row[p] # NoRow /\ row'[p].detail \in {row[p].detail, "STALE"}
    BY <1>0, <1>1, <2>1, <2>2, RunMarks
  <2>4. CASE i = j
    <3>1. Mark(j)
      BY <1>0, <1>1, <2>1, <2>4, EndsStay
    <3>2. PICK mark \in BOOLEAN : row' = Marks(j, mark)
      BY <3>1 DEF Mark
    <3> QED BY <1>0, <2>1, <2>2, <2>3, <2>4, <3>2, MarkedDetail, ParentsAreAncestors
  <2>5. CASE i # j
    <3>1. jpc[j] = "ended"
      BY <1>0, <1>1, <2>1, <2>5, LeavesOthers
    <3>2. row[p].detail = "STALE"
      BY <1>0, <2>1, <2>3, <3>1 DEF Stale
    <3> QED BY <2>3, <3>2
  <2> QED BY <2>4, <2>5
<1>2. ASSUME NEW i \in Job, Cancel(i) \/ DeleteJob(i), NEW j \in Upload PROVE Stale(j)'
  <2> SUFFICES ASSUME jpc'[j] = "ended", NEW p \in Parents[j] \ Cancelled, row'[p] # NoRow
               PROVE  row'[p].detail = "STALE"
    BY DEF Stale
  <2>1. p \in Job /\ j \in Job
    BY <1>0
  <2>2. jpc[j] = "ended"
    BY <1>0, <1>2, RequestStep DEF jobVars
  <2>3. row'[p] = row[p]
    BY <1>0, <1>2, <2>1, RequestMinds DEF Lineage
  <2> QED BY <1>0, <2>1, <2>2, <2>3 DEF Stale
<1>3. ASSUME UNCHANGED vars, NEW j \in Upload PROVE Stale(j)'
  BY <1>0, <1>3 DEF Stale, vars, jobVars
<1>4. \A j \in Upload : Stale(j)'
  BY <1>1, <1>2, <1>3 DEF Next, Over
<1> QED BY <1>0, <1>4, NextLineage DEF StaleInv, ParentIsStale, Stale

\* Once an upload has ended, every job its data came from is stale, or gone, or one
\* that a user cancels, whatever became of the upload.
THEOREM ParentsAreStale == Spec => []ParentIsStale
<1>1. Init => StaleInv
  BY InitTypes DEF StaleInv, Init, Lineage, ParentIsStale
<1>2. StaleInv => ParentIsStale
  BY DEF StaleInv
<1> QED BY <1>1, <1>2, NextStale, PTL DEF Spec


-----------------------------------------------------------------------------
\* The thread of j has set no status yet: it is about to begin its first command, or
\* in it, and that is a process.
InFirst(j) == jpc[j] \in {"starting", "process", "exited"} \/ (jpc[j] = "next" /\ cmd[j] = 0)

\* While it is, a cancel that has been written holds; and so it holds when the
\* process that the cancel has destroyed is found to have failed.
Condemned(j) ==
    /\ jpc[j] \in InCommand \/ Setting(j, "RUNNING") => cmd[j] # 0
    /\ InFirst(j) =>
         /\ row[j].status # "FAILED"
         /\ kpc[j] \in {"lookup", "terminate"} => row[j].status # "RUNNING"
         /\ kpc[j] = "write" /\ ksaw[j] # NoRow /\ ksaw[j].status # "RUNNING" =>
              row[j].status # "RUNNING"
    /\ killed[j] =>
         /\ row[j].status # "RUNNING"
         /\ row[j].owned => row[j].status # "FAILED"
         /\ jpc[j] = "write" => saw[j].status # "RUNNING"

CondemnedInv == KilledInv /\ FreshInv /\ \A j \in Job : Condemned(j)

\* A step of a job's thread that leaves the rows and requests alone, and its effect
\* on where it is.
LEMMA CondemnedQuiet ==
  ASSUME ProcessFirst, TypeOK, NEW j \in Job, Steps(j), Destroyed(j), Condemned(j), RunJob(j),
         row' = row, UNCHANGED cancelVars, jpc[j] # "add"
  PROVE  Condemned(j)'
<1> USE DEF TypeOK, Condemned, Setting, InFirst, InCommand, Goes, commandVars, cancelVars
<1>1. CASE Start(j) \/ AddJobFails(j) \/ CommandsDone(j) \/ StartProcess(j) \/ MarkThrows(j)
  BY <1>1 DEF Start, AddJobFails, CommandsDone, StartProcess, MarkThrows
<1>2. CASE NextCommand(j)
  <2>1. /\ jpc[j] = "next" /\ cmd[j] \in Nat /\ cmd'[j] = cmd[j] + 1 /\ killed'[j] = FALSE
        /\ jpc'[j] = IF Commands[j][cmd[j] + 1] = "external" THEN "starting" ELSE "internal"
    BY <1>2 DEF NextCommand
  <2>2. jpc'[j] = "starting" => cmd[j] = 0
    <3>1. cmd[j] + 1 \in 1..Len(Commands[j])
      BY <1>2 DEF NextCommand
    <3>2. Commands[j][cmd[j] + 1] = "external" => cmd[j] + 1 = 1
      BY <3>1 DEF ProcessFirst
    <3> QED BY <2>1, <3>2
  <2>3. jpc'[j] \in {"starting", "internal"} /\ cmd'[j] # 0
    BY <2>1
  <2> QED BY <2>1, <2>2, <2>3
<1>3. CASE EndProcess(j)
  BY <1>3 DEF EndProcess
<1>4. CASE LeaveCommand(j)
  BY <1>4 DEF LeaveCommand, HandleResult, Sets
<1>5. CASE InternalCommand(j) \/ CommandThrows(j)
  BY <1>5 DEF InternalCommand, CommandThrows, HandleResult, Sets
<1>6. CASE CheckCancelled(j) \/ CheckFails(j) \/ SetCompleted(j)
  BY <1>6 DEF CheckCancelled, CheckFails, SetCompleted, Sets
<1>7. CASE ReadStatus(j)
  BY <1>7 DEF ReadStatus
<1>8. CASE SetStatus(j) \/ SetStatusFails(j)
  BY <1>8 DEF SetStatus, SetStatusFails, After
<1>9. CASE Mark(j)
  BY <1>9 DEF Mark
<1> QED BY <1>1, <1>2, <1>3, <1>4, <1>5, <1>6, <1>7, <1>8, <1>9 DEF RunJob, AddJob

LEMMA CondemnedSet ==
  ASSUME TypeOK, NEW j \in Job, Steps(j), Destroyed(j), Condemned(j), SetStatus(j)
  PROVE  Condemned(j)'
<1> DEFINE s == Target(write[j])
<1> USE DEF TypeOK
<1>1. saw[j] \in Row /\ s \in Status /\ jpc[j] = "write" /\ WriteStatus(j, saw[j], s)
  BY DEF SetStatus, Target, Status
<1>2. /\ saw[j] = NoRow => row'[j].status = s /\ ~row'[j].owned
      /\ saw[j] # NoRow /\ saw[j].status # "RUNNING" => row' = row
  <2> HIDE DEF s
  <2> QED BY <1>1, Written
<1>3. jpc'[j] = After(write[j]) /\ UNCHANGED <<cmd, failed, write, killed>>
  BY DEF SetStatus, Goes, commandVars
<1>4. ~InFirst(j)' /\ jpc'[j] \notin {"read", "write"} /\ jpc'[j] \notin InCommand
  BY <1>1, <1>3 DEF After, InFirst, Condemned, Setting, InCommand
<1>5. ASSUME killed[j]
      PROVE  row'[j].status # "RUNNING" /\ (row'[j].owned => row'[j].status # "FAILED")
  <2>1. saw[j].status # "RUNNING" /\ failed[j]
    BY <1>1, <1>5 DEF Condemned, Destroyed
  <2>2. s # "RUNNING"
    BY <1>1, <2>1 DEF Steps, Setting, Target
  <2> HIDE DEF s
  <2> QED BY <1>2, <1>5, <2>1, <2>2 DEF Condemned
<1> QED BY <1>3, <1>4, <1>5 DEF Condemned, Setting

\* A step of a job's thread leaves the requests alone.
LEMMA RunLeavesRequests ==
  ASSUME NEW j \in Job, RunJob(j)
  PROVE  UNCHANGED cancelVars
BY DEF RunJob, Start, AddJob, AddJobFails, NextCommand, CommandsDone, StartProcess,
       EndProcess, LeaveCommand, InternalCommand, CommandThrows, CheckCancelled, CheckFails,
       SetCompleted, ReadStatus, SetStatus, SetStatusFails, Mark, MarkThrows, cancelVars

LEMMA CondemnedRun ==
  ASSUME ProcessFirst, TypeOK, NEW j \in Job, Steps(j), Destroyed(j), Fresh(j), Condemned(j),
         RunJob(j)
  PROVE  Condemned(j)'
<1>0. UNCHANGED cancelVars
  BY RunLeavesRequests
<1>1. CASE SetStatus(j)
  BY <1>1, CondemnedSet
<1>2. CASE AddJob(j)
  <2>1. /\ jpc[j] = "add" /\ jpc'[j] = "next" /\ row'[j] = NewRow("RUNNING", TRUE)
        /\ UNCHANGED <<cmd, killed, kpc, ksaw>>
    BY <1>2 DEF AddJob, Goes, TypeOK, commandVars, cancelVars
  <2>2. row'[j].status = "RUNNING"
    BY <2>1, RowTypes DEF Status
  <2>3. ~killed[j] /\ kpc[j] \in {"none", "refused"}
    BY <2>1 DEF Steps, Destroyed, Fresh
  <2> QED BY <2>1, <2>2, <2>3 DEF Condemned, Setting, InCommand
<1>3. CASE Mark(j)
  <2>1. PICK mark \in BOOLEAN : row' = IF j \in Upload THEN Marks(j, mark) ELSE row
    BY <1>3 DEF Mark
  <2>2. row'[j].status = row[j].status /\ row'[j].owned = row[j].owned
    BY <2>1, Marked
  <2>3. jpc'[j] = "ended" /\ killed' = killed
    BY <1>3 DEF Mark, Goes, TypeOK, commandVars
  <2> QED BY <2>2, <2>3 DEF Condemned, Setting, InFirst, InCommand
<1>4. CASE row' = row /\ jpc[j] # "add"
  BY <1>0, <1>4, CondemnedQuiet
<1>5. CASE AddJobFails(j)
  BY <1>0, <1>5 DEF AddJobFails, Goes, TypeOK, Condemned, Setting, InFirst, InCommand,
                    commandVars, cancelVars
<1> QED BY <1>1, <1>2, <1>3, <1>4, <1>5
        DEF RunJob, Start, NextCommand, CommandsDone, StartProcess, EndProcess, LeaveCommand,
            InternalCommand, CommandThrows, CheckCancelled, CheckFails,
            SetCompleted, ReadStatus, SetStatusFails, MarkThrows

\* A request for a job keeps it.
LEMMA CondemnedRequest ==
  ASSUME TypeOK, NEW j \in Job, Condemned(j), Cancel(j) \/ DeleteJob(j)
  PROVE  Condemned(j)'
<1> USE DEF TypeOK, CancelGoes
<1>0. UNCHANGED <<jpc, cmd, failed, write, saw>>
  BY RequestStep DEF jobVars
<1>1. CASE AskToCancel(j) \/ CancelReads(j) \/ CancelFails(j) \/ FindRunner(j)
  BY <1>0, <1>1 DEF AskToCancel, CancelReads, CancelFails, FindRunner, commandVars, Condemned,
                    Setting, InFirst
<1>2. CASE Terminate(j)
  <2>1. /\ kpc[j] = "terminate" /\ kpc'[j] \in {"error", "answered"} /\ row' = row
        /\ killed'[j] => killed[j] \/ jpc[j] = "process"
    BY <1>2 DEF Terminate
  <2>2. jpc[j] = "process" => InFirst(j)
    BY DEF InFirst
  <2> QED BY <1>0, <2>1, <2>2 DEF Condemned, Setting, InFirst
<1>3. CASE CancelWrites(j)
  <2>1. ksaw[j] \in Row /\ "CANCELLED" \in Status /\ WriteStatus(j, ksaw[j], "CANCELLED")
    BY <1>3 DEF CancelWrites, Status
  <2>2. \/ row'[j].status = "CANCELLED" \/ row'[j] = NoRow
        \/ row' = row /\ ksaw[j] # NoRow /\ ksaw[j].status # "RUNNING"
    BY <2>1, Written
  <2>3. kpc[j] = "write" /\ kpc'[j] = "lookup" /\ killed' = killed
    BY <1>3 DEF CancelWrites, commandVars
  <2> QED BY <1>0, <2>2, <2>3, RowTypes DEF Condemned, Setting, InFirst
<1>4. CASE DeleteJob(j)
  <2>1. row'[j] = NoRow /\ UNCHANGED <<killed, kpc, ksaw>>
    BY <1>4 DEF DeleteJob, commandVars, cancelVars
  <2> QED BY <1>0, <2>1, RowTypes DEF Condemned, Setting, InFirst
<1> QED BY <1>1, <1>2, <1>3, <1>4 DEF Cancel

\* A request for another job changes nothing of this one.
LEMMA RequestLeavesOthers ==
  ASSUME TypeOK, NEW j \in Job, Cancel(j) \/ DeleteJob(j), NEW i \in Job, i # j
  PROVE  /\ row'[i] = row[i] /\ kpc'[i] = kpc[i] /\ ksaw'[i] = ksaw[i] /\ killed'[i] = killed[i]
<1>1. row'[i] = row[i] /\ kpc'[i] = kpc[i]
  BY RequestMinds
<1>2. ksaw'[i] = ksaw[i] /\ killed'[i] = killed[i]
  BY DEF TypeOK, Cancel, AskToCancel, CancelReads, CancelWrites, CancelFails, FindRunner,
         Terminate, DeleteJob, commandVars, cancelVars
<1> QED BY <1>1, <1>2

LEMMA NextCondemned ==
  ASSUME ProcessFirst, CondemnedInv, [Next]_vars
  PROVE  CondemnedInv'
<1>0. TypeOK /\ KilledInv' /\ FreshInv'
      /\ \A j \in Job : Steps(j) /\ Destroyed(j) /\ Fresh(j) /\ Condemned(j)
  BY NextKilled, NextFresh DEF CondemnedInv, KilledInv, IInv, FreshInv
<1>1. ASSUME NEW j \in Job, RunJob(j), NEW i \in Job PROVE Condemned(i)'
  <2>1. CASE i = j
    BY <1>0, <1>1, <2>1, CondemnedRun
  <2>2. CASE i # j
    <3>1. killed'[i] = killed[i] /\ UNCHANGED cancelVars
      BY <1>0, <1>1, <2>2, DestroysNoOther, RunLeavesRequests
    <3>2. /\ jpc'[i] = jpc[i] /\ cmd'[i] = cmd[i] /\ write'[i] = write[i] /\ saw'[i] = saw[i]
          /\ row'[i].status = row[i].status /\ row'[i].owned = row[i].owned
      BY <1>0, <1>1, <2>2, LeavesOthers
    <3>3. Condemned(i)
      BY <1>0
    <3> QED BY <3>1, <3>2, <3>3 DEF Condemned, Setting, InFirst, cancelVars
  <2> QED BY <2>1, <2>2
<1>2. ASSUME NEW j \in Job, Cancel(j) \/ DeleteJob(j), NEW i \in Job PROVE Condemned(i)'
  <2>1. CASE i = j
    BY <1>0, <1>2, <2>1, CondemnedRequest
  <2>2. CASE i # j
    <3>1. UNCHANGED <<jpc, cmd, failed, write, saw>>
      BY <1>0, <1>2, RequestStep DEF jobVars
    <3> QED BY <1>0, <1>2, <2>2, <3>1, RequestLeavesOthers DEF Condemned, Setting, InFirst
  <2> QED BY <2>1, <2>2
<1>3. ASSUME UNCHANGED vars, NEW i \in Job PROVE Condemned(i)'
  BY <1>0, <1>3 DEF Condemned, Setting, InFirst, vars, jobVars, commandVars, cancelVars
<1> QED BY <1>0, <1>1, <1>2, <1>3 DEF CondemnedInv, Next, Over

\* If its only process is its first command, a job whose process a cancel has
\* destroyed is not marked as failed, unless its row was deleted and has come back.
THEOREM CancelledIsNotFailed ==
  ASSUME ProcessFirst
  PROVE  Spec => []CancelledNotFailed
<1>1. Init => CondemnedInv
  <2> SUFFICES ASSUME Init PROVE CondemnedInv
    OBVIOUS
  <2>1. KilledInv /\ FreshInv
    BY InitIInv, InitFresh DEF KilledInv, Destroyed, Init
  <2>2. \A j \in Job : Condemned(j)
    BY DEF Init, Condemned, Setting, InFirst, InCommand
  <2> QED BY <2>1, <2>2 DEF CondemnedInv
<1>2. CondemnedInv => CancelledNotFailed
  BY DEF CondemnedInv, Condemned, CancelledNotFailed
<1>3. CondemnedInv /\ [Next]_vars => CondemnedInv'
  BY NextCondemned
<1> QED BY <1>1, <1>2, <1>3, PTL DEF Spec

=============================================================================
