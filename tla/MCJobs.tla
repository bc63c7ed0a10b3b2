------------------------------- MODULE MCJobs -------------------------------
(***************************************************************************)
(* A job that derives a changeset, one that uploads it, and an export that *)
(* competes with them for the only thread of the pool.                     *)
(***************************************************************************)
EXTENDS JobRunner

CONSTANTS derive, upload, export

CommandsOfJobs ==
    [j \in Job |-> CASE j = derive -> <<"external">>
                     [] j = upload -> <<"external", "internal">>
                     [] j = export -> <<"external">>]
ParentsOfJobs == [j \in Job |-> IF j = upload THEN {derive} ELSE {}]

ASSUME JobsOfOneProcess == ProcessFirst
=============================================================================
