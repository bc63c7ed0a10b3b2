--------------------------- MODULE MCTwoProcesses ---------------------------
(***************************************************************************)
(* An upload that applies two changesets, one of geometries and one of     *)
(* tags, each in a process of its own (GrailResource.changesetPush).       *)
(***************************************************************************)
EXTENDS JobRunner

CONSTANTS derive, upload

TwoProcesses ==
    [j \in Job |-> IF j = upload THEN <<"external", "external", "internal">> ELSE <<"external">>]
ParentOfUpload == [j \in Job |-> IF j = upload THEN {derive} ELSE {}]
=============================================================================
