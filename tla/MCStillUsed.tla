---------------------------- MODULE MCStillUsed ----------------------------
(***************************************************************************)
(* Deletes a node that the API still finds in a way.  The changeset has    *)
(* the new version of the way, which waits for a new node of its own, so   *)
(* the delete is refused and the split that follows sends the two together.*)
(***************************************************************************)
EXTENDS ChangesetUpload

Nodes == {"x", "k", "b", "c", "d"}
Ways == {"v"}
Elements == Nodes \cup Ways

Changes == [e \in Elements |-> IF e = "v" THEN "modify"
                               ELSE IF e \in {"x", "k"} THEN "create" ELSE "delete"]
NodesOfWays == [w \in Ways |-> {"x"}]
NoMembers == [r \in {} |-> <<>>]
Users == [e \in Elements |-> IF e = "b" THEN {"v"} ELSE {}]
InIdOrder == <<"x", "k", "b", "c", "d", "v">>

Created == {"x", "k"}
=============================================================================
