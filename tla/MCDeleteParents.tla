--------------------------- MODULE MCDeleteParents ---------------------------
(***************************************************************************)
(* Deletes a node together with the way and the relation that have it, and *)
(* a relation that has nothing to do with them, two elements at a time.    *)
(***************************************************************************)
EXTENDS ChangesetUpload

Nodes == {"n"}
Ways == {"w"}
Relations == {"q", "r"}
Elements == Nodes \cup Ways \cup Relations

Changes == [e \in Elements |-> "delete"]
NodesOfWays == [w \in Ways |-> {"n"}]
MembersOfRelations == [r \in Relations |-> IF r = "r" THEN <<"n">> ELSE <<>>]
Users == [e \in Elements |-> IF e = "n" THEN {"r", "w"} ELSE {}]
InIdOrder == <<"n", "w", "q", "r">>
=============================================================================
