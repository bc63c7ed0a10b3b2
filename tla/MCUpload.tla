------------------------------ MODULE MCUpload ------------------------------
(***************************************************************************)
(* Uploads of created and modified elements, with XmlChangeset deciding    *)
(* what is in each changeset: two new ways that share a new node, a new    *)
(* relation with one of them, and a node that moves.                       *)
(***************************************************************************)
EXTENDS ChangesetUpload

Nodes == {"n", "m"}
Ways == {"w1", "w2"}
Relations == {"r"}
Elements == Nodes \cup Ways \cup Relations

Changes == [e \in Elements |-> IF e = "m" THEN "modify" ELSE "create"]
NodesOfWays == [w \in Ways |-> IF w = "w1" THEN {"n"} ELSE {"n", "m"}]
MembersOfRelations == [r \in Relations |-> <<"w1">>]
NoUsers == [e \in Elements |-> {}]
InIdOrder == <<"n", "m", "w2", "w1", "r">>

Created == {e \in Elements : Changes[e] = "create"}

ASSUME UploadIsPlain == PlainUpload

ASSUME UploadInOrder == Composed /\ DeletesApart /\ DeletesAreOld
=============================================================================
