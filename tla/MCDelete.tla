------------------------------ MODULE MCDelete ------------------------------
(***************************************************************************)
(* Uploads of deleted elements: way w and its node a are deleted; so is    *)
(* node b, which the API finds in way v until the new version of v, which  *)
(* no longer has it, is applied; so is node c, which somebody else has     *)
(* deleted already.                                                        *)
(***************************************************************************)
EXTENDS ChangesetUpload

Nodes == {"a", "b", "c"}
Ways == {"w", "v"}
Elements == Nodes \cup Ways

Changes == [e \in Elements |-> IF e = "v" THEN "modify" ELSE "delete"]
NodesOfWays == [w \in Ways |-> IF w = "w" THEN {"a"} ELSE {}]
NoMembers == [r \in {} |-> <<>>]
Users == [e \in Elements |->
            IF e = "a" THEN {"w"} ELSE IF e = "b" THEN {"v"} ELSE {}]
InIdOrder == <<"c", "a", "b", "w", "v">>

ASSUME DeletesInOrder == DeletesApart /\ DeletesAreOld
=============================================================================
