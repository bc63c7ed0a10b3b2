----------------------------- MODULE MCRevived -----------------------------
(***************************************************************************)
(* New nodes that two new ways share.  Their changeset is split in halves, *)
(* and a node that fails in one half fails the way that another thread     *)
(* still has.                                                              *)
(***************************************************************************)
EXTENDS ChangesetUpload

Nodes == {"n", "m", "k"}
Ways == {"w1", "w2"}
Elements == Nodes \cup Ways

Changes == [e \in Elements |-> "create"]
NodesOfWays == [w \in Ways |-> IF w = "w1" THEN {"n"} ELSE Nodes]
NoMembers == [r \in {} |-> <<>>]
NoUsers == [e \in Elements |-> {}]
InIdOrder == <<"n", "m", "k", "w1", "w2">>
=============================================================================
