------------------------------ MODULE MCOutage ------------------------------
(***************************************************************************)
(* An upload while the API is down for a while: no changeset is created,   *)
(* or an upload is answered 503 or finds its changeset closed, until       *)
(* threads, or all of them, give up.  The changeset is a few new nodes and *)
(* one of them is sent at a time.                                          *)
(***************************************************************************)
EXTENDS ChangesetUpload

Nodes == {"k", "m", "n"}

Changes == [e \in Nodes |-> "create"]
Nothing == [e \in {} |-> {}]
NoUsers == [e \in Nodes |-> {}]
InIdOrder == <<"k", "m", "n">>

\* What XmlChangeset calculates from new nodes and a push limit of one, written
\* so that fairness, which asks of every state whether a step is possible, can
\* be evaluated quickly.
FirstNode(st, unsent) ==
    IF unsent = 0 THEN {}
    ELSE {e \in AvailableIn(st) :
            \A i, j \in 1..3 : InIdOrder[j] = e /\ i < j => st[InIdOrder[i]] # "Available"}

ASSUME FirstNodeIsCalculated ==
    \A st \in Statuses, n \in 0..3 : FirstNode(st, n) = CalculateChangeset(st, n)

ASSUME NodesFailAlone == PlainUpload /\ NoSpread
=============================================================================
