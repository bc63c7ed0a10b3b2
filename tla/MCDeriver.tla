----------------------------- MODULE MCDeriver -----------------------------
(***************************************************************************)
(* All pairs of maps of at most three elements, a way among them: each      *)
(* element in either map or in both, the same or changed, tagged or not.   *)
(***************************************************************************)
EXTENDS ChangesetDeriver, SequencesExt

Ids == {[type |-> 0, id |-> -1], [type |-> 0, id |-> 2], [type |-> 1, id |-> 1]}

E(eid, version, body, meta, exclude, unknown1) ==
    [eid |-> eid, version |-> version, body |-> body, meta |-> meta, exclude |-> exclude,
     unknown1 |-> unknown1]

\* What an element may be in the old map and in the new one; version 0 stands for nothing.
Nothing(eid) == E(eid, 0, "", FALSE, FALSE, FALSE)
Old(eid) == {Nothing(eid), E(eid, 1, "a", FALSE, FALSE, TRUE), E(eid, 1, "a", FALSE, TRUE, TRUE),
             E(eid, 1, "a", TRUE, FALSE, FALSE)}
New(eid) == {Nothing(eid), E(eid, 1, "a", FALSE, FALSE, FALSE), E(eid, 1, "a", TRUE, FALSE, FALSE),
             E(eid, 1, "b", FALSE, FALSE, FALSE), E(eid, 2, "a", FALSE, FALSE, FALSE)}

Elements == {e \in UNION {Old(i) \cup New(i) : i \in Ids} : e.version > 0}

InOrder(S) == SetToSortSeq(S, LAMBDA e, f : Less(e.eid, f.eid))
Streams(Options(_)) ==
    {InOrder({e \in S : e.version > 0}) :
       S \in {T \in SUBSET (UNION {Options(i) : i \in Ids}) : \A i \in Ids : \E e \in T : e.eid = i /\ \A f \in T : f.eid = i => f = e}}

SomeInputs == [from : Streams(Old), to : Streams(New)]
=============================================================================
