----------------------------- MODULE ElementId -----------------------------
(***************************************************************************)
(* hoot::ElementId: an element's type, as the number it has in the          *)
(* enumeration ElementType::Type, and its id, and their order.             *)
(***************************************************************************)
EXTENDS Integers, Sequences

ElementType == 0..2    \* Node, Way, Relation
ElementIds == [type : ElementType, id : Int]

\* All nodes come before all ways, and these before all relations.
Less(a, b) == a.type < b.type \/ (a.type = b.type /\ a.id < b.id)

\* Elements in the order of their ids.
Sorted(s) == \A i, j \in DOMAIN s : i < j => ~Less(s[j].eid, s[i].eid)

\* ... none of which is there twice.
StrictlySorted(s) == \A i, j \in DOMAIN s : i < j => Less(s[i].eid, s[j].eid)
=============================================================================
