--------------------------- MODULE ChangesetUpload ---------------------------
(***************************************************************************)
(* The writer and the changeset it uploads, composed: OsmApiWriter with    *)
(* XmlChangeset in the place of its constant operators, and what only the  *)
(* two together promise.  The MC modules give the changeset its elements.  *)
(***************************************************************************)
EXTENDS OsmApiWriter, XmlChangeset

\* What the code knows that e must not overtake: the created elements it refers
\* to and, for a delete, the ways and relations of this changeset that have it.
Before(e) ==
    IF Change[e] = "delete" THEN {p \in WaysOf(e) \cup RelationsOf(e) : Change[p] # "create"}
    ELSE {m \in (IF e \in Way THEN WayNodes[e]
                 ELSE IF e \in Relation THEN ToSet(Members[e]) ELSE {}) : Change[m] = "create"}

\* The writer asks XmlChangeset for its changesets, and the API wants what they need.
Composed ==
    /\ \A st \in Statuses, n \in 0..Total : Calculate(st, n) = CalculateChangeset(st, n)
    /\ \A e \in Element : Requires(e) = Needs(e)

\* Nothing that is deleted refers to a created element, and only deletes can be too late.
DeletesAreOld ==
    /\ \A e \in Element : Change[e] = "create" =>
         Apart(WaysOf(e) \cup RelationsOf(e), Deletes(Element))
    /\ Gone \subseteq Deletes(Element)

\* What refers to a deleted element is deleted with it and waits for nothing, and it is
\* either ways or relations.  A deleted node that has both, or a parent that has to
\* wait itself, is sent too early (AddNode; MCDeleteParents).
DeletesApart ==
    \A e \in Deletes(Element) :
      /\ \A p \in WaysOf(e) \cup RelationsOf(e) : Change[p] = "delete" /\ Before(p) = {}
      /\ WaysOf(e) = {} \/ RelationsOf(e) = {}

\* A new changeset can be applied whatever becomes of the others that are under
\* way: all that its elements must come after is in it or is final.  "Deleting
\* nodes can't happen until the ways and relations that have the node are
\* deleted" (OsmApiChangeset.cpp:610).
SelfContained ==
    ppc = "push" =>
      \A e \in pwork : \A d \in Before(e) : d \in pwork \/ status[d] = "Finalized"
=============================================================================
