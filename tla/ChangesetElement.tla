-------------------------- MODULE ChangesetElement --------------------------
(***************************************************************************)
(* The elements of one OSM changeset and the life of each of them          *)
(* (OsmApiChangesetElement.h).  The changeset module and the writer module *)
(* share these names.                                                      *)
(***************************************************************************)
EXTENDS FiniteSets, Naturals

CONSTANT Element      \* every node, way and relation of the loaded changeset

ASSUME ElementAssumption == IsFiniteSet(Element)

\* ChangesetElement::ElementStatus.  The comments of the enumeration give the
\* meaning: Finalized is "Returned from the OSM API and done", Failed is
\* "Returned from the OSM API as an error".
ElementStatus == {"Available", "Buffering", "Sent", "Finalized", "Failed"}

\* The two states in which nothing more is expected of an element.
Settled == {"Finalized", "Failed"}

AvailableIn(st) == {e \in Element : st[e] = "Available"}

FailedIn(st) == {e \in Element : st[e] = "Failed"}

Total == Cardinality(Element)
=============================================================================
