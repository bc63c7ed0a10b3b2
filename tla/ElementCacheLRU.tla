-------------------------- MODULE ElementCacheLRU --------------------------
(***************************************************************************)
(* hoot::ElementCacheLRU: for the nodes, the ways and the relations a map  *)
(* of the cached elements and a list of their ids in order of use.  Looking  *)
(* at an element through the const interface, as geometry conversion does, *)
(* does not count as use, so the list is in order of arrival.              *)
(*                                                                         *)
(* A definition marked "a fault" is not part of the model.                 *)
(***************************************************************************)
EXTENDS Naturals, Sequences, FiniteSets, SequencesExt

\* One kind's map and list.
Empty == [held |-> {}, order |-> <<>>]

ContainsElement(cache, id) == id \in cache.held

\* A fault: the newest is removed.
RemoveNewest(cache) ==
    [held |-> cache.held \ {Head(cache.order)}, order |-> Tail(cache.order)]

\* The id at the end of the list goes, and what the map has under that id.
RemoveOldest(cache) ==
    [held |-> cache.held \ {Last(cache.order)}, order |-> Front(cache.order)]

\* A fault: the id is not listed.
AddUnlisted(cache, id, max) == [held |-> cache.held \cup {id}, order |-> cache.order]

\* An id that is in the map already stays there as it is, but is listed again.
AddElement(cache, id, max) ==
    LET room == IF Cardinality(cache.held) = max THEN RemoveOldest(cache) ELSE cache
    IN  [held |-> room.held \cup {id}, order |-> <<id>> \o room.order]
=============================================================================
