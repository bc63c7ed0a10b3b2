-------------------------- MODULE ChangesetDeriver --------------------------
(***************************************************************************)
(* hoot::ChangesetDeriver: reads the elements of a map as it was ("from")  *)
(* and of the map as it is to be ("to"), both in the order of their ids,   *)
(* and gives out, one at a time, the changes that lead from the first to   *)
(* the second.  Its caller asks for changes until there are no more.       *)
(*                                                                         *)
(* A definition marked "a fault" is not part of the model: it is a version *)
(* of the definition below it with a mistake that a property must notice.  *)
(***************************************************************************)
EXTENDS ElementId, FiniteSets

CONSTANTS
    Element,   \* the elements of all maps, see ElementAssumption
    Inputs,    \* the pairs of streams of elements there may be
    Null       \* a null pointer

\* An element has an id and a version.  Of its tags, coordinates, nodes and members three
\* things matter: whether they are the same as another's ("body"), whether one of the
\* metadata keys that may be written is there ("meta"), and whether hoot:change:exclude:delete
\* is there ("exclude").  "unknown1" says that the status is Unknown1.
ASSUME ElementAssumption ==
    /\ \A e \in Element : /\ e.eid \in ElementIds
                          /\ e.exclude \in BOOLEAN /\ e.meta \in BOOLEAN /\ e.unknown1 \in BOOLEAN
    /\ Null \notin Element
    /\ \A in \in Inputs : /\ in.from \in Seq(Element) /\ in.to \in Seq(Element)
                          /\ StrictlySorted(in.from) /\ StrictlySorted(in.to)

VARIABLES
    allow,        \* _allowDeletingReferenceFeatures
    from, to,     \* the elements of the two streams
    numFrom,      \* _numFromElementsParsed: how many of them have been read
    numTo,        \* _numToElementsParsed
    fromE, toE,   \* _fromE and _toE: the elements at hand
    pc,           \* where _nextChange and the caller are
    next,         \* _next
    changesByType,  \* _changesByType
    derived       \* all changes given out so far

inputVars == <<allow, from, to>>
streamVars == <<numFrom, numTo, fromE, toE>>
deriverVars == <<inputVars, streamVars, pc, next, changesByType, derived>>

ChangeType == {"Create", "Modify", "Delete", "Unknown"}
NoChange == [type |-> "Unknown", element |-> Null, previous |-> Null]
Change == [type : ChangeType, element : Element, previous : Element \cup {Null}]
Cleared == [type : ChangeType, element : {Null}, previous : Element \cup {Null}]

TypeOK ==
    /\ allow \in BOOLEAN
    /\ from \in Seq(Element) /\ to \in Seq(Element)
    /\ numFrom \in 0..Len(from) /\ numTo \in 0..Len(to)
    /\ fromE \in Element \cup {Null} /\ toE \in Element \cup {Null}
    /\ pc \in {"ask", "compare", "give", "done"}
    /\ next \in Change \cup Cleared
    /\ changesByType \in [ChangeType -> Nat]
    /\ derived \subseteq Change

\* A deriver on two streams from which nothing has been read.
Fresh(in) ==
    /\ from = in.from /\ to = in.to
    /\ numFrom = 0 /\ numTo = 0
    /\ fromE = Null /\ toE = Null
    /\ pc = "ask"
    /\ next = NoChange
    /\ changesByType = [t \in ChangeType |-> 0]
    /\ derived = {}

Init == allow \in BOOLEAN /\ \E in \in Inputs : Fresh(in)

-----------------------------------------------------------------------------
(* Reading the streams. *)

\* The next element of the stream is at hand, or none if there is no more.
AdvanceFrom ==
    IF numFrom < Len(from)
    THEN fromE' = from[numFrom + 1] /\ numFrom' = numFrom + 1
    ELSE fromE' = Null /\ UNCHANGED numFrom

AdvanceTo ==
    IF numTo < Len(to)
    THEN toE' = to[numTo + 1] /\ numTo' = numTo + 1
    ELSE toE' = Null /\ UNCHANGED numTo

KeepFrom == UNCHANGED <<fromE, numFrom>>
KeepTo == UNCHANGED <<toE, numTo>>

\* hasMoreChanges, or readNextChange, looks for a change: elements that are not at hand
\* are read.
Ask ==
    /\ pc = "ask"
    /\ IF fromE = Null THEN AdvanceFrom ELSE KeepFrom
    /\ IF toE = Null THEN AdvanceTo ELSE KeepTo
    /\ pc' = "compare"
    /\ UNCHANGED <<inputVars, next, changesByType, derived>>

-----------------------------------------------------------------------------
(* Comparing the elements at hand. *)

\* ElementComparer::isSame, with its default options.
IsSame(e, f) == e.eid = f.eid /\ e.version = f.version /\ e.body = f.body

\* Nothing to do: not even a metadata tag has come.
Identical(e, f) == IsSame(e, f) /\ ~(~e.meta /\ f.meta)

\* Identical elements are passed over.
SkipIdentical ==
    /\ pc = "compare"
    /\ fromE # Null /\ toE # Null
    /\ Identical(fromE, toE)
    /\ AdvanceFrom /\ AdvanceTo
    /\ UNCHANGED <<inputVars, pc, next, changesByType, derived>>

Give(change) ==
    /\ next' = change
    /\ pc' = "give"
    /\ UNCHANGED <<inputVars, changesByType, derived>>

\* A fault: ids are compared without the types.
IsNewById == toE # Null /\ (fromE # Null => toE.eid.id < fromE.eid.id)

\* The new element is not in the old map.
IsNew == toE # Null /\ (fromE # Null => Less(toE.eid, fromE.eid))

CreateElement ==
    /\ pc = "compare"
    /\ IsNew
    /\ Give([type |-> "Create", element |-> toE, previous |-> Null])
    /\ KeepFrom /\ AdvanceTo

\* A fault: the old element stays at hand.
ModifyAndStay ==
    /\ pc = "compare"
    /\ fromE # Null /\ toE # Null
    /\ fromE.eid = toE.eid /\ ~Identical(fromE, toE)
    /\ Give([type |-> "Modify", element |-> toE, previous |-> fromE])
    /\ KeepFrom /\ AdvanceTo

ModifyElement ==
    /\ pc = "compare"
    /\ fromE # Null /\ toE # Null
    /\ fromE.eid = toE.eid /\ ~Identical(fromE, toE)
    /\ Give([type |-> "Modify", element |-> toE, previous |-> fromE])
    /\ AdvanceFrom /\ AdvanceTo

\* The old element is not in the new map.
IsGone == fromE # Null /\ (toE # Null => Less(fromE.eid, toE.eid))

\* Whether it may be deleted: elements without status Unknown1 always, as long as there
\* are new elements to be read.
MayDelete ==
    /\ allow \/ (toE # Null /\ ~fromE.unknown1)
    /\ ~fromE.exclude

DeleteElement ==
    /\ pc = "compare"
    /\ IsGone /\ MayDelete
    /\ Give([type |-> "Delete", element |-> fromE, previous |-> Null])
    /\ AdvanceFrom /\ KeepTo

\* A change that changes nothing, since no change at all would be taken for the end.
KeepElement ==
    /\ pc = "compare"
    /\ IsGone /\ ~MayDelete
    /\ Give([type |-> "Unknown", element |-> fromE, previous |-> Null])
    /\ AdvanceFrom /\ KeepTo

\* Both streams are at their ends: hasMoreChanges says no.
NoMoreChanges ==
    /\ pc = "compare"
    /\ fromE = Null /\ toE = Null
    /\ next' = NoChange
    /\ pc' = "done"
    /\ UNCHANGED <<inputVars, streamVars, changesByType, derived>>

\* The caller has seen that there is a change and reads it.
ReadNextChange ==
    /\ pc = "give"
    /\ derived' = derived \cup {next}
    /\ changesByType' = [changesByType EXCEPT ![next.type] = @ + 1]
    /\ next' = [next EXCEPT !.element = Null]
    /\ pc' = "ask"
    /\ UNCHANGED <<inputVars, streamVars>>

NextChange ==
    \/ Ask \/ SkipIdentical \/ CreateElement \/ ModifyElement \/ DeleteElement
    \/ KeepElement \/ NoMoreChanges

Next == NextChange \/ ReadNextChange

Spec == Init /\ [][Next]_deriverVars

-----------------------------------------------------------------------------
(* What the changes are worth. *)

Given(t) == {c.element : c \in {d \in derived : d.type = t}}
InFrom == {from[i] : i \in DOMAIN from}
InTo == {to[j] : j \in DOMAIN to}

\* When there are no more changes, all new elements have been created, all old ones that are
\* gone have been deleted or kept, those in both maps have been modified where they differ,
\* and nothing else has been changed.  If elements may be deleted only the tag keeps them.
\* The code has one pass over both streams for this, in which it reads ahead in each.
DerivesTheDifference ==
    pc = "done" =>
      /\ Given("Create") = {e \in InTo : \A f \in InFrom : f.eid # e.eid}
      /\ {<<c.previous, c.element>> : c \in {d \in derived : d.type = "Modify"}}
           = {p \in InFrom \X InTo : p[1].eid = p[2].eid /\ ~Identical(p[1], p[2])}
      /\ Given("Delete") \cup Given("Unknown") = {f \in InFrom : \A e \in InTo : e.eid # f.eid}
      /\ \A f \in Given("Delete") : ~f.exclude
      /\ allow => \A f \in Given("Unknown") : f.exclude

\* Changes are given out in the order of the ids, so that what an element is made of is created
\* before it and no element is changed twice.
GivenInOrder ==
    pc = "give" => \A c \in derived : Less(c.element.eid, next.element.eid)

\* The numbers of changes that are reported are those of the changes given out: asking
\* whether there are more changes counts nothing.
CountedOnce ==
    \A t \in ChangeType : changesByType[t] = Cardinality({c \in derived : c.type = t})

\* No delete of the old map's elements is given out if none is allowed (changeset.allow.
\* deleting.reference.features, "any delete statements ... will be ignored").
NoDeleteUnlessAllowed == ~allow => Given("Delete") = {}

=============================================================================
