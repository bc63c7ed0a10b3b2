------------------------- MODULE ChangesetFileWriter -------------------------
(***************************************************************************)
(* hoot::OsmXmlChangesetFileWriter (.osc) and                              *)
(* hoot::OsmApiDbSqlChangesetFileWriter (.osc.sql): both read the changes  *)
(* of one or more providers and write them to a file, in which created     *)
(* elements get new ids and references to them follow.  The changes may    *)
(* go through a hoot::ChangesetCleaner first.                              *)
(*                                                                         *)
(* The two differ in how they keep track of the elements they have written *)
(* a change for, and in how they choose ids.                               *)
(*                                                                         *)
(* A definition marked "a fault" is not part of the model: it is a version *)
(* of the definition below it with a mistake that a property must notice.  *)
(***************************************************************************)
EXTENDS ElementId, FiniteSets, SequencesExt

CONSTANTS
    Element,   \* the elements of all maps, see FileAssumption
    Inputs,    \* the lists of pairs of maps there may be
    Null,      \* a null pointer
    FirstId    \* the first number the database's sequences give out

\* A map has finitely many elements, and one of an id.
Maps == {map \in SUBSET Element : IsFiniteSet(map) /\ \A e, f \in map : e.eid = f.eid => e = f}

\* What matters of an element: its id, its version, the ids of its nodes or members, the rest
\* of its data (body), whether it fails the check of the bounds, and whether it has the tag
\* hoot:change:exclude:delete.
ASSUME FileAssumption ==
    /\ \A e \in Element : /\ e.eid \in ElementIds /\ e.eid.id < FirstId
                          /\ e.version \in Nat
                          /\ e.refs \in Seq(ElementIds)
                          /\ \A i \in DOMAIN e.refs : e.refs[i].id < FirstId
                          /\ e.outside \in BOOLEAN /\ e.exclude \in BOOLEAN
    /\ Inputs \subseteq Seq([from : Maps, to : Maps])
    /\ FirstId \in Nat \ {0}
    /\ Null \notin ElementIds

ChangeType == {"Create", "Modify", "Delete", "Unknown"}
Change == [type : ChangeType, element : Element]

\* The difference of a pair of maps, and what a ChangesetDeriver gives out for it (see there,
\* DerivesTheDifference and GivenInOrder).
Difference(maps) ==
    LET in(e, map) == \E f \in map : f.eid = e.eid
        differs(e) == \E f \in maps.from : f.eid = e.eid /\ <<f.version, f.refs, f.body>> # <<e.version, e.refs, e.body>>
        change(t, e) == [type |-> t, element |-> e]
    IN {change("Create", e) : e \in {f \in maps.to : ~in(f, maps.from)}}
         \cup {change("Modify", e) : e \in {f \in maps.to : differs(f)}}
         \cup {change(IF e.exclude THEN "Unknown" ELSE "Delete", e) : e \in {f \in maps.from : ~in(f, maps.to)}}
Derived(maps) ==
    LET all == Difference(maps)
        before(c) == {d \in all : Less(d.element.eid, c.element.eid)}
    IN [k \in 1..Cardinality(all) |-> CHOOSE c \in all : Cardinality(before(c)) = k - 1]
Providers(in) == [i \in DOMAIN in |-> Derived(in[i])]

VARIABLES
    format,       \* which of the writers
    clean,        \* _clean of the ChangesetCreator
    input,        \* the pairs of maps the changes are derived from
    providers,    \* of each provider, the changes that have not been read
    changeElement,  \* changeElement: the element whose change was read last
    pc,           \* "clean", "write", "done", or "failed" by an exception
    changesById,  \* _changesById of the cleaner: the types of the changes
    changes,      \* _changes of the cleaner
    last,         \* last, the type of the section that is open; "Unknown": none
    parsedChangeIds,  \* _parsedChangeIds
    nextId,       \* of each type: the next number for a new element (_newElementIdCtrs, or
                  \* that of the database)
    newIds,       \* _newElementIdMappings, _remappedIds
    file          \* what has been written

readVars == <<format, clean, input>>
cleanVars == <<changesById, changes>>
writeVars == <<last, parsedChangeIds, nextId, newIds, file>>
fileVars == <<readVars, providers, changeElement, pc, cleanVars, writeVars>>

\* A change as it is written; "of" is the id its element had.
Statement == [type : ChangeType \ {"Unknown"}, eid : ElementIds, refs : Seq(ElementIds), of : ElementIds]

TypeOK ==
    /\ format \in {"xml", "sql"} /\ clean \in BOOLEAN
    /\ input \in Inputs /\ providers \in Seq(Seq(Change))
    /\ changeElement \in ElementIds \cup {Null}
    /\ pc \in {"clean", "write", "done", "failed"}
    /\ DOMAIN changesById \subseteq ElementIds
    /\ \A i \in DOMAIN changesById : changesById[i] \in ChangeType
    /\ changes \in Seq(Change)
    /\ last \in ChangeType
    /\ parsedChangeIds \subseteq ElementIds
    /\ nextId \in [ElementType -> Nat \ {0}]
    /\ DOMAIN newIds \subseteq ElementIds
    /\ \A i \in DOMAIN newIds : newIds[i] \in ElementIds
    /\ file \in Seq(Statement)

Init ==
    /\ format \in {"xml", "sql"} /\ clean \in BOOLEAN
    /\ input \in Inputs
    /\ providers = Providers(input) /\ changeElement = Null
    /\ pc = IF clean THEN "clean" ELSE "write"
    /\ changesById = <<>> /\ changes = <<>>
    /\ last = "Unknown"
    /\ parsedChangeIds = {}
    /\ nextId = [t \in ElementType |-> IF format = "xml" THEN 1 ELSE FirstId]
    /\ newIds = <<>>
    /\ file = <<>>

HasChange == providers # <<>> /\ Head(providers) # <<>>
Current == Head(Head(providers))
ReadChange == providers' = <<Tail(Head(providers))>> \o Tail(providers)

\* f, but that x is y.
With(f, x, y) == [z \in DOMAIN f \cup {x} |-> IF z = x THEN y ELSE f[z]]

-----------------------------------------------------------------------------
(* Cleaning. *)

\* A fault: the types are mixed up.
DiscardsOthers ==
    /\ Current.element.eid \in DOMAIN changesById
    /\ changesById[Current.element.eid] = "Delete"
    /\ Current.type # "Delete"

\* A delete comes after another change of its element.
Discards ==
    /\ Current.element.eid \in DOMAIN changesById
    /\ changesById[Current.element.eid] # "Delete"
    /\ Current.type = "Delete"

DiscardDelete ==
    /\ pc = "clean" /\ HasChange
    /\ Discards
    /\ ReadChange
    /\ UNCHANGED <<readVars, changeElement, pc, cleanVars, writeVars>>

TakeChange ==
    /\ pc = "clean" /\ HasChange
    /\ ~Discards
    /\ changesById' = With(changesById, Current.element.eid, Current.type)
    /\ changes' = Append(changes, Current)
    /\ ReadChange
    /\ UNCHANGED <<readVars, changeElement, pc, writeVars>>

NextProviderToClean ==
    /\ pc = "clean" /\ providers # <<>> /\ ~HasChange
    /\ providers' = Tail(providers)
    /\ UNCHANGED <<readVars, changeElement, pc, cleanVars, writeVars>>

\* The cleaner takes the place of the providers.
EndCleaning ==
    /\ pc = "clean" /\ providers = <<>>
    /\ providers' = <<changes>>
    /\ pc' = "write"
    /\ UNCHANGED <<readVars, changeElement, cleanVars, writeVars>>

-----------------------------------------------------------------------------
(* The ids in the file. *)

\* The references that get a new id because nobody else will give them one (SQL).
Unnamed(refs, names) ==
    {refs[i] : i \in {j \in DOMAIN refs : format = "sql" /\ refs[j] \notin DOMAIN names /\ refs[j].id <= 0}}

\* They get the next numbers in the order in which they occur.
Rank(r, refs, names) ==
    LET First(q) == CHOOSE i \in DOMAIN refs : refs[i] = q /\ \A j \in 1..(i - 1) : refs[j] # q
    IN Cardinality({q \in Unnamed(refs, names) : q.type = r.type /\ First(q) < First(r)})

Named(refs, names, ids) ==
    LET unnamed == Unnamed(refs, names)
    IN [r \in DOMAIN names \cup unnamed |->
          IF r \in unnamed THEN [r EXCEPT !.id = ids[r.type] + Rank(r, refs, names)] ELSE names[r]]

After(refs, names, ids) ==
    [t \in ElementType |-> ids[t] + Cardinality({r \in Unnamed(refs, names) : r.type = t})]

\* The id of an element that is created.
NewId(t) == [type |-> t, id |-> IF format = "xml" THEN -nextId[t] ELSE nextId[t]]

\* A fault: elements that are modified get a new id, too.
EveryName(c) == With(newIds, c.element.eid, NewId(c.element.eid.type))

\* The ids of new elements, with that of the element if it is created now.  It gets its id
\* before its references are looked up.
Names(c) ==
    IF c.type = "Create" THEN With(newIds, c.element.eid, NewId(c.element.eid.type)) ELSE newIds

\* A fault: numbers are used again.
SameNumbers(c) == nextId

Numbers(c) ==
    IF c.type = "Create" THEN [nextId EXCEPT ![c.element.eid.type] = @ + 1] ELSE nextId

\* A fault: references are left as they are.
OldRefs(refs, names) == refs

Renamed(refs, names) ==
    [i \in DOMAIN refs |-> IF refs[i] \in DOMAIN names THEN names[refs[i]] ELSE refs[i]]

\* The references that are written: none for a delete in an SQL file.
RefsOf(c) == IF format = "sql" /\ c.type = "Delete" THEN <<>> ELSE c.element.refs

WriteElement(c) ==
    LET eid == c.element.eid
        names == Named(RefsOf(c), Names(c), Numbers(c))
    IN /\ file' = Append(file, [type |-> c.type,
                                eid |-> IF c.type = "Create" THEN names[eid] ELSE eid,
                                refs |-> Renamed(RefsOf(c), names),
                                of |-> eid])
       /\ newIds' = names
       /\ nextId' = After(RefsOf(c), Names(c), Numbers(c))

-----------------------------------------------------------------------------
(* Writing. *)

\* The element has a change already, or does not lie within the bounds.  Those who have the
\* changes cleaned also set changeset.ignore.bounds.
Skips == Current.element.eid \in parsedChangeIds \/ (Current.element.outside /\ ~clean)

SkipChange ==
    /\ pc = "write" /\ HasChange
    /\ Skips
    /\ ReadChange
    /\ changeElement' = Current.element.eid
    /\ UNCHANGED <<readVars, pc, cleanVars, writeVars>>

\* Elements that are modified or deleted must have a version and, in an SQL file, a positive id.
Refuses ==
    /\ Current.type \in {"Modify", "Delete"}
    /\ Current.element.version < 1 \/ (format = "sql" /\ Current.element.eid.id <= 0)

RefuseChange ==
    /\ pc = "write" /\ HasChange
    /\ ~Skips /\ Refuses
    /\ pc' = "failed"
    /\ UNCHANGED <<readVars, providers, changeElement, cleanVars, writeVars>>

\* A fault: only the elements of real changes are noted, whatever section they are in.
NoteEach == parsedChangeIds \cup {Current.element.eid}

\* An element is noted in parsedChangeIds when its change closes a section.
NoteFirstOfSection ==
    IF Current.type # last /\ last # "Unknown"
    THEN parsedChangeIds \cup {Current.element.eid} ELSE parsedChangeIds

\* In the XML file changes of one type in a row share a section.  A change of type Unknown
\* closes it and writes nothing.
WriteXmlChange ==
    /\ pc = "write" /\ HasChange /\ format = "xml"
    /\ ~Skips /\ ~Refuses
    /\ parsedChangeIds' = NoteFirstOfSection
    /\ last' = Current.type
    /\ IF Current.type = "Unknown" THEN UNCHANGED <<nextId, newIds, file>> ELSE WriteElement(Current)
    /\ ReadChange
    /\ changeElement' = Current.element.eid
    /\ UNCHANGED <<readVars, pc, cleanVars>>

\* A fault: elements are noted if they are created.
NoteCreated ==
    IF Current.type = "Create" THEN parsedChangeIds \cup {Current.element.eid} ELSE parsedChangeIds

\* Every element is noted with its first real change.
NoteWritten ==
    IF Current.type = "Unknown" THEN parsedChangeIds ELSE parsedChangeIds \cup {Current.element.eid}

WriteSqlChange ==
    /\ pc = "write" /\ HasChange /\ format = "sql"
    /\ ~Skips /\ ~Refuses
    /\ parsedChangeIds' = NoteWritten
    /\ IF Current.type = "Unknown" THEN UNCHANGED <<nextId, newIds, file>> ELSE WriteElement(Current)
    /\ ReadChange
    /\ changeElement' = Current.element.eid
    /\ UNCHANGED <<readVars, pc, last, cleanVars>>

\* A provider has no more changes: an open section of the XML file is closed, and the element
\* read last is noted.
NextProvider ==
    /\ pc = "write" /\ providers # <<>> /\ ~HasChange
    /\ IF last # "Unknown"
       THEN parsedChangeIds' = parsedChangeIds \cup {changeElement} /\ last' = "Unknown"
       ELSE UNCHANGED <<parsedChangeIds, last>>
    /\ providers' = Tail(providers)
    /\ changeElement' = Null
    /\ UNCHANGED <<readVars, pc, nextId, newIds, file, cleanVars>>

Finish ==
    /\ pc = "write" /\ providers = <<>>
    /\ pc' = "done"
    /\ UNCHANGED <<readVars, providers, changeElement, cleanVars, writeVars>>

Clean == DiscardDelete \/ TakeChange \/ NextProviderToClean \/ EndCleaning
Write == SkipChange \/ RefuseChange \/ WriteXmlChange \/ WriteSqlChange \/ NextProvider \/ Finish
Next == Clean \/ Write
Spec == Init /\ [][Next]_fileVars

-----------------------------------------------------------------------------
(* What the file is worth. *)

\* What is made of a map by statements that are executed one after the other.  A deleted
\* element also leaves the elements it was part of.
Executed(map, s) ==
    LET others == {e \in map : e.eid # s.eid}
        users == {e \in others : s.eid \in ToSet(e.refs)}
    IN IF s.type = "Delete" THEN (others \ users) \cup {[e EXCEPT !.refs = Remove(@, s.eid)] : e \in users}
       ELSE others \cup {[eid |-> s.eid, refs |-> s.refs]}

Plain(map) == {[eid |-> e.eid, refs |-> e.refs] : e \in map}
\* What the file makes of the old map, as far as it is written.
Result == FoldLeft(Executed, Plain(input[1].from), file)
Creates == {i \in DOMAIN file : file[i].type = "Create"}
\* The ids an element has got in the file.
IdsOf(eid) == {file[i].eid : i \in {j \in Creates : file[j].of = eid}}

\* The lists that the writer reads one after the other, the places in them, and their order.
Given == IF clean THEN <<changes>> ELSE Providers(input)
Places(lists) == UNION {{i} \X DOMAIN lists[i] : i \in DOMAIN lists}
Before(p, q) == p[1] < q[1] \/ (p[1] = q[1] /\ p[2] < q[2])
At(lists, p) == lists[p[1]][p[2]]
Real(c) == c.type # "Unknown" /\ (c.element.outside => clean)

\* One difference of two maps, all within the bounds and none of it excluded.
OneDifference == Len(input) = 1 /\ \A e \in input[1].from \cup input[1].to : ~e.outside /\ ~e.exclude

\* A file made of the difference of two maps turns the one into the other, but for the names
\* of the new elements: it changes nothing else, forgets nothing, and every reference in the
\* result points to what it pointed to.
ReachesTarget ==
    pc = "done" /\ OneDifference =>
      LET new == {e.eid : e \in input[1].to} \ {e.eid : e \in input[1].from}
          name(eid) == IF eid \in new THEN CHOOSE i \in IdsOf(eid) : TRUE ELSE eid
          named(e) == [eid |-> name(e.eid), refs |-> [i \in DOMAIN e.refs |-> name(e.refs[i])]]
      IN /\ \A eid \in new : Cardinality(IdsOf(eid)) = 1
         /\ Result = {named(e) : e \in Plain(input[1].to)}

\* The elements of the old map, and those they refer to, have database ids, no new element has
\* one, and the new map has every element that one of its elements refers to.
SoundMaps(inputs) ==
    \A in \in inputs : \A i \in DOMAIN in :
      /\ \A e \in in[i].from : e.eid.id > 0 /\ \A r \in ToSet(e.refs) : r.id > 0
      /\ \A e \in in[i].to : e.eid.id > 0 => \E f \in in[i].from : f.eid = e.eid
      /\ \A e \in in[i].to : \A r \in ToSet(e.refs) : \E f \in in[i].to : f.eid = r

\* A change of a new element (one without a database id) creates it, within the bounds, and is
\* given out before the changes whose elements refer to it.
NewComeFirst(inputs) ==
    \A in \in inputs : \A i \in DOMAIN in : \A k \in DOMAIN Derived(in[i]) :
      LET given == Derived(in[i])
          c == given[k]
      IN /\ c.element.eid.id <= 0 => c.type = "Create" /\ ~c.element.outside
         /\ c.type \in {"Create", "Modify"} =>
              \A r \in ToSet(c.element.refs) :
                /\ r # c.element.eid
                /\ r.id <= 0 => \E l \in 1..(k - 1) : given[l].element.eid = r

\* A reference to a new element is written as the id the element has got, whichever provider
\* and writer, and never points to one that is created later or not at all.
RefsResolve ==
    pc = "done" =>
      \A i \in DOMAIN file : file[i].type # "Delete" =>
        \A r \in ToSet(file[i].refs) : r.id <= 0 \/ r.id >= FirstId =>
          \E j \in Creates : j < i /\ file[j].eid = r

\* No two new elements have the same id.  In an XML file an element that two providers create
\* may be created twice.
CreatedApart ==
    \A i, j \in Creates : i # j => file[i].eid # file[j].eid

\* The SQL file has one change for an element, whatever providers have one.
OneChangeEach ==
    format = "sql" => \A i, j \in DOMAIN file : i # j => file[i].of # file[j].of

\* The first change of an element is written if it is a real one within the bounds.  An SQL
\* file has the first such change even if it comes after others.
FirstChangeWritten ==
    pc = "done" =>
      LET lists == Given
          first(p) ==
            \A q \in Places(lists) :
              Before(q, p) /\ At(lists, q).element.eid = At(lists, p).element.eid
                => format = "sql" /\ ~Real(At(lists, q))
      IN \A p \in Places(lists) :
           Real(At(lists, p)) /\ first(p) =>
             \E i \in DOMAIN file :
               file[i].of = At(lists, p).element.eid /\ file[i].type = At(lists, p).type

\* The cleaner lets no delete come after another change of its element, whichever providers the
\* two are from ...
DeletesFirst ==
    \A j, k \in DOMAIN changes :
      j < k /\ changes[j].element.eid = changes[k].element.eid /\ changes[j].type # "Delete"
        => changes[k].type # "Delete"

\* ... and drops no other change.
DropsOnlyDeletes ==
    clean /\ pc # "clean" =>
      \A c \in UNION {ToSet(Derived(m)) : m \in ToSet(input)} :
        c.type # "Delete" => c \in ToSet(changes)

\* "If there is a delete change and either a create or modify change assigned to the same element,
\* the delete change is discarded." (ChangesetCleaner.h)
DeleteDiscarded ==
    clean /\ pc # "clean" =>
      \A c, d \in ToSet(changes) :
        c.type = "Delete" /\ d.type \in {"Create", "Modify"} => c.element.eid # d.element.eid

\* "not allowing multiple changes for the same element" (OsmXmlChangesetFileWriter.cpp)
EachElementOnce == \A i, j \in DOMAIN file : i # j => file[i].of # file[j].of
=============================================================================
