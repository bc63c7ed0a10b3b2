--------------------- MODULE ChangesetFileWriter_proofs ---------------------
(***************************************************************************)
(* For any maps, of whatever size, with however many providers, cleaned or *)
(* not: new elements have ids of their own, an SQL file has one change for *)
(* an element, the first one, the cleaner drops only deletes, a reference  *)
(* to a new element is to one created before, and the file of one          *)
(* difference, executed on the old map, gives the new one.                 *)
(***************************************************************************)
EXTENDS ChangesetFileWriter, FiniteSetTheorems, TLAPS

\* The number behind the id of a new element.
NumberIn(f, eid) == IF f = "xml" THEN -eid.id ELSE eid.id

\* The numbers of new elements have been given out.
Numbered == \A i \in Creates : NumberIn(format, file[i].eid) < nextId[file[i].eid.type]

\* The elements in an SQL file have been noted.
Noted == format = "sql" => \A i \in DOMAIN file : file[i].of \in parsedChangeIds

\* An open section holds a change of an element.
AtHand == last # "Unknown" => changeElement # Null

IInv == TypeOK /\ AtHand /\ Numbered /\ CreatedApart /\ Noted /\ OneChangeEach

-----------------------------------------------------------------------------
(* The difference of two maps, and the order in which it is given out. *)

\* A place in the order of the ids.
Position(c, all) == Cardinality({d \in all : Less(d.element.eid, c.element.eid)})

\* Finitely many changes of different elements have the places from 0 on.
LEMMA Positions ==
  ASSUME NEW all, IsFiniteSet(all), \A c \in all : c.element.eid \in ElementIds,
         \A c, d \in all : c.element.eid = d.element.eid => c = d
  PROVE  /\ Cardinality(all) \in Nat
         /\ \A c, d \in all : Position(c, all) = Position(d, all) => c = d
         /\ \A k \in 1..Cardinality(all) : \E c \in all : Position(c, all) = k - 1
<1> DEFINE before(c) == {d \in all : Less(d.element.eid, c.element.eid)}
           n == Cardinality(all)
           T == 0..(n - 1)
<1>1. \A a, b, c \in ElementIds : /\ ~Less(a, a)
                                  /\ Less(a, b) /\ Less(b, c) => Less(a, c)
                                  /\ a = b \/ Less(a, b) \/ Less(b, a)
  <2> TAKE a, b, c \in ElementIds
  <2>1. /\ a.type \in Int /\ a.id \in Int /\ b.type \in Int /\ b.id \in Int /\ c.type \in Int /\ c.id \in Int
        /\ a = [type |-> a.type, id |-> a.id] /\ b = [type |-> b.type, id |-> b.id]
    BY DEF ElementIds, ElementType
  <2> QED
    BY <2>1 DEF Less
<1>2. n \in Nat
  BY FS_CardinalityType
<1>3. \A c \in all : before(c) \in SUBSET all /\ c \notin before(c)
  BY <1>1
<1>4. \A c, d \in all : Less(c.element.eid, d.element.eid) =>
         before(c) \in SUBSET before(d) /\ c \in before(d)
  BY <1>1
<1>5. ASSUME NEW S, NEW U \in SUBSET S, IsFiniteSet(S), NEW c \in S, c \notin U
      PROVE  Cardinality(U) \in Nat /\ Cardinality(S) \in Nat /\ Cardinality(U) < Cardinality(S)
  <2>1. IsFiniteSet(U) /\ Cardinality(U) <= Cardinality(S) /\ (Cardinality(S) = Cardinality(U) => S = U)
    BY <1>5, FS_Subset
  <2> QED
    BY <1>5, <2>1, FS_CardinalityType
<1>6. \A c \in all : IsFiniteSet(before(c))
  BY <1>3, FS_Subset
<1>7. \A c \in all : Position(c, all) = Cardinality(before(c))
  BY DEF Position
<1> HIDE DEF before, n
<1>8. \A c \in all : Position(c, all) \in T
  <2> TAKE c \in all
  <2>1. Cardinality(before(c)) \in Nat /\ Cardinality(before(c)) < n
    BY <1>3, <1>5 DEF n
  <2> QED
    BY <1>2, <1>7, <2>1
<1>9. \A c, d \in all : Less(c.element.eid, d.element.eid) => Position(c, all) < Position(d, all)
  <2> SUFFICES ASSUME NEW c \in all, NEW d \in all, Less(c.element.eid, d.element.eid)
               PROVE  Position(c, all) < Position(d, all)
    OBVIOUS
  <2>1. before(c) \in SUBSET before(d) /\ c \in before(d) /\ c \notin before(c) /\ IsFiniteSet(before(d))
    BY <1>3, <1>4, <1>6
  <2> QED
    BY <1>5, <1>7, <2>1
<1>10. ASSUME NEW c \in all, NEW d \in all, Position(c, all) = Position(d, all) PROVE c = d
  <2>1. Position(c, all) \in Int /\ Position(d, all) \in Int
    BY <1>2, <1>8
  <2>2. ~Less(c.element.eid, d.element.eid) /\ ~Less(d.element.eid, c.element.eid)
    BY <1>9, <1>10, <2>1
  <2>3. c.element.eid = d.element.eid
    BY <1>1, <2>2
  <2> QED
    BY <2>3
<1> DEFINE f == [c \in all |-> Position(c, all)]
<1>11. f \in Injection(all, T)
  BY <1>8, <1>10 DEF Injection, IsInjective
<1>12. IsFiniteSet(T) /\ Cardinality(T) = n
  BY <1>2, FS_Interval
<1> HIDE DEF T
<1>13. f \in Surjection(all, T)
  <2> HIDE DEF f
  <2> QED
    BY <1>11, <1>12, FS_Injection DEF n
<1>14. ASSUME NEW k \in 1..n PROVE \E c \in all : Position(c, all) = k - 1
  <2>1. k - 1 \in T
    BY <1>2 DEF T
  <2>2. \E c \in all : f[c] = k - 1
    <3> HIDE DEF f
    <3> QED
      BY <1>13, <2>1 DEF Surjection
  <2> QED
    BY <2>2
<1> QED
  BY <1>2, <1>10, <1>14 DEF n

\* The difference of two maps is finite, and has one change for an element.
LEMMA DifferenceFacts ==
  ASSUME NEW maps \in [from : Maps, to : Maps]
  PROVE  /\ IsFiniteSet(Difference(maps))
         /\ \A c \in Difference(maps) :
              /\ c \in Change /\ c.element \in Element /\ c.element.eid \in ElementIds
              /\ c = [type |-> c.type, element |-> c.element]
         /\ \A c, d \in Difference(maps) : c.element.eid = d.element.eid => c = d
<1> DEFINE all == Difference(maps)
           pairs == ChangeType \X (maps.from \cup maps.to)
           made == {[type |-> p[1], element |-> p[2]] : p \in pairs}
           f == [p \in pairs |-> [type |-> p[1], element |-> p[2]]]
           in(e, map) == \E g \in map : g.eid = e.eid
<1>1. IsFiniteSet(ChangeType)
  <2>1. ChangeType = {"Create"} \cup {"Modify"} \cup {"Delete"} \cup {"Unknown"}
    BY DEF ChangeType
  <2> QED
    BY <2>1, FS_Singleton, FS_Union
<1>2. IsFiniteSet(pairs)
  BY <1>1, FS_Union, FS_Product DEF Maps
<1>3. f \in Surjection(pairs, made)
  BY DEF Surjection
<1>4. IsFiniteSet(made)
  <2> HIDE DEF pairs, made, f
  <2> QED
    BY <1>2, <1>3, FS_Surjection
<1>5. ASSUME NEW c \in all
      PROVE  /\ c = [type |-> c.type, element |-> c.element] /\ c.type \in ChangeType
             /\ c.element \in maps.from \cup maps.to
             /\ c.type = "Create" => c.element \in maps.to /\ ~in(c.element, maps.from)
             /\ c.type = "Modify" => c.element \in maps.to /\ in(c.element, maps.from)
             /\ c.type \in {"Delete", "Unknown"} => c.element \in maps.from /\ ~in(c.element, maps.to)
             /\ c.type = "Delete" => ~c.element.exclude
             /\ c.type = "Unknown" => c.element.exclude
  BY DEF Difference, ChangeType
<1>6. all \in SUBSET made
  <2> SUFFICES ASSUME NEW c \in all PROVE c \in made
    OBVIOUS
  <2>1. <<c.type, c.element>> \in pairs
    BY <1>5
  <2> QED
    BY <1>5, <2>1
<1>7. IsFiniteSet(all)
  BY <1>4, <1>6, FS_Subset
<1>8. \A c \in all : c \in Change /\ c.element \in Element /\ c.element.eid \in ElementIds
  <2> TAKE c \in all
  <2>1. c.element \in Element
    BY <1>5 DEF Maps
  <2> QED
    BY <1>5, <2>1, FileAssumption DEF Change
<1>9. ASSUME NEW c \in all, NEW d \in all, c.element.eid = d.element.eid PROVE c = d
  <2> HIDE DEF all
  <2>1. /\ c.type \in {"Create", "Modify"} <=> c.element \in maps.to
        /\ c.type \in {"Create", "Modify"} <=> in(c.element, maps.to)
    BY <1>5 DEF ChangeType
  <2>2. /\ d.type \in {"Create", "Modify"} <=> d.element \in maps.to
        /\ d.type \in {"Create", "Modify"} <=> in(d.element, maps.to)
    BY <1>5 DEF ChangeType
  <2>3. in(c.element, maps.to) <=> in(d.element, maps.to)
    BY <1>9
  <2>4. in(c.element, maps.from) <=> in(d.element, maps.from)
    BY <1>9
  <2>5. c.element = d.element
    <3>1. CASE c.element \in maps.to
      BY <1>9, <2>1, <2>2, <2>3, <3>1 DEF Maps
    <3>2. CASE c.element \notin maps.to
      BY <1>5, <1>9, <2>1, <2>2, <2>3, <3>2 DEF Maps
    <3> QED
      BY <3>1, <3>2
  <2> HIDE DEF in
  <2>6. c.type = d.type
    BY <1>5, <2>1, <2>2, <2>3, <2>4, <2>5 DEF ChangeType
  <2> QED
    BY <1>5, <2>5, <2>6
<1> QED
  BY <1>5, <1>7, <1>8, <1>9

\* What changes there are: this is what Difference says of a change, by its type.
LEMMA DifferenceIs ==
  ASSUME NEW maps \in [from : Maps, to : Maps]
  PROVE  /\ \A c \in Difference(maps) :
              /\ c.type \in ChangeType
              /\ c.type \in {"Create", "Modify"} => c.element \in maps.to
              /\ c.type \in {"Delete", "Unknown"} => c.element \in maps.from /\ \A e \in maps.to : e.eid # c.element.eid
              /\ c.type = "Create" => \A e \in maps.from : e.eid # c.element.eid
              /\ c.type = "Modify" => \E e \in maps.from : e.eid = c.element.eid
              /\ c.type = "Unknown" => c.element.exclude
         /\ \A e \in maps.to : (\A f \in maps.from : f.eid # e.eid) => [type |-> "Create", element |-> e] \in Difference(maps)
         /\ \A e \in maps.to, f \in maps.from :
              f.eid = e.eid /\ f.refs # e.refs => [type |-> "Modify", element |-> e] \in Difference(maps)
         /\ \A f \in maps.from :
              (\A e \in maps.to : f.eid # e.eid) => \E t \in {"Delete", "Unknown"} : [type |-> t, element |-> f] \in Difference(maps)
<1>1. \A c \in Difference(maps) :
        /\ c.type \in ChangeType
        /\ c.type \in {"Create", "Modify"} => c.element \in maps.to
        /\ c.type \in {"Delete", "Unknown"} => c.element \in maps.from /\ \A e \in maps.to : e.eid # c.element.eid
        /\ c.type = "Create" => \A e \in maps.from : e.eid # c.element.eid
        /\ c.type = "Modify" => \E e \in maps.from : e.eid = c.element.eid
        /\ c.type = "Unknown" => c.element.exclude
  BY DEF Difference, ChangeType
<1>2. \A e \in maps.to : (\A f \in maps.from : f.eid # e.eid) => [type |-> "Create", element |-> e] \in Difference(maps)
  BY DEF Difference
<1>3. \A e \in maps.to, f \in maps.from :
        f.eid = e.eid /\ f.refs # e.refs => [type |-> "Modify", element |-> e] \in Difference(maps)
  BY DEF Difference
<1>4. \A f \in maps.from :
        (\A e \in maps.to : f.eid # e.eid) => \E t \in {"Delete", "Unknown"} : [type |-> t, element |-> f] \in Difference(maps)
  BY DEF Difference
<1> QED
  BY <1>1, <1>2, <1>3, <1>4

\* It is given out as a whole, each change once.
LEMMA DerivedFacts ==
  ASSUME NEW maps \in [from : Maps, to : Maps]
  PROVE  /\ Derived(maps) \in Seq(Change)
         /\ \A k \in DOMAIN Derived(maps) : Derived(maps)[k] \in Difference(maps)
         /\ \A c \in Difference(maps) : \E k \in DOMAIN Derived(maps) : Derived(maps)[k] = c
         /\ \A k, l \in DOMAIN Derived(maps) :
              Derived(maps)[k].element.eid = Derived(maps)[l].element.eid => k = l
<1> DEFINE all == Difference(maps)
           n == Cardinality(all)
           given == Derived(maps)
<1>1. /\ IsFiniteSet(all) /\ \A c \in all : c \in Change /\ c.element.eid \in ElementIds
      /\ \A c, d \in all : c.element.eid = d.element.eid => c = d
  BY DifferenceFacts
<1>2. given = [k \in 1..n |-> CHOOSE c \in all : Position(c, all) = k - 1]
  BY DEF Derived, Position
<1> HIDE DEF all, given
<1>3. /\ n \in Nat
      /\ \A c, d \in all : Position(c, all) = Position(d, all) => c = d
      /\ \A k \in 1..n : \E c \in all : Position(c, all) = k - 1
  BY <1>1, Positions
<1> HIDE DEF n
<1>4. \A k \in 1..n : given[k] \in all /\ Position(given[k], all) = k - 1
  BY <1>2, <1>3
<1>5. DOMAIN given = 1..n
  BY <1>2
<1>6. ASSUME NEW k \in 1..n, NEW l \in 1..n, given[k].element.eid = given[l].element.eid PROVE k = l
  <2>1. given[k] = given[l]
    BY <1>1, <1>4, <1>6
  <2>2. k - 1 = l - 1
    BY <1>4, <2>1
  <2> QED
    BY <1>3, <2>2
<1>7. ASSUME NEW f \in [1..n -> all], \A k, l \in 1..n : f[k] = f[l] => k = l, NEW c \in all
      PROVE  \E k \in 1..n : f[k] = c
  <2>1. f \in Injection(1..n, all)
    BY <1>7 DEF Injection, IsInjective
  <2>2. IsFiniteSet(1..n) /\ Cardinality(1..n) = n
    BY <1>3, FS_Interval
  <2>3. f \in Surjection(1..n, all)
    BY <1>1, <2>1, <2>2, FS_Injection DEF n
  <2> QED
    BY <2>3 DEF Surjection
<1>8. given \in [1..n -> all]
  BY <1>2, <1>4, <1>5
<1>9. \A k, l \in 1..n : given[k] = given[l] => k = l
  BY <1>6
<1>10. \A c \in all : \E k \in 1..n : given[k] = c
  BY <1>7, <1>8, <1>9
<1>11. given \in Seq(Change)
  BY <1>1, <1>3, <1>8
<1> QED
  BY <1>4, <1>5, <1>6, <1>10, <1>11 DEF given, all

\* What the providers give out are changes.
LEMMA ProvidersType == \A in \in Inputs : Providers(in) \in Seq(Seq(Change)) /\ DOMAIN Providers(in) = DOMAIN in
<1> TAKE in \in Inputs
<1>1. in \in Seq([from : Maps, to : Maps])
  BY FileAssumption
<1>2. \A i \in DOMAIN in : Derived(in[i]) \in Seq(Change)
  <2> TAKE i \in DOMAIN in
  <2> DEFINE Pairs == [from : Maps, to : Maps]
  <2>1. in \in Seq(Pairs)
    BY <1>1
  <2> HIDE DEF Pairs
  <2>2. in[i] \in Pairs
    BY <2>1
  <2> QED
    BY <2>2, DerivedFacts DEF Pairs
<1>3. DOMAIN in = 1..Len(in) /\ Len(in) \in Nat
  BY <1>1
<1>4. Providers(in) \in [1..Len(in) -> Seq(Change)]
  BY <1>2, <1>3 DEF Providers
<1> QED
  BY <1>3, <1>4

-----------------------------------------------------------------------------
(* The ids in the file. *)

IsNames(f) == DOMAIN f \subseteq ElementIds /\ \A x \in DOMAIN f : f[x] \in ElementIds
IsCounter(f) == f \in [ElementType -> Nat \ {0}]

\* However many references have no name, they are some of those there are.
LEMMA UnnamedFinite ==
  ASSUME NEW refs \in Seq(ElementIds), NEW names
  PROVE  /\ Unnamed(refs, names) \subseteq ElementIds
         /\ IsFiniteSet(Unnamed(refs, names))
         /\ Unnamed(refs, names) \cap DOMAIN names = {}
<1> DEFINE places == {j \in DOMAIN refs : format = "sql" /\ refs[j] \notin DOMAIN names /\ refs[j].id <= 0}
           U == {refs[i] : i \in places}
           at == [i \in places |-> refs[i]]
<1>1. U = Unnamed(refs, names)
  BY DEF Unnamed
<1>2. IsFiniteSet(places)
  <2>1. DOMAIN refs = 1..Len(refs) /\ Len(refs) \in Nat
    OBVIOUS
  <2>2. IsFiniteSet(1..Len(refs))
    BY <2>1, FS_Interval
  <2>3. places \in SUBSET (1..Len(refs))
    BY <2>1
  <2> QED
    BY <2>2, <2>3, FS_Subset
<1>3. at \in Surjection(places, U)
  BY DEF Surjection
<1>4. IsFiniteSet(U)
  <2> HIDE DEF places, U, at
  <2> QED
    BY <1>2, <1>3, FS_Surjection
<1>5. U \subseteq ElementIds
  OBVIOUS
<1>6. U \cap DOMAIN names = {}
  OBVIOUS
<1> QED
  BY <1>1, <1>4, <1>5, <1>6

\* The names that are added are ids, and no other name changes.
LEMMA NamedType ==
  ASSUME NEW refs \in Seq(ElementIds), NEW names, IsNames(names), NEW ids, IsCounter(ids)
  PROVE  /\ IsNames(Named(refs, names, ids))
         /\ \A x \in DOMAIN names : x \in DOMAIN Named(refs, names, ids) /\ Named(refs, names, ids)[x] = names[x]
<1> DEFINE U == Unnamed(refs, names)
           N == Named(refs, names, ids)
<1>1. U \subseteq ElementIds /\ IsFiniteSet(U) /\ U \cap DOMAIN names = {}
  BY UnnamedFinite
<1>2. N = [r \in DOMAIN names \cup U |->
             IF r \in U THEN [r EXCEPT !.id = ids[r.type] + Rank(r, refs, names)] ELSE names[r]]
  BY DEF Named
<1>3. \A r \in U : Rank(r, refs, names) \in Nat
  <2> TAKE r \in U
  <2> DEFINE First(q) == CHOOSE i \in DOMAIN refs : refs[i] = q /\ \A j \in 1..(i - 1) : refs[j] # q
             Lower == {q \in U : q.type = r.type /\ First(q) < First(r)}
  <2>1. Lower \in SUBSET U
    OBVIOUS
  <2>2. IsFiniteSet(Lower)
    <3> HIDE DEF Lower, U
    <3> QED
      BY <1>1, <2>1, FS_Subset
  <2>3. Cardinality(Lower) \in Nat
    <3> HIDE DEF Lower
    <3> QED
      BY <2>2, FS_CardinalityType
  <2> QED
    BY <2>3 DEF Rank
<1> HIDE DEF U, N
<1>4. \A r \in U : N[r] \in ElementIds
  <2> TAKE r \in U
  <2>1. r \in ElementIds /\ Rank(r, refs, names) \in Nat
    BY <1>1, <1>3
  <2>2. r.type \in ElementType
    BY <2>1 DEF ElementIds
  <2>3. ids[r.type] \in Nat
    BY <2>2 DEF IsCounter
  <2>4. N[r] = [r EXCEPT !.id = ids[r.type] + Rank(r, refs, names)]
    BY <1>2
  <2>5. ids[r.type] + Rank(r, refs, names) \in Int
    BY <2>1, <2>3
  <2> QED
    BY <2>1, <2>4, <2>5 DEF ElementIds
<1>5. \A x \in DOMAIN names : x \in DOMAIN N /\ N[x] = names[x]
  BY <1>1, <1>2
<1>6. DOMAIN N = DOMAIN names \cup U
  BY <1>2
<1>7. IsNames(N)
  BY <1>1, <1>4, <1>5, <1>6 DEF IsNames
<1> QED
  BY <1>5, <1>7 DEF N

\* Numbers only go up.
LEMMA AfterType ==
  ASSUME NEW refs \in Seq(ElementIds), NEW names, NEW ids, IsCounter(ids)
  PROVE  /\ IsCounter(After(refs, names, ids))
         /\ \A t \in ElementType : After(refs, names, ids)[t] >= ids[t]
<1> DEFINE U == Unnamed(refs, names)
           Of(t) == {r \in U : r.type = t}
<1>1. IsFiniteSet(U)
  BY UnnamedFinite
<1>2. \A t \in ElementType : Cardinality(Of(t)) \in Nat
  <2> TAKE t \in ElementType
  <2>1. Of(t) \in SUBSET U
    OBVIOUS
  <2> HIDE DEF U, Of
  <2> QED
    BY <1>1, <2>1, FS_Subset, FS_CardinalityType
<1>3. After(refs, names, ids) = [t \in ElementType |-> ids[t] + Cardinality(Of(t))]
  BY DEF After
<1> HIDE DEF Of
<1> QED
  BY <1>2, <1>3 DEF IsCounter

\* References stay ids.
LEMMA RenamedType ==
  ASSUME NEW refs \in Seq(ElementIds), NEW names, IsNames(names)
  PROVE  Renamed(refs, names) \in Seq(ElementIds)
<1>1. \A i \in 1..Len(refs) : refs[i] \in ElementIds
  OBVIOUS
<1>2. DOMAIN refs = 1..Len(refs) /\ Len(refs) \in Nat
  OBVIOUS
<1>3. Renamed(refs, names) \in [1..Len(refs) -> ElementIds]
  BY <1>1, <1>2 DEF Renamed, IsNames
<1> QED
  BY <1>2, <1>3

\* What is added to the file when a change is written: a statement about its element, with a
\* number nobody had before if the element is created.
LEMMA WriteFacts ==
  ASSUME NEW c \in Change, c.type # "Unknown", TypeOK, WriteElement(c)
  PROVE  /\ IsNames(newIds') /\ IsCounter(nextId')
         /\ \A t \in ElementType : nextId'[t] >= nextId[t]
         /\ \E s \in Statement :
              /\ file' = Append(file, s)
              /\ s.of = c.element.eid /\ s.type = c.type
              /\ c.type = "Create" => /\ s.eid = NewId(c.element.eid.type)
                                      /\ nextId'[s.eid.type] > nextId[s.eid.type]
<1> DEFINE eid == c.element.eid
           names == Named(RefsOf(c), Names(c), Numbers(c))
           s == [type |-> c.type, eid |-> IF c.type = "Create" THEN names[eid] ELSE eid,
                 refs |-> Renamed(RefsOf(c), names), of |-> eid]
<1>1. c.element \in Element /\ c.type \in ChangeType \ {"Unknown"}
  BY DEF Change
<1>2. eid \in ElementIds /\ c.element.refs \in Seq(ElementIds)
  BY <1>1, FileAssumption
<1>3. eid.type \in ElementType
  BY <1>2 DEF ElementIds
<1>4. RefsOf(c) \in Seq(ElementIds)
  BY <1>2 DEF RefsOf
<1>5. IsCounter(nextId) /\ IsNames(newIds)
  BY DEF TypeOK, IsCounter, IsNames
<1>6. NewId(eid.type) \in ElementIds /\ NewId(eid.type).type = eid.type
  <2>1. nextId[eid.type] \in Nat
    BY <1>3, <1>5 DEF IsCounter
  <2> QED
    BY <1>3, <2>1 DEF NewId, ElementIds
<1>7. IsNames(Names(c)) /\ (c.type = "Create" => eid \in DOMAIN Names(c) /\ Names(c)[eid] = NewId(eid.type))
  <2> HIDE DEF eid
  <2>1. CASE c.type = "Create"
    <3>1. Names(c) = With(newIds, eid, NewId(eid.type))
      BY <2>1 DEF Names, eid
    <3> QED
      BY <1>2, <1>5, <1>6, <3>1 DEF With, IsNames
  <2>2. CASE c.type # "Create"
    BY <1>5, <2>2 DEF Names
  <2> QED
    BY <2>1, <2>2
<1>8. /\ IsCounter(Numbers(c))
      /\ \A t \in ElementType : Numbers(c)[t] >= nextId[t]
      /\ c.type = "Create" => Numbers(c)[eid.type] > nextId[eid.type]
  BY <1>3, <1>5 DEF Numbers, IsCounter
<1>9. /\ IsNames(names)
      /\ c.type = "Create" => names[eid] = NewId(eid.type)
  <2> HIDE DEF eid
  <2> QED
    BY <1>4, <1>7, <1>8, NamedType
<1>10. nextId' = After(RefsOf(c), Names(c), Numbers(c)) /\ newIds' = names /\ file' = Append(file, s)
  BY DEF WriteElement
<1>11. IsCounter(nextId') /\ \A t \in ElementType : nextId'[t] >= Numbers(c)[t]
  BY <1>4, <1>8, <1>10, AfterType
<1>12. s \in Statement
  <2>1. Renamed(RefsOf(c), names) \in Seq(ElementIds)
    BY <1>4, <1>9, RenamedType
  <2>2. (IF c.type = "Create" THEN names[eid] ELSE eid) \in ElementIds
    BY <1>2, <1>6, <1>9
  <2> HIDE DEF names, eid
  <2> QED
    BY <1>1, <1>2, <2>1, <2>2 DEF Statement, eid
<1>13. \A t \in ElementType : nextId'[t] >= nextId[t]
  BY <1>5, <1>8, <1>11 DEF IsCounter
<1>14. c.type = "Create" => s.eid = NewId(eid.type) /\ nextId'[s.eid.type] > nextId[s.eid.type]
  <2> HAVE c.type = "Create"
  <2>1. s.eid = NewId(eid.type) /\ s.eid.type = eid.type
    BY <1>6, <1>9
  <2>2. nextId'[eid.type] > nextId[eid.type]
    BY <1>3, <1>5, <1>8, <1>11 DEF IsCounter
  <2> QED
    BY <2>1, <2>2
<1>15. s.of = eid /\ s.type = c.type
  OBVIOUS
<1> HIDE DEF s, names
<1> QED
  BY <1>9, <1>10, <1>11, <1>12, <1>13, <1>14, <1>15

-----------------------------------------------------------------------------
(* The steps. *)

\* A change that is read is one of those the providers have; the others keep theirs.
LEMMA ReadFacts ==
  ASSUME TypeOK, HasChange
  PROVE  /\ Current \in Change /\ Current.element \in Element /\ Current.element.eid \in ElementIds
         /\ <<Tail(Head(providers))>> \o Tail(providers) \in Seq(Seq(Change))
<1>1. providers \in Seq(Seq(Change)) /\ providers # <<>> /\ Head(providers) # <<>>
  BY DEF TypeOK, HasChange
<1>2. Head(providers) \in Seq(Change) /\ Tail(providers) \in Seq(Seq(Change))
  BY <1>1
<1>3. Head(Head(providers)) \in Change /\ Tail(Head(providers)) \in Seq(Change)
  BY <1>1, <1>2
<1>4. <<Tail(Head(providers))>> \in Seq(Seq(Change))
  BY <1>3
<1>5. Current \in Change
  BY <1>3 DEF Current
<1>6. Current.element \in Element
  BY <1>5 DEF Change
<1> QED
  BY <1>2, <1>4, <1>5, <1>6, FileAssumption

\* The strengthening holds at first.
LEMMA InitIInv == Init => IInv
<1> SUFFICES ASSUME Init PROVE IInv
  OBVIOUS
<1>1. input \in Inputs /\ providers = Providers(input)
  BY DEF Init
<1>2. providers \in Seq(Seq(Change))
  BY <1>1, ProvidersType
<1>3. TypeOK
  BY <1>1, <1>2, FileAssumption DEF Init, TypeOK, ChangeType
<1>4. DOMAIN file = {}
  BY DEF Init
<1> QED
  BY <1>3, <1>4 DEF Init, IInv, AtHand, Numbered, CreatedApart, Noted, OneChangeEach, Creates

\* While nothing is written, only the type can be disturbed.
LEMMA FileKept ==
  ASSUME IInv, UNCHANGED <<format, file, nextId>>, parsedChangeIds \subseteq parsedChangeIds', TypeOK', AtHand'
  PROVE  IInv'
<1>1. Creates' = Creates
  BY DEF Creates
<1>2. Numbered'
  BY <1>1 DEF IInv, Numbered, NumberIn
<1>3. CreatedApart'
  BY <1>1 DEF IInv, CreatedApart
<1>4. Noted' /\ OneChangeEach'
  BY DEF IInv, Noted, OneChangeEach
<1> QED
  BY <1>2, <1>3, <1>4 DEF IInv

\* The cleaner writes nothing.
LEMMA CleanStep == ASSUME IInv, Clean PROVE IInv'
<1> USE DEF readVars, cleanVars, writeVars
<1>1. TypeOK /\ AtHand
  BY DEF IInv
<1>2. CASE DiscardDelete
  <2>1. TypeOK' /\ AtHand'
    BY <1>1, <1>2, ReadFacts DEF DiscardDelete, ReadChange, TypeOK, AtHand
  <2> QED
    BY <1>2, <2>1, FileKept DEF DiscardDelete
<1>3. CASE TakeChange
  <2>1. Current \in Change /\ Current.element.eid \in ElementIds /\ Current.type \in ChangeType
    BY <1>1, <1>3, ReadFacts DEF TakeChange, Change
  <2>2. providers' \in Seq(Seq(Change))
    BY <1>1, <1>3, ReadFacts DEF TakeChange, ReadChange
  <2>3. changes' \in Seq(Change)
    BY <1>1, <1>3, <2>1 DEF TakeChange, TypeOK
  <2>4. DOMAIN changesById' \subseteq ElementIds /\ \A i \in DOMAIN changesById' : changesById'[i] \in ChangeType
    BY <1>1, <1>3, <2>1 DEF TakeChange, TypeOK, With
  <2>5. TypeOK' /\ AtHand'
    BY <1>1, <1>3, <2>2, <2>3, <2>4 DEF TakeChange, TypeOK, AtHand
  <2> QED
    BY <1>3, <2>5, FileKept DEF TakeChange
<1>4. CASE NextProviderToClean
  <2>1. TypeOK' /\ AtHand'
    BY <1>1, <1>4 DEF NextProviderToClean, TypeOK, AtHand
  <2> QED
    BY <1>4, <2>1, FileKept DEF NextProviderToClean
<1>5. CASE EndCleaning
  <2>1. providers' \in Seq(Seq(Change))
    BY <1>1, <1>5 DEF EndCleaning, TypeOK
  <2>2. TypeOK' /\ AtHand'
    BY <1>1, <1>5, <2>1 DEF EndCleaning, TypeOK, AtHand
  <2> QED
    BY <1>5, <2>2, FileKept DEF EndCleaning
<1> QED
  BY <1>2, <1>3, <1>4, <1>5 DEF Clean

\* A statement is added: its number is new, and so is its element in an SQL file.
LEMMA FileGrows ==
  ASSUME IInv, NEW c \in Change, c.type # "Unknown", WriteElement(c), UNCHANGED format,
         format = "sql" => c.element.eid \notin parsedChangeIds /\ c.element.eid \in parsedChangeIds',
         parsedChangeIds \subseteq parsedChangeIds', TypeOK', AtHand'
  PROVE  IInv'
<1>1. TypeOK /\ AtHand
  BY DEF IInv
<1>2. PICK s \in Statement :
        /\ file' = Append(file, s)
        /\ s.of = c.element.eid /\ s.type = c.type
        /\ c.type = "Create" => /\ s.eid = NewId(c.element.eid.type)
                                /\ nextId'[s.eid.type] > nextId[s.eid.type]
  BY <1>1, WriteFacts
<1>3. \A t \in ElementType : nextId'[t] >= nextId[t]
  BY <1>1, WriteFacts
<1>4. file \in Seq(Statement) /\ nextId \in [ElementType -> Nat \ {0}] /\ nextId' \in [ElementType -> Nat \ {0}]
  BY <1>1 DEF TypeOK
<1> DEFINE n == Len(file) + 1
<1>5. /\ DOMAIN file' = 1..n /\ DOMAIN file = 1..(n - 1) /\ n \in Nat
      /\ file'[n] = s /\ \A i \in 1..(n - 1) : file'[i] = file[i]
  BY <1>2, <1>4
<1> HIDE DEF n
<1>6. \A i \in 1..(n - 1) : file[i] \in Statement /\ file[i].eid.type \in ElementType /\ file[i].eid.id \in Int
  <2> TAKE i \in 1..(n - 1)
  <2>1. file[i] \in Statement
    BY <1>4, <1>5
  <2> QED
    BY <2>1 DEF Statement, ElementIds
<1>7. s.eid.type \in ElementType /\ s.eid.id \in Int
  BY DEF Statement, ElementIds
<1>8. Creates' = {i \in 1..n : file'[i].type = "Create"} /\ Creates = {i \in 1..(n - 1) : file[i].type = "Create"}
  BY <1>5 DEF Creates
<1>9. \A i \in Creates' : i # n => i \in Creates /\ i \in 1..(n - 1) /\ file'[i] = file[i]
  BY <1>5, <1>8
\* The number of a new element is the next one of its type.
<1>10. s.type = "Create" => NumberIn(format, s.eid) = nextId[s.eid.type]
  <2> HAVE s.type = "Create"
  <2>1. s.eid = NewId(c.element.eid.type)
    BY <1>2
  <2>2. s.eid.type = c.element.eid.type
    BY <2>1 DEF NewId
  <2>3. nextId[s.eid.type] \in Nat
    BY <1>4, <1>7
  <2> QED
    BY <2>1, <2>2, <2>3 DEF NewId, NumberIn
<1>11. Numbered'
  <2> SUFFICES ASSUME NEW i \in Creates' PROVE NumberIn(format, file'[i].eid) < nextId'[file'[i].eid.type]
    BY DEF Numbered
  <2>1. CASE i = n
    <3>1. s.type = "Create" /\ file'[i] = s
      BY <1>5, <1>8, <2>1
    <3>2. NumberIn(format, s.eid) = nextId[s.eid.type] /\ nextId'[s.eid.type] > nextId[s.eid.type]
      BY <1>2, <1>10, <3>1
    <3>3. nextId[s.eid.type] \in Nat /\ nextId'[s.eid.type] \in Nat
      BY <1>4, <1>7
    <3> QED
      BY <3>1, <3>2, <3>3
  <2>2. CASE i # n
    <3>1. i \in Creates /\ i \in 1..(n - 1) /\ file'[i] = file[i]
      BY <1>9, <2>2
    <3>2. NumberIn(format, file[i].eid) < nextId[file[i].eid.type]
      BY <3>1 DEF IInv, Numbered
    <3>3. file[i].eid.type \in ElementType /\ NumberIn(format, file[i].eid) \in Int
      BY <1>6, <3>1 DEF NumberIn
    <3>4. nextId[file[i].eid.type] \in Nat /\ nextId'[file[i].eid.type] \in Nat
      BY <1>4, <3>3
    <3>5. nextId'[file[i].eid.type] >= nextId[file[i].eid.type]
      BY <1>3, <3>3
    <3> QED
      BY <3>1, <3>2, <3>3, <3>4, <3>5
  <2> QED
    BY <2>1, <2>2
<1>12. CreatedApart'
  <2>1. \A i \in Creates : s.type = "Create" => file[i].eid # s.eid
    <3> SUFFICES ASSUME NEW i \in Creates, s.type = "Create" PROVE file[i].eid # s.eid
      OBVIOUS
    <3>1. NumberIn(format, file[i].eid) < nextId[file[i].eid.type]
      BY DEF IInv, Numbered
    <3>2. nextId[s.eid.type] \in Nat
      BY <1>4, <1>7
    <3>3. file[i].eid = s.eid => nextId[s.eid.type] < nextId[s.eid.type]
      BY <1>10, <3>1
    <3> QED
      BY <3>2, <3>3
  <2> SUFFICES ASSUME NEW i \in Creates', NEW j \in Creates', i # j PROVE file'[i].eid # file'[j].eid
    BY DEF CreatedApart
  <2>2. CASE i # n /\ j # n
    <3>1. i \in Creates /\ j \in Creates /\ file'[i] = file[i] /\ file'[j] = file[j]
      BY <1>9, <2>2
    <3> QED
      BY <3>1 DEF IInv, CreatedApart
  <2>3. CASE i = n
    <3>1. j \in Creates /\ file'[j] = file[j] /\ file'[i] = s /\ s.type = "Create"
      BY <1>5, <1>8, <1>9, <2>3
    <3> QED
      BY <2>1, <3>1
  <2>4. CASE j = n
    <3>1. i \in Creates /\ file'[i] = file[i] /\ file'[j] = s /\ s.type = "Create"
      BY <1>5, <1>8, <1>9, <2>4
    <3> QED
      BY <2>1, <3>1
  <2> QED
    BY <2>2, <2>3, <2>4
<1>13. Noted'
  BY <1>2, <1>5 DEF IInv, Noted
<1>14. OneChangeEach'
  <2> SUFFICES ASSUME format = "sql", NEW i \in 1..n, NEW j \in 1..n, i # j PROVE file'[i].of # file'[j].of
    BY <1>5 DEF OneChangeEach
  <2>1. \A k \in 1..(n - 1) : file[k].of # s.of
    BY <1>2, <1>5 DEF IInv, Noted
  <2>2. CASE i # n /\ j # n
    BY <1>5, <2>2 DEF IInv, OneChangeEach
  <2>3. CASE i = n \/ j = n
    BY <1>5, <2>1, <2>3
  <2> QED
    BY <2>2, <2>3
<1> QED
  BY <1>11, <1>12, <1>13, <1>14 DEF IInv

\* What is written is new; all other steps write nothing.
LEMMA WriteStep == ASSUME IInv, Write PROVE IInv'
<1> USE DEF readVars, cleanVars, writeVars
<1>1. TypeOK /\ AtHand
  BY DEF IInv
<1>2. CASE SkipChange
  <2>1. TypeOK' /\ AtHand'
    BY <1>1, <1>2, ReadFacts, FileAssumption DEF SkipChange, ReadChange, TypeOK, AtHand
  <2> QED
    BY <1>2, <2>1, FileKept DEF SkipChange
<1>3. CASE RefuseChange
  <2>1. TypeOK' /\ AtHand'
    BY <1>1, <1>3 DEF RefuseChange, TypeOK, AtHand
  <2> QED
    BY <1>3, <2>1, FileKept DEF RefuseChange
<1>4. CASE WriteXmlChange
  <2>1. /\ Current \in Change /\ Current.element.eid \in ElementIds /\ Current.type \in ChangeType
        /\ providers' \in Seq(Seq(Change))
    BY <1>1, <1>4, ReadFacts DEF WriteXmlChange, ReadChange, Change
  <2>2. parsedChangeIds \subseteq parsedChangeIds' /\ parsedChangeIds' \subseteq ElementIds
    BY <1>1, <1>4, <2>1 DEF WriteXmlChange, NoteFirstOfSection, TypeOK
  <2>3. CASE Current.type = "Unknown"
    <3>1. TypeOK' /\ AtHand' /\ UNCHANGED <<format, file, nextId>>
      BY <1>1, <1>4, <2>1, <2>2, <2>3, FileAssumption DEF WriteXmlChange, TypeOK, AtHand
    <3> QED
      BY <2>2, <3>1, FileKept
  <2>4. CASE Current.type # "Unknown"
    <3>1. WriteElement(Current) /\ format = "xml" /\ UNCHANGED format
      BY <1>4, <2>4 DEF WriteXmlChange
    <3>2. IsNames(newIds') /\ IsCounter(nextId') /\ \E s \in Statement : file' = Append(file, s)
      BY <1>1, <2>1, <2>4, <3>1, WriteFacts
    <3>3. file' \in Seq(Statement)
      BY <1>1, <3>2 DEF TypeOK
    <3>4. TypeOK' /\ AtHand'
      BY <1>1, <1>4, <2>1, <2>2, <3>2, <3>3, FileAssumption DEF WriteXmlChange, TypeOK, IsNames, IsCounter, AtHand
    <3> QED
      BY <2>1, <2>2, <2>4, <3>1, <3>4, FileGrows
  <2> QED
    BY <2>3, <2>4
<1>5. CASE WriteSqlChange
  <2>1. /\ Current \in Change /\ Current.element.eid \in ElementIds /\ Current.type \in ChangeType
        /\ providers' \in Seq(Seq(Change))
    BY <1>1, <1>5, ReadFacts DEF WriteSqlChange, ReadChange, Change
  <2>2. parsedChangeIds \subseteq parsedChangeIds' /\ parsedChangeIds' \subseteq ElementIds
    BY <1>1, <1>5, <2>1 DEF WriteSqlChange, NoteWritten, TypeOK
  <2>3. CASE Current.type = "Unknown"
    <3>1. TypeOK' /\ AtHand' /\ UNCHANGED <<format, file, nextId>>
      BY <1>1, <1>5, <2>1, <2>2, <2>3, FileAssumption DEF WriteSqlChange, TypeOK, AtHand
    <3> QED
      BY <2>2, <3>1, FileKept
  <2>4. CASE Current.type # "Unknown"
    <3>1. WriteElement(Current) /\ UNCHANGED format
      BY <1>5, <2>4 DEF WriteSqlChange
    <3>2. IsNames(newIds') /\ IsCounter(nextId') /\ \E s \in Statement : file' = Append(file, s)
      BY <1>1, <2>1, <2>4, <3>1, WriteFacts
    <3>3. file' \in Seq(Statement)
      BY <1>1, <3>2 DEF TypeOK
    <3>4. TypeOK' /\ AtHand'
      BY <1>1, <1>5, <2>1, <2>2, <3>2, <3>3, FileAssumption DEF WriteSqlChange, TypeOK, IsNames, IsCounter, AtHand
    <3>5. Current.element.eid \notin parsedChangeIds /\ Current.element.eid \in parsedChangeIds'
      BY <1>5, <2>4 DEF WriteSqlChange, Skips, NoteWritten
    <3> QED
      BY <2>1, <2>2, <2>4, <3>1, <3>4, <3>5, FileGrows
  <2> QED
    BY <2>3, <2>4
<1>6. CASE NextProvider
  <2>1. providers' \in Seq(Seq(Change))
    BY <1>1, <1>6 DEF NextProvider, TypeOK
  <2>2. parsedChangeIds \subseteq parsedChangeIds' /\ parsedChangeIds' \subseteq ElementIds
    BY <1>1, <1>6 DEF NextProvider, TypeOK, AtHand
  <2>3. AtHand' /\ last' \in ChangeType
    BY <1>1, <1>6 DEF NextProvider, TypeOK, AtHand, ChangeType
  <2>4. TypeOK'
    BY <1>1, <1>6, <2>1, <2>2, <2>3 DEF NextProvider, TypeOK
  <2> QED
    BY <1>6, <2>2, <2>3, <2>4, FileKept DEF NextProvider
<1>7. CASE Finish
  <2>1. TypeOK' /\ AtHand'
    BY <1>1, <1>7 DEF Finish, TypeOK, AtHand
  <2> QED
    BY <1>7, <2>1, FileKept DEF Finish
<1> QED
  BY <1>2, <1>3, <1>4, <1>5, <1>6, <1>7 DEF Write

\* No step disturbs the strengthening.
LEMMA NextIInv == IInv /\ [Next]_fileVars => IInv'
<1> SUFFICES ASSUME IInv, [Next]_fileVars PROVE IInv'
  OBVIOUS
<1>1. CASE UNCHANGED fileVars
  <2> USE <1>1 DEF fileVars, readVars, cleanVars, writeVars
  <2>1. TypeOK' /\ AtHand'
    BY DEF IInv, TypeOK, AtHand
  <2> QED
    BY <2>1, FileKept
<1> QED
  BY <1>1, CleanStep, WriteStep DEF Next

\* The strengthening holds in every state.
THEOREM Invariance == Spec => []IInv
<1>1. Init => IInv
  BY InitIInv
<1>2. IInv /\ [Next]_fileVars => IInv'
  BY NextIInv
<1> QED
  BY <1>1, <1>2, PTL DEF Spec

\* Every variable of the writers stays in its type.
THEOREM TypeCorrect == Spec => []TypeOK
<1>1. IInv => TypeOK
  BY DEF IInv
<1> QED
  BY <1>1, Invariance, PTL

\* No two new elements get the same id, in either format.
THEOREM NewIdsApart == Spec => []CreatedApart
<1>1. IInv => CreatedApart
  BY DEF IInv
<1> QED
  BY <1>1, Invariance, PTL

\* An SQL file has at most one change for an element.
THEOREM SqlChangesOnce == Spec => []OneChangeEach
<1>1. IInv => OneChangeEach
  BY DEF IInv
<1> QED
  BY <1>1, Invariance, PTL

-----------------------------------------------------------------------------
(* The cleaner. *)

\* The cleaner knows of every change it has kept, and of one that is no delete if there is any.
Remembered ==
    \A j \in DOMAIN changes :
      /\ changes[j].element.eid \in DOMAIN changesById
      /\ changes[j].type # "Delete" => changesById[changes[j].element.eid] # "Delete"

CInv == Remembered /\ DeletesFirst

\* A change that is kept is no delete unless all changes of its element are.
LEMMA CleanerStep == TypeOK /\ CInv /\ [Next]_fileVars => CInv'
<1> SUFFICES ASSUME TypeOK, CInv, [Next]_fileVars PROVE CInv'
  OBVIOUS
<1>1. CASE UNCHANGED cleanVars
  BY <1>1 DEF cleanVars, CInv, Remembered, DeletesFirst
<1>2. CASE TakeChange
  <2> DEFINE n == Len(changes) + 1
             eid == Current.element.eid
  <2>1. Current \in Change /\ Current.type \in ChangeType
    BY <1>2, ReadFacts DEF TakeChange, Change
  <2>2. changes \in Seq(Change) /\ changes' = Append(changes, Current)
    BY <1>2 DEF TypeOK, TakeChange
  <2>3. /\ DOMAIN changes' = 1..n /\ DOMAIN changes = 1..(n - 1) /\ n \in Nat
        /\ changes'[n] = Current /\ \A j \in 1..(n - 1) : changes'[j] = changes[j]
    BY <2>1, <2>2
  <2>4. /\ DOMAIN changesById' = DOMAIN changesById \cup {eid}
        /\ changesById'[eid] = Current.type
        /\ \A x \in DOMAIN changesById : x # eid => changesById'[x] = changesById[x]
    BY <1>2 DEF TakeChange, With
  <2>5. eid \in DOMAIN changesById /\ changesById[eid] # "Delete" => Current.type # "Delete"
    BY <1>2 DEF TakeChange, Discards
  <2> HIDE DEF n
  <2>6. \A j \in 1..(n - 1) : changes[j].element.eid = eid /\ changes[j].type # "Delete" => Current.type # "Delete"
    BY <2>3, <2>5 DEF CInv, Remembered
  <2>7. Remembered'
    <3> SUFFICES ASSUME NEW j \in 1..n
                 PROVE  /\ changes'[j].element.eid \in DOMAIN changesById'
                        /\ changes'[j].type # "Delete" => changesById'[changes'[j].element.eid] # "Delete"
      BY <2>3 DEF Remembered
    <3>1. CASE j = n
      BY <2>3, <2>4, <3>1
    <3>2. CASE j # n
      <4>1. j \in 1..(n - 1) /\ changes'[j] = changes[j]
        BY <2>3, <3>2
      <4>2. /\ changes[j].element.eid \in DOMAIN changesById
            /\ changes[j].type # "Delete" => changesById[changes[j].element.eid] # "Delete"
        BY <2>3, <4>1 DEF CInv, Remembered
      <4> QED
        BY <2>4, <2>6, <4>1, <4>2
    <3> QED
      BY <3>1, <3>2
  <2>8. DeletesFirst'
    <3> SUFFICES ASSUME NEW j \in 1..n, NEW k \in 1..n, j < k,
                        changes'[j].element.eid = changes'[k].element.eid, changes'[j].type # "Delete"
                 PROVE  changes'[k].type # "Delete"
      BY <2>3 DEF DeletesFirst
    <3>1. j \in 1..(n - 1) /\ changes'[j] = changes[j]
      BY <2>3
    <3>2. CASE k = n
      BY <2>3, <2>6, <3>1, <3>2
    <3>3. CASE k # n
      <4>1. k \in 1..(n - 1) /\ changes'[k] = changes[k]
        BY <2>3, <3>3
      <4> QED
        BY <2>3, <3>1, <4>1 DEF CInv, DeletesFirst
    <3> QED
      BY <3>2, <3>3
  <2> QED
    BY <2>7, <2>8 DEF CInv
<1>3. UNCHANGED cleanVars \/ TakeChange
  BY DEF Next, Clean, Write, fileVars, DiscardDelete, NextProviderToClean, EndCleaning, SkipChange,
         RefuseChange, WriteXmlChange, WriteSqlChange, NextProvider, Finish
<1> QED
  BY <1>1, <1>2, <1>3

\* What the cleaner hands on never deletes an element after creating or modifying it.
THEOREM DeletesComeFirst == Spec => []DeletesFirst
<1>1. Init => CInv
  BY DEF Init, CInv, Remembered, DeletesFirst
<1>2. TypeOK /\ CInv /\ [Next]_fileVars => CInv'
  BY CleanerStep
<1>3. CInv => DeletesFirst
  BY DEF CInv
<1> QED
  BY <1>1, <1>2, <1>3, TypeCorrect, PTL DEF Spec

-----------------------------------------------------------------------------
(* What has been read. *)

\* The lists that are read now: by the cleaner, those of the providers.
Lists == IF pc = "clean" THEN Providers(input) ELSE Given

\* If left is left of the lists, so many have been read, and so many changes of the next one.
ListsRead(lists, left) == Len(lists) - Len(left)
NumberRead(lists, left) ==
    IF left = <<>> THEN 0 ELSE Len(lists[ListsRead(lists, left) + 1]) - Len(Head(left))

ReadPlaces(lists, left) ==
    {p \in Places(lists) : \/ p[1] <= ListsRead(lists, left)
                           \/ p[1] = ListsRead(lists, left) + 1 /\ p[2] <= NumberRead(lists, left)}

\* What is left is the end of the lists.
Rest(lists, left) ==
    /\ Len(left) <= Len(lists)
    /\ \A j \in 2..Len(left) : left[j] = lists[ListsRead(lists, left) + j]
    /\ left # <<>> =>
         /\ NumberRead(lists, left) >= 0
         /\ \A j \in DOMAIN Head(left) :
              Head(left)[j] = lists[ListsRead(lists, left) + 1][NumberRead(lists, left) + j]

\* The places are those of the changes.
LEMMA PlaceOf ==
  ASSUME NEW lists
  PROVE  \A p : p \in Places(lists) <=> \E i \in DOMAIN lists : \E k \in DOMAIN lists[i] : p = <<i, k>>
BY DEF Places

\* Without its first element, a list is what came after it.
LEMMA TailOf ==
  ASSUME NEW S, NEW s \in Seq(S), s # <<>>
  PROVE  Tail(s) \in Seq(S) /\ Len(Tail(s)) = Len(s) - 1 /\ \A j \in 1..(Len(s) - 1) : Tail(s)[j] = s[j + 1]
OBVIOUS

LEMMA ListOf ==
  ASSUME NEW S, NEW lists \in Seq(Seq(S)), NEW i \in DOMAIN lists
  PROVE  /\ lists[i] \in Seq(S) /\ i \in Nat
         /\ Len(lists[i]) \in Nat /\ DOMAIN lists[i] = 1..Len(lists[i])
<1>1. lists[i] \in Seq(S) /\ i \in Nat
  OBVIOUS
<1> QED
  BY <1>1

\* A list begins with its head.
LEMMA HeadOf ==
  ASSUME NEW S, NEW s \in Seq(S), s # <<>>
  PROVE  Head(s) = s[1] /\ Head(s) \in S /\ 1 \in DOMAIN s /\ DOMAIN s = 1..Len(s) /\ Len(s) \in Nat
OBVIOUS

LEMMA OneMore == \A a, b \in Nat : a <= b + 1 <=> (a <= b \/ a = b + 1)
OBVIOUS

\* At first nothing has been read.
LEMMA NothingRead ==
  ASSUME NEW S, NEW lists \in Seq(Seq(S))
  PROVE  Rest(lists, lists) /\ ReadPlaces(lists, lists) = {}
<1>1. Len(lists) \in Nat /\ DOMAIN lists = 1..Len(lists) /\ \A i \in DOMAIN lists : lists[i] \in Seq(S)
  OBVIOUS
<1>2. lists # <<>> => Head(lists) = lists[1] /\ Head(lists) \in Seq(S)
  OBVIOUS
<1>3. ListsRead(lists, lists) = 0
  BY <1>1 DEF ListsRead
<1>4. lists # <<>> => Len(Head(lists)) \in Nat
  BY <1>2
<1>5. NumberRead(lists, lists) = 0
  BY <1>2, <1>3, <1>4 DEF NumberRead
<1>6. Rest(lists, lists)
  BY <1>1, <1>2, <1>3, <1>5 DEF Rest
<1>7. \A p \in Places(lists) : p[1] >= 1 /\ p[2] >= 1 /\ p[1] \in Nat /\ p[2] \in Nat
  <2> SUFFICES ASSUME NEW i \in DOMAIN lists, NEW k \in DOMAIN lists[i] PROVE i \in Nat /\ k \in Nat /\ i >= 1 /\ k >= 1
    BY PlaceOf
  <2>1. lists[i] \in Seq(S)
    BY <1>1
  <2> QED
    BY <1>1, <2>1
<1>8. ReadPlaces(lists, lists) = {}
  BY <1>3, <1>5, <1>7 DEF ReadPlaces
<1> QED
  BY <1>6, <1>8

\* Of the first list that is left this many changes have been read, of all its changes.
LEMMA RestFacts ==
  ASSUME NEW S, NEW lists \in Seq(Seq(S)), NEW left \in Seq(Seq(S)), Rest(lists, left)
  PROVE  /\ ListsRead(lists, left) \in Nat /\ NumberRead(lists, left) \in Nat
         /\ Len(lists) = ListsRead(lists, left) + Len(left) /\ Len(left) \in Nat
         /\ left # <<>> =>
              /\ ListsRead(lists, left) + 1 \in DOMAIN lists
              /\ lists[ListsRead(lists, left) + 1] \in Seq(S)
              /\ Head(left) \in Seq(S) /\ Head(left) = left[1] /\ Len(left) >= 1
              /\ Len(lists[ListsRead(lists, left) + 1]) = NumberRead(lists, left) + Len(Head(left))
<1>1. Len(lists) \in Nat /\ DOMAIN lists = 1..Len(lists) /\ Len(left) \in Nat /\ Len(left) <= Len(lists)
  BY DEF Rest
<1>2. ListsRead(lists, left) \in Nat /\ Len(lists) = ListsRead(lists, left) + Len(left)
  BY <1>1 DEF ListsRead
<1>3. CASE left = <<>>
  BY <1>1, <1>2, <1>3 DEF NumberRead
<1>4. CASE left # <<>>
  <2>1. Head(left) \in Seq(S) /\ Head(left) = left[1] /\ Len(left) >= 1
    BY <1>4
  <2>2. ListsRead(lists, left) + 1 \in DOMAIN lists
    BY <1>1, <1>2, <2>1
  <2> DEFINE list == lists[ListsRead(lists, left) + 1]
  <2>3. list \in Seq(S)
    BY <2>2
  <2>4. NumberRead(lists, left) = Len(list) - Len(Head(left)) /\ NumberRead(lists, left) >= 0
    BY <1>4 DEF NumberRead, Rest
  <2>5. Len(list) \in Nat /\ Len(Head(left)) \in Nat
    BY <2>1, <2>3
  <2>6. NumberRead(lists, left) \in Nat /\ Len(list) = NumberRead(lists, left) + Len(Head(left))
    BY <2>4, <2>5
  <2> QED
    BY <1>1, <1>2, <2>1, <2>2, <2>3, <2>6
<1> QED
  BY <1>3, <1>4

\* Reading a change adds its place, when all places before it have been read.
LEMMA ReadOne ==
  ASSUME NEW S, NEW lists \in Seq(Seq(S)), NEW left \in Seq(Seq(S)), Rest(lists, left),
         left # <<>>, Head(left) # <<>>, NEW next, next = <<Tail(Head(left))>> \o Tail(left)
  PROVE  /\ Rest(lists, next)
         /\ \E p \in Places(lists) :
              /\ At(lists, p) = Head(Head(left))
              /\ ReadPlaces(lists, next) = ReadPlaces(lists, left) \cup {p}
              /\ \A q \in Places(lists) : Before(q, p) <=> q \in ReadPlaces(lists, left)
<1> DEFINE n == ListsRead(lists, left)
           m == NumberRead(lists, left)
           list == lists[n + 1]
           head == Head(left)
           p == <<n + 1, m + 1>>
<1>1. /\ n \in Nat /\ m \in Nat /\ Len(lists) = n + Len(left) /\ Len(left) \in Nat /\ Len(left) >= 1
      /\ n + 1 \in DOMAIN lists /\ list \in Seq(S) /\ head \in Seq(S) /\ head = left[1]
      /\ Len(list) = m + Len(head)
  BY RestFacts
<1>2. head # <<>> /\ Len(head) \in Nat /\ Len(head) >= 1
  <2>1. head # <<>> /\ head \in Seq(S)
    BY <1>1
  <2> HIDE DEF head
  <2>2. 1 \in 1..Len(head) /\ Len(head) \in Nat
    BY <2>1, HeadOf
  <2> QED
    BY <2>1, <2>2
<1>3. Tail(head) \in Seq(S) /\ Len(Tail(head)) = Len(head) - 1 /\ \A j \in 1..(Len(head) - 1) : Tail(head)[j] = head[j + 1]
  <2> HIDE DEF head
  <2> QED
    BY <1>1, <1>2, TailOf
<1>4. Tail(left) \in Seq(Seq(S)) /\ Len(Tail(left)) = Len(left) - 1 /\ \A j \in 1..(Len(left) - 1) : Tail(left)[j] = left[j + 1]
  BY TailOf
<1>5. /\ next \in Seq(Seq(S)) /\ Len(next) = Len(left) /\ next[1] = Tail(head)
      /\ \A j \in 2..Len(left) : next[j] = left[j]
  <2>1. <<Tail(head)>> \in Seq(Seq(S)) /\ Len(<<Tail(head)>>) = 1 /\ <<Tail(head)>>[1] = Tail(head)
    BY <1>3
  <2>2. next \in Seq(Seq(S)) /\ Len(next) = 1 + (Len(left) - 1)
    BY <1>4, <2>1
  <2>3. next[1] = Tail(head)
    BY <1>4, <2>1
  <2>4. \A j \in 2..Len(left) : next[j] = Tail(left)[j - 1]
    BY <1>1, <1>4, <2>1
  <2>5. \A j \in 2..Len(left) : j - 1 \in 1..(Len(left) - 1) /\ (j - 1) + 1 = j
    BY <1>1
  <2> HIDE DEF head
  <2>6. \A j \in 2..Len(left) : next[j] = left[j]
    BY <1>4, <2>4, <2>5
  <2> QED
    BY <1>1, <2>2, <2>3, <2>6
<1>6. ListsRead(lists, next) = n
  BY <1>5 DEF ListsRead
<1>7. next # <<>> /\ Head(next) = Tail(head)
  BY <1>1, <1>5
<1>8. NumberRead(lists, next) = m + 1
  <2>1. NumberRead(lists, next) = Len(list) - Len(Tail(head))
    BY <1>6, <1>7 DEF NumberRead
  <2>2. Len(Tail(head)) = Len(head) - 1 /\ Len(list) = m + Len(head) /\ m \in Nat /\ Len(head) \in Nat
    BY <1>1, <1>2, <1>3
  <2>3. \A a, b \in Nat : (a + b) - (b - 1) = a + 1
    OBVIOUS
  <2> HIDE DEF m, list, head
  <2>4. (m + Len(head)) - (Len(head) - 1) = m + 1
    BY <2>2, <2>3
  <2> QED
    BY <2>1, <2>2, <2>4
<1>9. /\ \A j \in 2..Len(left) : left[j] = lists[n + j]
      /\ \A j \in DOMAIN head : head[j] = list[m + j]
  BY DEF Rest
<1> HIDE DEF n, m, list, head
<1>10. DOMAIN Tail(head) = 1..(Len(head) - 1) /\ DOMAIN head = 1..Len(head) /\ DOMAIN list = 1..Len(list)
  BY <1>1, <1>3
<1>11. \A j \in DOMAIN Tail(head) : Tail(head)[j] = list[(m + 1) + j]
  <2> SUFFICES ASSUME NEW j \in 1..(Len(head) - 1) PROVE Tail(head)[j] = list[(m + 1) + j]
    BY <1>10
  <2>1. j + 1 \in DOMAIN head /\ m + (j + 1) = (m + 1) + j
    BY <1>1, <1>2, <1>10
  <2> QED
    BY <1>3, <1>9, <2>1
<1>12. Rest(lists, next)
  <2>1. Len(next) <= Len(lists)
    BY <1>1, <1>5
  <2>2. \A j \in 2..Len(next) : next[j] = lists[n + j]
    BY <1>5, <1>9
  <2>3. m + 1 >= 0
    BY <1>1
  <2> QED
    BY <1>6, <1>7, <1>8, <1>11, <2>1, <2>2, <2>3 DEF Rest, list
<1>13. m + 1 \in DOMAIN list /\ list[m + 1] = Head(head)
  <2>1. 1 \in DOMAIN head /\ Head(head) = head[1]
    BY <1>1, <1>2, <1>10
  <2>2. head[1] = list[m + 1]
    BY <1>9, <2>1
  <2>3. m + 1 \in 1..Len(list)
    <3>1. m \in Nat /\ Len(head) \in Nat /\ Len(head) >= 1 /\ Len(list) = m + Len(head)
      BY <1>1, <1>2
    <3> QED
      BY <3>1
  <2> QED
    BY <1>10, <2>1, <2>2, <2>3
<1>14. p \in Places(lists) /\ At(lists, p) = Head(head)
  BY <1>1, <1>13, PlaceOf DEF At, list
<1>15. \A q \in Places(lists) : q[1] \in Nat /\ q[2] \in Nat /\ q = <<q[1], q[2]>>
  <2> SUFFICES ASSUME NEW i \in DOMAIN lists, NEW k \in DOMAIN lists[i] PROVE i \in Nat /\ k \in Nat
    BY PlaceOf
  <2>1. lists[i] \in Seq(S)
    OBVIOUS
  <2> QED
    BY <2>1
<1>16. \A q \in Places(lists) : Before(q, p) <=> q \in ReadPlaces(lists, left)
  <2> TAKE q \in Places(lists)
  <2>1. Before(q, p) <=> (q[1] < n + 1 \/ (q[1] = n + 1 /\ q[2] < m + 1))
    BY DEF Before
  <2>2. q[1] \in Nat /\ q[2] \in Nat /\ n \in Nat /\ m \in Nat
    BY <1>1, <1>15
  <2>3. q[1] < n + 1 <=> q[1] <= n
    BY <2>2
  <2>4. q[2] < m + 1 <=> q[2] <= m
    BY <2>2
  <2> QED
    BY <2>1, <2>3, <2>4 DEF ReadPlaces, n, m
<1>17. ReadPlaces(lists, next) = ReadPlaces(lists, left) \cup {p}
  <2>1. \A q \in Places(lists) :
          (q[1] <= n \/ (q[1] = n + 1 /\ q[2] <= m + 1)) <=> ((q[1] <= n \/ (q[1] = n + 1 /\ q[2] <= m)) \/ q = p)
    <3> TAKE q \in Places(lists)
    <3>1. q[1] \in Nat /\ q[2] \in Nat /\ q = <<q[1], q[2]>>
      BY <1>15
    <3>2. q = p <=> q[1] = n + 1 /\ q[2] = m + 1
      BY <3>1
    <3>3. n \in Nat /\ m \in Nat
      BY <1>1
    <3>4. \A a, b \in Nat : (a <= n \/ (a = n + 1 /\ b <= m + 1)) <=>
                            ((a <= n \/ (a = n + 1 /\ b <= m)) \/ (a = n + 1 /\ b = m + 1))
      BY <3>3
    <3> QED
      BY <3>1, <3>2, <3>4
  <2> QED
    BY <1>6, <1>8, <1>14, <2>1 DEF ReadPlaces, n, m
<1>18. Head(Head(left)) = Head(head)
  BY DEF head
<1> HIDE DEF p
<1> QED
  BY <1>12, <1>14, <1>16, <1>17, <1>18

\* Going on to the next list reads nothing.
LEMMA ReadOn ==
  ASSUME NEW S, NEW lists \in Seq(Seq(S)), NEW left \in Seq(Seq(S)), Rest(lists, left),
         left # <<>>, Head(left) = <<>>
  PROVE  Rest(lists, Tail(left)) /\ ReadPlaces(lists, Tail(left)) = ReadPlaces(lists, left)
<1> DEFINE n == ListsRead(lists, left)
           m == NumberRead(lists, left)
           next == Tail(left)
<1>1. /\ n \in Nat /\ m \in Nat /\ Len(lists) = n + Len(left) /\ Len(left) \in Nat /\ Len(left) >= 1
      /\ n + 1 \in DOMAIN lists /\ lists[n + 1] \in Seq(S)
      /\ Len(lists[n + 1]) = m + Len(Head(left)) /\ Len(Head(left)) = 0
  BY RestFacts
<1>2. /\ next \in Seq(Seq(S)) /\ Len(next) = Len(left) - 1
      /\ \A j \in 1..Len(next) : next[j] = left[j + 1]
  BY <1>1
<1>3. ListsRead(lists, next) = n + 1
  BY <1>1, <1>2 DEF ListsRead
<1>4. \A j \in 2..Len(left) : left[j] = lists[n + j]
  BY DEF Rest
<1>5. \A j \in 1..Len(next) : next[j] = lists[(n + 1) + j]
  <2> TAKE j \in 1..Len(next)
  <2>1. j + 1 \in 2..Len(left) /\ n + (j + 1) = (n + 1) + j
    BY <1>1, <1>2
  <2> QED
    BY <1>2, <1>4, <2>1
<1>6. next # <<>> => Head(next) = lists[(n + 1) + 1] /\ Len(Head(next)) \in Nat /\ Head(next) \in Seq(S)
  <2> HAVE next # <<>>
  <2>1. next \in Seq(Seq(S)) /\ next # <<>>
    BY <1>2
  <2> HIDE DEF next
  <2>2. Head(next) = next[1] /\ 1 \in 1..Len(next) /\ Head(next) \in Seq(S)
    BY <2>1, HeadOf
  <2>3. Len(Head(next)) \in Nat
    BY <2>2
  <2> QED
    BY <1>5, <2>2, <2>3
<1>7. NumberRead(lists, next) = 0
  <2>1. CASE next = <<>>
    BY <2>1 DEF NumberRead
  <2>2. CASE next # <<>>
    <3>1. NumberRead(lists, next) = Len(Head(next)) - Len(Head(next))
      BY <1>3, <1>6, <2>2 DEF NumberRead
    <3> QED
      BY <1>6, <2>2, <3>1
  <2> QED
    BY <2>1, <2>2
<1> HIDE DEF n, m, next
<1>8. Rest(lists, next)
  <2>1. Len(next) <= Len(lists)
    BY <1>1, <1>2
  <2>2. \A j \in 2..Len(next) : next[j] = lists[(n + 1) + j]
    BY <1>2, <1>5
  <2>3. next # <<>> => \A j \in DOMAIN Head(next) : Head(next)[j] = lists[(n + 1) + 1][0 + j]
    BY <1>6
  <2> QED
    BY <1>3, <1>7, <2>1, <2>2, <2>3 DEF Rest
<1>9. \A q \in Places(lists) : (q[1] <= n + 1 \/ (q[1] = (n + 1) + 1 /\ q[2] <= 0)) <=> (q[1] <= n \/ (q[1] = n + 1 /\ q[2] <= m))
  <2> TAKE q \in Places(lists)
  <2>0. PICK i \in DOMAIN lists : \E k \in DOMAIN lists[i] : q = <<i, k>>
    BY PlaceOf
  <2>7. PICK k \in DOMAIN lists[i] : q = <<i, k>>
    BY <2>0
  <2>1. /\ lists[i] \in Seq(S) /\ i \in Nat
        /\ Len(lists[i]) \in Nat /\ DOMAIN lists[i] = 1..Len(lists[i])
    BY ListOf
  <2>2. k \in Nat /\ k >= 1 /\ k <= Len(lists[i])
    <3>1. k \in 1..Len(lists[i])
      BY <2>1
    <3> QED
      BY <2>1, <3>1
  <2>3. i = n + 1 => k <= m
    BY <1>1, <2>2
  <2>4. n \in Nat /\ m \in Nat
    BY <1>1
  <2>5. (i <= n + 1 \/ (i = (n + 1) + 1 /\ k <= 0)) <=> (i <= n \/ (i = n + 1 /\ k <= m))
    <3>1. i \in Nat /\ k \in Nat /\ k >= 1 /\ m \in Nat /\ n \in Nat
      BY <2>1, <2>2, <2>4
    <3>2. ~(k <= 0)
      BY <3>1
    <3>3. i <= n + 1 <=> (i <= n \/ i = n + 1)
      BY <3>1, OneMore
    <3> QED
      BY <2>3, <3>2, <3>3
  <2>6. q[1] = i /\ q[2] = k
    BY <2>7
  <2> QED
    BY <2>5, <2>6
<1> QED
  BY <1>3, <1>7, <1>8, <1>9 DEF ReadPlaces, n, m, next

\* Once nothing is left everything has been read.
LEMMA AllRead ==
  ASSUME NEW S, NEW lists \in Seq(Seq(S))
  PROVE  ReadPlaces(lists, <<>>) = Places(lists)
<1>1. ListsRead(lists, <<>>) = Len(lists)
  BY DEF ListsRead
<1>2. \A p \in Places(lists) : p[1] <= Len(lists)
  BY PlaceOf
<1> QED
  BY <1>1, <1>2 DEF ReadPlaces

Past == ReadPlaces(Lists, providers)

\* Until the cleaner has read everything nothing is written, and it has kept what it must.
Kept ==
    /\ pc = "clean" =>
         /\ parsedChangeIds = {} /\ changeElement = Null /\ newIds = <<>> /\ file = <<>>
         /\ \A p \in Past : At(Lists, p).type # "Delete" => At(Lists, p) \in ToSet(changes)
    /\ DropsOnlyDeletes

RInv == Rest(Lists, providers) /\ (pc = "done" => providers = <<>>) /\ (pc = "clean" => clean) /\ Kept

\* What is read now are lists of changes.
LEMMA ListsType ==
  ASSUME TypeOK
  PROVE  Providers(input) \in Seq(Seq(Change)) /\ Lists \in Seq(Seq(Change)) /\ providers \in Seq(Seq(Change))
<1>1. Providers(input) \in Seq(Seq(Change))
  BY ProvidersType DEF TypeOK
<1>2. <<changes>> \in Seq(Seq(Change))
  BY DEF TypeOK
<1>3. Lists \in Seq(Seq(Change))
  BY <1>1, <1>2 DEF Lists, Given
<1> QED
  BY <1>1, <1>3 DEF TypeOK

\* Reading a change.
LEMMA Reading ==
  ASSUME TypeOK, Rest(Lists, providers), HasChange, ReadChange, Lists' = Lists
  PROVE  /\ Rest(Lists, providers)'
         /\ \E p \in Places(Lists) :
              /\ At(Lists, p) = Current
              /\ Past' = Past \cup {p}
              /\ \A q \in Places(Lists) : Before(q, p) <=> q \in Past
<1>1. Lists \in Seq(Seq(Change)) /\ providers \in Seq(Seq(Change))
  BY ListsType
<1>2. providers # <<>> /\ Head(providers) # <<>> /\ providers' = <<Tail(Head(providers))>> \o Tail(providers)
  BY DEF HasChange, ReadChange
<1>3. /\ Rest(Lists, providers')
      /\ \E p \in Places(Lists) :
           /\ At(Lists, p) = Head(Head(providers))
           /\ ReadPlaces(Lists, providers') = ReadPlaces(Lists, providers) \cup {p}
           /\ \A q \in Places(Lists) : Before(q, p) <=> q \in ReadPlaces(Lists, providers)
  BY <1>1, <1>2, ReadOne
<1> QED
  BY <1>3 DEF Past, Current

\* Going on to the next list.
LEMMA GoingOn ==
  ASSUME TypeOK, Rest(Lists, providers), providers # <<>>, ~HasChange, providers' = Tail(providers), Lists' = Lists
  PROVE  Rest(Lists, providers)' /\ Past' = Past
<1>1. Lists \in Seq(Seq(Change)) /\ providers \in Seq(Seq(Change)) /\ Head(providers) = <<>>
  BY ListsType DEF HasChange
<1>2. Rest(Lists, Tail(providers)) /\ ReadPlaces(Lists, Tail(providers)) = ReadPlaces(Lists, providers)
  BY <1>1, ReadOn
<1> QED
  BY <1>2 DEF Past

\* When nothing is left all changes have been read.
LEMMA PastAtEnd ==
  ASSUME TypeOK, providers = <<>>
  PROVE  Past = Places(Lists)
<1>1. Lists \in Seq(Seq(Change))
  BY ListsType
<1> QED
  BY <1>1, AllRead DEF Past

\* A writer's step reads at most one change, and the cleaner's work stays as it is.
LEMMA WriterReads ==
  ASSUME TypeOK, RInv, Write
  PROVE  /\ RInv'
         /\ pc # "clean" /\ pc' # "clean" /\ Lists' = Lists /\ UNCHANGED <<readVars, cleanVars>>
<1>1. /\ pc = "write" /\ pc' # "clean" /\ UNCHANGED <<readVars, cleanVars>>
      /\ pc' = "done" => providers' = <<>>
  BY DEF Write, SkipChange, RefuseChange, WriteXmlChange, WriteSqlChange, NextProvider, Finish
<1>2. Lists' = Lists
  BY <1>1 DEF Lists, Given, readVars, cleanVars
<1>3. Rest(Lists, providers)
  BY DEF RInv
<1>4. Rest(Lists, providers)'
  <2>1. CASE HasChange /\ ReadChange
    BY <1>2, <1>3, <2>1, Reading
  <2>2. CASE providers # <<>> /\ ~HasChange /\ providers' = Tail(providers)
    BY <1>2, <1>3, <2>2, GoingOn
  <2>3. CASE UNCHANGED providers
    BY <1>2, <1>3, <2>3
  <2> QED
    BY <2>1, <2>2, <2>3 DEF Write, SkipChange, RefuseChange, WriteXmlChange, WriteSqlChange, NextProvider, Finish
<1>5. Kept'
  BY <1>1 DEF RInv, Kept, DropsOnlyDeletes, readVars, cleanVars
<1> QED
  BY <1>1, <1>2, <1>4, <1>5 DEF RInv

\* The cleaner reads everything and keeps what is not a delete.
LEMMA CleanerReads == ASSUME TypeOK, RInv, Clean PROVE RInv'
<1> USE DEF readVars, cleanVars, writeVars
<1>1. Rest(Lists, providers) /\ Kept /\ pc = "clean" /\ clean /\ clean' = clean /\ input' = input
  BY DEF RInv, Clean, DiscardDelete, TakeChange, NextProviderToClean, EndCleaning
<1>2. Lists = Providers(input)
  BY <1>1 DEF Lists
<1>3. ASSUME HasChange, ReadChange, UNCHANGED <<pc, changeElement, writeVars>>, ToSet(changes) \subseteq ToSet(changes'),
             Current.type # "Delete" => Current \in ToSet(changes')
      PROVE  RInv'
  <2>1. Lists' = Lists
    BY <1>1, <1>3 DEF Lists
  <2>2. PICK p \in Places(Lists) : At(Lists, p) = Current /\ Past' = Past \cup {p}
    BY <1>1, <1>3, <2>1, Reading
  <2>3. Rest(Lists, providers)'
    BY <1>1, <1>3, <2>1, Reading
  <2>4. \A q \in Past : At(Lists, q).type # "Delete" => At(Lists, q) \in ToSet(changes)
    BY <1>1 DEF Kept
  <2>5. \A q \in Past' : At(Lists', q).type # "Delete" => At(Lists', q) \in ToSet(changes')
    BY <1>3, <2>1, <2>2, <2>4
  <2>6. Kept'
    BY <1>1, <1>3, <2>5 DEF Kept, DropsOnlyDeletes
  <2> QED
    BY <1>1, <1>3, <2>3, <2>6 DEF RInv
<1>4. CASE DiscardDelete
  BY <1>3, <1>4 DEF DiscardDelete, Discards
<1>5. CASE TakeChange
  <2>1. changes \in Seq(Change) /\ changes' = Append(changes, Current) /\ Current \in Change
    BY <1>5, ReadFacts DEF TakeChange, TypeOK
  <2>2. ToSet(changes) \subseteq ToSet(changes') /\ Current \in ToSet(changes')
    <3>1. DOMAIN changes = 1..Len(changes) /\ DOMAIN changes' = 1..(Len(changes) + 1) /\ Len(changes) \in Nat
      BY <2>1
    <3>2. changes'[Len(changes) + 1] = Current /\ \A j \in 1..Len(changes) : changes'[j] = changes[j]
      BY <2>1
    <3>3. Len(changes) + 1 \in DOMAIN changes' /\ DOMAIN changes \subseteq DOMAIN changes'
      BY <3>1
    <3> QED
      BY <3>1, <3>2, <3>3 DEF ToSet
  <2> QED
    BY <1>3, <1>5, <2>2 DEF TakeChange
<1>6. CASE NextProviderToClean
  <2>1. Lists' = Lists
    BY <1>1, <1>6 DEF Lists, NextProviderToClean
  <2>2. Rest(Lists, providers)' /\ Past' = Past
    BY <1>1, <1>6, <2>1, GoingOn DEF NextProviderToClean
  <2>3. Kept'
    BY <1>1, <1>6, <2>1, <2>2 DEF Kept, DropsOnlyDeletes, NextProviderToClean
  <2> QED
    BY <1>1, <1>6, <2>2, <2>3 DEF RInv, NextProviderToClean
<1>7. CASE EndCleaning
  <2>1. providers = <<>> /\ providers' = <<changes>> /\ pc' = "write" /\ UNCHANGED changes
    BY <1>7 DEF EndCleaning
  <2>2. Lists' = <<changes>>
    BY <1>1, <2>1 DEF Lists, Given
  <2>3. Rest(Lists, providers)'
    <3>1. <<changes>> \in Seq(Seq(Change))
      BY DEF TypeOK
    <3> QED
      BY <2>1, <2>2, <3>1, NothingRead
  <2>4. \A p \in Places(Lists) : At(Lists, p).type # "Delete" => At(Lists, p) \in ToSet(changes)
    BY <1>1, <2>1, PastAtEnd DEF Kept
  <2>5. DropsOnlyDeletes'
    <3> SUFFICES ASSUME NEW m \in ToSet(input), NEW c \in ToSet(Derived(m)), c.type # "Delete"
                 PROVE  c \in ToSet(changes)
      BY <1>1, <2>1 DEF DropsOnlyDeletes
    <3>1. PICK i \in DOMAIN input : m = input[i]
      BY DEF ToSet
    <3>2. PICK k \in DOMAIN Derived(m) : c = Derived(m)[k]
      BY DEF ToSet
    <3>3. i \in DOMAIN Lists /\ Lists[i] = Derived(m)
      BY <1>2, <3>1 DEF Providers
    <3>4. <<i, k>> \in Places(Lists) /\ At(Lists, <<i, k>>) = c
      BY <3>2, <3>3, PlaceOf DEF At
    <3> QED
      BY <2>4, <3>4
  <2> QED
    BY <1>1, <2>1, <2>3, <2>5 DEF RInv, Kept
<1> QED
  BY <1>4, <1>5, <1>6, <1>7 DEF Clean

\* At first nothing has been read.
LEMMA InitReads == Init => RInv
<1> SUFFICES ASSUME Init PROVE RInv
  OBVIOUS
<1>1. input \in Inputs /\ providers = Providers(input) /\ Lists = Providers(input)
  BY DEF Init, Lists, Given
<1>2. Providers(input) \in Seq(Seq(Change))
  BY <1>1, ProvidersType
<1>3. Rest(Lists, providers) /\ Past = {}
  BY <1>1, <1>2, NothingRead DEF Past
<1> QED
  BY <1>3 DEF Init, RInv, Kept, DropsOnlyDeletes

\* What is left is the end of what is read, and the cleaner keeps all it must, in every state.
LEMMA ReadInv == Spec => []RInv
<1>1. TypeOK /\ RInv /\ [Next]_fileVars => RInv'
  <2> SUFFICES ASSUME TypeOK, RInv, [Next]_fileVars PROVE RInv'
    OBVIOUS
  <2>1. CASE UNCHANGED fileVars
    BY <2>1 DEF fileVars, readVars, cleanVars, writeVars, RInv, Kept, Lists, Given, Past, DropsOnlyDeletes
  <2> QED
    BY <2>1, CleanerReads, WriterReads DEF Next
<1> QED
  BY <1>1, InitReads, TypeCorrect, PTL DEF Spec

\* The cleaner drops nothing but deletes, however many providers there are.
THEOREM OnlyDeletesDropped == Spec => []DropsOnlyDeletes
<1>1. RInv => DropsOnlyDeletes
  BY DEF RInv, Kept
<1> QED
  BY <1>1, ReadInv, PTL

-----------------------------------------------------------------------------
(* The first change of an element. *)

\* There is no change before p that keeps its own from being written.
First(lists, p) ==
    \A q \in Places(lists) :
      Before(q, p) /\ At(lists, q).element.eid = At(lists, p).element.eid
        => format = "sql" /\ ~Real(At(lists, q))

\* Elements are noted only when a change of theirs has been read, in an SQL file a real one.
NotedRead ==
    /\ \A x \in (parsedChangeIds \cup {changeElement}) \ {Null} :
         \E p \in Past : At(Lists, p).element.eid = x
    /\ format = "sql" =>
         /\ last = "Unknown"
         /\ \A x \in parsedChangeIds : \E p \in Past : At(Lists, p).element.eid = x /\ Real(At(Lists, p))

\* What had to be written of what has been read is in the file.
WrittenSoFar ==
    pc # "clean" =>
      \A p \in Past :
        Real(At(Lists, p)) /\ First(Lists, p) =>
          \E i \in DOMAIN file : file[i].of = At(Lists, p).element.eid /\ file[i].type = At(Lists, p).type

WInv == NotedRead /\ WrittenSoFar

\* Reading a change that is noted and written as it should be.
LEMMA ReadNoted ==
  ASSUME TypeOK, RInv, WInv, pc = "write", HasChange, ReadChange, Lists' = Lists, UNCHANGED <<format, clean, pc>>,
         changeElement' = Current.element.eid,
         parsedChangeIds' \subseteq parsedChangeIds \cup {Current.element.eid},
         format = "sql" => last' = "Unknown" /\ (parsedChangeIds' \subseteq parsedChangeIds \/ Real(Current)),
         \A i \in DOMAIN file : i \in DOMAIN file' /\ file'[i] = file[i],
         Real(Current) /\ Current.element.eid \notin parsedChangeIds =>
           \E i \in DOMAIN file' : file'[i].of = Current.element.eid /\ file'[i].type = Current.type
  PROVE  WInv'
<1>1. Rest(Lists, providers)
  BY DEF RInv
<1>2. PICK p \in Places(Lists) : /\ At(Lists, p) = Current
                                 /\ Past' = Past \cup {p}
                                 /\ \A q \in Places(Lists) : Before(q, p) <=> q \in Past
  BY <1>1, Reading
<1>3. Past \subseteq Places(Lists)
  BY DEF Past, ReadPlaces
<1>4. \A c : Real(c)' <=> Real(c)
  BY DEF Real
<1>5. \A q : First(Lists, q)' <=> First(Lists, q)
  BY <1>4 DEF First
<1>6. NotedRead'
  <2>1. \A x \in (parsedChangeIds' \cup {changeElement'}) \ {Null} : \E q \in Past' : At(Lists, q).element.eid = x
    BY <1>2 DEF WInv, NotedRead
  <2>2. format = "sql" =>
          \A x \in parsedChangeIds' : \E q \in Past' : At(Lists, q).element.eid = x /\ Real(At(Lists, q))
    BY <1>2 DEF WInv, NotedRead
  <2> QED
    BY <1>4, <2>1, <2>2 DEF NotedRead
<1>7. First(Lists, p) => Current.element.eid \notin parsedChangeIds
  <2> SUFFICES ASSUME First(Lists, p), Current.element.eid \in parsedChangeIds PROVE FALSE
    OBVIOUS
  <2>1. Current.element.eid \in ElementIds /\ Current.element.eid # Null
    BY ReadFacts, FileAssumption
  <2>2. PICK q \in Past : /\ At(Lists, q).element.eid = Current.element.eid
                          /\ format = "sql" => Real(At(Lists, q))
    BY <2>1 DEF WInv, NotedRead
  <2>3. q \in Places(Lists) /\ Before(q, p)
    BY <1>2, <1>3
  <2> QED
    BY <1>2, <2>2, <2>3 DEF First
<1>8. WrittenSoFar'
  <2> SUFFICES ASSUME NEW q \in Past', Real(At(Lists, q)), First(Lists, q)
               PROVE  \E i \in DOMAIN file' : file'[i].of = At(Lists, q).element.eid /\ file'[i].type = At(Lists, q).type
    BY <1>4, <1>5 DEF WrittenSoFar
  <2>1. CASE q = p
    BY <1>2, <1>7, <2>1
  <2>2. CASE q # p
    <3>1. q \in Past
      BY <1>2, <2>2
    <3>2. PICK i \in DOMAIN file : file[i].of = At(Lists, q).element.eid /\ file[i].type = At(Lists, q).type
      BY <3>1 DEF WInv, WrittenSoFar
    <3> QED
      BY <3>2
  <2> QED
    BY <2>1, <2>2
<1> QED
  BY <1>6, <1>8 DEF WInv

\* What the writer writes of a change follows what is there.
LEMMA Appended ==
  ASSUME TypeOK, NEW c \in Change, c.type # "Unknown", WriteElement(c)
  PROVE  /\ \A i \in DOMAIN file : i \in DOMAIN file' /\ file'[i] = file[i]
         /\ \E i \in DOMAIN file' : file'[i].of = c.element.eid /\ file'[i].type = c.type
<1>1. PICK s \in Statement : file' = Append(file, s) /\ s.of = c.element.eid /\ s.type = c.type
  BY WriteFacts
<1>2. file \in Seq(Statement)
  BY DEF TypeOK
<1>3. /\ DOMAIN file = 1..Len(file) /\ DOMAIN file' = 1..(Len(file) + 1) /\ Len(file) \in Nat
      /\ file'[Len(file) + 1] = s /\ \A i \in 1..Len(file) : file'[i] = file[i]
  BY <1>1, <1>2
<1>4. Len(file) + 1 \in DOMAIN file' /\ DOMAIN file \subseteq DOMAIN file'
  BY <1>3
<1> QED
  BY <1>1, <1>3, <1>4

\* The writer notes what it reads and writes what is the first change of its element.
LEMMA WriterNotes == ASSUME TypeOK, AtHand, RInv, WInv, Write PROVE WInv'
<1> USE DEF readVars, cleanVars, writeVars
<1>1. /\ Lists' = Lists /\ pc # "clean" /\ pc' # "clean" /\ UNCHANGED <<format, clean>>
  BY WriterReads
<1>2. format = "sql" => last = "Unknown"
  BY DEF WInv, NotedRead
<1>3. \A c : Real(c)' <=> Real(c)
  BY <1>1 DEF Real
<1>4. ASSUME Past' = Past, UNCHANGED file, parsedChangeIds' \cup {changeElement'} \subseteq parsedChangeIds \cup {changeElement, Null},
             format = "sql" => UNCHANGED <<parsedChangeIds, last>>
      PROVE  WInv'
  BY <1>1, <1>3, <1>4 DEF WInv, NotedRead, WrittenSoFar, First
<1>5. CASE SkipChange
  <2>1. ~Real(Current) \/ Current.element.eid \in parsedChangeIds
    BY <1>5 DEF SkipChange, Skips, Real
  <2> QED
    BY <1>1, <1>2, <1>5, <2>1, ReadNoted DEF SkipChange
<1>6. CASE RefuseChange
  BY <1>1, <1>4, <1>6 DEF RefuseChange, Past
<1>7. CASE WriteXmlChange
  <2>1. Current \in Change
    BY <1>7, ReadFacts DEF WriteXmlChange
  <2>2. /\ \A i \in DOMAIN file : i \in DOMAIN file' /\ file'[i] = file[i]
        /\ Real(Current) => \E i \in DOMAIN file' : file'[i].of = Current.element.eid /\ file'[i].type = Current.type
    <3>1. CASE Current.type = "Unknown"
      BY <1>7, <3>1 DEF WriteXmlChange, Real
    <3>2. CASE Current.type # "Unknown"
      BY <1>7, <2>1, <3>2, Appended DEF WriteXmlChange
    <3> QED
      BY <3>1, <3>2
  <2>3. parsedChangeIds' \subseteq parsedChangeIds \cup {Current.element.eid} /\ format # "sql"
    BY <1>7 DEF WriteXmlChange, NoteFirstOfSection
  <2> QED
    BY <1>1, <1>7, <2>2, <2>3, ReadNoted DEF WriteXmlChange
<1>8. CASE WriteSqlChange
  <2>1. Current \in Change
    BY <1>8, ReadFacts DEF WriteSqlChange
  <2>2. /\ \A i \in DOMAIN file : i \in DOMAIN file' /\ file'[i] = file[i]
        /\ Real(Current) => \E i \in DOMAIN file' : file'[i].of = Current.element.eid /\ file'[i].type = Current.type
    <3>1. CASE Current.type = "Unknown"
      BY <1>8, <3>1 DEF WriteSqlChange, Real
    <3>2. CASE Current.type # "Unknown"
      BY <1>8, <2>1, <3>2, Appended DEF WriteSqlChange
    <3> QED
      BY <3>1, <3>2
  <2>3. /\ parsedChangeIds' \subseteq parsedChangeIds \cup {Current.element.eid}
        /\ parsedChangeIds' \subseteq parsedChangeIds \/ Real(Current)
    BY <1>8 DEF WriteSqlChange, NoteWritten, Skips, Real
  <2> QED
    BY <1>1, <1>2, <1>8, <2>2, <2>3, ReadNoted DEF WriteSqlChange
<1>9. CASE NextProvider
  <2>1. Past' = Past
    BY <1>1, <1>9, GoingOn DEF RInv, NextProvider
  <2>2. parsedChangeIds' \cup {changeElement'} \subseteq parsedChangeIds \cup {changeElement, Null}
    BY <1>9 DEF NextProvider
  <2> QED
    BY <1>2, <1>4, <1>9, <2>1, <2>2 DEF NextProvider
<1>10. CASE Finish
  BY <1>1, <1>4, <1>10 DEF Finish, Past
<1> QED
  BY <1>5, <1>6, <1>7, <1>8, <1>9, <1>10 DEF Write

\* While changes are cleaned nothing is noted or written.
LEMMA CleanerNotes == ASSUME TypeOK, RInv, WInv, Clean PROVE WInv'
<1> USE DEF readVars, cleanVars, writeVars
<1>1. /\ pc = "clean" /\ UNCHANGED <<format, clean, changeElement, last, parsedChangeIds, file>>
      /\ pc' # "clean" => EndCleaning
  BY DEF Clean, DiscardDelete, TakeChange, NextProviderToClean, EndCleaning
<1>2. parsedChangeIds = {} /\ changeElement = Null /\ clean
  BY <1>1 DEF RInv, Kept
<1>3. format = "sql" => last = "Unknown"
  BY DEF WInv, NotedRead
<1>4. NotedRead'
  BY <1>1, <1>2, <1>3 DEF NotedRead
<1>5. WrittenSoFar'
  <2>1. CASE pc' = "clean"
    BY <2>1 DEF WrittenSoFar
  <2>2. CASE pc' # "clean"
    <3>1. providers' = <<changes>> /\ Lists' = <<changes>> /\ <<changes>> \in Seq(Seq(Change))
      BY <1>1, <1>2, <2>2 DEF EndCleaning, Lists, Given, TypeOK
    <3>2. Past' = {}
      BY <3>1, NothingRead DEF Past
    <3> QED
      BY <3>2 DEF WrittenSoFar
  <2> QED
    BY <2>1, <2>2
<1> QED
  BY <1>4, <1>5 DEF WInv

\* Elements are noted when their changes are read, and first changes are written, in every state.
LEMMA NoteInv == Spec => []WInv
<1>1. Init => WInv
  <2> SUFFICES ASSUME Init PROVE WInv
    OBVIOUS
  <2>1. Past = {}
    <3>1. input \in Inputs /\ providers = Providers(input) /\ Lists = Providers(input)
      BY DEF Init, Lists, Given
    <3> QED
      BY <3>1, ProvidersType, NothingRead DEF Past
  <2> QED
    BY <2>1 DEF Init, WInv, NotedRead, WrittenSoFar
<1>2. TypeOK /\ AtHand /\ RInv /\ WInv /\ [Next]_fileVars => WInv'
  <2> SUFFICES ASSUME TypeOK, AtHand, RInv, WInv, [Next]_fileVars PROVE WInv'
    OBVIOUS
  <2>1. CASE UNCHANGED fileVars
    <3> USE <2>1 DEF fileVars, readVars, cleanVars, writeVars
    <3>1. Lists' = Lists /\ Past' = Past
      BY DEF Lists, Given, Past
    <3> QED
      BY <3>1 DEF WInv, NotedRead, WrittenSoFar, First, Real
  <2> QED
    BY <2>1, CleanerNotes, WriterNotes DEF Next
<1>3. IInv => TypeOK /\ AtHand
  BY DEF IInv
<1> QED
  BY <1>1, <1>2, <1>3, ReadInv, Invariance, PTL DEF Spec

\* The first change of an element is written if it is a real one within the bounds; an SQL file
\* has the first such change even if it comes after others.
THEOREM FirstIsWritten == Spec => []FirstChangeWritten
<1>1. TypeOK /\ RInv /\ WInv => FirstChangeWritten
  <2> SUFFICES ASSUME TypeOK, RInv, WInv, pc = "done" PROVE FirstChangeWritten
    BY DEF FirstChangeWritten
  <2>1. Lists = Given /\ Past = Places(Given)
    BY PastAtEnd DEF RInv, Lists
  <2> QED
    BY <2>1 DEF WInv, WrittenSoFar, First, FirstChangeWritten
<1> QED
  BY <1>1, TypeCorrect, ReadInv, NoteInv, PTL

-----------------------------------------------------------------------------
(* References to new elements. *)

\* NewComeFirst, of a list of changes.
NewFirstIn(given) ==
    \A k \in DOMAIN given :
      LET c == given[k]
      IN /\ c.element.eid.id <= 0 => c.type = "Create" /\ ~c.element.outside
         /\ c.type \in {"Create", "Modify"} =>
              \A r \in ToSet(c.element.refs) :
                /\ r # c.element.eid
                /\ r.id <= 0 => \E l \in 1..(k - 1) : given[l].element.eid = r

\* The new elements that have been read have got ids, which are those of created elements.
Introduced ==
    /\ pc # "clean" => \A p \in Past : At(Lists, p).element.eid.id <= 0 => At(Lists, p).element.eid \in DOMAIN newIds
    /\ \A x \in DOMAIN newIds : \E j \in Creates : file[j].eid = newIds[x]

\* RefsResolve, at any time.
RefsSoFar ==
    \A i \in DOMAIN file : file[i].type # "Delete" =>
      \A r \in ToSet(file[i].refs) : r.id <= 0 \/ r.id >= FirstId =>
        \E j \in Creates : j < i /\ file[j].eid = r

NInv == NewFirstIn(changes) /\ Introduced /\ RefsSoFar

\* The hypothesis, of what the writer reads.
LEMMA ProvidersInOrder ==
  ASSUME NewComeFirst(Inputs), TypeOK
  PROVE  \A i \in DOMAIN Providers(input) : NewFirstIn(Providers(input)[i])
<1>1. input \in Inputs
  BY DEF TypeOK
<1>2. \A i \in DOMAIN input : Providers(input)[i] = Derived(input[i])
  BY DEF Providers
<1>3. DOMAIN Providers(input) = DOMAIN input
  BY DEF Providers
<1>4. \A i \in DOMAIN input : NewFirstIn(Derived(input[i]))
  BY <1>1 DEF NewComeFirst, NewFirstIn
<1> QED
  BY <1>2, <1>3, <1>4

LEMMA ListsInOrder ==
  ASSUME NewComeFirst(Inputs), TypeOK, NewFirstIn(changes), NEW i \in DOMAIN Lists
  PROVE  NewFirstIn(Lists[i])
<1>1. CASE Lists = Providers(input)
  BY <1>1, ProvidersInOrder
<1>2. CASE Lists = <<changes>>
  BY <1>2
<1> QED
  BY <1>1, <1>2 DEF Lists, Given

\* Of a change that is read the element and its references are as the hypothesis says, and the
\* elements referred to have been read.
LEMMA ReadInOrder ==
  ASSUME NewComeFirst(Inputs), TypeOK, NewFirstIn(changes), NEW p \in Places(Lists)
  PROVE  LET c == At(Lists, p)
         IN /\ c.element.eid.id <= 0 => c.type = "Create" /\ ~c.element.outside
            /\ c.type \in {"Create", "Modify"} =>
                 \A r \in ToSet(c.element.refs) :
                   /\ r # c.element.eid
                   /\ r.id <= 0 => \E q \in Places(Lists) : Before(q, p) /\ At(Lists, q).element.eid = r
<1>1. PICK i \in DOMAIN Lists : \E k \in DOMAIN Lists[i] : p = <<i, k>>
  BY PlaceOf
<1>2. PICK k \in DOMAIN Lists[i] : p = <<i, k>>
  BY <1>1
<1>3. At(Lists, p) = Lists[i][k]
  BY <1>2 DEF At
<1>4. NewFirstIn(Lists[i])
  BY ListsInOrder
<1>5. Lists[i] \in Seq(Change)
  BY ListsType
<1>6. \A l \in 1..(k - 1) : <<i, l>> \in Places(Lists) /\ Before(<<i, l>>, p) /\ At(Lists, <<i, l>>) = Lists[i][l]
  <2> TAKE l \in 1..(k - 1)
  <2>1. DOMAIN Lists[i] = 1..Len(Lists[i]) /\ k \in Nat /\ Len(Lists[i]) \in Nat
    BY <1>5
  <2>2. l \in DOMAIN Lists[i] /\ l < k
    BY <2>1
  <2> QED
    BY <1>2, <2>2, PlaceOf DEF Before, At
<1> HIDE DEF NewFirstIn
<1>7. /\ Lists[i][k].element.eid.id <= 0 => Lists[i][k].type = "Create" /\ ~Lists[i][k].element.outside
      /\ Lists[i][k].type \in {"Create", "Modify"} =>
           \A r \in ToSet(Lists[i][k].element.refs) :
             /\ r # Lists[i][k].element.eid
             /\ r.id <= 0 => \E l \in 1..(k - 1) : Lists[i][l].element.eid = r
  BY <1>4 DEF NewFirstIn
<1>8. ASSUME NEW r, \E l \in 1..(k - 1) : Lists[i][l].element.eid = r
      PROVE  \E q \in Places(Lists) : Before(q, p) /\ At(Lists, q).element.eid = r
  <2>1. PICK l \in 1..(k - 1) : Lists[i][l].element.eid = r
    BY <1>8
  <2> QED
    BY <1>6, <2>1
<1> QED
  BY <1>3, <1>7, <1>8

\* What the cleaner keeps is in that order, too.
LEMMA CleanerInOrder ==
  ASSUME NewComeFirst(Inputs), TypeOK, RInv, NewFirstIn(changes), TakeChange
  PROVE  NewFirstIn(changes')
<1> DEFINE n == Len(changes) + 1
<1>1. pc = "clean" /\ Lists' = Lists /\ HasChange /\ ReadChange /\ changes' = Append(changes, Current)
  BY DEF TakeChange, readVars, writeVars, Lists
<1>2. Current \in Change /\ changes \in Seq(Change) /\ Rest(Lists, providers)
  BY <1>1, ReadFacts DEF TypeOK, RInv
<1>3. PICK p \in Places(Lists) : At(Lists, p) = Current /\ \A q \in Places(Lists) : Before(q, p) <=> q \in Past
  BY <1>1, <1>2, Reading
<1>4. /\ DOMAIN changes' = 1..n /\ DOMAIN changes = 1..(n - 1) /\ n \in Nat
      /\ changes'[n] = Current /\ \A j \in 1..(n - 1) : changes'[j] = changes[j]
  BY <1>1, <1>2
<1> HIDE DEF n
<1>5. /\ Current.element.eid.id <= 0 => Current.type = "Create" /\ ~Current.element.outside
      /\ Current.type \in {"Create", "Modify"} =>
           \A r \in ToSet(Current.element.refs) :
             /\ r # Current.element.eid
             /\ r.id <= 0 => \E q \in Places(Lists) : Before(q, p) /\ At(Lists, q).element.eid = r
  BY <1>3, ReadInOrder
<1>6. ASSUME NEW q \in Places(Lists), Before(q, p), At(Lists, q).element.eid.id <= 0
      PROVE  \E l \in 1..(n - 1) : changes'[l].element.eid = At(Lists, q).element.eid
  <2>1. At(Lists, q).type = "Create"
    BY <1>6, ReadInOrder
  <2>2. At(Lists, q) \in ToSet(changes)
    BY <1>1, <1>3, <1>6, <2>1 DEF RInv, Kept
  <2>3. PICK l \in DOMAIN changes : changes[l] = At(Lists, q)
    BY <2>2 DEF ToSet
  <2> QED
    BY <1>4, <2>3
<1>7. SUFFICES ASSUME NEW k \in 1..n
               PROVE  /\ changes'[k].element.eid.id <= 0 => changes'[k].type = "Create" /\ ~changes'[k].element.outside
                      /\ changes'[k].type \in {"Create", "Modify"} =>
                           \A r \in ToSet(changes'[k].element.refs) :
                             /\ r # changes'[k].element.eid
                             /\ r.id <= 0 => \E l \in 1..(k - 1) : changes'[l].element.eid = r
  BY <1>4 DEF NewFirstIn
<1>8. CASE k = n
  <2> SUFFICES ASSUME Current.type \in {"Create", "Modify"}, NEW r \in ToSet(Current.element.refs), r.id <= 0
               PROVE  \E l \in 1..(n - 1) : changes'[l].element.eid = r
    BY <1>4, <1>5, <1>8
  <2>1. PICK q \in Places(Lists) : Before(q, p) /\ At(Lists, q).element.eid = r
    BY <1>5
  <2> QED
    BY <1>6, <2>1
<1>9. CASE k # n
  <2>1. k \in DOMAIN changes /\ changes'[k] = changes[k] /\ \A l \in 1..(k - 1) : changes'[l] = changes[l]
    BY <1>4, <1>9
  <2>2. /\ changes[k].element.eid.id <= 0 => changes[k].type = "Create" /\ ~changes[k].element.outside
        /\ changes[k].type \in {"Create", "Modify"} =>
             \A r \in ToSet(changes[k].element.refs) :
               /\ r # changes[k].element.eid
               /\ r.id <= 0 => \E l \in 1..(k - 1) : changes[l].element.eid = r
    BY <2>1 DEF NewFirstIn
  <2> QED
    BY <2>1, <2>2
<1> QED
  BY <1>8, <1>9

\* Where all new references have names no other numbers are given out.
LEMMA NoneUnnamed ==
  ASSUME NEW c, c.type # "Delete" => \A r \in ToSet(c.element.refs) : r.id <= 0 => r \in DOMAIN newIds
  PROVE  Unnamed(RefsOf(c), Names(c)) = {}
<1>1. DOMAIN newIds \subseteq DOMAIN Names(c)
  BY DEF Names, With
<1>2. CASE c.type = "Delete"
  BY <1>2 DEF Unnamed, RefsOf
<1>3. CASE c.type # "Delete"
  <2>1. RefsOf(c) = c.element.refs
    BY <1>3 DEF RefsOf
  <2>2. \A i \in DOMAIN c.element.refs : c.element.refs[i].id <= 0 => c.element.refs[i] \in DOMAIN Names(c)
    BY <1>1, <1>3 DEF ToSet
  <2> QED
    BY <2>1, <2>2 DEF Unnamed
<1> QED
  BY <1>2, <1>3

\* Writing a change of an element all of whose new references have been created.
LEMMA WriteResolved ==
  ASSUME TypeOK, Introduced, RefsSoFar, NEW c \in Change, c.type # "Unknown", WriteElement(c),
         c.type # "Delete" =>
           \A r \in ToSet(c.element.refs) : r # c.element.eid /\ (r.id <= 0 => r \in DOMAIN newIds)
  PROVE  /\ RefsSoFar'
         /\ \A x \in DOMAIN newIds' : \E j \in Creates' : file'[j].eid = newIds'[x]
         /\ DOMAIN newIds \subseteq DOMAIN newIds'
         /\ c.type = "Create" => c.element.eid \in DOMAIN newIds'
<1> DEFINE eid == c.element.eid
           refs == RefsOf(c)
           names == Names(c)
           n == Len(file) + 1
           s == [type |-> c.type, eid |-> IF c.type = "Create" THEN newIds'[eid] ELSE eid,
                 refs |-> Renamed(refs, newIds'), of |-> eid]
<1>1. /\ DOMAIN newIds \subseteq DOMAIN names
      /\ c.type = "Create" => DOMAIN names = DOMAIN newIds \cup {eid}
      /\ c.type # "Create" => names = newIds
      /\ \A x \in DOMAIN newIds : x # eid => names[x] = newIds[x]
  BY DEF Names, With
<1>2. c.type # "Delete" => refs = c.element.refs
  BY DEF RefsOf
<1>3. Unnamed(refs, names) = {}
  BY NoneUnnamed
<1>4. newIds' = Named(refs, names, Numbers(c)) /\ file' = Append(file, s)
  BY DEF WriteElement
<1>5. DOMAIN newIds' = DOMAIN names /\ \A x \in DOMAIN names : newIds'[x] = names[x]
  BY <1>3, <1>4 DEF Named
<1>6. file \in Seq(Statement)
  BY DEF TypeOK
<1> HIDE DEF s, names, refs
<1>7. /\ DOMAIN file = 1..(n - 1) /\ DOMAIN file' = 1..n /\ n \in Nat /\ n \in 1..n
      /\ file'[n] = s /\ \A i \in 1..(n - 1) : file'[i] = file[i]
  <2>1. Len(file) \in Nat /\ DOMAIN file = 1..Len(file)
    BY <1>6
  <2>2. file' = Append(file, s) /\ DOMAIN file' = 1..(Len(file) + 1) /\ file'[Len(file) + 1] = s
    BY <1>4, <1>6
  <2>3. \A i \in 1..Len(file) : file'[i] = file[i]
    BY <1>4, <1>6
  <2> QED
    BY <2>1, <2>2, <2>3
<1> HIDE DEF n
<1>8. s.type = c.type /\ (c.type = "Create" => s.eid = newIds'[eid]) /\ s.refs = Renamed(refs, newIds')
  BY DEF s
<1>9. \A j \in Creates : j \in Creates' /\ file'[j] = file[j] /\ j \in 1..(n - 1)
  BY <1>7 DEF Creates
<1>10. \A x \in DOMAIN newIds' : \E j \in Creates' : file'[j].eid = newIds'[x]
  <2> TAKE x \in DOMAIN newIds'
  <2>1. CASE c.type = "Create" /\ x = eid
    <3>1. n \in Creates' /\ file'[n] = s
      BY <1>7, <1>8, <2>1 DEF Creates
    <3> QED
      BY <1>8, <2>1, <3>1
  <2>2. CASE ~(c.type = "Create" /\ x = eid)
    <3>1. x \in DOMAIN newIds /\ newIds'[x] = newIds[x]
      BY <1>1, <1>5, <2>2
    <3>2. PICK j \in Creates : file[j].eid = newIds[x]
      BY <3>1 DEF Introduced
    <3> QED
      BY <1>9, <3>1, <3>2
  <2> QED
    BY <2>1, <2>2
<1>11. RefsSoFar'
  <2> SUFFICES ASSUME NEW i \in 1..n, file'[i].type # "Delete", NEW r \in ToSet(file'[i].refs),
                      r.id <= 0 \/ r.id >= FirstId
               PROVE  \E j \in Creates' : j < i /\ file'[j].eid = r
    BY <1>7 DEF RefsSoFar
  <2>1. CASE i # n
    <3>1. i \in DOMAIN file /\ file'[i] = file[i]
      BY <1>7, <2>1
    <3>2. PICK j \in Creates : j < i /\ file[j].eid = r
      BY <3>1 DEF RefsSoFar
    <3> QED
      BY <1>9, <3>2
  <2>2. CASE i = n
    <3>1. c.type # "Delete" /\ r \in ToSet(Renamed(c.element.refs, newIds'))
      BY <1>2, <1>7, <1>8, <2>2
    <3>2. PICK k \in DOMAIN c.element.refs :
            r = (IF c.element.refs[k] \in DOMAIN newIds' THEN newIds'[c.element.refs[k]] ELSE c.element.refs[k])
      BY <3>1 DEF ToSet, Renamed
    <3> DEFINE q == c.element.refs[k]
    <3>3. q # eid /\ (q.id <= 0 => q \in DOMAIN newIds)
      BY <3>1 DEF ToSet
    <3>4. c.element \in Element
      BY DEF Change
    <3>5. q.id < FirstId /\ q.id \in Int /\ FirstId \in Nat
      <4>1. c.element.refs \in Seq(ElementIds) /\ \A m \in DOMAIN c.element.refs : c.element.refs[m].id < FirstId
        BY <3>4, FileAssumption
      <4>2. q \in ElementIds
        BY <4>1
      <4> QED
        BY <4>1, <4>2, FileAssumption DEF ElementIds
    <3>6. q \in DOMAIN newIds'
      <4> SUFFICES ASSUME q \notin DOMAIN newIds' PROVE FALSE
        OBVIOUS
      <4>1. r = q /\ q \notin DOMAIN newIds
        BY <1>1, <1>5, <3>2
      <4> HIDE DEF q
      <4> QED
        BY <3>3, <3>5, <4>1
    <3>7. q \in DOMAIN newIds /\ r = newIds[q]
      BY <1>1, <1>5, <3>2, <3>3, <3>6
    <3>8. PICK j \in Creates : file[j].eid = r
      BY <3>7 DEF Introduced
    <3>9. j < n
      BY <1>7, <1>9
    <3> QED
      BY <1>9, <2>2, <3>8, <3>9
  <2> QED
    BY <2>1, <2>2
<1> QED
  BY <1>1, <1>5, <1>10, <1>11

\* All new elements that the change at hand refers to have ids.
LEMMA CurrentInOrder ==
  ASSUME NewComeFirst(Inputs), TypeOK, NInv, pc # "clean", Rest(Lists, providers), HasChange, ReadChange, Lists' = Lists
  PROVE  /\ Current.element.eid.id <= 0 => Current.type = "Create" /\ ~Current.element.outside
         /\ Current.type \in {"Create", "Modify"} =>
              \A r \in ToSet(Current.element.refs) :
                r # Current.element.eid /\ (r.id <= 0 => r \in DOMAIN newIds)
<1>1. PICK p \in Places(Lists) : At(Lists, p) = Current /\ \A q \in Places(Lists) : Before(q, p) <=> q \in Past
  BY Reading
<1>2. /\ Current.element.eid.id <= 0 => Current.type = "Create" /\ ~Current.element.outside
      /\ Current.type \in {"Create", "Modify"} =>
           \A r \in ToSet(Current.element.refs) :
             /\ r # Current.element.eid
             /\ r.id <= 0 => \E q \in Places(Lists) : Before(q, p) /\ At(Lists, q).element.eid = r
  BY <1>1, ReadInOrder DEF NInv
<1> QED
  BY <1>1, <1>2 DEF NInv, Introduced

\* Every new element that is read gets its id, and every reference is to one that has got it.
LEMMA WriterNames == ASSUME NewComeFirst(Inputs), TypeOK, RInv, WInv, NInv, Write PROVE NInv'
<1> USE DEF readVars, cleanVars, writeVars
<1>1. /\ Lists' = Lists /\ pc # "clean" /\ pc' # "clean" /\ UNCHANGED <<format, clean, changes>>
  BY WriterReads
<1>2. NewFirstIn(changes)' /\ Introduced /\ RefsSoFar /\ Rest(Lists, providers)
  BY <1>1 DEF NInv, RInv
<1>3. ASSUME Past' = Past, UNCHANGED <<newIds, file>>
      PROVE  NInv'
  BY <1>1, <1>2, <1>3 DEF NInv, Introduced, RefsSoFar, Creates
<1>4. ASSUME HasChange, ReadChange, RefsSoFar', \A x \in DOMAIN newIds' : \E j \in Creates' : file'[j].eid = newIds'[x],
             DOMAIN newIds \subseteq DOMAIN newIds',
             Current.element.eid.id <= 0 => Current.element.eid \in DOMAIN newIds'
      PROVE  NInv'
  <2>1. PICK p \in Places(Lists) : At(Lists, p) = Current /\ Past' = Past \cup {p}
    BY <1>1, <1>2, <1>4, Reading
  <2>2. \A q \in Past' : At(Lists, q).element.eid.id <= 0 => At(Lists, q).element.eid \in DOMAIN newIds'
    BY <1>1, <1>2, <1>4, <2>1 DEF Introduced
  <2> QED
    BY <1>1, <1>2, <1>4, <2>2 DEF NInv, Introduced
<1>5. ASSUME HasChange, ReadChange
      PROVE  /\ Current.element.eid.id <= 0 => Current.type = "Create" /\ ~Current.element.outside
             /\ Current.type \in {"Create", "Modify"} =>
                  \A r \in ToSet(Current.element.refs) :
                    r # Current.element.eid /\ (r.id <= 0 => r \in DOMAIN newIds)
  BY <1>1, <1>5, CurrentInOrder DEF RInv
<1>6. CASE SkipChange
  <2>1. HasChange /\ ReadChange /\ Skips /\ UNCHANGED <<newIds, file>>
    BY <1>6 DEF SkipChange
  <2>2. ASSUME Current.element.eid.id <= 0 PROVE Current.element.eid \in DOMAIN newIds
    <3>1. Current.element.eid \in parsedChangeIds /\ Current.element.eid # Null
      BY <1>5, <2>1, <2>2, ReadFacts, FileAssumption DEF Skips
    <3>2. PICK q \in Past : At(Lists, q).element.eid = Current.element.eid
      BY <3>1 DEF WInv, NotedRead
    <3> QED
      BY <1>1, <1>2, <2>2, <3>2 DEF Introduced
  <2>3. RefsSoFar' /\ \A x \in DOMAIN newIds' : \E j \in Creates' : file'[j].eid = newIds'[x]
    BY <1>2, <2>1 DEF RefsSoFar, Introduced, Creates
  <2> QED
    BY <1>4, <2>1, <2>2, <2>3
<1>7. CASE RefuseChange
  BY <1>1, <1>3, <1>7 DEF RefuseChange, Past
<1>8. CASE WriteXmlChange \/ WriteSqlChange
  <2>1. /\ HasChange /\ ReadChange
        /\ Current.type = "Unknown" => UNCHANGED <<newIds, file>>
        /\ Current.type # "Unknown" => WriteElement(Current)
    BY <1>8 DEF WriteXmlChange, WriteSqlChange
  <2>2. Current \in Change /\ Current.type \in ChangeType
    BY <2>1, ReadFacts DEF Change
  <2>3. CASE Current.type = "Unknown"
    <3>1. RefsSoFar' /\ \A x \in DOMAIN newIds' : \E j \in Creates' : file'[j].eid = newIds'[x]
      BY <1>2, <2>1, <2>3 DEF RefsSoFar, Introduced, Creates
    <3>2. ~(Current.element.eid.id <= 0)
      BY <1>5, <2>1, <2>3
    <3> QED
      BY <1>4, <2>1, <2>3, <3>1, <3>2
  <2>4. CASE Current.type # "Unknown"
    <3>1. Current.type # "Delete" =>
            \A r \in ToSet(Current.element.refs) : r # Current.element.eid /\ (r.id <= 0 => r \in DOMAIN newIds)
      BY <1>5, <2>1, <2>2, <2>4 DEF ChangeType
    <3>2. /\ RefsSoFar'
          /\ \A x \in DOMAIN newIds' : \E j \in Creates' : file'[j].eid = newIds'[x]
          /\ DOMAIN newIds \subseteq DOMAIN newIds'
          /\ Current.type = "Create" => Current.element.eid \in DOMAIN newIds'
      BY <1>2, <2>1, <2>2, <2>4, <3>1, WriteResolved
    <3> QED
      BY <1>4, <1>5, <2>1, <3>2
  <2> QED
    BY <2>3, <2>4
<1>9. CASE NextProvider
  <2>1. Past' = Past
    BY <1>1, <1>2, <1>9, GoingOn DEF NextProvider
  <2> QED
    BY <1>3, <1>9, <2>1 DEF NextProvider
<1>10. CASE Finish
  BY <1>1, <1>3, <1>10 DEF Finish, Past
<1> QED
  BY <1>6, <1>7, <1>8, <1>9, <1>10 DEF Write

\* While changes are cleaned there are no names.
LEMMA CleanerNames == ASSUME NewComeFirst(Inputs), TypeOK, RInv, NInv, Clean PROVE NInv'
<1> USE DEF readVars, cleanVars, writeVars
<1>1. /\ pc = "clean" /\ UNCHANGED <<newIds, file>>
      /\ pc' # "clean" => EndCleaning
      /\ changes' # changes => TakeChange
  BY DEF Clean, DiscardDelete, TakeChange, NextProviderToClean, EndCleaning
<1>2. NewFirstIn(changes')
  BY <1>1, CleanerInOrder DEF NInv
<1>3. RefsSoFar'
  BY <1>1 DEF NInv, RefsSoFar, Creates
<1>4. pc' # "clean" => Past' = {}
  <2> HAVE pc' # "clean"
  <2>1. providers' = <<changes>> /\ Lists' = <<changes>> /\ <<changes>> \in Seq(Seq(Change))
    BY <1>1 DEF EndCleaning, Lists, Given, RInv, TypeOK
  <2> QED
    BY <2>1, NothingRead DEF Past
<1>5. Introduced'
  BY <1>1, <1>4 DEF NInv, Introduced, Creates
<1>6. NewFirstIn(changes)'
  BY <1>2 DEF NewFirstIn
<1> QED
  BY <1>3, <1>5, <1>6 DEF NInv

\* New elements that have been read have names, in every state, and references are to those.
LEMMA NamesInv == ASSUME NewComeFirst(Inputs) PROVE Spec => []NInv
<1>1. Init => NInv
  <2> SUFFICES ASSUME Init PROVE NInv
    OBVIOUS
  <2>1. input \in Inputs /\ providers = Providers(input) /\ Lists = Providers(input)
    BY DEF Init, Lists, Given
  <2>2. Past = {}
    BY <2>1, ProvidersType, NothingRead DEF Past
  <2> QED
    BY <2>2 DEF Init, NInv, NewFirstIn, Introduced, RefsSoFar
<1>2. TypeOK /\ RInv /\ WInv /\ NInv /\ [Next]_fileVars => NInv'
  <2> SUFFICES ASSUME TypeOK, RInv, WInv, NInv, [Next]_fileVars PROVE NInv'
    OBVIOUS
  <2>1. CASE UNCHANGED fileVars
    <3> USE <2>1 DEF fileVars, readVars, cleanVars, writeVars
    <3>1. Lists' = Lists /\ Past' = Past
      BY DEF Lists, Given, Past
    <3>2. NewFirstIn(changes)'
      BY DEF NInv, NewFirstIn
    <3> QED
      BY <3>1, <3>2 DEF NInv, Introduced, RefsSoFar, Creates
  <2> QED
    BY <2>1, CleanerNames, WriterNames DEF Next
<1> QED
  BY <1>1, <1>2, TypeCorrect, ReadInv, NoteInv, PTL DEF Spec

\* Where new elements come before those that refer to them, a reference to a new element is
\* written as the id the element has got, and it has been created by then, whichever providers
\* and writer and whether or not the changes were cleaned.
THEOREM ReferencesResolve == ASSUME NewComeFirst(Inputs) PROVE Spec => []RefsResolve
<1>1. NInv => RefsResolve
  BY DEF NInv, RefsSoFar, RefsResolve
<1> QED
  BY <1>1, NamesInv, PTL

-----------------------------------------------------------------------------
(* Executing a file, one statement after the other. *)

\* What holds of 0 and, if of a number, of the next holds of all numbers.
LEMMA Induction ==
  ASSUME NEW S, 0 \in S, \A n \in Nat : n \in S => n + 1 \in S
  PROVE  Nat \subseteq S
<1> SUFFICES ASSUME Nat \ S # {} PROVE FALSE
  OBVIOUS
<1> DEFINE R == OpToRel(<, Nat)
           T == Nat \ S
<1>1. IsWellFoundedOn(R, Nat)
  BY NatLessThanWellFounded, Zenon
<1>2. \A m, n \in Nat : m < n => <<m, n>> \in R
  BY Zenon DEF OpToRel
<1> HIDE DEF R
<1>3. T \subseteq Nat /\ T # {}
  OBVIOUS
<1> HIDE DEF T
<1>4. \E n \in T : \A m \in T : ~(<<m, n>> \in R)
  BY <1>1, <1>3, WFMin
<1>5. PICK n \in T : \A m \in T : ~(m < n)
  BY <1>2, <1>3, <1>4
<1>6. n \in Nat /\ n \notin S /\ n # 0 /\ n - 1 \in Nat /\ n - 1 < n
  BY <1>5 DEF T
<1>7. n - 1 \in S
  BY <1>5, <1>6 DEF T
<1>8. n - 1 + 1 \in S
  BY <1>6, <1>7
<1> QED
  BY <1>6, <1>8

\* The function behind FoldLeft, on the places 1..n of f.
IsFold(g, f, n, base) ==
    g = [s \in SUBSET (1..n) |-> IF s = {} THEN base ELSE Executed(g[s \ {Max(s)}], f[Max(s)])]

LEMMA UpTo ==
  ASSUME NEW k \in Nat
  PROVE  /\ Max(1..k + 1) = k + 1
         /\ 1..k + 1 # {}
         /\ (1..k + 1) \ {k + 1} = 1..k
         /\ \A m \in Nat : k + 1 <= m => 1..k + 1 \in SUBSET (1..m)
<1>1. \A x \in 1..k + 1 : (\A y \in 1..k + 1 : x >= y) => x = k + 1
  OBVIOUS
<1>2. k + 1 \in 1..k + 1 /\ \A y \in 1..k + 1 : k + 1 >= y
  OBVIOUS
<1>3. Max(1..k + 1) = k + 1
  BY <1>1, <1>2 DEF Max
<1>4. ASSUME NEW i PROVE i \in (1..k + 1) \ {k + 1} <=> i \in 1..k
  OBVIOUS
<1>5. \A m \in Nat : k + 1 <= m => 1..k + 1 \in SUBSET (1..m)
  OBVIOUS
<1> QED
  BY <1>2, <1>3, <1>4, <1>5

\* There is one: for one place more, it executes one statement more.
LEMMA FoldExists ==
  ASSUME NEW f, NEW base, NEW n \in Nat
  PROVE  \E g : IsFold(g, f, n, base)
<1> DEFINE S == {k \in Nat : \E g : IsFold(g, f, k, base)}
<1>1. 0 \in S
  <2> DEFINE g == [s \in SUBSET (1..0) |-> base]
  <2>1. IsFold(g, f, 0, base)
    BY DEF IsFold
  <2> QED
    BY <2>1
<1>2. ASSUME NEW k \in Nat, k \in S PROVE k + 1 \in S
  <2>1. PICK g : IsFold(g, f, k, base)
    BY <1>2
  <2> DEFINE h == [s \in SUBSET (1..k + 1) |->
                     IF k + 1 \in s THEN Executed(g[s \ {k + 1}], f[k + 1]) ELSE g[s]]
  <2>2. ASSUME NEW s \in SUBSET (1..k + 1), k + 1 \in s PROVE Max(s) = k + 1
    <3>1. \A x \in s : x \in Nat /\ x <= k + 1
      OBVIOUS
    <3>2. \A x \in s : (\A y \in s : x >= y) => x = k + 1
      BY <2>2, <3>1
    <3>3. \A y \in s : k + 1 >= y
      BY <3>1
    <3> QED
      BY <2>2, <3>2, <3>3 DEF Max
  <2>3. \A s \in SUBSET (1..k + 1) : s \in SUBSET (1..k) <=> k + 1 \notin s
    BY SMT
  <2>4. \A s \in SUBSET (1..k) : g[s] = IF s = {} THEN base ELSE Executed(g[s \ {Max(s)}], f[Max(s)])
    BY <2>1 DEF IsFold
  <2>5. ASSUME NEW s \in SUBSET (1..k + 1)
        PROVE  h[s] = IF s = {} THEN base ELSE Executed(h[s \ {Max(s)}], f[Max(s)])
    <3>1. s \ {k + 1} \in SUBSET (1..k + 1) /\ k + 1 \notin s \ {k + 1}
      OBVIOUS
    <3>2. s \ {Max(s)} \in SUBSET (1..k + 1)
      OBVIOUS
    <3>3. CASE k + 1 \in s
      BY <2>2, <3>1, <3>3
    <3>4. CASE k + 1 \notin s
      BY <2>3, <2>4, <3>2, <3>4
    <3> QED
      BY <3>3, <3>4
  <2>6. IsFold(h, f, k + 1, base)
    <3> HIDE DEF h
    <3>1. h = [s \in SUBSET (1..k + 1) |-> h[s]]
      BY DEF h
    <3>2. [s \in SUBSET (1..k + 1) |-> h[s]]
            = [s \in SUBSET (1..k + 1) |-> IF s = {} THEN base ELSE Executed(h[s \ {Max(s)}], f[Max(s)])]
      BY <2>5
    <3> QED
      BY <3>1, <3>2 DEF IsFold
  <2> QED
    BY <2>6
<1>3. Nat \subseteq S
  BY <1>1, <1>2, Induction
<1> QED
  BY <1>3

LEMMA FoldStep ==
  ASSUME NEW base, NEW f, NEW g, NEW n \in Nat, IsFold(g, f, n, base), NEW k \in Nat, k + 1 <= n
  PROVE  g[1..k + 1] = Executed(g[1..k], f[k + 1])
<1> DEFINE s == 1..k + 1
<1>1. Max(s) = k + 1 /\ s # {} /\ s \ {k + 1} = 1..k /\ s \in SUBSET (1..n)
  BY UpTo
<1> HIDE DEF s
<1>2. g[s] = Executed(g[s \ {Max(s)}], f[Max(s)])
  BY <1>1 DEF IsFold
<1>3. s \ {Max(s)} = 1..k
  BY <1>1
<1>4. g[s] = Executed(g[1..k], f[k + 1])
  BY <1>1, <1>2, <1>3
<1> QED
  BY <1>4 DEF s

\* It depends on nothing but the statements.
LEMMA FoldAgrees ==
  ASSUME NEW base, NEW f1, NEW f2, NEW g1, NEW g2, NEW n1 \in Nat, NEW n2 \in Nat,
         IsFold(g1, f1, n1, base), IsFold(g2, f2, n2, base),
         n1 <= n2, \A i \in 1..n1 : f1[i] = f2[i]
  PROVE  g1[1..n1] = g2[1..n1]
<1> DEFINE S == {k \in Nat : k <= n1 => g1[1..k] = g2[1..k]}
<1>1. \A m \in Nat : 1..0 = {} /\ {} \in SUBSET (1..m)
  OBVIOUS
<1>2. 0 \in S
  BY <1>1 DEF IsFold
<1>3. ASSUME NEW k \in Nat, g1[1..k] = g2[1..k], k + 1 <= n1
      PROVE  g1[1..k + 1] = g2[1..k + 1]
  <2> HIDE DEF S
  <2>1. k + 1 \in 1..n1 /\ k + 1 <= n2
    BY <1>3
  <2>2. g1[1..k + 1] = Executed(g1[1..k], f1[k + 1])
    BY <1>3, FoldStep
  <2>3. g2[1..k + 1] = Executed(g2[1..k], f2[k + 1])
    BY <2>1, FoldStep
  <2> QED
    BY <1>3, <2>1, <2>2, <2>3
<1>4. \A k \in Nat : k \in S => k + 1 \in S
  BY <1>3
<1>5. Nat \subseteq S
  <2> HIDE DEF S
  <2> QED
    BY <1>2, <1>4, Induction
<1> QED
  BY <1>5

LEMMA FoldIs ==
  ASSUME NEW base, NEW f, NEW n \in Nat, DOMAIN f = 1..n
  PROVE  \E g : IsFold(g, f, n, base) /\ FoldLeft(Executed, base, f) = g[1..n]
<1> DEFINE g == CHOOSE h : IsFold(h, f, n, base)
<1>1. IsFold(g, f, n, base)
  BY FoldExists
<1>2. FoldLeft(Executed, base, f) = g[1..n]
  BY DEF FoldLeft, MapThenFoldSet, IsFold
<1> QED
  BY <1>1, <1>2

\* An empty file changes nothing.
LEMMA FoldNothing == ASSUME NEW base PROVE FoldLeft(Executed, base, <<>>) = base
<1>1. PICK g : IsFold(g, <<>>, 0, base) /\ FoldLeft(Executed, base, <<>>) = g[1..0]
  BY FoldIs
<1>2. 1..0 = {} /\ {} \in SUBSET (1..0)
  OBVIOUS
<1> QED
  BY <1>1, <1>2 DEF IsFold

\* What is added to a file is executed after it.
LEMMA FoldAppend ==
  ASSUME NEW base, NEW T, NEW f \in Seq(T), NEW s \in T
  PROVE  FoldLeft(Executed, base, Append(f, s)) = Executed(FoldLeft(Executed, base, f), s)
<1> DEFINE n == Len(f)
           f2 == Append(f, s)
<1>1. n \in Nat /\ DOMAIN f = 1..n /\ DOMAIN f2 = 1..n + 1 /\ f2[n + 1] = s /\ \A i \in 1..n : f[i] = f2[i]
  OBVIOUS
<1> HIDE DEF n, f2
<1>2. PICK g : IsFold(g, f, n, base) /\ FoldLeft(Executed, base, f) = g[1..n]
  BY <1>1, FoldIs
<1>3. PICK h : IsFold(h, f2, n + 1, base) /\ FoldLeft(Executed, base, f2) = h[1..n + 1]
  BY <1>1, FoldIs
<1>4. g[1..n] = h[1..n]
  BY <1>1, <1>2, <1>3, FoldAgrees
<1>5. n + 1 \in Nat /\ n + 1 <= n + 1
  BY <1>1
<1>6. h[1..n + 1] = Executed(h[1..n], f2[n + 1])
  BY <1>1, <1>3, <1>5, FoldStep
<1> QED
  BY <1>1, <1>2, <1>3, <1>4, <1>6 DEF f2

-----------------------------------------------------------------------------
(* A file made of one difference: what is read. *)

\* The lists have every change of the difference once.
Covers(lists, maps) ==
    /\ \A p, q \in Places(lists) : At(lists, p).element.eid = At(lists, q).element.eid => p = q
    /\ \A p \in Places(lists) : At(lists, p) \in Difference(maps)
    /\ \A c \in Difference(maps) : \E p \in Places(lists) : At(lists, p) = c

\* Until the cleaner has read everything it has kept all it has read.
KeptAll ==
    /\ \A j, k \in DOMAIN changes : changes[j].element.eid = changes[k].element.eid => j = k
    /\ \A j \in DOMAIN changes : \E p \in Past : At(Lists, p) = changes[j]
    /\ \A p \in Past : \E j \in DOMAIN changes : changes[j] = At(Lists, p)
    /\ \A x \in DOMAIN changesById : \E p \in Past : At(Lists, p).element.eid = x

OInv == OneDifference => Covers(Lists, input[1]) /\ (pc = "clean" => KeptAll)

\* A list is one such.
LEMMA OneList ==
  ASSUME NEW list, NEW maps,
         \A k \in DOMAIN list : list[k] \in Difference(maps),
         \A c \in Difference(maps) : \E k \in DOMAIN list : list[k] = c,
         \A k, l \in DOMAIN list : list[k].element.eid = list[l].element.eid => k = l
  PROVE  Covers(<<list>>, maps)
<1>1. \A p : p \in Places(<<list>>) <=> \E k \in DOMAIN list : p = <<1, k>>
  <2>1. DOMAIN <<list>> = {1} /\ <<list>>[1] = list
    OBVIOUS
  <2> QED
    BY <2>1, PlaceOf
<1>2. \A k \in DOMAIN list : At(<<list>>, <<1, k>>) = list[k]
  BY DEF At
<1> DEFINE L == <<list>>
<1> HIDE DEF L
<1>3. \A p \in Places(L) : At(L, p) \in Difference(maps)
  BY <1>1, <1>2 DEF L
<1>4. \A c \in Difference(maps) : \E p \in Places(L) : At(L, p) = c
  <2> TAKE c \in Difference(maps)
  <2>1. PICK k \in DOMAIN list : list[k] = c
    OBVIOUS
  <2>2. <<1, k>> \in Places(L) /\ At(L, <<1, k>>) = c
    BY <1>1, <1>2, <2>1 DEF L
  <2> QED
    BY <2>2
<1>5. \A p, q \in Places(L) : At(L, p).element.eid = At(L, q).element.eid => p = q
  BY <1>1, <1>2 DEF L
<1>6. Covers(L, maps)
  BY <1>3, <1>4, <1>5 DEF Covers
<1> QED
  BY <1>6 DEF L

\* One difference is the difference of the first maps of the input.
LEMMA OneInput ==
  ASSUME TypeOK, OneDifference
  PROVE  input[1] \in [from : Maps, to : Maps] /\ Providers(input) = <<Derived(input[1])>>
<1> DEFINE Pairs == [from : Maps, to : Maps]
<1>1. input \in Seq(Pairs)
  BY FileAssumption DEF TypeOK
<1> HIDE DEF Pairs
<1>2. Len(input) = 1 /\ DOMAIN input = {1} /\ input[1] \in Pairs
  BY <1>1 DEF OneDifference
<1>3. Providers(input) \in Seq(Seq(Change)) /\ DOMAIN Providers(input) = {1}
  BY <1>2, ProvidersType DEF TypeOK
<1>4. Providers(input)[1] = Derived(input[1])
  BY <1>2 DEF Providers
<1>5. Len(Providers(input)) = 1
  BY <1>3
<1>6. Providers(input) = <<Derived(input[1])>>
  BY <1>3, <1>4, <1>5
<1> QED
  BY <1>2, <1>6 DEF Pairs

LEMMA InputCovered ==
  ASSUME TypeOK, OneDifference
  PROVE  Covers(Providers(input), input[1])
<1>1. input[1] \in [from : Maps, to : Maps] /\ Providers(input) = <<Derived(input[1])>>
  BY OneInput
<1>2. /\ \A k \in DOMAIN Derived(input[1]) : Derived(input[1])[k] \in Difference(input[1])
      /\ \A c \in Difference(input[1]) : \E k \in DOMAIN Derived(input[1]) : Derived(input[1])[k] = c
      /\ \A k, l \in DOMAIN Derived(input[1]) :
           Derived(input[1])[k].element.eid = Derived(input[1])[l].element.eid => k = l
  BY <1>1, DerivedFacts
<1> HIDE DEF Derived, Difference
<1>3. Covers(<<Derived(input[1])>>, input[1])
  BY <1>2, OneList
<1> QED
  BY <1>1, <1>3

LEMMA NotBeforeItself == ASSUME TypeOK, NEW p \in Places(Lists) PROVE ~Before(p, p)
<1>1. Lists \in Seq(Seq(Change))
  BY ListsType
<1>2. PICK i \in DOMAIN Lists : \E k \in DOMAIN Lists[i] : p = <<i, k>>
  BY PlaceOf
<1>3. PICK k \in DOMAIN Lists[i] : p = <<i, k>>
  BY <1>2
<1>4. i \in Nat /\ DOMAIN Lists[i] = 1..Len(Lists[i]) /\ Len(Lists[i]) \in Nat
  BY <1>1, ListOf
<1>5. p[1] \in Nat /\ p[2] \in Nat
  BY <1>3, <1>4
<1> QED
  BY <1>5 DEF Before

\* The cleaner discards nothing of one difference.
LEMMA CleanerKeepsAll ==
  ASSUME TypeOK, RInv, OInv, OneDifference, pc = "clean", HasChange, ReadChange, Lists' = Lists,
         Discards \/ (/\ changesById' = With(changesById, Current.element.eid, Current.type)
                      /\ changes' = Append(changes, Current))
  PROVE  KeptAll'
<1>1. Covers(Lists, input[1]) /\ KeptAll
  BY DEF OInv
<1>2. PICK p \in Places(Lists) : /\ At(Lists, p) = Current
                                 /\ Past' = Past \cup {p}
                                 /\ \A q \in Places(Lists) : Before(q, p) <=> q \in Past
  BY Reading DEF RInv
<1>3. Past \subseteq Places(Lists)
  BY DEF Past, ReadPlaces
<1>4. p \notin Past
  BY <1>2, NotBeforeItself
<1>5. \A q \in Past : At(Lists, q).element.eid # Current.element.eid
  BY <1>1, <1>2, <1>3, <1>4 DEF Covers
<1>6. Current.element.eid \notin DOMAIN changesById
  BY <1>1, <1>5 DEF KeptAll
<1>7. /\ changes' = Append(changes, Current)
      /\ DOMAIN changesById' = DOMAIN changesById \cup {Current.element.eid}
  BY <1>6 DEF Discards, With
<1> DEFINE n == Len(changes) + 1
<1>8. /\ DOMAIN changes' = 1..n /\ DOMAIN changes = 1..(n - 1) /\ n \in Nat /\ n \in 1..n
      /\ changes'[n] = Current /\ \A j \in 1..(n - 1) : changes'[j] = changes[j]
  <2>1. Current \in Change /\ changes \in Seq(Change)
    BY ReadFacts DEF TypeOK
  <2>2. Len(changes) \in Nat
    BY <2>1
  <2> QED
    BY <1>7, <2>1, <2>2
<1> HIDE DEF n
<1>9. \A j \in 1..n : j = n \/ j \in 1..(n - 1)
  BY <1>8
<1>10. \A j \in 1..(n - 1) : changes[j].element.eid # Current.element.eid
  BY <1>1, <1>5, <1>8 DEF KeptAll
<1>11. \A j, k \in DOMAIN changes' : changes'[j].element.eid = changes'[k].element.eid => j = k
  BY <1>1, <1>8, <1>9, <1>10 DEF KeptAll
<1>12. \A j \in DOMAIN changes' : \E q \in Past' : At(Lists, q) = changes'[j]
  BY <1>1, <1>2, <1>8, <1>9 DEF KeptAll
<1>13. \A q \in Past' : \E j \in DOMAIN changes' : changes'[j] = At(Lists, q)
  <2> TAKE q \in Past'
  <2>1. CASE q = p
    BY <1>2, <1>8, <2>1
  <2>2. CASE q # p
    <3>1. PICK j \in DOMAIN changes : changes[j] = At(Lists, q)
      BY <1>1, <1>2, <2>2 DEF KeptAll
    <3>2. j \in DOMAIN changes'
      BY <1>8
    <3> QED
      BY <1>8, <3>1, <3>2
  <2> QED
    BY <2>1, <2>2
<1>14. \A x \in DOMAIN changesById' : \E q \in Past' : At(Lists, q).element.eid = x
  BY <1>1, <1>2, <1>7 DEF KeptAll
<1> QED
  BY <1>11, <1>12, <1>13, <1>14 DEF KeptAll

\* What is read is the whole difference, cleaned or not.
LEMMA OneRead == Spec => []OInv
<1>1. TypeOK /\ Init => OInv
  <2> SUFFICES ASSUME TypeOK, Init, OneDifference PROVE Covers(Lists, input[1]) /\ (pc = "clean" => KeptAll)
    BY DEF OInv
  <2>1. Lists = Providers(input) /\ Past = {}
    <3>1. input \in Inputs /\ providers = Providers(input) /\ Lists = Providers(input)
      BY DEF Init, Lists, Given
    <3> QED
      BY <3>1, ProvidersType, NothingRead DEF Past
  <2> QED
    BY <2>1, InputCovered DEF Init, KeptAll
<1>2. TypeOK /\ RInv /\ OInv /\ [Next]_fileVars => OInv'
  <2> SUFFICES ASSUME TypeOK, RInv, OInv, [Next]_fileVars, OneDifference'
               PROVE  Covers(Lists, input[1])' /\ (pc' = "clean" => KeptAll')
    BY DEF OInv
  <2> USE DEF readVars, cleanVars, writeVars
  <2>1. input' = input /\ OneDifference
    BY DEF OneDifference, Next, Clean, Write, fileVars, DiscardDelete, TakeChange, NextProviderToClean, EndCleaning,
           SkipChange, RefuseChange, WriteXmlChange, WriteSqlChange, NextProvider, Finish
  <2>2. Covers(Lists, input[1]) /\ (pc = "clean" => KeptAll)
    BY <2>1 DEF OInv
  <2>3. ASSUME Lists' = Lists PROVE Covers(Lists, input[1])'
    <3>1. Covers(Lists', input[1])
      BY <2>2, <2>3
    <3>2. Covers(Lists', input'[1])
      BY <2>1, <3>1
    <3> QED
      BY <3>2 DEF Covers, Places, At, Difference
  <2>4. CASE DiscardDelete \/ TakeChange
    <3>1. /\ pc = "clean" /\ pc' = "clean" /\ Lists' = Lists /\ HasChange /\ ReadChange
          /\ Discards \/ (/\ changesById' = With(changesById, Current.element.eid, Current.type)
                          /\ changes' = Append(changes, Current))
      BY <2>4 DEF DiscardDelete, TakeChange, Lists
    <3> QED
      BY <2>1, <2>3, <3>1, CleanerKeepsAll
  <2>5. CASE NextProviderToClean
    <3>1. Lists' = Lists /\ Past' = Past /\ pc = "clean"
      <4>1. Lists' = Lists /\ pc = "clean" /\ providers # <<>> /\ ~HasChange /\ providers' = Tail(providers)
        BY <2>5 DEF NextProviderToClean, Lists
      <4> QED
        BY <4>1, GoingOn DEF RInv
    <3> QED
      BY <2>2, <2>3, <2>5, <3>1 DEF NextProviderToClean, KeptAll
  <2>6. CASE EndCleaning
    <3>1. pc = "clean" /\ pc' = "write" /\ clean /\ providers = <<>> /\ UNCHANGED <<changes, clean>>
      BY <2>6 DEF EndCleaning, RInv
    <3>2. Lists' = <<changes>>
      BY <3>1 DEF Lists, Given
    <3>3. Past = Places(Lists)
      BY <3>1, PastAtEnd
    <3>4. /\ \A k \in DOMAIN changes : changes[k] \in Difference(input[1])
          /\ \A c \in Difference(input[1]) : \E k \in DOMAIN changes : changes[k] = c
          /\ \A k, l \in DOMAIN changes : changes[k].element.eid = changes[l].element.eid => k = l
      BY <2>2, <3>1, <3>3 DEF KeptAll, Covers
    <3>5. Covers(<<changes>>, input[1])
      BY <3>4, OneList
    <3>6. Covers(Lists', input'[1])
      BY <2>1, <3>2, <3>5
    <3> QED
      BY <3>1, <3>6 DEF Covers, Places, At, Difference
  <2>7. CASE Write
    <3>1. Lists' = Lists /\ pc' # "clean"
      BY <2>7, WriterReads
    <3> QED
      BY <2>3, <3>1
  <2>8. CASE UNCHANGED fileVars
    <3>1. Lists' = Lists /\ Past' = Past
      BY <2>8 DEF fileVars, Lists, Given, Past
    <3> QED
      BY <2>2, <2>3, <2>8, <3>1 DEF fileVars, KeptAll
  <2> QED
    BY <2>4, <2>5, <2>6, <2>7, <2>8 DEF Next, Clean
<1> QED
  BY <1>1, <1>2, TypeCorrect, ReadInv, PTL DEF Spec

-----------------------------------------------------------------------------
(* A file made of one difference: what it makes of the old map. *)

\* The elements that statements of the file are about, those it deletes, and the elements of
\* the old map that lose a reference by that.
Written == {file[i].of : i \in DOMAIN file}
Removed == {file[i].of : i \in {j \in DOMAIN file : file[j].type = "Delete"}}
Lost(e) == ToSet(e.refs) \cap Removed # {}

\* An element by its names in the file.
NameOf(x) == IF x \in DOMAIN newIds THEN newIds[x] ELSE x
As(e) == [eid |-> NameOf(e.eid), refs |-> Renamed(e.refs, newIds)]

\* Statements are about elements whose changes have been read.
FromPast ==
    pc # "clean" =>
      \A i \in DOMAIN file : \E p \in Past : At(Lists, p).element.eid = file[i].of /\ At(Lists, p).type = file[i].type

\* Names are those of the elements created, and no element of the old map has one of them.
GivenNames ==
    /\ \A x : x \in DOMAIN newIds <=> \E i \in Creates : file[i].of = x
    /\ \A i \in Creates : newIds[file[i].of] = file[i].eid
    /\ \A x \in DOMAIN newIds : /\ x.id <= 0
                                /\ newIds[x].id <= 0 \/ newIds[x].id >= FirstId
                                /\ NumberIn(format, newIds[x]) < nextId[newIds[x].type]
    /\ \A x \in Written : x.id <= 0 => x \in DOMAIN newIds
    /\ format = "sql" => \A t \in ElementType : nextId[t] >= FirstId

\* What a written element refers to has its name.
RefsGiven == \A e \in input[1].to : e.eid \in Written => \A r \in ToSet(e.refs) : r.id <= 0 => r \in DOMAIN newIds

\* The elements written are as the new map has them, the others as the old map has them; of
\* these, those that have lost a reference are to be written yet.
Done(m) == \E e \in input[1].to : e.eid \in Written /\ m = As(e)
Undone(m) ==
    \E e \in input[1].from :
      e.eid \notin Written /\ m = [eid |-> e.eid, refs |-> m.refs] /\ (~Lost(e) => m.refs = e.refs)
ResultIs ==
    /\ \A m \in Result : Done(m) \/ Undone(m)
    /\ \A e \in input[1].to : e.eid \in Written => As(e) \in Result
    /\ \A e \in input[1].from : e.eid \notin Written /\ ~Lost(e) => [eid |-> e.eid, refs |-> e.refs] \in Result

XInv == OneDifference => FromPast /\ GivenNames /\ RefsGiven /\ ResultIs

\* What a change adds to the names, the numbers and the file.
LEMMA NamesWritten ==
  ASSUME TypeOK, NEW c \in Change, c.type # "Unknown", WriteElement(c),
         c.type # "Delete" => \A r \in ToSet(c.element.refs) : r.id <= 0 => r \in DOMAIN newIds
  PROVE  /\ DOMAIN newIds' = IF c.type = "Create" THEN DOMAIN newIds \cup {c.element.eid} ELSE DOMAIN newIds
         /\ \A x \in DOMAIN newIds : c.type # "Create" \/ x # c.element.eid => newIds'[x] = newIds[x]
         /\ c.type = "Create" => newIds'[c.element.eid] = NewId(c.element.eid.type)
         /\ \A t \in ElementType :
              nextId'[t] = IF c.type = "Create" /\ t = c.element.eid.type THEN nextId[t] + 1 ELSE nextId[t]
         /\ \E s \in Statement :
              /\ file' = Append(file, s)
              /\ s.type = c.type /\ s.of = c.element.eid
              /\ s.eid = IF c.type = "Create" THEN newIds'[c.element.eid] ELSE c.element.eid
              /\ c.type # "Delete" => s.refs = Renamed(c.element.refs, newIds')
<1> DEFINE eid == c.element.eid
           names == Names(c)
           refs == RefsOf(c)
           s == [type |-> c.type, eid |-> IF c.type = "Create" THEN newIds'[eid] ELSE eid,
                 refs |-> Renamed(refs, newIds'), of |-> eid]
<1>1. /\ newIds' = Named(refs, names, Numbers(c))
      /\ nextId' = After(refs, names, Numbers(c))
      /\ file' = Append(file, s)
  BY DEF WriteElement
<1>2. Unnamed(refs, names) = {}
  BY NoneUnnamed
<1>3. DOMAIN newIds' = DOMAIN names /\ \A x \in DOMAIN names : newIds'[x] = names[x]
  BY <1>1, <1>2 DEF Named
<1>4. /\ DOMAIN names = IF c.type = "Create" THEN DOMAIN newIds \cup {eid} ELSE DOMAIN newIds
      /\ \A x \in DOMAIN newIds : c.type # "Create" \/ x # eid => names[x] = newIds[x]
      /\ c.type = "Create" => names[eid] = NewId(eid.type)
  BY DEF Names, With
<1>5. c.element \in Element /\ eid \in ElementIds /\ eid.type \in ElementType
  <2>1. c.element \in Element
    BY DEF Change
  <2>2. eid \in ElementIds
    BY <2>1, FileAssumption
  <2> QED
    BY <2>1, <2>2 DEF ElementIds
<1>6. nextId \in [ElementType -> Nat \ {0}]
  BY DEF TypeOK
<1>7. \A t \in ElementType : Numbers(c)[t] = IF c.type = "Create" /\ t = eid.type THEN nextId[t] + 1 ELSE nextId[t]
  BY <1>5, <1>6 DEF Numbers
<1>8. \A t \in ElementType : After(refs, names, Numbers(c))[t] = Numbers(c)[t]
  <2> TAKE t \in ElementType
  <2>1. {r \in Unnamed(refs, names) : r.type = t} = {}
    BY <1>2
  <2>2. Numbers(c)[t] \in Nat
    BY <1>6, <1>7
  <2>3. After(refs, names, Numbers(c))[t] = Numbers(c)[t] + 0
    BY <2>1, FS_EmptySet DEF After
  <2> QED
    BY <2>2, <2>3
<1>9. PICK u \in Statement : file' = Append(file, u)
  BY WriteFacts
<1>10. u = s
  <2>1. file \in Seq(Statement)
    BY DEF TypeOK
  <2>2. Append(file, u) = Append(file, s)
    BY <1>1, <1>9
  <2> HIDE DEF s
  <2>3. Append(file, u)[Len(file) + 1] = u /\ Append(file, s)[Len(file) + 1] = s
    BY <2>1
  <2> QED
    BY <2>2, <2>3
<1>11. c.type # "Delete" => s.refs = Renamed(c.element.refs, newIds')
  BY DEF RefsOf
<1>12. s.type = c.type /\ s.of = eid /\ s.eid = IF c.type = "Create" THEN newIds'[eid] ELSE eid
  OBVIOUS
<1>13. \E v \in Statement :
         /\ file' = Append(file, v)
         /\ v.type = c.type /\ v.of = eid
         /\ v.eid = IF c.type = "Create" THEN newIds'[eid] ELSE eid
         /\ c.type # "Delete" => v.refs = Renamed(c.element.refs, newIds')
  <2> HIDE DEF s
  <2> QED
    BY <1>9, <1>10, <1>11, <1>12
<1>14. \A t \in ElementType : nextId'[t] = IF c.type = "Create" /\ t = eid.type THEN nextId[t] + 1 ELSE nextId[t]
  BY <1>1, <1>7, <1>8
<1> HIDE DEF names, s
<1> QED
  BY <1>3, <1>4, <1>13, <1>14

\* A statement more.
LEMMA FileLonger ==
  ASSUME TypeOK, NEW s \in Statement, file' = Append(file, s)
  PROVE  /\ Written' = Written \cup {s.of}
         /\ Removed' = IF s.type = "Delete" THEN Removed \cup {s.of} ELSE Removed
         /\ \A i : i \in Creates' <=> i \in Creates \/ (s.type = "Create" /\ i = Len(file) + 1)
         /\ \A i \in DOMAIN file : i \in DOMAIN file' /\ file'[i] = file[i] /\ i # Len(file) + 1
         /\ Len(file) + 1 \in DOMAIN file' /\ file'[Len(file) + 1] = s
         /\ \A i \in DOMAIN file' : i \in DOMAIN file \/ i = Len(file) + 1
         /\ input' = input => Result' = Executed(Result, s)
<1> DEFINE n == Len(file) + 1
<1>1. file \in Seq(Statement)
  BY DEF TypeOK
<1>2. /\ DOMAIN file = 1..(n - 1) /\ DOMAIN file' = 1..n /\ n \in Nat /\ n \in 1..n
      /\ file'[n] = s /\ \A i \in 1..(n - 1) : file'[i] = file[i]
  <2>1. Len(file) \in Nat
    BY <1>1
  <2> QED
    BY <1>1, <2>1
<1>3. input' = input => Result' = Executed(Result, s)
  <2> SUFFICES ASSUME input' = input PROVE Result' = Executed(Result, s)
    OBVIOUS
  <2> DEFINE base == Plain(input[1].from)
  <2>1. Result = FoldLeft(Executed, base, file)
    BY DEF Result
  <2>2. Result' = FoldLeft(Executed, base, Append(file, s))
    BY DEF Result, Plain
  <2> HIDE DEF base
  <2>3. FoldLeft(Executed, base, Append(file, s)) = Executed(FoldLeft(Executed, base, file), s)
    BY <1>1, FoldAppend, Zenon
  <2> QED
    BY <2>1, <2>2, <2>3, Zenon
<1> HIDE DEF n
<1>4. \A i \in 1..n : i = n \/ i \in 1..(n - 1)
  BY <1>2
<1>5. \A i \in DOMAIN file : i \in DOMAIN file' /\ file'[i] = file[i] /\ i # n
  BY <1>2
<1>6. Written' = Written \cup {s.of}
  BY <1>2, <1>4, <1>5 DEF Written
<1>7. \A i : i \in Creates' <=> i \in Creates \/ (s.type = "Create" /\ i = n)
  BY <1>2, <1>4, <1>5 DEF Creates
<1>8. Removed' = IF s.type = "Delete" THEN Removed \cup {s.of} ELSE Removed
  BY <1>2, <1>4, <1>5 DEF Removed
<1> QED
  BY <1>2, <1>3, <1>4, <1>5, <1>6, <1>7, <1>8 DEF n

\* Of the two maps.
LEMMA SoundFacts ==
  ASSUME SoundMaps(Inputs), TypeOK, OneDifference
  PROVE  /\ FirstId \in Nat
         /\ \A e \in input[1].from : /\ e.eid \in ElementIds /\ e.eid.id \in Int /\ e.eid.id > 0 /\ e.eid.id < FirstId
                                     /\ e.refs \in Seq(ElementIds) /\ \A r \in ToSet(e.refs) : r.id > 0
         /\ \A e \in input[1].to : /\ e.eid \in ElementIds /\ e.eid.id \in Int /\ e.eid.id < FirstId
                                   /\ e.refs \in Seq(ElementIds)
                                   /\ e.eid.id > 0 => \E f \in input[1].from : f.eid = e.eid
                                   /\ \A r \in ToSet(e.refs) : \E f \in input[1].to : f.eid = r
         /\ \A e, f \in input[1].to : e.eid = f.eid => e = f
         /\ \A e, f \in input[1].from : e.eid = f.eid => e = f
<1>1. input[1] \in [from : Maps, to : Maps]
  BY OneInput
<1>2. 1 \in DOMAIN input /\ input \in Inputs
  <2> DEFINE Pairs == [from : Maps, to : Maps]
  <2>1. input \in Seq(Pairs) /\ input \in Inputs
    BY FileAssumption DEF TypeOK
  <2> HIDE DEF Pairs
  <2> QED
    BY <2>1 DEF OneDifference
<1>3. input[1].from \in Maps /\ input[1].to \in Maps
  BY <1>1
<1>4. /\ input[1].from \subseteq Element /\ input[1].to \subseteq Element
      /\ \A e, f \in input[1].to : e.eid = f.eid => e = f
      /\ \A e, f \in input[1].from : e.eid = f.eid => e = f
  BY <1>3 DEF Maps
<1>5. \A e \in Element : e.eid \in ElementIds /\ e.eid.id \in Int /\ e.eid.id < FirstId /\ e.refs \in Seq(ElementIds)
  BY FileAssumption DEF ElementIds
<1>6. /\ \A e \in input[1].from : e.eid.id > 0 /\ \A r \in ToSet(e.refs) : r.id > 0
      /\ \A e \in input[1].to : e.eid.id > 0 => \E f \in input[1].from : f.eid = e.eid
      /\ \A e \in input[1].to : \A r \in ToSet(e.refs) : \E f \in input[1].to : f.eid = r
  BY <1>2 DEF SoundMaps
<1>7. FirstId \in Nat
  BY FileAssumption
<1> QED
  BY <1>4, <1>5, <1>6, <1>7

\* Of a change of the difference.
LEMMA ChangeFacts ==
  ASSUME SoundMaps(Inputs), TypeOK, OneDifference, NEW c \in Difference(input[1]), c.type # "Unknown"
  PROVE  /\ c \in Change /\ c.type \in {"Create", "Modify", "Delete"}
         /\ c.element.eid \in ElementIds /\ c.element.eid.id \in Int /\ c.element.eid.id < FirstId
         /\ c.type = "Create" <=> c.element.eid.id <= 0
         /\ c.type \in {"Create", "Modify"} => /\ c.element \in input[1].to
                                               /\ \A e \in input[1].to : e.eid = c.element.eid => e = c.element
         /\ c.type = "Create" => \A e \in input[1].from : e.eid # c.element.eid
         /\ c.type = "Delete" => \A e \in input[1].to : e.eid # c.element.eid
<1>1. input[1] \in [from : Maps, to : Maps]
  BY OneInput
<1>2. /\ c.type \in ChangeType
      /\ c.type \in {"Create", "Modify"} => c.element \in input[1].to
      /\ c.type \in {"Delete", "Unknown"} => c.element \in input[1].from /\ \A e \in input[1].to : e.eid # c.element.eid
      /\ c.type = "Create" => \A e \in input[1].from : e.eid # c.element.eid
      /\ c.type = "Modify" => \E e \in input[1].from : e.eid = c.element.eid
  BY <1>1, DifferenceIs
<1>3. c \in Change
  BY <1>1, DifferenceFacts
<1>4. c.type \in {"Create", "Modify", "Delete"}
  BY <1>2 DEF ChangeType
<1> HIDE DEF Difference
<1>5. c.element \in input[1].from \cup input[1].to
  BY <1>2, <1>4
<1>6. c.element.eid \in ElementIds /\ c.element.eid.id \in Int /\ c.element.eid.id < FirstId
  BY <1>5, SoundFacts
<1>7. ASSUME c.type = "Create" PROVE c.element.eid.id <= 0
  <2>1. ~(c.element.eid.id > 0)
    BY <1>2, <1>7, SoundFacts
  <2> QED
    BY <1>6, <2>1
<1>8. ASSUME c.type # "Create" PROVE c.element.eid.id > 0
  BY <1>2, <1>4, <1>8, SoundFacts
<1>9. \A e \in input[1].to : c.element \in input[1].to /\ e.eid = c.element.eid => e = c.element
  BY SoundFacts
<1> QED
  BY <1>2, <1>3, <1>4, <1>6, <1>7, <1>8, <1>9

\* A change of an element that the file does not speak of yet.  Its new element, if it is one, gets
\* a name nobody has; no other name changes.
LEMMA NamesStep ==
  ASSUME SoundMaps(Inputs), TypeOK, OneDifference, GivenNames, RefsGiven, UNCHANGED <<format, input>>,
         NEW c \in Difference(input[1]), c.type # "Unknown", c.element.eid \notin Written, WriteElement(c),
         c.type # "Delete" =>
           \A r \in ToSet(c.element.refs) : r # c.element.eid /\ (r.id <= 0 => r \in DOMAIN newIds)
  PROVE  /\ GivenNames' /\ RefsGiven'
         /\ \A e \in input[1].to : e.eid \in Written => As(e)' = As(e)
         /\ \E s \in Statement :
              /\ file' = Append(file, s) /\ s.type = c.type /\ s.of = c.element.eid
              /\ c.type # "Delete" => [eid |-> s.eid, refs |-> s.refs] = As(c.element)'
              /\ c.type # "Create" => s.eid = c.element.eid
              /\ c.type = "Create" => /\ s.eid.id <= 0 \/ s.eid.id >= FirstId
                                      /\ \A x \in DOMAIN newIds : newIds[x] # s.eid
<1> DEFINE x == c.element.eid
           N == NewId(x.type)
<1>1. /\ c \in Change /\ c.type \in {"Create", "Modify", "Delete"}
      /\ x \in ElementIds /\ x.id \in Int /\ x.id < FirstId
      /\ c.type = "Create" <=> x.id <= 0
      /\ c.type \in {"Create", "Modify"} => c.element \in input[1].to /\ \A e \in input[1].to : e.eid = x => e = c.element
      /\ c.type = "Delete" => \A e \in input[1].to : e.eid # x
  BY ChangeFacts
<1>2. /\ DOMAIN newIds' = IF c.type = "Create" THEN DOMAIN newIds \cup {x} ELSE DOMAIN newIds
      /\ \A y \in DOMAIN newIds : c.type # "Create" \/ y # x => newIds'[y] = newIds[y]
      /\ c.type = "Create" => newIds'[x] = N
      /\ \A t \in ElementType : nextId'[t] = IF c.type = "Create" /\ t = x.type THEN nextId[t] + 1 ELSE nextId[t]
  BY <1>1, NamesWritten
<1>3. PICK s \in Statement :
        /\ file' = Append(file, s)
        /\ s.type = c.type /\ s.of = x
        /\ s.eid = IF c.type = "Create" THEN newIds'[x] ELSE x
        /\ c.type # "Delete" => s.refs = Renamed(c.element.refs, newIds')
  BY <1>1, NamesWritten
<1> HIDE DEF x, N, Difference
<1>4. /\ Written' = Written \cup {x}
      /\ \A i : i \in Creates' <=> i \in Creates \/ (c.type = "Create" /\ i = Len(file) + 1)
      /\ \A i \in DOMAIN file : i \in DOMAIN file' /\ file'[i] = file[i] /\ i # Len(file) + 1
      /\ Len(file) + 1 \in DOMAIN file' /\ file'[Len(file) + 1] = s
  BY <1>3, FileLonger
<1>5. x \notin DOMAIN newIds
  <2>1. \A i \in Creates : file[i].of \in Written
    BY DEF Creates, Written
  <2> QED
    BY <2>1 DEF GivenNames, x
<1>6. Creates \subseteq DOMAIN file
  BY DEF Creates
<1>7. \A y : y \in DOMAIN newIds' <=> \E i \in Creates' : file'[i].of = y
  BY <1>2, <1>3, <1>4, <1>6 DEF GivenNames
<1>8. \A i \in Creates' : newIds'[file'[i].of] = file'[i].eid
  <2> TAKE i \in Creates'
  <2>1. CASE i \in Creates
    <3>1. file'[i] = file[i] /\ file[i].of \in DOMAIN newIds /\ newIds[file[i].of] = file[i].eid
      BY <1>4, <1>6, <2>1 DEF GivenNames
    <3>2. newIds'[file[i].of] = newIds[file[i].of]
      BY <1>2, <1>5, <3>1
    <3> QED
      BY <3>1, <3>2
  <2>2. CASE c.type = "Create" /\ i = Len(file) + 1
    BY <1>3, <1>4, <2>2
  <2> QED
    BY <1>4, <2>1, <2>2
<1>9. x.type \in ElementType /\ nextId \in [ElementType -> Nat \ {0}] /\ format \in {"xml", "sql"}
  BY <1>1 DEF ElementIds, TypeOK
<1>10. /\ N.type = x.type /\ NumberIn(format, N) = nextId[x.type] /\ N.id \in Int
       /\ N.id <= 0 \/ N.id >= FirstId
  <2>1. nextId[x.type] \in Nat
    BY <1>9
  <2>2. format = "sql" => nextId[x.type] >= FirstId
    BY <1>9 DEF GivenNames
  <2> QED
    BY <1>9, <2>1, <2>2 DEF N, NewId, NumberIn
<1>11. \A y \in DOMAIN newIds : newIds[y] # N
  <2>1. \A y \in DOMAIN newIds : NumberIn(format, newIds[y]) < nextId[newIds[y].type]
    BY DEF GivenNames
  <2>2. ~(nextId[x.type] < nextId[x.type])
    BY <1>9
  <2> QED
    BY <1>10, <2>1, <2>2
<1>12. ASSUME NEW y \in DOMAIN newIds'
       PROVE  /\ y.id <= 0
              /\ newIds'[y].id <= 0 \/ newIds'[y].id >= FirstId
              /\ NumberIn(format, newIds'[y]) < nextId'[newIds'[y].type]
  <2>1. CASE y \in DOMAIN newIds
    <3>1. newIds'[y] = newIds[y]
      BY <1>2, <1>5, <2>1
    <3>2. y.id <= 0 /\ (newIds[y].id <= 0 \/ newIds[y].id >= FirstId) /\ NumberIn(format, newIds[y]) < nextId[newIds[y].type]
      BY <2>1 DEF GivenNames
    <3>3. newIds[y] \in ElementIds
      BY <2>1 DEF TypeOK
    <3>4. newIds[y].type \in ElementType /\ NumberIn(format, newIds[y]) \in Int
      BY <3>3 DEF ElementIds, NumberIn
    <3>5. nextId'[newIds[y].type] >= nextId[newIds[y].type] /\ nextId[newIds[y].type] \in Int /\ nextId'[newIds[y].type] \in Int
      BY <1>2, <1>9, <3>4
    <3> QED
      BY <3>1, <3>2, <3>4, <3>5
  <2>2. CASE y \notin DOMAIN newIds
    <3>1. c.type = "Create" /\ y = x /\ newIds'[y] = N
      BY <1>2, <2>2
    <3>2. nextId'[x.type] = nextId[x.type] + 1 /\ nextId[x.type] \in Nat
      BY <1>2, <1>9, <3>1
    <3> QED
      BY <1>1, <1>10, <3>1, <3>2
  <2> QED
    BY <2>1, <2>2
<1>13. \A y \in Written' : y.id <= 0 => y \in DOMAIN newIds'
  BY <1>1, <1>2, <1>4 DEF GivenNames
<1>14. format = "sql" => \A t \in ElementType : nextId'[t] >= FirstId
  <2> SUFFICES ASSUME format = "sql", NEW t \in ElementType PROVE nextId'[t] >= FirstId
    OBVIOUS
  <2>1. nextId[t] >= FirstId /\ nextId[t] \in Nat
    BY <1>9 DEF GivenNames
  <2>2. FirstId \in Nat
    BY FileAssumption
  <2> QED
    BY <1>2, <2>1, <2>2
<1>15. GivenNames'
  BY <1>7, <1>8, <1>12, <1>13, <1>14 DEF GivenNames
<1>16. RefsGiven'
  <2> SUFFICES ASSUME NEW e \in input[1].to, e.eid \in Written', NEW r \in ToSet(e.refs), r.id <= 0
               PROVE  r \in DOMAIN newIds'
    BY DEF RefsGiven
  <2>1. CASE e.eid \in Written
    BY <1>2, <2>1 DEF RefsGiven
  <2>2. CASE e.eid \notin Written
    <3>1. e.eid = x /\ c.type # "Delete" /\ e = c.element
      BY <1>1, <1>4, <2>2
    <3> QED
      BY <1>2, <3>1 DEF x
  <2> QED
    BY <2>1, <2>2
<1>17. ASSUME NEW e \in input[1].to, e.eid \in Written
       PROVE  As(e)' = As(e)
  <2>1. e.eid # x
    BY <1>17 DEF x
  <2>2. NameOf(e.eid)' = NameOf(e.eid)
    BY <1>2, <2>1 DEF NameOf
  <2>3. \A i \in DOMAIN e.refs : /\ e.refs[i] \in DOMAIN newIds' <=> e.refs[i] \in DOMAIN newIds
                                 /\ e.refs[i] \in DOMAIN newIds => newIds'[e.refs[i]] = newIds[e.refs[i]]
    <3> TAKE i \in DOMAIN e.refs
    <3>1. e.refs[i].id <= 0 => e.refs[i] \in DOMAIN newIds
      BY <1>17 DEF RefsGiven, ToSet
    <3>2. c.type = "Create" => e.refs[i] # x
      BY <1>1, <1>5, <3>1
    <3> QED
      BY <1>2, <3>2
  <2>4. Renamed(e.refs, newIds') = Renamed(e.refs, newIds)
    BY <2>3 DEF Renamed
  <2> QED
    BY <2>2, <2>4 DEF As
<1>18. c.type # "Delete" => [eid |-> s.eid, refs |-> s.refs] = As(c.element)'
  <2> HAVE c.type # "Delete"
  <2>1. s.eid = NameOf(x)'
    BY <1>2, <1>3, <1>5 DEF NameOf
  <2>2. s.refs = Renamed(c.element.refs, newIds')
    BY <1>3
  <2> QED
    BY <2>1, <2>2 DEF As, x
<1>19. c.type = "Create" => (s.eid.id <= 0 \/ s.eid.id >= FirstId) /\ \A y \in DOMAIN newIds : newIds[y] # s.eid
  BY <1>2, <1>3, <1>10, <1>11
<1> QED
  BY <1>3, <1>15, <1>16, <1>17, <1>18, <1>19 DEF x

\* It makes the element as the new map has it, or, if it is deleted, leaves nothing of it.
LEMMA ResultStep ==
  ASSUME SoundMaps(Inputs), TypeOK, OneDifference, GivenNames, RefsGiven, ResultIs, UNCHANGED <<format, input>>,
         NEW c \in Difference(input[1]), c.type # "Unknown", c.element.eid \notin Written, WriteElement(c),
         c.type # "Delete" =>
           \A r \in ToSet(c.element.refs) : r # c.element.eid /\ (r.id <= 0 => r \in DOMAIN newIds)
  PROVE  ResultIs'
<1> DEFINE x == c.element.eid
<1>1. /\ c \in Change /\ c.type \in {"Create", "Modify", "Delete"}
      /\ x \in ElementIds /\ x.id \in Int /\ x.id < FirstId
      /\ c.type = "Create" <=> x.id <= 0
      /\ c.type \in {"Create", "Modify"} => c.element \in input[1].to /\ \A e \in input[1].to : e.eid = x => e = c.element
      /\ c.type = "Create" => \A e \in input[1].from : e.eid # x
      /\ c.type = "Delete" => \A e \in input[1].to : e.eid # x
  BY ChangeFacts
<1>2. \A e \in input[1].to : e.eid \in Written => As(e)' = As(e)
  BY NamesStep
<1>3. PICK s \in Statement :
        /\ file' = Append(file, s) /\ s.type = c.type /\ s.of = x
        /\ c.type # "Delete" => [eid |-> s.eid, refs |-> s.refs] = As(c.element)'
        /\ c.type # "Create" => s.eid = x
        /\ c.type = "Create" => /\ s.eid.id <= 0 \/ s.eid.id >= FirstId
                                /\ \A y \in DOMAIN newIds : newIds[y] # s.eid
  BY NamesStep
<1>4. /\ Written' = Written \cup {x}
      /\ Removed' = IF c.type = "Delete" THEN Removed \cup {x} ELSE Removed
      /\ Result' = Executed(Result, s)
  BY <1>3, FileLonger
<1>5. input' = input /\ FirstId \in Nat
  BY FileAssumption
<1>6. \A y \in DOMAIN newIds : newIds[y].id \in Int /\ (newIds[y].id <= 0 \/ newIds[y].id >= FirstId)
  BY DEF TypeOK, ElementIds, GivenNames
<1>7. /\ \A e \in input[1].from : e.eid.id \in Int /\ e.eid.id > 0 /\ e.eid.id < FirstId
      /\ \A e \in input[1].to : e.eid.id \in Int /\ e.eid.id < FirstId
      /\ \A e \in input[1].to : \A r \in ToSet(e.refs) : \E f \in input[1].to : f.eid = r
  BY SoundFacts
<1> HIDE DEF x, Difference
<1>8. /\ \A m \in Result : Done(m) \/ Undone(m)
      /\ \A e \in input[1].to : e.eid \in Written => As(e) \in Result
      /\ \A e \in input[1].from : e.eid \notin Written /\ ~Lost(e) => [eid |-> e.eid, refs |-> e.refs] \in Result
  BY DEF ResultIs
<1>9. \A e : As(e).eid = NameOf(e.eid) /\ As(e).refs = Renamed(e.refs, newIds)
  BY DEF As
<1>10. \A m : Done(m) => Done(m)'
  BY <1>2, <1>4, <1>5 DEF Done
<1>11. CASE c.type # "Delete"
  <2>1. Result' = {m \in Result : m.eid # s.eid} \cup {As(c.element)'}
    BY <1>3, <1>4, <1>11 DEF Executed
  <2>2. \A e : Lost(e)' <=> Lost(e)
    BY <1>4, <1>11 DEF Lost
  <2>3. \A e \in input[1].from : e.eid \notin Written' => e.eid # s.eid
    <3>1. CASE c.type = "Create"
      BY <1>3, <1>5, <1>7, <3>1 DEF Statement, ElementIds
    <3>2. CASE c.type # "Create"
      BY <1>3, <1>4, <3>2
    <3> QED
      BY <3>1, <3>2
  <2>4. \A e \in input[1].from : e.eid # s.eid /\ e.eid \notin Written => e.eid \notin Written'
    BY <1>1, <1>3, <1>4, <1>11
  <2>5. ASSUME NEW e \in input[1].to, e.eid \in Written PROVE As(e).eid # s.eid
    <3>1. e.eid # x
      BY <2>5 DEF x
    <3>2. e.eid.id <= 0 => e.eid \in DOMAIN newIds
      BY <2>5 DEF GivenNames
    <3>3. CASE c.type = "Create"
      BY <1>3, <1>5, <1>7, <1>9, <3>2, <3>3 DEF NameOf
    <3>4. CASE c.type # "Create"
      BY <1>1, <1>3, <1>5, <1>6, <1>9, <3>1, <3>4 DEF NameOf
    <3> QED
      BY <3>3, <3>4
  <2>6. \A m \in Result' : Done(m)' \/ Undone(m)'
    <3> TAKE m \in Result'
    <3>1. CASE m = As(c.element)'
      BY <1>1, <1>4, <1>5, <1>11, <3>1 DEF Done, x
    <3>2. CASE m \in Result /\ m.eid # s.eid /\ Done(m)
      BY <1>10, <3>2
    <3>3. CASE m \in Result /\ m.eid # s.eid /\ Undone(m)
      <4>1. PICK e \in input[1].from :
              e.eid \notin Written /\ m = [eid |-> e.eid, refs |-> m.refs] /\ (~Lost(e) => m.refs = e.refs)
        BY <3>3 DEF Undone
      <4>2. e.eid = m.eid
        BY <4>1
      <4>3. e.eid \notin Written'
        BY <2>4, <3>3, <4>1, <4>2
      <4> QED
        BY <1>5, <2>2, <4>1, <4>3 DEF Undone
    <3> QED
      BY <1>8, <2>1, <3>1, <3>2, <3>3
  <2>7. \A e \in input[1].to : e.eid \in Written' => As(e)' \in Result'
    <3> TAKE e \in input[1].to
    <3>1. CASE e.eid \in Written
      <4>1. As(e) \in Result /\ As(e).eid # s.eid
        BY <1>8, <2>5, <3>1
      <4> QED
        BY <1>2, <2>1, <3>1, <4>1
    <3>2. CASE e.eid = x
      BY <1>1, <1>11, <2>1, <3>2
    <3> QED
      BY <1>4, <3>1, <3>2
  <2>8. \A e \in input[1].from : e.eid \notin Written' /\ ~Lost(e)' => [eid |-> e.eid, refs |-> e.refs] \in Result'
    <3> SUFFICES ASSUME NEW e \in input[1].from, e.eid \notin Written', ~Lost(e)
                 PROVE  [eid |-> e.eid, refs |-> e.refs] \in Result'
      BY <2>2
    <3>1. [eid |-> e.eid, refs |-> e.refs] \in Result
      BY <1>4, <1>8
    <3>2. e.eid # s.eid
      BY <2>3
    <3> QED
      BY <2>1, <3>1, <3>2
  <2> QED
    BY <1>5, <2>6, <2>7, <2>8 DEF ResultIs
<1>12. CASE c.type = "Delete"
  <2> DEFINE users == {m \in Result : m.eid # x /\ x \in ToSet(m.refs)}
  <2>1. Result' = ({m \in Result : m.eid # x} \ users) \cup {[m EXCEPT !.refs = Remove(@, x)] : m \in users}
    BY <1>3, <1>4, <1>12 DEF Executed
  <2>2. \A e : Lost(e)' <=> Lost(e) \/ x \in ToSet(e.refs)
    BY <1>4, <1>12 DEF Lost
  <2>3. ASSUME NEW e \in input[1].to, e.eid \in Written PROVE As(e).eid # x /\ x \notin ToSet(As(e).refs)
    <3>1. \A y \in DOMAIN newIds : newIds[y] # x
      BY <1>1, <1>5, <1>6, <1>12
    <3>2. e.eid # x /\ \A r \in ToSet(e.refs) : r # x
      BY <1>1, <1>7, <1>12
    <3>3. As(e).eid # x
      BY <1>9, <3>1, <3>2 DEF NameOf
    <3>4. \A i \in DOMAIN e.refs : e.refs[i] # x
      BY <3>2 DEF ToSet
    <3>5. x \notin ToSet(Renamed(e.refs, newIds))
      BY <3>1, <3>4 DEF ToSet, Renamed
    <3> QED
      BY <1>9, <3>3, <3>5
  <2>4. ASSUME NEW m \in Result, m.eid # x, Undone(m)
        PROVE  \E e \in input[1].from :
                 /\ e.eid \notin Written' /\ m = [eid |-> e.eid, refs |-> m.refs]
                 /\ ~Lost(e) => m.refs = e.refs
    <3>1. PICK e \in input[1].from :
            e.eid \notin Written /\ m = [eid |-> e.eid, refs |-> m.refs] /\ (~Lost(e) => m.refs = e.refs)
      BY <2>4 DEF Undone
    <3>2. e.eid # x
      BY <2>4, <3>1
    <3> QED
      BY <1>4, <3>1, <3>2
  <2>5. \A m \in Result' : Done(m)' \/ Undone(m)'
    <3> TAKE m \in Result'
    <3>1. CASE m \in Result /\ m.eid # x /\ Done(m)
      BY <1>10, <3>1
    <3>2. CASE m \in Result /\ m.eid # x /\ m \notin users /\ Undone(m)
      <4>1. PICK e \in input[1].from :
              e.eid \notin Written' /\ m = [eid |-> e.eid, refs |-> m.refs] /\ (~Lost(e) => m.refs = e.refs)
        BY <2>4, <3>2
      <4> QED
        BY <1>5, <2>2, <4>1 DEF Undone
    <3>3. CASE m \in {[n EXCEPT !.refs = Remove(@, x)] : n \in users}
      <4>1. PICK n \in users : m = [n EXCEPT !.refs = Remove(@, x)]
        BY <3>3
      <4>2. n \in Result /\ n.eid # x /\ x \in ToSet(n.refs)
        OBVIOUS
      <4>3. ~Done(n)
        BY <2>3, <4>2 DEF Done
      <4>4. PICK e \in input[1].from :
              e.eid \notin Written' /\ n = [eid |-> e.eid, refs |-> n.refs] /\ (~Lost(e) => n.refs = e.refs)
        BY <1>8, <2>4, <4>2, <4>3
      <4>5. Lost(e)'
        BY <2>2, <4>2, <4>4
      <4>6. m = [eid |-> e.eid, refs |-> m.refs]
        BY <4>1, <4>4
      <4> QED
        BY <1>5, <4>4, <4>5, <4>6 DEF Undone
    <3> QED
      BY <1>8, <2>1, <3>1, <3>2, <3>3
  <2>6. \A e \in input[1].to : e.eid \in Written' => As(e)' \in Result'
    <3> SUFFICES ASSUME NEW e \in input[1].to, e.eid \in Written' PROVE As(e)' \in Result'
      OBVIOUS
    <3>1. e.eid \in Written
      BY <1>1, <1>4, <1>12
    <3>2. As(e) \in Result /\ As(e).eid # x /\ x \notin ToSet(As(e).refs)
      BY <1>8, <2>3, <3>1
    <3>3. As(e) \in Result'
      BY <2>1, <3>2
    <3> QED
      BY <1>2, <3>1, <3>3
  <2>7. \A e \in input[1].from : e.eid \notin Written' /\ ~Lost(e)' => [eid |-> e.eid, refs |-> e.refs] \in Result'
    <3> SUFFICES ASSUME NEW e \in input[1].from, e.eid \notin Written', ~Lost(e)'
                 PROVE  [eid |-> e.eid, refs |-> e.refs] \in Result'
      OBVIOUS
    <3>1. [eid |-> e.eid, refs |-> e.refs] \in Result
      BY <1>4, <1>8, <2>2
    <3>2. e.eid # x /\ x \notin ToSet(e.refs)
      BY <1>4, <2>2
    <3> QED
      BY <2>1, <3>1, <3>2
  <2> QED
    BY <1>5, <2>5, <2>6, <2>7 DEF ResultIs
<1> QED
  BY <1>11, <1>12

\* The change at hand is one of the difference, and the file does not speak of its element yet.
LEMMA CurrentIsNew ==
  ASSUME TypeOK, RInv, OInv, OneDifference, FromPast, pc # "clean", HasChange, ReadChange, Lists' = Lists
  PROVE  Current \in Difference(input[1]) /\ Current.element.eid \notin Written
<1>1. Covers(Lists, input[1])
  BY DEF OInv
<1>2. PICK p \in Places(Lists) : /\ At(Lists, p) = Current
                                 /\ Past' = Past \cup {p}
                                 /\ \A q \in Places(Lists) : Before(q, p) <=> q \in Past
  BY Reading DEF RInv
<1>3. Past \subseteq Places(Lists)
  BY DEF Past, ReadPlaces
<1>4. p \notin Past
  BY <1>2, NotBeforeItself
<1>5. \A q \in Past : At(Lists, q).element.eid # Current.element.eid
  BY <1>1, <1>2, <1>3, <1>4 DEF Covers
<1>6. Current.element.eid \notin Written
  BY <1>5 DEF FromPast, Written
<1> QED
  BY <1>1, <1>2, <1>6 DEF Covers

\* What has been read stays so, and the statement that is added is about the change read.
LEMMA FromPastStep ==
  ASSUME TypeOK, RInv, FromPast, pc # "clean", HasChange, ReadChange, Lists' = Lists, UNCHANGED pc,
         UNCHANGED file \/ \E s \in Statement : file' = Append(file, s) /\ s.of = Current.element.eid /\ s.type = Current.type
  PROVE  FromPast'
<1>1. PICK p \in Places(Lists) : At(Lists, p) = Current /\ Past' = Past \cup {p}
  BY Reading DEF RInv
<1>2. ASSUME NEW i \in DOMAIN file
      PROVE  \E q \in Past' : At(Lists, q).element.eid = file[i].of /\ At(Lists, q).type = file[i].type
  BY <1>1 DEF FromPast
<1>3. CASE UNCHANGED file
  BY <1>2, <1>3 DEF FromPast
<1>4. CASE ~UNCHANGED file
  <2>1. PICK s \in Statement : file' = Append(file, s) /\ s.of = Current.element.eid /\ s.type = Current.type
    BY <1>4
  <2>2. /\ \A i \in DOMAIN file : file'[i] = file[i]
        /\ file'[Len(file) + 1] = s
        /\ \A i \in DOMAIN file' : i \in DOMAIN file \/ i = Len(file) + 1
    BY <2>1, FileLonger
  <2>3. p \in Past'
    BY <1>1
  <2>4. \A i \in DOMAIN file' : \E q \in Past' : At(Lists, q).element.eid = file'[i].of /\ At(Lists, q).type = file'[i].type
    <3> TAKE i \in DOMAIN file'
    <3>1. CASE i \in DOMAIN file
      BY <1>2, <2>2, <3>1
    <3>2. CASE i = Len(file) + 1
      BY <1>1, <2>1, <2>2, <2>3, <3>2
    <3> QED
      BY <2>2, <3>1, <3>2
  <2> QED
    BY <2>4 DEF FromPast
<1> QED
  BY <1>3, <1>4

\* Steps that write nothing.
LEMMA NothingWritten ==
  ASSUME GivenNames, RefsGiven, ResultIs, UNCHANGED <<format, input, nextId, newIds, file>>
  PROVE  GivenNames' /\ RefsGiven' /\ ResultIs'
<1>1. Creates' = Creates /\ Written' = Written /\ Removed' = Removed /\ Result' = Result
  BY DEF Creates, Written, Removed, Result
<1>2. GivenNames'
  BY <1>1 DEF GivenNames
<1>3. RefsGiven'
  BY <1>1 DEF RefsGiven
<1>4. \A e : As(e)' = As(e) /\ (Lost(e)' <=> Lost(e))
  BY <1>1 DEF As, NameOf, Lost
<1>5. \A m : (Done(m)' <=> Done(m)) /\ (Undone(m)' <=> Undone(m))
  BY <1>1, <1>4 DEF Done, Undone
<1>6. ResultIs'
  BY <1>1, <1>4, <1>5 DEF ResultIs
<1> QED
  BY <1>2, <1>3, <1>6

\* Every step of the writer keeps to what the file makes of the old map.
LEMMA WriterMakes ==
  ASSUME SoundMaps(Inputs), NewComeFirst(Inputs), TypeOK, RInv, OInv, NInv, XInv, Write
  PROVE  XInv'
<1> USE DEF readVars, cleanVars, writeVars
<1>1. /\ Lists' = Lists /\ pc # "clean" /\ pc' # "clean" /\ UNCHANGED <<format, clean, input>>
  BY WriterReads
<1>2. SUFFICES ASSUME OneDifference PROVE FromPast' /\ GivenNames' /\ RefsGiven' /\ ResultIs'
  BY <1>1 DEF XInv, OneDifference
<1>3. FromPast /\ GivenNames /\ RefsGiven /\ ResultIs
  BY <1>2 DEF XInv
<1>4. CASE SkipChange \/ ((WriteXmlChange \/ WriteSqlChange) /\ Current.type = "Unknown")
  <2>1. HasChange /\ ReadChange /\ UNCHANGED <<pc, nextId, newIds, file>>
    BY <1>4 DEF SkipChange, WriteXmlChange, WriteSqlChange
  <2> QED
    BY <1>1, <1>3, <2>1, FromPastStep, NothingWritten
<1>5. CASE (WriteXmlChange \/ WriteSqlChange) /\ Current.type # "Unknown"
  <2>1. HasChange /\ ReadChange /\ WriteElement(Current) /\ UNCHANGED pc
    BY <1>5 DEF WriteXmlChange, WriteSqlChange
  <2>2. Current \in Difference(input[1]) /\ Current.element.eid \notin Written
    BY <1>1, <1>2, <1>3, <2>1, CurrentIsNew
  <2>3. Current.type # "Delete" =>
          \A r \in ToSet(Current.element.refs) : r # Current.element.eid /\ (r.id <= 0 => r \in DOMAIN newIds)
    <3>1. Current \in Change
      BY <2>1, ReadFacts
    <3>2. Current.type \in ChangeType
      BY <3>1 DEF Change
    <3>3. Current.type # "Delete" => Current.type \in {"Create", "Modify"}
      BY <1>5, <3>2 DEF ChangeType
    <3> QED
      BY <1>1, <2>1, <3>3, CurrentInOrder DEF RInv
  <2>4. GivenNames' /\ RefsGiven' /\ ResultIs'
    BY <1>1, <1>2, <1>3, <1>5, <2>1, <2>2, <2>3, NamesStep, ResultStep
  <2>5. \E s \in Statement : file' = Append(file, s) /\ s.of = Current.element.eid /\ s.type = Current.type
    BY <1>5, <2>1, ReadFacts, WriteFacts
  <2>6. FromPast'
    BY <1>1, <1>3, <2>1, <2>5, FromPastStep
  <2> QED
    BY <2>4, <2>6
<1>6. CASE RefuseChange \/ NextProvider \/ Finish
  <2>1. UNCHANGED <<nextId, newIds, file>>
    BY <1>6 DEF RefuseChange, NextProvider, Finish
  <2>2. Past' = Past
    <3>1. CASE NextProvider
      BY <1>1, <3>1, GoingOn DEF RInv, NextProvider
    <3>2. CASE RefuseChange \/ Finish
      BY <1>1, <3>2 DEF RefuseChange, Finish, Past
    <3> QED
      BY <1>6, <3>1, <3>2
  <2>3. FromPast'
    BY <1>1, <1>3, <2>1, <2>2 DEF FromPast
  <2> QED
    BY <1>1, <1>3, <2>1, <2>3, NothingWritten
<1> QED
  BY <1>4, <1>5, <1>6 DEF Write

\* Before that, nothing is written.
LEMMA CleanerMakes == ASSUME TypeOK, RInv, XInv, Clean PROVE XInv'
<1> USE DEF readVars, cleanVars, writeVars
<1>1. pc = "clean" /\ UNCHANGED <<format, clean, input, nextId, newIds, file>>
  BY DEF Clean, DiscardDelete, TakeChange, NextProviderToClean, EndCleaning
<1>2. SUFFICES ASSUME OneDifference PROVE FromPast' /\ GivenNames' /\ RefsGiven' /\ ResultIs'
  BY <1>1 DEF XInv, OneDifference
<1>3. GivenNames' /\ RefsGiven' /\ ResultIs'
  BY <1>1, <1>2, NothingWritten DEF XInv
<1>4. file' = <<>>
  BY <1>1 DEF RInv, Kept
<1>5. FromPast'
  BY <1>4 DEF FromPast
<1> QED
  BY <1>3, <1>5

\* An empty file leaves the old map as it is.
LEMMA MakesNothing == ASSUME TypeOK, Init PROVE XInv
<1>1. file = <<>> /\ newIds = <<>>
  BY DEF Init
<1>2. Creates = {} /\ Written = {} /\ Removed = {} /\ \A e : ~Lost(e)
  BY <1>1 DEF Creates, Written, Removed, Lost
<1>3. FromPast
  BY <1>1 DEF FromPast
<1>4. GivenNames
  <2>1. format = "sql" => \A t \in ElementType : nextId[t] >= FirstId
    <3>1. nextId = [t \in ElementType |-> IF format = "xml" THEN 1 ELSE FirstId]
      BY DEF Init
    <3>2. format = "sql" => \A t \in ElementType : nextId[t] = FirstId
      BY <3>1
    <3>3. FirstId >= FirstId
      <4>1. FirstId \in Nat
        BY FileAssumption
      <4> QED
        BY <4>1
    <3> QED
      BY <3>2, <3>3
  <2>2. DOMAIN newIds = {}
    BY <1>1
  <2>3. \A x : x \in DOMAIN newIds <=> \E i \in Creates : file[i].of = x
    BY <1>2, <2>2
  <2>4. /\ \A i \in Creates : newIds[file[i].of] = file[i].eid
        /\ \A x \in Written : x.id <= 0 => x \in DOMAIN newIds
    BY <1>2
  <2> QED
    BY <2>1, <2>2, <2>3, <2>4 DEF GivenNames
<1>5. RefsGiven
  BY <1>2 DEF RefsGiven
<1>6. Result = Plain(input[1].from)
  BY <1>1, FoldNothing DEF Result
<1>7. ResultIs
  BY <1>2, <1>6 DEF ResultIs, Undone, Plain
<1> QED
  BY <1>3, <1>4, <1>5, <1>7 DEF XInv

LEMMA MakesInv == ASSUME SoundMaps(Inputs), NewComeFirst(Inputs) PROVE Spec => []XInv
<1>1. TypeOK /\ Init => XInv
  BY MakesNothing
<1>2. TypeOK /\ RInv /\ OInv /\ NInv /\ XInv /\ [Next]_fileVars => XInv'
  <2> SUFFICES ASSUME TypeOK, RInv, OInv, NInv, XInv, [Next]_fileVars PROVE XInv'
    OBVIOUS
  <2>1. CASE UNCHANGED fileVars
    <3> USE <2>1 DEF fileVars, readVars, cleanVars, writeVars
    <3>1. UNCHANGED <<format, input, pc, nextId, newIds, file>> /\ Lists' = Lists /\ Past' = Past
      BY DEF Lists, Given, Past
    <3>2. ASSUME OneDifference PROVE GivenNames' /\ RefsGiven' /\ ResultIs'
      BY <3>1, <3>2, NothingWritten DEF XInv
    <3>3. FromPast => FromPast'
      BY <3>1 DEF FromPast
    <3>4. OneDifference' <=> OneDifference
      BY <3>1 DEF OneDifference
    <3> QED
      BY <3>2, <3>3, <3>4 DEF XInv
  <2>2. CASE Clean
    BY <2>2, CleanerMakes
  <2>3. CASE Write
    BY <2>3, WriterMakes
  <2> QED
    BY <2>1, <2>2, <2>3 DEF Next
<1> QED
  BY <1>1, <1>2, TypeCorrect, ReadInv, OneRead, NamesInv, PTL DEF Spec

\* In the end the file speaks of what the maps differ in, and of nothing else.
LEMMA WrittenAtEnd ==
  ASSUME TypeOK, RInv, WInv, OInv, OneDifference, FromPast, pc = "done"
  PROVE  /\ \A c \in Difference(input[1]) :
              /\ c.type # "Unknown"
              /\ \E i \in DOMAIN file : file[i].of = c.element.eid /\ file[i].type = c.type
         /\ \A i \in DOMAIN file : \E c \in Difference(input[1]) : c.element.eid = file[i].of /\ c.type = file[i].type
<1>1. input[1] \in [from : Maps, to : Maps]
  BY OneInput
<1>2. Covers(Lists, input[1])
  BY DEF OInv
<1>3. Past = Places(Lists)
  BY PastAtEnd DEF RInv
<1>4. ASSUME NEW c \in Difference(input[1]) PROVE c.type # "Unknown" /\ Real(c)
  <2>1. c.type \in ChangeType /\ c.element \in input[1].from \cup input[1].to
    <3>1. /\ c.type \in ChangeType
          /\ c.type \in {"Create", "Modify"} => c.element \in input[1].to
          /\ c.type \in {"Delete", "Unknown"} => c.element \in input[1].from
      BY <1>1, <1>4, DifferenceIs
    <3> QED
      BY <3>1 DEF ChangeType
  <2>2. c.type = "Unknown" => c.element.exclude
    BY <1>1, <1>4, DifferenceIs
  <2> QED
    BY <2>1, <2>2 DEF OneDifference, Real
<1>5. ASSUME NEW c \in Difference(input[1])
      PROVE  \E i \in DOMAIN file : file[i].of = c.element.eid /\ file[i].type = c.type
  <2>1. PICK p \in Places(Lists) : At(Lists, p) = c
    BY <1>2, <1>5 DEF Covers
  <2>2. First(Lists, p)
    BY <1>2, NotBeforeItself DEF First, Covers
  <2> QED
    BY <1>3, <1>4, <1>5, <2>1, <2>2 DEF WInv, WrittenSoFar
<1>6. \A i \in DOMAIN file : \E c \in Difference(input[1]) : c.element.eid = file[i].of /\ c.type = file[i].type
  <2> TAKE i \in DOMAIN file
  <2>1. PICK p \in Past : At(Lists, p).element.eid = file[i].of /\ At(Lists, p).type = file[i].type
    BY DEF FromPast
  <2>2. At(Lists, p) \in Difference(input[1])
    BY <1>2, <1>3, <2>1 DEF Covers
  <2> QED
    BY <2>1, <2>2
<1> QED
  BY <1>4, <1>5, <1>6

\* Then an element of the old map that nothing was written for is in the new map as it was.
LEMMA UnchangedAtEnd ==
  ASSUME SoundMaps(Inputs), TypeOK, OneDifference, GivenNames,
         \A c \in Difference(input[1]) :
           /\ c.type # "Unknown"
           /\ \E i \in DOMAIN file : file[i].of = c.element.eid /\ file[i].type = c.type,
         \A i \in DOMAIN file : \E c \in Difference(input[1]) : c.element.eid = file[i].of /\ c.type = file[i].type,
         NEW e \in input[1].from, e.eid \notin Written
  PROVE  /\ ~Lost(e)
         /\ \E f \in input[1].to : f.eid = e.eid
         /\ \A f \in input[1].to : f.eid = e.eid => As(f) = [eid |-> e.eid, refs |-> e.refs]
<1>1. input[1] \in [from : Maps, to : Maps]
  BY OneInput
<1>2. \A c \in Difference(input[1]) : c.element.eid \in Written
  BY DEF Written
<1>3. \E f \in input[1].to : f.eid = e.eid
  <2> SUFFICES ASSUME \A f \in input[1].to : e.eid # f.eid PROVE FALSE
    OBVIOUS
  <2>1. PICK t \in {"Delete", "Unknown"} : [type |-> t, element |-> e] \in Difference(input[1])
    BY <1>1, DifferenceIs
  <2>2. [type |-> t, element |-> e].element.eid \in Written
    BY <1>2, <2>1
  <2> QED
    BY <2>2
<1>4. \A f \in input[1].to : f.eid = e.eid => f.refs = e.refs
  <2> SUFFICES ASSUME NEW f \in input[1].to, e.eid = f.eid, e.refs # f.refs PROVE FALSE
    OBVIOUS
  <2>1. [type |-> "Modify", element |-> f] \in Difference(input[1])
    BY <1>1, DifferenceIs
  <2>2. [type |-> "Modify", element |-> f].element.eid \in Written
    BY <1>2, <2>1
  <2> QED
    BY <2>2
<1>5. ~Lost(e)
  <2> SUFFICES ASSUME NEW r \in ToSet(e.refs), r \in Removed PROVE FALSE
    BY DEF Lost
  <2>1. PICK i \in DOMAIN file : file[i].type = "Delete" /\ file[i].of = r
    BY DEF Removed
  <2>2. PICK c \in Difference(input[1]) : c.element.eid = r /\ c.type = "Delete"
    BY <2>1
  <2>3. \A f \in input[1].to : f.eid # r
    BY <1>1, <2>2, DifferenceIs
  <2>4. PICK f \in input[1].to : f.eid = e.eid
    BY <1>3
  <2>5. r \in ToSet(f.refs)
    BY <1>4, <2>4
  <2> QED
    BY <2>3, <2>5, SoundFacts
<1>6. ASSUME NEW f \in input[1].to, f.eid = e.eid PROVE As(f) = [eid |-> e.eid, refs |-> e.refs]
  <2>1. e.eid.id > 0 /\ e.refs \in Seq(ElementIds) /\ \A r \in ToSet(e.refs) : r.id > 0
    BY SoundFacts
  <2>2. \A y \in DOMAIN newIds : ~(y.id > 0)
    BY DEF GivenNames, TypeOK, ElementIds
  <2>3. NameOf(e.eid) = e.eid
    BY <2>1, <2>2 DEF NameOf
  <2>4. \A i \in DOMAIN e.refs : e.refs[i] \notin DOMAIN newIds
    BY <2>1, <2>2 DEF ToSet
  <2>5. Renamed(e.refs, newIds) = e.refs
    BY <2>1, <2>4 DEF Renamed
  <2> QED
    BY <1>4, <1>6, <2>3, <2>5 DEF As
<1> QED
  BY <1>3, <1>5, <1>6

\* And every new element has one id, its name.
LEMMA NamesAtEnd ==
  ASSUME TypeOK, OneDifference, GivenNames,
         \A c \in Difference(input[1]) : \E i \in DOMAIN file : file[i].of = c.element.eid /\ file[i].type = c.type,
         \A i \in DOMAIN file : \E c \in Difference(input[1]) : c.element.eid = file[i].of /\ c.type = file[i].type
  PROVE  /\ DOMAIN newIds = {e.eid : e \in input[1].to} \ {e.eid : e \in input[1].from}
         /\ \A x \in DOMAIN newIds : IdsOf(x) = {newIds[x]}
<1> DEFINE new == {e.eid : e \in input[1].to} \ {e.eid : e \in input[1].from}
<1>1. input[1] \in [from : Maps, to : Maps]
  BY OneInput
<1>2. ASSUME NEW x \in new PROVE x \in DOMAIN newIds
  <2>1. PICK e \in input[1].to : x = e.eid
    BY <1>2
  <2>2. \A f \in input[1].from : f.eid # x
    BY <1>2
  <2>3. [type |-> "Create", element |-> e] \in Difference(input[1])
    BY <1>1, <2>1, <2>2, DifferenceIs
  <2>4. PICK i \in DOMAIN file : file[i].of = x /\ file[i].type = "Create"
    BY <2>1, <2>3
  <2>5. i \in Creates
    BY <2>4 DEF Creates
  <2> QED
    BY <2>4, <2>5 DEF GivenNames
<1>3. ASSUME NEW x \in DOMAIN newIds PROVE x \in new
  <2>1. PICK i \in Creates : file[i].of = x
    BY DEF GivenNames
  <2>2. i \in DOMAIN file /\ file[i].type = "Create"
    BY <2>1 DEF Creates
  <2>3. PICK c \in Difference(input[1]) : c.element.eid = x /\ c.type = "Create"
    BY <2>1, <2>2
  <2>4. c.element \in input[1].to /\ \A f \in input[1].from : f.eid # x
    BY <1>1, <2>3, DifferenceIs
  <2> QED
    BY <2>3, <2>4
<1>4. ASSUME NEW x \in DOMAIN newIds PROVE IdsOf(x) = {newIds[x]}
  <2>1. \A i \in Creates : file[i].of = x => newIds[x] = file[i].eid
    BY DEF GivenNames
  <2>2. \E i \in Creates : file[i].of = x
    BY DEF GivenNames
  <2> QED
    BY <2>1, <2>2 DEF IdsOf
<1> HIDE DEF new
<1>5. DOMAIN newIds = new
  BY <1>2, <1>3
<1> QED
  BY <1>4, <1>5 DEF new

\* The file made of the difference of any two sound maps makes the new map of the old one, but
\* for the names of the new elements, with either writer, cleaned or not.
THEOREM FileReachesTarget == ASSUME SoundMaps(Inputs), NewComeFirst(Inputs) PROVE Spec => []ReachesTarget
<1>1. TypeOK /\ RInv /\ WInv /\ OInv /\ XInv => ReachesTarget
  <2> DEFINE from == input[1].from
             to == input[1].to
             new == {e.eid : e \in to} \ {e.eid : e \in from}
             name(eid) == IF eid \in new THEN CHOOSE i \in IdsOf(eid) : TRUE ELSE eid
             named(e) == [eid |-> name(e.eid), refs |-> [i \in DOMAIN e.refs |-> name(e.refs[i])]]
  <2> SUFFICES ASSUME TypeOK, RInv, WInv, OInv, XInv, pc = "done", OneDifference
               PROVE  /\ \A eid \in new : Cardinality(IdsOf(eid)) = 1
                      /\ Result = {named(e) : e \in Plain(to)}
    BY DEF ReachesTarget
  <2>1. FromPast /\ GivenNames /\ ResultIs
    BY DEF XInv
  <2>2. /\ \A c \in Difference(input[1]) :
             /\ c.type # "Unknown"
             /\ \E i \in DOMAIN file : file[i].of = c.element.eid /\ file[i].type = c.type
        /\ \A i \in DOMAIN file : \E c \in Difference(input[1]) : c.element.eid = file[i].of /\ c.type = file[i].type
    BY <2>1, WrittenAtEnd
  <2>3. DOMAIN newIds = new /\ \A x \in DOMAIN newIds : IdsOf(x) = {newIds[x]}
    BY <2>1, <2>2, NamesAtEnd
  <2> HIDE DEF from, to, new
  <2>4. \A x \in new : Cardinality(IdsOf(x)) = 1
    BY <2>3, FS_Singleton
  <2>5. \A x : name(x) = NameOf(x)
    BY <2>3 DEF NameOf
  <2> HIDE DEF name
  <2>6. \A e : named(e) = As(e)
    <3> TAKE e
    <3>1. [i \in DOMAIN e.refs |-> name(e.refs[i])] = Renamed(e.refs, newIds)
      BY <2>5 DEF Renamed, NameOf
    <3> QED
      BY <2>5, <3>1 DEF As
  <2> HIDE DEF named
  <2>7. {named(e) : e \in Plain(to)} = {As(e) : e \in to}
    <3>1. \A e : As([eid |-> e.eid, refs |-> e.refs]) = As(e)
      BY DEF As
    <3> QED
      BY <2>6, <3>1 DEF Plain
  <2>8. ASSUME NEW e \in from, e.eid \notin Written
        PROVE  ~Lost(e) /\ \E f \in to : f.eid = e.eid /\ As(f) = [eid |-> e.eid, refs |-> e.refs]
    BY <2>1, <2>2, <2>8, UnchangedAtEnd DEF from, to
  <2>9. ASSUME NEW m \in Result PROVE \E f \in to : m = As(f)
    <3>1. CASE Done(m)
      BY <3>1 DEF Done, to
    <3>2. CASE Undone(m)
      <4>1. PICK e \in from : e.eid \notin Written /\ m = [eid |-> e.eid, refs |-> m.refs] /\ (~Lost(e) => m.refs = e.refs)
        BY <3>2 DEF Undone, from
      <4> QED
        BY <2>8, <4>1
    <3> QED
      BY <2>1, <3>1, <3>2 DEF ResultIs
  <2>10. ASSUME NEW f \in to PROVE As(f) \in Result
    <3>1. CASE f.eid \in Written
      BY <2>1, <3>1 DEF ResultIs, to
    <3>2. CASE f.eid \notin Written
      <4>1. PICK e \in from : e.eid = f.eid
        <5>1. f.eid \notin new
          <6>1. \A x \in DOMAIN newIds : x \in Written
            BY <2>1 DEF GivenNames, Creates, Written
          <6> QED
            BY <2>3, <3>2, <6>1
        <5> QED
          BY <5>1 DEF new
      <4>2. As(f) = [eid |-> e.eid, refs |-> e.refs] /\ ~Lost(e)
        BY <2>1, <2>2, <3>2, <4>1, UnchangedAtEnd DEF from, to
      <4> QED
        BY <2>1, <3>2, <4>1, <4>2 DEF ResultIs, from
    <3> QED
      BY <3>1, <3>2
  <2>11. Result = {As(e) : e \in to}
    BY <2>9, <2>10
  <2> QED
    BY <2>4, <2>7, <2>11
<1> QED
  BY <1>1, TypeCorrect, ReadInv, NoteInv, OneRead, MakesInv, PTL
=============================================================================
