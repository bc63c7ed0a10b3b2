---------------------------- MODULE MCFileWriter ----------------------------
(***************************************************************************)
(* A map of two nodes, a way and a relation and what may become of it:     *)
(* elements changed, removed and added, in any combination in which no     *)
(* reference is lost; and any two of a few such changes, which overlap, as *)
(* the changes of two providers.                                           *)
(***************************************************************************)
EXTENDS ChangesetFileWriter

N(n) == [type |-> 0, id |-> n]
W(n) == [type |-> 1, id |-> n]
R(n) == [type |-> 2, id |-> n]
E(eid, refs) ==
    [eid |-> eid, version |-> IF eid.id > 0 THEN 1 ELSE 0, refs |-> refs, body |-> "a",
     outside |-> FALSE, exclude |-> FALSE]
Changed(e) == [e EXCEPT !.body = "b"]
Outside(e) == [e EXCEPT !.outside = TRUE]
Excluded(e) == [e EXCEPT !.exclude = TRUE]
NoVersion(e) == [e EXCEPT !.version = 0]

N1 == E(N(1), <<>>)
N2 == E(N(2), <<>>)
W3 == E(W(3), <<N(1), N(2)>>)
R4 == E(R(4), <<W(3)>>)
OldMap == {N1, N2, W3, R4}
A == E(N(-1), <<>>)
B == E(N(-2), <<>>)
ABWay == E(W(-1), <<N(-2), N(-1)>>)
NewWay == E(W(-1), <<N(-1), N(1)>>)

\* What may become of each element, of the old ones and of the new ones: an empty set, nothing.
Alternatives ==
    << {{N1}, {Changed(N1)}}, {{N2}, {}}, {{W3}, {E(W(3), <<N(1), N(-1)>>)}, {}},
       {{R4}, {E(R(4), <<W(-1)>>)}, {}}, {{A}, {}}, {{B}, {}}, {{NewWay}, {ABWay}, {}},
       {{E(R(-1), <<W(-1), W(3)>>)}, {E(R(-1), <<N(-1)>>)}, {}} >>
Closed(map) == \A e \in map : \A r \in ToSet(e.refs) : \E f \in map : f.eid = r
NewMaps ==
    {map \in {a \cup b \cup c \cup d \cup e \cup f \cup g \cup h :
                a \in Alternatives[1], b \in Alternatives[2], c \in Alternatives[3],
                d \in Alternatives[4], e \in Alternatives[5], f \in Alternatives[6],
                g \in Alternatives[7], h \in Alternatives[8]} : Closed(map)}

Pair(from, to) == [from |-> from, to |-> to]
Overlapping ==
    { Pair(OldMap, {Changed(N1), N2, W3, R4, A, NewWay}),
      Pair(OldMap, {N1}),
      Pair({N1, N2, W3}, {N1, N2, A, E(W(3), <<N(1), N(-1)>>)}),
      Pair({}, {A, B, ABWay, E(R(-1), <<W(-1)>>)}),
      Pair({N1, Excluded(N2)}, {Changed(N1)}),
      Pair({N1, N2}, {Changed(N1), Changed(N2)}),
      Pair({N1, N2}, {Outside(Changed(N1)), Changed(N2)}),
      Pair({NoVersion(N2)}, {NoVersion(Changed(N2))}) }

SomeInputs ==
    {<<Pair(OldMap, map)>> : map \in NewMaps}
      \cup (Overlapping \X Overlapping)
Elements == UNION UNION {{p.from \cup p.to : p \in ToSet(in)} : in \in SomeInputs}

\* No new element refers to one that comes later, unlike in ForwardInputs.
ASSUME NewFirst == NewComeFirst(SomeInputs)

\* New elements alone have no database ids, and no new map refers to what it lacks.
ASSUME Sound == SoundMaps(SomeInputs)

-----------------------------------------------------------------------------
\* A new relation that comes before the new relation it refers to.
ForwardInputs ==
    {<<Pair({}, {A, E(R(-2), <<R(-1)>>), E(R(-1), <<N(-1)>>)})>>}
      \cup {<<Pair(OldMap, OldMap \cup {A, E(R(-3), <<N(-1), r>>), E(R(-1), <<N(-1)>>)})>> : r \in {R(-1), N(1)}}
ForwardElements == UNION UNION {{p.from \cup p.to : p \in ToSet(in)} : in \in ForwardInputs}
=============================================================================
