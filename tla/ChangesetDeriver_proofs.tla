----------------------- MODULE ChangesetDeriver_proofs -----------------------
(***************************************************************************)
(* For any two streams in the order of their ids, of whatever length, the  *)
(* deriver gives out the difference of the two, in that order.             *)
(***************************************************************************)
EXTENDS ChangesetDeriver, FiniteSetTheorems, TLAPS

\* How many elements of each stream have been dealt with: all that have been read except
\* the one at hand.
FromDone == IF fromE = Null THEN numFrom ELSE numFrom - 1
ToDone == IF toE = Null THEN numTo ELSE numTo - 1

\* The element at hand is the last one read; there is none only before the first look and
\* after the last element.
Heads ==
    /\ fromE # Null => numFrom # 0 /\ fromE = from[numFrom]
    /\ toE # Null => numTo # 0 /\ toE = to[numTo]
    /\ fromE = Null /\ pc # "ask" => numFrom = Len(from)
    /\ toE = Null /\ pc # "ask" => numTo = Len(to)
    /\ fromE = Null => numFrom = 0 \/ numFrom = Len(from)
    /\ toE = Null => numTo = 0 \/ numTo = Len(to)

\* What has been dealt with of one stream comes before what is left of the other.
Merged ==
    /\ \A i \in 1..FromDone, j \in (ToDone + 1)..Len(to) : Less(from[i].eid, to[j].eid)
    /\ \A j \in 1..ToDone, i \in (FromDone + 1)..Len(from) : Less(to[j].eid, from[i].eid)

Ordered == StrictlySorted(from) /\ StrictlySorted(to)

\* The changes that elements call for.
New(e) == \A i \in 1..Len(from) : from[i].eid # e.eid
Gone(f) == \A j \in 1..Len(to) : to[j].eid # f.eid
Creation(e) == [type |-> "Create", element |-> e, previous |-> Null]
Modification(f, e) == [type |-> "Modify", element |-> e, previous |-> f]
Removal(t, f) == [type |-> t, element |-> f, previous |-> Null]
Removes(t, f) ==
    /\ t \in {"Delete", "Unknown"}
    /\ t = "Delete" => ~f.exclude
    /\ t = "Unknown" /\ allow => f.exclude

\* Every element dealt with has led to its change, or to none if it has none.
Complete(out) ==
    /\ \A j \in 1..ToDone : New(to[j]) => Creation(to[j]) \in out
    /\ \A i \in 1..FromDone, j \in 1..ToDone :
         from[i].eid = to[j].eid /\ ~Identical(from[i], to[j]) => Modification(from[i], to[j]) \in out
    /\ \A i \in 1..FromDone :
         Gone(from[i]) => \E t \in {"Delete", "Unknown"} : Removal(t, from[i]) \in out

\* No other change has been given out.
Sound(c) ==
    \/ \E j \in 1..ToDone : New(to[j]) /\ c = Creation(to[j])
    \/ \E i \in 1..FromDone, j \in 1..ToDone :
         /\ from[i].eid = to[j].eid /\ ~Identical(from[i], to[j])
         /\ c = Modification(from[i], to[j])
    \/ \E i \in 1..FromDone, t \in {"Delete", "Unknown"} :
         Gone(from[i]) /\ Removes(t, from[i]) /\ c = Removal(t, from[i])

Out == derived \cup (IF pc = "give" THEN {next} ELSE {})

\* What has been given out comes before all that is at hand or to be read.
Behind ==
    \A c \in derived :
      /\ \A i \in (FromDone + 1)..Len(from) : Less(c.element.eid, from[i].eid)
      /\ \A j \in (ToDone + 1)..Len(to) : Less(c.element.eid, to[j].eid)

IInv ==
    /\ TypeOK
    /\ Heads
    /\ Ordered
    /\ Merged
    /\ Complete(Out)
    /\ \A c \in Out : Sound(c)
    /\ pc = "done" => fromE = Null /\ toE = Null
    /\ GivenInOrder

-----------------------------------------------------------------------------
(* The order of ids, and the streams. *)

\* The order of ids is a strict total order.
LEMMA LessIrreflexive == \A a \in ElementIds : ~Less(a, a)
  BY DEF ElementIds, ElementType, Less

\* ... it is transitive,
LEMMA LessTransitive ==
  \A a, b, c \in ElementIds : Less(a, b) /\ Less(b, c) => Less(a, c)
  BY DEF ElementIds, ElementType, Less

\* ... and total.
LEMMA LessTotal == \A a, b \in ElementIds : a = b \/ Less(a, b) \/ Less(b, a)
<1> SUFFICES ASSUME NEW a \in ElementIds, NEW b \in ElementIds, ~Less(a, b), ~Less(b, a)
             PROVE  a = b
  OBVIOUS
<1>1. a.type = b.type /\ a.id = b.id
  BY DEF ElementIds, ElementType, Less
<1> QED BY <1>1 DEF ElementIds

\* Where the two streams are while the elements at hand are compared.
LEMMA Position ==
  ASSUME TypeOK, Heads
  PROVE  /\ FromDone \in 0..Len(from) /\ ToDone \in 0..Len(to)
         /\ fromE # Null => FromDone + 1 \in 1..Len(from) /\ fromE = from[FromDone + 1]
         /\ toE # Null => ToDone + 1 \in 1..Len(to) /\ toE = to[ToDone + 1]
         /\ fromE = Null /\ pc # "ask" => FromDone = Len(from)
         /\ toE = Null /\ pc # "ask" => ToDone = Len(to)
<1>1. Len(from) \in Nat /\ Len(to) \in Nat /\ numFrom \in 0..Len(from) /\ numTo \in 0..Len(to)
  BY DEF TypeOK
<1> QED BY <1>1 DEF Heads, FromDone, ToDone

\* One more element of "from" has been dealt with.
LEMMA FromAdvances ==
  ASSUME TypeOK, Heads, fromE # Null, AdvanceFrom, UNCHANGED from
  PROVE  /\ FromDone' = FromDone + 1
         /\ numFrom' \in 0..Len(from) /\ fromE' \in Element \cup {Null}
         /\ fromE' # Null => numFrom' # 0 /\ fromE' = from[numFrom']
         /\ fromE' = Null => numFrom' = Len(from)
<1>1. Len(from) \in Nat /\ numFrom \in 0..Len(from) /\ numFrom # 0
  BY DEF TypeOK, Heads
<1>2. CASE numFrom < Len(from)
  <2>1. fromE' = from[numFrom + 1] /\ numFrom' = numFrom + 1
    BY <1>2 DEF AdvanceFrom
  <2>2. from[numFrom + 1] \in Element
    BY <1>1, <1>2 DEF TypeOK
  <2> QED BY <1>1, <1>2, <2>1, <2>2, ElementAssumption DEF FromDone
<1>3. CASE ~(numFrom < Len(from))
  <2>1. fromE' = Null /\ numFrom' = numFrom /\ numFrom = Len(from)
    BY <1>1, <1>3 DEF AdvanceFrom
  <2> QED BY <1>1, <2>1 DEF FromDone
<1> QED BY <1>2, <1>3

\* One more element of "to" has been dealt with.
LEMMA ToAdvances ==
  ASSUME TypeOK, Heads, toE # Null, AdvanceTo, UNCHANGED to
  PROVE  /\ ToDone' = ToDone + 1
         /\ numTo' \in 0..Len(to) /\ toE' \in Element \cup {Null}
         /\ toE' # Null => numTo' # 0 /\ toE' = to[numTo']
         /\ toE' = Null => numTo' = Len(to)
<1>1. Len(to) \in Nat /\ numTo \in 0..Len(to) /\ numTo # 0
  BY DEF TypeOK, Heads
<1>2. CASE numTo < Len(to)
  <2>1. toE' = to[numTo + 1] /\ numTo' = numTo + 1
    BY <1>2 DEF AdvanceTo
  <2>2. to[numTo + 1] \in Element
    BY <1>1, <1>2 DEF TypeOK
  <2> QED BY <1>1, <1>2, <2>1, <2>2, ElementAssumption DEF ToDone
<1>3. CASE ~(numTo < Len(to))
  <2>1. toE' = Null /\ numTo' = numTo /\ numTo = Len(to)
    BY <1>1, <1>3 DEF AdvanceTo
  <2> QED BY <1>1, <2>1 DEF ToDone
<1> QED BY <1>2, <1>3

\* No more of "from" has been dealt with while its element stays at hand,
LEMMA FromStays == ASSUME KeepFrom PROVE FromDone' = FromDone
  BY DEF KeepFrom, FromDone

\* ... nor of "to".
LEMMA ToStays == ASSUME KeepTo PROVE ToDone' = ToDone
  BY DEF KeepTo, ToDone

\* All elements of both streams have ids.
LEMMA Eids ==
  ASSUME TypeOK
  PROVE  /\ \A i \in 1..Len(from) : from[i] \in Element /\ from[i].eid \in ElementIds
         /\ \A j \in 1..Len(to) : to[j] \in Element /\ to[j].eid \in ElementIds
<1>1. /\ \A i \in 1..Len(from) : from[i] \in Element
      /\ \A j \in 1..Len(to) : to[j] \in Element
  BY DEF TypeOK
<1> QED BY <1>1, ElementAssumption

\* Elements further on in a stream come later in the order.
LEMMA InOrder ==
  ASSUME TypeOK, Ordered
  PROVE  /\ \A i, k \in 1..Len(from) : i < k => Less(from[i].eid, from[k].eid)
         /\ \A j, k \in 1..Len(to) : j < k => Less(to[j].eid, to[k].eid)
<1>1. DOMAIN from = 1..Len(from) /\ DOMAIN to = 1..Len(to)
  BY DEF TypeOK
<1> QED BY <1>1 DEF Ordered, StrictlySorted

-----------------------------------------------------------------------------
(* The elements at hand, and those that are left. *)

\* A new element at hand is in front of all that is left of "from".
LEMMA NewAtHand ==
  ASSUME TypeOK, Heads, Ordered, Merged, pc = "compare", IsNew
  PROVE  /\ ToDone + 1 \in 1..Len(to) /\ toE = to[ToDone + 1]
         /\ \A i \in (FromDone + 1)..Len(from) : Less(toE.eid, from[i].eid)
         /\ New(toE)
<1>1. /\ FromDone \in 0..Len(from) /\ ToDone + 1 \in 1..Len(to) /\ toE = to[ToDone + 1]
      /\ Len(from) \in Nat /\ Len(to) \in Nat /\ ToDone \in 0..Len(to)
      /\ fromE # Null => FromDone + 1 \in 1..Len(from) /\ fromE = from[FromDone + 1]
      /\ fromE = Null => FromDone = Len(from)
  BY Position DEF IsNew, TypeOK
<1>2. \A i \in (FromDone + 1)..Len(from) : Less(toE.eid, from[i].eid)
  <2> SUFFICES ASSUME NEW i \in (FromDone + 1)..Len(from) PROVE Less(toE.eid, from[i].eid)
    OBVIOUS
  <2>1. fromE # Null /\ FromDone + 1 \in 1..Len(from) /\ fromE = from[FromDone + 1] /\ i \in 1..Len(from)
    BY <1>1
  <2>2. Less(toE.eid, fromE.eid)
    BY <2>1 DEF IsNew
  <2>3. CASE i = FromDone + 1
    BY <2>1, <2>2, <2>3
  <2>4. CASE i > FromDone + 1
    <3>1. Less(fromE.eid, from[i].eid)
      BY <2>1, <2>4, InOrder
    <3> QED BY <1>1, <2>1, <2>2, <3>1, Eids, LessTransitive
  <2> QED BY <1>1, <2>3, <2>4
<1>3. New(toE)
  <2> SUFFICES ASSUME NEW i \in 1..Len(from), from[i].eid = toE.eid PROVE FALSE
    BY DEF New
  <2>1. CASE i \in 1..FromDone
    <3>1. Less(from[i].eid, toE.eid)
      BY <1>1, <2>1 DEF Merged
    <3> QED BY <3>1, Eids, LessIrreflexive
  <2>2. CASE i \in (FromDone + 1)..Len(from)
    BY <1>2, <2>2, Eids, LessIrreflexive
  <2> QED BY <1>1, <2>1, <2>2
<1> QED BY <1>1, <1>2, <1>3

\* ... and one that is gone is in front of all that is left of "to".
LEMMA GoneAtHand ==
  ASSUME TypeOK, Heads, Ordered, Merged, pc = "compare", IsGone
  PROVE  /\ FromDone + 1 \in 1..Len(from) /\ fromE = from[FromDone + 1]
         /\ \A j \in (ToDone + 1)..Len(to) : Less(fromE.eid, to[j].eid)
         /\ Gone(fromE)
<1>1. /\ ToDone \in 0..Len(to) /\ FromDone + 1 \in 1..Len(from) /\ fromE = from[FromDone + 1]
      /\ Len(from) \in Nat /\ Len(to) \in Nat /\ FromDone \in 0..Len(from)
      /\ toE # Null => ToDone + 1 \in 1..Len(to) /\ toE = to[ToDone + 1]
      /\ toE = Null => ToDone = Len(to)
  BY Position DEF IsGone, TypeOK
<1>2. \A j \in (ToDone + 1)..Len(to) : Less(fromE.eid, to[j].eid)
  <2> SUFFICES ASSUME NEW j \in (ToDone + 1)..Len(to) PROVE Less(fromE.eid, to[j].eid)
    OBVIOUS
  <2>1. toE # Null /\ ToDone + 1 \in 1..Len(to) /\ toE = to[ToDone + 1] /\ j \in 1..Len(to)
    BY <1>1
  <2>2. Less(fromE.eid, toE.eid)
    BY <2>1 DEF IsGone
  <2>3. CASE j = ToDone + 1
    BY <2>1, <2>2, <2>3
  <2>4. CASE j > ToDone + 1
    <3>1. Less(toE.eid, to[j].eid)
      BY <2>1, <2>4, InOrder
    <3> QED BY <1>1, <2>1, <2>2, <3>1, Eids, LessTransitive
  <2> QED BY <1>1, <2>3, <2>4
<1>3. Gone(fromE)
  <2> SUFFICES ASSUME NEW j \in 1..Len(to), to[j].eid = fromE.eid PROVE FALSE
    BY DEF Gone
  <2>1. CASE j \in 1..ToDone
    <3>1. Less(to[j].eid, fromE.eid)
      BY <1>1, <2>1 DEF Merged
    <3> QED BY <3>1, Eids, LessIrreflexive
  <2>2. CASE j \in (ToDone + 1)..Len(to)
    BY <1>2, <2>2, Eids, LessIrreflexive
  <2> QED BY <1>1, <2>1, <2>2
<1> QED BY <1>1, <1>2, <1>3

\* Two elements at hand with the same id are in front of all others that are left.
LEMMA SameAtHand ==
  ASSUME TypeOK, Heads, Ordered, Merged, pc = "compare",
         fromE # Null, toE # Null, fromE.eid = toE.eid
  PROVE  /\ FromDone + 1 \in 1..Len(from) /\ fromE = from[FromDone + 1]
         /\ ToDone + 1 \in 1..Len(to) /\ toE = to[ToDone + 1]
         /\ \A i \in (FromDone + 2)..Len(from) : Less(toE.eid, from[i].eid)
         /\ \A j \in (ToDone + 2)..Len(to) : Less(fromE.eid, to[j].eid)
<1>1. /\ FromDone + 1 \in 1..Len(from) /\ fromE = from[FromDone + 1]
      /\ ToDone + 1 \in 1..Len(to) /\ toE = to[ToDone + 1]
      /\ Len(from) \in Nat /\ Len(to) \in Nat
      /\ FromDone \in 0..Len(from) /\ ToDone \in 0..Len(to)
  BY Position DEF TypeOK
<1>2. \A i \in (FromDone + 2)..Len(from) : Less(from[FromDone + 1].eid, from[i].eid)
  BY <1>1, InOrder
<1>3. \A j \in (ToDone + 2)..Len(to) : Less(to[ToDone + 1].eid, to[j].eid)
  BY <1>1, InOrder
<1> QED BY <1>1, <1>2, <1>3

\* All changes given out are of elements in front of those that are left.
LEMMA AllBehind ==
  ASSUME TypeOK, Heads, Ordered, Merged, \A c \in derived : Sound(c)
  PROVE  Behind
<1> SUFFICES ASSUME NEW c \in derived
             PROVE  /\ \A i \in (FromDone + 1)..Len(from) : Less(c.element.eid, from[i].eid)
                    /\ \A j \in (ToDone + 1)..Len(to) : Less(c.element.eid, to[j].eid)
  BY DEF Behind
<1>1. /\ FromDone \in 0..Len(from) /\ ToDone \in 0..Len(to)
      /\ Len(from) \in Nat /\ Len(to) \in Nat
  BY Position DEF TypeOK
<1>2. \A i \in 1..FromDone : /\ \A k \in (FromDone + 1)..Len(from) : Less(from[i].eid, from[k].eid)
                            /\ \A j \in (ToDone + 1)..Len(to) : Less(from[i].eid, to[j].eid)
  BY <1>1, InOrder DEF Merged
<1>3. \A j \in 1..ToDone : /\ \A i \in (FromDone + 1)..Len(from) : Less(to[j].eid, from[i].eid)
                          /\ \A k \in (ToDone + 1)..Len(to) : Less(to[j].eid, to[k].eid)
  BY <1>1, InOrder DEF Merged
<1>4. \/ \E j \in 1..ToDone : c.element = to[j]
      \/ \E i \in 1..FromDone : c.element = from[i]
  BY DEF Sound, Creation, Modification, Removal
<1> QED BY <1>2, <1>3, <1>4

-----------------------------------------------------------------------------
(* The steps. *)

\* The strengthening holds at first.
LEMMA InitIInv == Init => IInv
<1> SUFFICES ASSUME Init PROVE IInv
  OBVIOUS
<1>1. PICK in \in Inputs : Fresh(in)
  BY DEF Init
<1>2. /\ from \in Seq(Element) /\ to \in Seq(Element) /\ StrictlySorted(from) /\ StrictlySorted(to)
      /\ numFrom = 0 /\ numTo = 0 /\ fromE = Null /\ toE = Null /\ pc = "ask" /\ next = NoChange
      /\ changesByType = [t \in ChangeType |-> 0] /\ derived = {} /\ allow \in BOOLEAN
  BY <1>1, ElementAssumption DEF Fresh, Init
<1>3. FromDone = 0 /\ ToDone = 0
  BY <1>2 DEF FromDone, ToDone
<1>4. NoChange \in Cleared
  BY DEF NoChange, Cleared, ChangeType
<1>5. Len(from) \in Nat /\ Len(to) \in Nat
  BY <1>2
<1>6. TypeOK
  BY <1>2, <1>4, <1>5 DEF TypeOK
<1>7. Heads /\ Merged /\ Ordered
  BY <1>2, <1>3 DEF Heads, Merged, Ordered
<1>8. Complete(Out) /\ \A c \in Out : Sound(c)
  BY <1>2, <1>3 DEF Complete, Out
<1> QED BY <1>2, <1>6, <1>7, <1>8 DEF IInv, GivenInOrder

\* The first look puts an element of each stream at hand.
LEMMA AskStep == IInv /\ Ask => IInv'
<1> SUFFICES ASSUME IInv, Ask PROVE IInv'
  OBVIOUS
<1>1. /\ pc = "ask" /\ pc' = "compare" /\ UNCHANGED <<allow, from, to, next, changesByType, derived>>
      /\ TypeOK /\ Heads
  BY DEF Ask, inputVars, IInv
<1>2. Len(from) \in Nat /\ Len(to) \in Nat /\ numFrom \in 0..Len(from) /\ numTo \in 0..Len(to)
  BY <1>1 DEF TypeOK
<1>3. /\ numFrom' \in 0..Len(from) /\ fromE' \in Element \cup {Null} /\ FromDone' = FromDone
      /\ fromE' # Null => numFrom' # 0 /\ fromE' = from[numFrom']
      /\ fromE' = Null => numFrom' = Len(from)
  <2>1. CASE fromE # Null
    BY <1>1, <1>2, <2>1 DEF Ask, KeepFrom, Heads, FromDone, TypeOK
  <2>2. CASE fromE = Null /\ numFrom < Len(from)
    <3>1. numFrom = 0 /\ numFrom' = 1 /\ fromE' = from[1]
      BY <1>1, <1>2, <2>2 DEF Ask, AdvanceFrom, Heads
    <3>2. from[1] \in Element
      BY <1>1, <1>2, <2>2 DEF TypeOK
    <3> QED BY <1>2, <2>2, <3>1, <3>2, ElementAssumption DEF FromDone
  <2>3. CASE fromE = Null /\ ~(numFrom < Len(from))
    BY <1>1, <1>2, <2>3 DEF Ask, AdvanceFrom, FromDone
  <2> QED BY <2>1, <2>2, <2>3
<1>4. /\ numTo' \in 0..Len(to) /\ toE' \in Element \cup {Null} /\ ToDone' = ToDone
      /\ toE' # Null => numTo' # 0 /\ toE' = to[numTo']
      /\ toE' = Null => numTo' = Len(to)
  <2>1. CASE toE # Null
    BY <1>1, <1>2, <2>1 DEF Ask, KeepTo, Heads, ToDone, TypeOK
  <2>2. CASE toE = Null /\ numTo < Len(to)
    <3>1. numTo = 0 /\ numTo' = 1 /\ toE' = to[1]
      BY <1>1, <1>2, <2>2 DEF Ask, AdvanceTo, Heads
    <3>2. to[1] \in Element
      BY <1>1, <1>2, <2>2 DEF TypeOK
    <3> QED BY <1>2, <2>2, <3>1, <3>2, ElementAssumption DEF ToDone
  <2>3. CASE toE = Null /\ ~(numTo < Len(to))
    BY <1>1, <1>2, <2>3 DEF Ask, AdvanceTo, ToDone
  <2> QED BY <2>1, <2>2, <2>3
<1>5. TypeOK'
  BY <1>1, <1>3, <1>4 DEF TypeOK
<1>6. Heads'
  BY <1>1, <1>3, <1>4 DEF Heads
<1>7. Ordered' /\ Merged'
  BY <1>1, <1>3, <1>4 DEF IInv, Ordered, Merged
<1>8. Out' = Out
  BY <1>1 DEF Out
<1>9. Complete(Out)'
  BY <1>1, <1>3, <1>4, <1>8 DEF IInv, Complete, New, Gone
<1>10. \A c \in Out' : Sound(c)'
  BY <1>1, <1>3, <1>4, <1>8 DEF IInv, Sound, New, Gone, Removes
<1> QED BY <1>1, <1>5, <1>6, <1>7, <1>9, <1>10 DEF IInv, GivenInOrder

\* The end of both streams: nothing is left.
LEMMA NoMoreStep == IInv /\ NoMoreChanges => IInv'
<1> SUFFICES ASSUME IInv, NoMoreChanges PROVE IInv'
  OBVIOUS
<1>1. /\ pc = "compare" /\ pc' = "done" /\ fromE = Null /\ toE = Null /\ next' = NoChange
      /\ UNCHANGED <<allow, from, to, numFrom, numTo, fromE, toE, changesByType, derived>>
  BY DEF NoMoreChanges, inputVars, streamVars
<1>2. NoChange \in Cleared
  BY DEF NoChange, Cleared, ChangeType
<1>3. Out' = Out /\ FromDone' = FromDone /\ ToDone' = ToDone
  BY <1>1 DEF Out, FromDone, ToDone
<1>4. TypeOK' /\ Heads' /\ Ordered' /\ Merged'
  BY <1>1, <1>2, <1>3 DEF IInv, TypeOK, Heads, Ordered, Merged
<1>5. Complete(Out)' /\ \A c \in Out' : Sound(c)'
  BY <1>1, <1>3 DEF IInv, Complete, Sound, New, Gone, Removes
<1> QED BY <1>1, <1>4, <1>5 DEF IInv, GivenInOrder

\* A change that is read was derived already.
LEMMA ReadStep == IInv /\ ReadNextChange => IInv'
<1> SUFFICES ASSUME IInv, ReadNextChange PROVE IInv'
  OBVIOUS
<1>1. /\ pc = "give" /\ pc' = "ask" /\ next' = [next EXCEPT !.element = Null]
      /\ derived' = derived \cup {next}
      /\ changesByType' = [changesByType EXCEPT ![next.type] = @ + 1]
      /\ UNCHANGED <<allow, from, to, numFrom, numTo, fromE, toE>>
  BY DEF ReadNextChange, inputVars, streamVars
<1>2. TypeOK /\ Heads
  BY DEF IInv
<1>3. Out' = Out /\ FromDone' = FromDone /\ ToDone' = ToDone
  BY <1>1 DEF Out, FromDone, ToDone
<1>4. Sound(next)
  BY <1>1 DEF IInv, Out
<1>5. next \in Change
  <2>1. FromDone \in 0..Len(from) /\ ToDone \in 0..Len(to) /\ Len(from) \in Nat /\ Len(to) \in Nat
    BY <1>2, Position DEF TypeOK
  <2>2. CASE \E j \in 1..ToDone : next = Creation(to[j])
    BY <1>2, <2>1, <2>2, Eids DEF Change, Creation, ChangeType
  <2>3. CASE \E i \in 1..FromDone, j \in 1..ToDone : next = Modification(from[i], to[j])
    BY <1>2, <2>1, <2>3, Eids DEF Change, Modification, ChangeType
  <2>4. CASE \E i \in 1..FromDone, t \in {"Delete", "Unknown"} : next = Removal(t, from[i])
    BY <1>2, <2>1, <2>4, Eids DEF Change, Removal, ChangeType
  <2> QED BY <1>4, <2>2, <2>3, <2>4 DEF Sound
<1>6. next' \in Cleared
  BY <1>1, <1>5 DEF Change, Cleared
<1>7. changesByType' \in [ChangeType -> Nat]
  BY <1>1, <1>2, <1>5 DEF TypeOK, Change
<1>8. TypeOK'
  BY <1>1, <1>2, <1>5, <1>6, <1>7 DEF TypeOK
<1>9. Heads' /\ Ordered' /\ Merged'
  BY <1>1, <1>3 DEF IInv, Heads, Ordered, Merged
<1>10. Complete(Out)' /\ \A c \in Out' : Sound(c)'
  BY <1>1, <1>3 DEF IInv, Complete, Sound, New, Gone, Removes
<1> QED BY <1>1, <1>8, <1>9, <1>10 DEF IInv, GivenInOrder

\* A step that gives out a change, once it is known where the streams are after it.
LEMMA GiveStep ==
  ASSUME IInv, pc = "compare", NEW change \in Change, Give(change),
         numFrom' \in 0..Len(from), fromE' \in Element \cup {Null},
         numTo' \in 0..Len(to), toE' \in Element \cup {Null}
  PROVE  /\ TypeOK'
         /\ Ordered'
         /\ Out = derived /\ Out' = derived \cup {change}
         /\ UNCHANGED <<allow, from, to>> /\ pc' = "give"
         /\ (\A i \in (FromDone + 1)..Len(from) : from[i] = change.element => GivenInOrder')
         /\ (\A j \in (ToDone + 1)..Len(to) : to[j] = change.element => GivenInOrder')
<1>1. /\ pc' = "give" /\ next' = change
      /\ UNCHANGED <<allow, from, to, changesByType, derived>>
  BY DEF Give, inputVars
<1>2. TypeOK'
  BY <1>1 DEF IInv, TypeOK
<1>3. Ordered'
  BY <1>1 DEF IInv, Ordered
<1>4. Out = derived /\ Out' = derived \cup {change}
  BY <1>1 DEF Out
<1>5. Behind
  BY AllBehind, <1>4 DEF IInv
<1>6. GivenInOrder' <=> \A c \in derived : Less(c.element.eid, change.element.eid)
  BY <1>1 DEF GivenInOrder
<1> QED BY <1>1, <1>2, <1>3, <1>4, <1>5, <1>6 DEF Behind

\* An element that only the new map has is created.
LEMMA CreateStep == IInv /\ CreateElement => IInv'
<1> SUFFICES ASSUME IInv, CreateElement PROVE IInv'
  OBVIOUS
<1> DEFINE change == Creation(toE)
<1>1. pc = "compare" /\ IsNew /\ Give(change) /\ KeepFrom /\ AdvanceTo /\ toE # Null
  BY DEF CreateElement, Creation, IsNew
<1>2. TypeOK /\ Heads /\ Ordered /\ Merged /\ Complete(Out) /\ (\A c \in Out : Sound(c))
  BY DEF IInv
<1>3. /\ ToDone + 1 \in 1..Len(to) /\ toE = to[ToDone + 1] /\ New(toE)
      /\ \A i \in (FromDone + 1)..Len(from) : Less(toE.eid, from[i].eid)
  BY <1>1, <1>2, NewAtHand
<1>4. change \in Change
  BY <1>2, <1>3, Eids DEF Change, Creation, ChangeType
<1>5. /\ ToDone' = ToDone + 1
      /\ numTo' \in 0..Len(to) /\ toE' \in Element \cup {Null}
      /\ toE' # Null => numTo' # 0 /\ toE' = to[numTo']
      /\ toE' = Null => numTo' = Len(to)
  BY <1>1, <1>2, ToAdvances DEF Give, inputVars
<1>6. /\ FromDone' = FromDone /\ fromE' = fromE /\ numFrom' = numFrom
      /\ numFrom' \in 0..Len(from) /\ fromE' \in Element \cup {Null}
  BY <1>1, <1>2, FromStays DEF KeepFrom, TypeOK
<1>7. /\ TypeOK' /\ Ordered' /\ GivenInOrder'
      /\ Out = derived /\ Out' = derived \cup {change}
      /\ UNCHANGED <<allow, from, to>> /\ pc' = "give"
  BY <1>1, <1>3, <1>4, <1>5, <1>6, GiveStep DEF Creation, IInv
<1>8. Heads'
  BY <1>1, <1>2, <1>5, <1>6, <1>7 DEF Heads
<1>9. /\ FromDone \in 0..Len(from) /\ ToDone \in 0..Len(to) /\ Len(from) \in Nat /\ Len(to) \in Nat
  BY <1>2, Position DEF TypeOK
<1>10. Merged'
  <2>1. \A i \in 1..FromDone', j \in (ToDone' + 1)..Len(to) : Less(from[i].eid, to[j].eid)
    BY <1>2, <1>5, <1>6, <1>9 DEF Merged
  <2>2. \A j \in 1..ToDone', i \in (FromDone' + 1)..Len(from) : Less(to[j].eid, from[i].eid)
    BY <1>2, <1>3, <1>5, <1>6, <1>9 DEF Merged
  <2> QED BY <1>7, <2>1, <2>2 DEF Merged
<1>11. Complete(Out)'
  <2>1. \A j \in 1..ToDone' : j \in 1..ToDone \/ j = ToDone + 1
    BY <1>5, <1>9
  <2>2. \A i \in 1..FromDone : from[i].eid # toE.eid
    BY <1>3, <1>9 DEF New
  <2> QED BY <1>2, <1>3, <1>6, <1>7, <2>1, <2>2 DEF Complete, New, Gone
<1>12. \A c \in Out' : Sound(c)'
  <2>1. \A j \in 1..ToDone : j \in 1..ToDone'
    BY <1>5, <1>9
  <2>2. ToDone + 1 \in 1..ToDone'
    BY <1>5, <1>9
  <2>3. ASSUME NEW c, c = change PROVE Sound(c)'
    BY <1>3, <1>7, <2>2, <2>3 DEF Sound, New
  <2>4. ASSUME NEW c \in derived PROVE Sound(c)'
    BY <1>2, <1>6, <1>7, <2>1, <2>4 DEF Sound, New, Gone, Removes
  <2> QED BY <1>7, <2>3, <2>4
<1> QED BY <1>7, <1>8, <1>10, <1>11, <1>12 DEF IInv

\* A deletion, or the pretence of one.
LEMMA RemoveStep ==
  ASSUME IInv, pc = "compare", IsGone, NEW t \in {"Delete", "Unknown"}, Removes(t, fromE),
         Give(Removal(t, fromE)), AdvanceFrom, KeepTo
  PROVE  IInv'
<1> DEFINE change == Removal(t, fromE)
<1>1. fromE # Null
  BY DEF IsGone
<1>2. TypeOK /\ Heads /\ Ordered /\ Merged /\ Complete(Out) /\ (\A c \in Out : Sound(c))
  BY DEF IInv
<1>3. /\ FromDone + 1 \in 1..Len(from) /\ fromE = from[FromDone + 1] /\ Gone(fromE)
      /\ \A j \in (ToDone + 1)..Len(to) : Less(fromE.eid, to[j].eid)
  BY <1>1, <1>2, GoneAtHand
<1>4. change \in Change
  BY <1>2, <1>3, Eids DEF Change, Removal, ChangeType
<1>5. /\ FromDone' = FromDone + 1
      /\ numFrom' \in 0..Len(from) /\ fromE' \in Element \cup {Null}
      /\ fromE' # Null => numFrom' # 0 /\ fromE' = from[numFrom']
      /\ fromE' = Null => numFrom' = Len(from)
  BY <1>1, <1>2, FromAdvances DEF Give, inputVars
<1>6. /\ ToDone' = ToDone /\ toE' = toE /\ numTo' = numTo
      /\ numTo' \in 0..Len(to) /\ toE' \in Element \cup {Null}
  BY <1>1, <1>2, ToStays DEF KeepTo, TypeOK
<1>7. /\ TypeOK' /\ Ordered' /\ GivenInOrder'
      /\ Out = derived /\ Out' = derived \cup {change}
      /\ UNCHANGED <<allow, from, to>> /\ pc' = "give"
  BY <1>1, <1>3, <1>4, <1>5, <1>6, GiveStep DEF Removal, IInv
<1>8. Heads'
  BY <1>1, <1>2, <1>5, <1>6, <1>7 DEF Heads
<1>9. /\ FromDone \in 0..Len(from) /\ ToDone \in 0..Len(to) /\ Len(from) \in Nat /\ Len(to) \in Nat
  BY <1>2, Position DEF TypeOK
<1>10. Merged'
  BY <1>2, <1>3, <1>5, <1>6, <1>7, <1>9 DEF Merged
<1>11. Complete(Out)'
  <2>1. \A i \in 1..FromDone' : i \in 1..FromDone \/ i = FromDone + 1
    BY <1>5, <1>9
  <2>2. \A j \in 1..ToDone : to[j].eid # fromE.eid
    BY <1>3, <1>9 DEF Gone
  <2> QED BY <1>2, <1>3, <1>6, <1>7, <2>1, <2>2 DEF Complete, New, Gone
<1>12. \A c \in Out' : Sound(c)'
  <2>1. \A i \in 1..FromDone : i \in 1..FromDone'
    BY <1>5, <1>9
  <2>2. FromDone + 1 \in 1..FromDone'
    BY <1>5, <1>9
  <2>3. ASSUME NEW c, c = change PROVE Sound(c)'
    BY <1>3, <1>7, <2>2, <2>3 DEF Sound, Gone, Removes
  <2>4. ASSUME NEW c \in derived PROVE Sound(c)'
    BY <1>2, <1>6, <1>7, <2>1, <2>4 DEF Sound, New, Gone, Removes
  <2> QED BY <1>7, <2>3, <2>4
<1> QED BY <1>7, <1>8, <1>10, <1>11, <1>12 DEF IInv

\* The elements that are at hand are the next ones of both streams, and both are passed.
LEMMA BothAdvance ==
  ASSUME IInv, pc = "compare", fromE # Null, toE # Null, fromE.eid = toE.eid,
         AdvanceFrom, AdvanceTo, UNCHANGED <<from, to>>, pc' # "ask"
  PROVE  /\ FromDone' = FromDone + 1 /\ ToDone' = ToDone + 1
         /\ numFrom' \in 0..Len(from) /\ fromE' \in Element \cup {Null}
         /\ numTo' \in 0..Len(to) /\ toE' \in Element \cup {Null}
         /\ Heads' /\ Merged'
<1>1. TypeOK /\ Heads /\ Ordered /\ Merged
  BY DEF IInv
<1>2. /\ FromDone \in 0..Len(from) /\ ToDone \in 0..Len(to) /\ Len(from) \in Nat /\ Len(to) \in Nat
  BY <1>1, Position DEF TypeOK
<1>3. /\ FromDone + 1 \in 1..Len(from) /\ fromE = from[FromDone + 1]
      /\ ToDone + 1 \in 1..Len(to) /\ toE = to[ToDone + 1]
      /\ \A i \in (FromDone + 2)..Len(from) : Less(toE.eid, from[i].eid)
      /\ \A j \in (ToDone + 2)..Len(to) : Less(fromE.eid, to[j].eid)
  BY <1>1, SameAtHand
<1>4. /\ FromDone' = FromDone + 1
      /\ numFrom' \in 0..Len(from) /\ fromE' \in Element \cup {Null}
      /\ fromE' # Null => numFrom' # 0 /\ fromE' = from[numFrom']
      /\ fromE' = Null => numFrom' = Len(from)
  BY <1>1, FromAdvances
<1>5. /\ ToDone' = ToDone + 1
      /\ numTo' \in 0..Len(to) /\ toE' \in Element \cup {Null}
      /\ toE' # Null => numTo' # 0 /\ toE' = to[numTo']
      /\ toE' = Null => numTo' = Len(to)
  BY <1>1, ToAdvances
<1>6. Heads'
  BY <1>4, <1>5 DEF Heads
<1>7. \A i \in 1..FromDone', j \in (ToDone' + 1)..Len(to) : Less(from[i].eid, to[j].eid)
  BY <1>1, <1>2, <1>3, <1>4, <1>5 DEF Merged
<1>8. \A j \in 1..ToDone', i \in (FromDone' + 1)..Len(from) : Less(to[j].eid, from[i].eid)
  BY <1>1, <1>2, <1>3, <1>4, <1>5 DEF Merged
<1> QED BY <1>4, <1>5, <1>6, <1>7, <1>8 DEF Merged

\* Elements of both maps with the same id are a pair: both have been dealt with or neither.
LEMMA Paired ==
  ASSUME IInv, fromE # Null, toE # Null, fromE.eid = toE.eid
  PROVE  /\ FromDone + 1 \in 1..Len(from) /\ fromE = from[FromDone + 1]
         /\ ToDone + 1 \in 1..Len(to) /\ toE = to[ToDone + 1]
         /\ ~New(toE) /\ ~Gone(fromE)
         /\ \A i \in 1..FromDone : from[i].eid # toE.eid
         /\ \A j \in 1..ToDone : to[j].eid # fromE.eid
<1>1. TypeOK /\ Heads /\ Ordered /\ Merged
  BY DEF IInv
<1>2. /\ FromDone \in 0..Len(from) /\ ToDone \in 0..Len(to) /\ Len(from) \in Nat /\ Len(to) \in Nat
  BY <1>1, Position DEF TypeOK
<1>3. /\ FromDone + 1 \in 1..Len(from) /\ fromE = from[FromDone + 1]
      /\ ToDone + 1 \in 1..Len(to) /\ toE = to[ToDone + 1]
  BY <1>1, Position
<1>4. \A i \in 1..FromDone : Less(from[i].eid, toE.eid)
  BY <1>1, <1>2, <1>3 DEF Merged
<1>5. \A j \in 1..ToDone : Less(to[j].eid, fromE.eid)
  BY <1>1, <1>2, <1>3 DEF Merged
<1>6. fromE.eid \in ElementIds /\ toE.eid \in ElementIds
  BY <1>1, ElementAssumption DEF TypeOK
<1>7. \A i \in 1..FromDone : from[i].eid # toE.eid
  BY <1>4, <1>6, LessIrreflexive
<1>8. \A j \in 1..ToDone : to[j].eid # fromE.eid
  BY <1>5, <1>6, LessIrreflexive
<1> QED BY <1>3, <1>7, <1>8 DEF New, Gone

\* An element that both maps have and that differs is modified.
LEMMA ModifyStep == IInv /\ ModifyElement => IInv'
<1> SUFFICES ASSUME IInv, ModifyElement PROVE IInv'
  OBVIOUS
<1> DEFINE change == Modification(fromE, toE)
<1>1. /\ pc = "compare" /\ fromE # Null /\ toE # Null /\ fromE.eid = toE.eid
      /\ ~Identical(fromE, toE) /\ Give(change) /\ AdvanceFrom /\ AdvanceTo
  BY DEF ModifyElement, Modification
<1>2. TypeOK /\ Complete(Out) /\ (\A c \in Out : Sound(c))
  BY DEF IInv
<1>3. UNCHANGED <<from, to>> /\ pc' # "ask"
  BY <1>1 DEF Give, inputVars
<1>4. /\ FromDone' = FromDone + 1 /\ ToDone' = ToDone + 1
      /\ numFrom' \in 0..Len(from) /\ fromE' \in Element \cup {Null}
      /\ numTo' \in 0..Len(to) /\ toE' \in Element \cup {Null}
      /\ Heads' /\ Merged'
  BY <1>1, <1>3, BothAdvance
<1>5. /\ FromDone + 1 \in 1..Len(from) /\ fromE = from[FromDone + 1]
      /\ ToDone + 1 \in 1..Len(to) /\ toE = to[ToDone + 1]
      /\ ~New(toE) /\ ~Gone(fromE)
      /\ \A i \in 1..FromDone : from[i].eid # toE.eid
      /\ \A j \in 1..ToDone : to[j].eid # fromE.eid
  BY <1>1, Paired
<1>6. change \in Change
  BY <1>1, <1>2 DEF TypeOK, Change, Modification, ChangeType
<1>7. /\ TypeOK' /\ Ordered' /\ GivenInOrder'
      /\ Out = derived /\ Out' = derived \cup {change}
      /\ UNCHANGED <<allow, from, to>> /\ pc' = "give"
  <2>1. ToDone + 1 \in (ToDone + 1)..Len(to) /\ to[ToDone + 1] = change.element
    BY <1>5, Position, <1>2 DEF Modification, IInv, TypeOK
  <2> QED BY <1>1, <1>4, <1>6, <2>1, GiveStep
<1>8. /\ FromDone \in 0..Len(from) /\ ToDone \in 0..Len(to) /\ Len(from) \in Nat /\ Len(to) \in Nat
  BY <1>2, Position DEF TypeOK, IInv
<1>9. /\ \A i \in 1..FromDone' : i \in 1..FromDone \/ i = FromDone + 1
      /\ \A j \in 1..ToDone' : j \in 1..ToDone \/ j = ToDone + 1
  BY <1>4, <1>8
<1>10. Complete(Out)'
  BY <1>2, <1>5, <1>7, <1>9 DEF Complete, New, Gone
<1>11. \A c \in Out' : Sound(c)'
  <2>1. /\ \A i \in 1..FromDone : i \in 1..FromDone'
        /\ \A j \in 1..ToDone : j \in 1..ToDone'
    BY <1>4, <1>8
  <2>2. FromDone + 1 \in 1..FromDone' /\ ToDone + 1 \in 1..ToDone'
    BY <1>4, <1>8
  <2>3. ASSUME NEW c, c = change PROVE Sound(c)'
    BY <1>1, <1>5, <1>7, <2>2, <2>3 DEF Sound
  <2>4. ASSUME NEW c \in derived PROVE Sound(c)'
    BY <1>2, <1>7, <2>1, <2>4 DEF Sound, New, Gone, Removes
  <2> QED BY <1>7, <2>3, <2>4
<1> QED BY <1>4, <1>7, <1>10, <1>11 DEF IInv

\* Elements that are the same are passed without a change.
LEMMA SkipStep == IInv /\ SkipIdentical => IInv'
<1> SUFFICES ASSUME IInv, SkipIdentical PROVE IInv'
  OBVIOUS
<1>1. /\ pc = "compare" /\ fromE # Null /\ toE # Null /\ fromE.eid = toE.eid
      /\ Identical(fromE, toE) /\ AdvanceFrom /\ AdvanceTo
      /\ UNCHANGED <<allow, from, to, pc, next, changesByType, derived>>
  BY DEF SkipIdentical, Identical, IsSame, inputVars
<1>2. TypeOK /\ Ordered /\ Complete(Out) /\ (\A c \in Out : Sound(c))
  BY DEF IInv
<1>3. /\ FromDone' = FromDone + 1 /\ ToDone' = ToDone + 1
      /\ numFrom' \in 0..Len(from) /\ fromE' \in Element \cup {Null}
      /\ numTo' \in 0..Len(to) /\ toE' \in Element \cup {Null}
      /\ Heads' /\ Merged'
  BY <1>1, BothAdvance
<1>4. /\ FromDone + 1 \in 1..Len(from) /\ fromE = from[FromDone + 1]
      /\ ToDone + 1 \in 1..Len(to) /\ toE = to[ToDone + 1]
      /\ ~New(toE) /\ ~Gone(fromE)
      /\ \A i \in 1..FromDone : from[i].eid # toE.eid
      /\ \A j \in 1..ToDone : to[j].eid # fromE.eid
  BY <1>1, Paired
<1>5. TypeOK' /\ Ordered' /\ Out' = Out
  BY <1>1, <1>2, <1>3 DEF TypeOK, Ordered, Out
<1>6. /\ FromDone \in 0..Len(from) /\ ToDone \in 0..Len(to) /\ Len(from) \in Nat /\ Len(to) \in Nat
  BY <1>2, Position DEF TypeOK, IInv
<1>7. /\ \A i \in 1..FromDone' : i \in 1..FromDone \/ i = FromDone + 1
      /\ \A j \in 1..ToDone' : j \in 1..ToDone \/ j = ToDone + 1
      /\ \A i \in 1..FromDone : i \in 1..FromDone'
      /\ \A j \in 1..ToDone : j \in 1..ToDone'
  BY <1>3, <1>6
<1>8. Complete(Out)'
  BY <1>1, <1>2, <1>4, <1>5, <1>7 DEF Complete, New, Gone
<1>9. \A c \in Out' : Sound(c)'
  BY <1>1, <1>2, <1>5, <1>7 DEF Sound, New, Gone, Removes
<1> QED BY <1>1, <1>3, <1>5, <1>8, <1>9 DEF IInv, GivenInOrder

\* No step disturbs the strengthening.
LEMMA NextIInv == IInv /\ [Next]_deriverVars => IInv'
<1> SUFFICES ASSUME IInv, [Next]_deriverVars PROVE IInv'
  OBVIOUS
<1>1. CASE Ask
  BY <1>1, AskStep
<1>2. CASE SkipIdentical
  BY <1>2, SkipStep
<1>3. CASE CreateElement
  BY <1>3, CreateStep
<1>4. CASE ModifyElement
  BY <1>4, ModifyStep
<1>5. CASE DeleteElement
  <2>1. /\ pc = "compare" /\ IsGone /\ AdvanceFrom /\ KeepTo
        /\ Give(Removal("Delete", fromE)) /\ Removes("Delete", fromE)
    BY <1>5 DEF DeleteElement, MayDelete, Removal, Removes
  <2> QED BY <2>1, RemoveStep
<1>6. CASE KeepElement
  <2>1. fromE # Null /\ fromE.exclude \in BOOLEAN
    BY <1>6, ElementAssumption DEF KeepElement, IsGone, IInv, TypeOK
  <2>2. /\ pc = "compare" /\ IsGone /\ AdvanceFrom /\ KeepTo
        /\ Give(Removal("Unknown", fromE)) /\ Removes("Unknown", fromE)
    BY <1>6, <2>1 DEF KeepElement, MayDelete, Removal, Removes
  <2> QED BY <2>2, RemoveStep
<1>7. CASE NoMoreChanges
  BY <1>7, NoMoreStep
<1>8. CASE ReadNextChange
  BY <1>8, ReadStep
<1>9. CASE UNCHANGED deriverVars
  <2>1. /\ UNCHANGED <<allow, from, to, numFrom, numTo, fromE, toE>>
        /\ UNCHANGED <<pc, next, changesByType, derived>>
    BY <1>9 DEF deriverVars, inputVars, streamVars
  <2>2. Out' = Out /\ FromDone' = FromDone /\ ToDone' = ToDone
    BY <2>1 DEF Out, FromDone, ToDone
  <2>3. TypeOK' /\ Heads' /\ Ordered' /\ Merged' /\ GivenInOrder'
    BY <2>1, <2>2 DEF IInv, TypeOK, Heads, Ordered, Merged, GivenInOrder
  <2>4. Complete(Out)' /\ \A c \in Out' : Sound(c)'
    BY <2>1, <2>2 DEF IInv, Complete, Sound, New, Gone, Removes
  <2> QED BY <2>1, <2>3, <2>4 DEF IInv
<1> QED BY <1>1, <1>2, <1>3, <1>4, <1>5, <1>6, <1>7, <1>8, <1>9 DEF Next, NextChange

-----------------------------------------------------------------------------
(* What follows. *)

\* Every state of a deriver satisfies the invariant.
THEOREM Invariance == Spec => []IInv
<1>1. Init => IInv
  BY InitIInv
<1>2. IInv /\ [Next]_deriverVars => IInv'
  BY NextIInv
<1> QED BY <1>1, <1>2, PTL DEF Spec

\* The deriver reads no element past the end of a stream and gives out nothing but changes
\* of elements.
THEOREM TypeCorrect == Spec => []TypeOK
<1>1. IInv => TypeOK
  BY DEF IInv
<1> QED BY <1>1, Invariance, PTL

\* For any two streams in the order of their ids the changes are in that order, too.
THEOREM ChangesInOrder == Spec => []GivenInOrder
<1>1. IInv => GivenInOrder
  BY DEF IInv
<1> QED BY <1>1, Invariance, PTL

\* When there are no more changes, those given out are the difference of the two streams.
LEMMA AllDone ==
  ASSUME IInv, pc = "done"
  PROVE  DerivesTheDifference
<1>1. TypeOK /\ Complete(derived) /\ (\A c \in derived : Sound(c))
  BY DEF IInv, Out
<1>2. FromDone = Len(from) /\ ToDone = Len(to)
  BY Position DEF IInv
<1>3. /\ DOMAIN from = 1..Len(from) /\ DOMAIN to = 1..Len(to)
      /\ \A e : e \in InFrom <=> \E i \in 1..Len(from) : e = from[i]
      /\ \A e : e \in InTo <=> \E j \in 1..Len(to) : e = to[j]
  BY <1>1 DEF TypeOK, InFrom, InTo
<1>4. /\ \A e : New(e) <=> \A f \in InFrom : f.eid # e.eid
      /\ \A f : Gone(f) <=> \A e \in InTo : e.eid # f.eid
  BY <1>3 DEF New, Gone
<1>5. \A t, e : e \in Given(t) <=> \E c \in derived : c.type = t /\ c.element = e
  BY DEF Given
<1>6. Given("Create") = {e \in InTo : \A f \in InFrom : f.eid # e.eid}
  <2>1. ASSUME NEW e \in Given("Create") PROVE e \in InTo /\ New(e)
    <3>1. PICK c \in derived : c.type = "Create" /\ c.element = e
      BY <2>1, <1>5
    <3>2. \E j \in 1..ToDone : New(to[j]) /\ c = Creation(to[j])
      BY <1>1, <3>1 DEF Sound, Modification, Removal
    <3> QED BY <1>2, <1>3, <3>1, <3>2 DEF Creation
  <2>2. ASSUME NEW e \in InTo, New(e) PROVE e \in Given("Create")
    <3>1. Creation(e) \in derived
      BY <1>1, <1>2, <1>3, <2>2 DEF Complete
    <3> QED BY <1>5, <3>1 DEF Creation
  <2> QED BY <1>4, <2>1, <2>2
<1>7. {<<c.previous, c.element>> : c \in {d \in derived : d.type = "Modify"}}
        = {p \in InFrom \X InTo : p[1].eid = p[2].eid /\ ~Identical(p[1], p[2])}
  <2>1. ASSUME NEW c \in derived, c.type = "Modify"
        PROVE  /\ c.previous \in InFrom /\ c.element \in InTo
               /\ c.previous.eid = c.element.eid /\ ~Identical(c.previous, c.element)
    <3>1. \E i \in 1..FromDone, j \in 1..ToDone :
            /\ from[i].eid = to[j].eid /\ ~Identical(from[i], to[j])
            /\ c = Modification(from[i], to[j])
      BY <1>1, <2>1 DEF Sound, Creation, Removal
    <3> QED BY <1>2, <1>3, <3>1 DEF Modification
  <2>2. ASSUME NEW f \in InFrom, NEW e \in InTo, f.eid = e.eid, ~Identical(f, e)
        PROVE  \E c \in derived : c.type = "Modify" /\ c.previous = f /\ c.element = e
    <3>1. Modification(f, e) \in derived
      BY <1>1, <1>2, <1>3, <2>2 DEF Complete
    <3> QED BY <3>1 DEF Modification
  <2> QED BY <2>1, <2>2
<1>8. ASSUME NEW t \in {"Delete", "Unknown"}, NEW f \in Given(t)
      PROVE  f \in InFrom /\ Gone(f) /\ Removes(t, f)
  <2>1. PICK c \in derived : c.type = t /\ c.element = f
    BY <1>5, <1>8
  <2>2. PICK i \in 1..FromDone, u \in {"Delete", "Unknown"} :
          Gone(from[i]) /\ Removes(u, from[i]) /\ c = Removal(u, from[i])
    BY <1>1, <2>1 DEF Sound, Creation, Modification
  <2>3. u = t /\ f = from[i]
    BY <2>1, <2>2 DEF Removal
  <2> QED BY <1>2, <1>3, <2>2, <2>3
<1>9. Given("Delete") \cup Given("Unknown") = {f \in InFrom : \A e \in InTo : e.eid # f.eid}
  <2>1. ASSUME NEW f \in InFrom, Gone(f) PROVE f \in Given("Delete") \cup Given("Unknown")
    <3>1. PICK t \in {"Delete", "Unknown"} : Removal(t, f) \in derived
      BY <1>1, <1>2, <1>3, <2>1 DEF Complete
    <3> QED BY <1>5, <3>1 DEF Removal
  <2> QED BY <1>4, <1>8, <2>1
<1>10. /\ \A f \in Given("Delete") : ~f.exclude
       /\ allow => \A f \in Given("Unknown") : f.exclude
  BY <1>8 DEF Removes
<1> QED BY <1>6, <1>7, <1>9, <1>10 DEF DerivesTheDifference

\* For any two streams in the order of their ids, when there are no more changes those given
\* out are the creations, modifications and deletions that lead from the one to the other.
THEOREM DifferenceDerived == Spec => []DerivesTheDifference
<1>1. IInv => DerivesTheDifference
  BY AllDone DEF DerivesTheDifference
<1> QED BY <1>1, Invariance, PTL

\* A change is counted when it is given out, and only then: none is given out twice, since
\* changes come in order.
LEMMA CountStep ==
  ASSUME IInv, IsFiniteSet(derived), CountedOnce, [Next]_deriverVars
  PROVE  IsFiniteSet(derived') /\ CountedOnce'
<1>1. CASE UNCHANGED <<derived, changesByType>>
  BY <1>1 DEF CountedOnce
<1>2. CASE ReadNextChange
  <2>1. /\ pc = "give" /\ derived' = derived \cup {next}
        /\ changesByType' = [changesByType EXCEPT ![next.type] = @ + 1]
        /\ changesByType \in [ChangeType -> Nat]
    BY <1>2 DEF ReadNextChange, IInv, TypeOK
  <2>2. /\ \A c \in derived : c.element.eid \in ElementIds
        /\ next \in Change
    <3>1. TypeOK /\ TypeOK'
      BY NextIInv DEF IInv
    <3> QED BY <2>1, <3>1, ElementAssumption DEF TypeOK, Change
  <2>3. next \notin derived
    BY <2>1, <2>2, LessIrreflexive DEF IInv, GivenInOrder
  <2>4. IsFiniteSet(derived')
    BY <2>1, FS_AddElement
  <2>5. ASSUME NEW t \in ChangeType
        PROVE  changesByType'[t] = Cardinality({c \in derived' : c.type = t})
    <3> DEFINE ofType == {c \in derived : c.type = t}
    <3>1. IsFiniteSet(ofType) /\ changesByType[t] = Cardinality(ofType) /\ next \notin ofType
      BY <2>3, FS_Subset DEF CountedOnce
    <3>2. CASE next.type = t
      <4>1. {c \in derived' : c.type = t} = ofType \cup {next}
        BY <2>1, <3>2
      <4>2. Cardinality(ofType \cup {next}) = Cardinality(ofType) + 1
        BY <3>1, FS_AddElement
      <4> QED BY <2>1, <3>1, <3>2, <4>1, <4>2
    <3>3. CASE next.type # t
      <4>1. {c \in derived' : c.type = t} = ofType
        BY <2>1, <3>3
      <4> QED BY <2>1, <3>1, <3>3, <4>1
    <3> QED BY <3>2, <3>3
  <2> QED BY <2>4, <2>5 DEF CountedOnce
<1>3. [Next]_deriverVars => UNCHANGED <<derived, changesByType>> \/ ReadNextChange
  BY DEF Next, NextChange, Ask, SkipIdentical, CreateElement, ModifyElement, DeleteElement,
         KeepElement, NoMoreChanges, Give, deriverVars
<1> QED BY <1>1, <1>2, <1>3

\* The numbers of changes by type that the deriver reports are those of the changes it gave
\* out, however often it was asked whether there are more.
THEOREM CountsCorrect == Spec => []CountedOnce
<1>1. Init => IsFiniteSet(derived) /\ CountedOnce
  <2> SUFFICES ASSUME Init PROVE IsFiniteSet(derived) /\ CountedOnce
    OBVIOUS
  <2>1. derived = {} /\ changesByType = [t \in ChangeType |-> 0]
    BY DEF Init, Fresh
  <2>2. \A t \in ChangeType : {c \in derived : c.type = t} = {}
    BY <2>1
  <2> QED BY <2>1, <2>2, FS_EmptySet DEF CountedOnce
<1>2. IInv /\ IsFiniteSet(derived) /\ CountedOnce /\ [Next]_deriverVars
        => IsFiniteSet(derived)' /\ CountedOnce'
  BY CountStep
<1> QED BY <1>1, <1>2, Invariance, PTL DEF Spec
=============================================================================
