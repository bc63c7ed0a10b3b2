------------------------ MODULE ChangesetUpload_proofs ------------------------
(***************************************************************************)
(* Proofs about XmlChangeset, for any elements and limits: what it         *)
(* calculates is Available, what it splits is kept in one place, what it   *)
(* fails had to fail, as OsmApiWriter assumes; and in the changesets it    *)
(* calculates nothing overtakes what it must come after, so that those the *)
(* writer queues can be applied whatever becomes of the others.            *)
(*                                                                         *)
(* The argument: calculateChangeset, addNodes and addRelation are folds of *)
(* one operation over a sequence, so what one operation keeps, the fold    *)
(* keeps.  What they keep is that the work in progress marks exactly what  *)
(* it holds, is in order, and, while it has room, has been offered every   *)
(* created way: a relation is added only when no created way of it is left.*)
(***************************************************************************)
EXTENDS ChangesetUpload, OsmApiWriter_proofs

-----------------------------------------------------------------------------
(* Folds.                                                                  *)

\* What holds of 0 and, if of a number, of the next holds of all numbers.
LEMMA Induction ==
  ASSUME NEW S, 0 \in S, \A n \in Nat : n \in S => n + 1 \in S
  PROVE  Nat \subseteq S
<1> SUFFICES ASSUME Nat \ S # {} PROVE FALSE
  OBVIOUS
<1> DEFINE R == OpToRel(<, Nat)
           T == Nat \ S
<1>1. IsWellFoundedOn(R, Nat)
  BY NatLessThanWellFounded, Zenon
<1>2. \A m, n \in Nat : m < n => <<m, n>> \in R
  BY Zenon DEF OpToRel
<1> HIDE DEF R
<1>3. T \subseteq Nat /\ T # {}
  OBVIOUS
<1> HIDE DEF T
<1>4. \E n \in T : \A m \in T : ~(<<m, n>> \in R)
  BY <1>1, <1>3, WFMin
<1>5. PICK n \in T : \A m \in T : ~(m < n)
  BY <1>2, <1>3, <1>4
<1>6. n \in Nat /\ n \notin S /\ n # 0 /\ n - 1 \in Nat /\ n - 1 < n
  BY <1>5 DEF T
<1>7. n - 1 \in S
  BY <1>5, <1>6 DEF T
<1>8. n - 1 + 1 \in S
  BY <1>6, <1>7
<1> QED
  BY <1>6, <1>8

LEMMA UpTo ==
  ASSUME NEW k \in Nat
  PROVE  /\ Max(1..k + 1) = k + 1
         /\ 1..k + 1 # {}
         /\ (1..k + 1) \ {k + 1} = 1..k
         /\ \A m \in Nat : k + 1 <= m => 1..k + 1 \in SUBSET (1..m)
<1>1. \A x \in 1..k + 1 : (\A y \in 1..k + 1 : x >= y) => x = k + 1
  OBVIOUS
<1>2. k + 1 \in 1..k + 1 /\ \A y \in 1..k + 1 : k + 1 >= y
  OBVIOUS
<1>3. Max(1..k + 1) = k + 1
  BY <1>1, <1>2 DEF Max
<1>4. ASSUME NEW i PROVE i \in (1..k + 1) \ {k + 1} <=> i \in 1..k
  OBVIOUS
<1>5. \A m \in Nat : k + 1 <= m => 1..k + 1 \in SUBSET (1..m)
  OBVIOUS
<1> QED
  BY <1>2, <1>3, <1>4, <1>5

\* The function behind a fold: step says what one more place of f makes of a value of W.
Folded(g, W, step, base, f, n) ==
    /\ g \in [SUBSET (1..n) -> W]
    /\ \A s \in SUBSET (1..n) :
         g[s] = IF s = {} THEN base ELSE step[<<g[s \ {Max(s)}], f[Max(s)]>>]

LEMMA FoldExists ==
  ASSUME NEW W, NEW T, NEW step \in [W \X T -> W], NEW base \in W,
         NEW n \in Nat, NEW f \in [1..n -> T]
  PROVE  \E g : Folded(g, W, step, base, f, n)
<1> DEFINE Iterates(g, k) ==
             \A s \in SUBSET (1..k) :
               g[s] = IF s = {} THEN base ELSE step[<<g[s \ {Max(s)}], f[Max(s)]>>]
           Has(k) == \E g \in [SUBSET (1..k) -> W] : Iterates(g, k)
           S == {k \in Nat : k <= n => Has(k)}
<1> HIDE DEF Iterates, Has
<1>1. 0 \in S
  <2> DEFINE g == [s \in SUBSET (1..0) |-> base]
  <2>1. g \in [SUBSET (1..0) -> W]
    OBVIOUS
  <2>2. \A s \in SUBSET (1..0) : s = {} /\ g[s] = base
    <3>1. 1..0 = {}
      OBVIOUS
    <3> QED
      BY <3>1
  <2> HIDE DEF g
  <2>3. Iterates(g, 0)
    BY <2>2 DEF Iterates
  <2>4. Has(0)
    BY <2>1, <2>3 DEF Has
  <2> QED
    BY <2>4
<1>2. ASSUME NEW k \in Nat, k \in S PROVE k + 1 \in S
  <2> SUFFICES ASSUME k + 1 <= n PROVE Has(k + 1)
    OBVIOUS
  <2>1. PICK g \in [SUBSET (1..k) -> W] : Iterates(g, k)
    <3>1. Has(k)
      BY <1>2
    <3> QED
      BY <3>1 DEF Has
  <2> DEFINE h == [s \in SUBSET (1..k + 1) |->
                     IF k + 1 \in s THEN step[<<g[s \ {k + 1}], f[k + 1]>>] ELSE g[s]]
  <2>2. ASSUME NEW s \in SUBSET (1..k + 1), k + 1 \in s PROVE Max(s) = k + 1
    <3>1. \A x \in s : x \in Nat /\ x <= k + 1
      OBVIOUS
    <3>2. \A x \in s : (\A y \in s : x >= y) => x = k + 1
      BY <2>2, <3>1
    <3>3. \A y \in s : k + 1 >= y
      BY <3>1
    <3> QED
      BY <2>2, <3>2, <3>3 DEF Max
  <2>3. \A s \in SUBSET (1..k + 1) : /\ s \in SUBSET (1..k) <=> k + 1 \notin s
                                     /\ s \ {k + 1} \in SUBSET (1..k)
    BY SMT
  <2>4. h \in [SUBSET (1..k + 1) -> W]
    <3>1. f[k + 1] \in T
      OBVIOUS
    <3>2. \A s \in SUBSET (1..k) : step[<<g[s], f[k + 1]>>] \in W
      BY <3>1
    <3> QED
      BY <2>3, <3>2
  <2>5. ASSUME NEW s \in SUBSET (1..k + 1)
        PROVE  h[s] = IF s = {} THEN base ELSE step[<<h[s \ {Max(s)}], f[Max(s)]>>]
    <3>1. s \ {k + 1} \in SUBSET (1..k + 1) /\ k + 1 \notin s \ {k + 1}
      OBVIOUS
    <3>2. s \ {Max(s)} \in SUBSET (1..k + 1)
      OBVIOUS
    <3>3. CASE k + 1 \in s
      BY <2>2, <3>1, <3>3
    <3>4. CASE k + 1 \notin s
      BY <2>1, <2>3, <3>2, <3>4 DEF Iterates
    <3> QED
      BY <3>3, <3>4
  <2> HIDE DEF h
  <2>6. Iterates(h, k + 1)
    BY <2>5 DEF Iterates
  <2> QED
    BY <2>4, <2>6 DEF Has
<1> HIDE DEF S
<1>3. n \in S
  BY <1>1, <1>2, Induction
<1>4. Has(n)
  BY <1>3 DEF S
<1> QED
  BY <1>4 DEF Has, Iterates, Folded

LEMMA MaxWithin ==
  ASSUME NEW n \in Nat, NEW s \in SUBSET (1..n), s # {}
  PROVE  Max(s) \in s
<1> DEFINE Within(k) == \A t \in SUBSET (1..k) : t # {} => Max(t) \in t
           S == {k \in Nat : Within(k)}
<1>1. Within(0)
  <2>1. 1..0 = {}
    OBVIOUS
  <2> QED
    BY <2>1
<1>2. ASSUME NEW k \in Nat, Within(k), NEW t \in SUBSET (1..k + 1), t # {}
      PROVE  Max(t) \in t
  <2>1. CASE k + 1 \in t
    <3>1. \A x \in t : x \in Nat /\ x <= k + 1
      OBVIOUS
    <3>2. \A y \in t : k + 1 >= y
      BY <3>1
    <3> QED
      BY <2>1, <3>2 DEF Max
  <2>2. CASE k + 1 \notin t
    <3>1. t \in SUBSET (1..k)
      BY <2>2
    <3> QED
      BY <1>2, <3>1
  <2> QED
    BY <2>1, <2>2
<1> HIDE DEF Within
<1>3. n \in S
  <2>1. \A k \in Nat : Within(k) => Within(k + 1)
    BY <1>2, Zenon DEF Within
  <2>2. 0 \in S /\ \A k \in Nat : k \in S => k + 1 \in S
    BY <1>1, <2>1
  <2> HIDE DEF S
  <2> QED
    BY <2>2, Induction
<1> QED
  BY <1>3 DEF Within

-----------------------------------------------------------------------------
(* The operations on the work in progress.                                 *)

Kind == {"create", "modify", "delete"}

\* The states and the elements taken so far.
Works == [status : Statuses, info : SUBSET Element]

\* The work marks what it has taken of what was Available.
Marks(st, x) ==
    /\ x \in Works
    /\ x.info \subseteq AvailableIn(st)
    /\ \A e \in Element : x.status[e] = IF e \in x.info THEN "Buffering" ELSE st[e]

\* y is x with more in it.
Grows(st, x, y) == Marks(st, y) /\ x.info \subseteq y.info

\* y is x and Available elements that are taken, whatever else x holds.
Takes(x, y) ==
    /\ y \in Works
    /\ x.info \subseteq y.info
    /\ \A e \in Element :
         \/ y.status[e] = x.status[e] /\ (e \in y.info => e \in x.info)
         \/ x.status[e] = "Available" /\ y.status[e] = "Buffering" /\ e \in y.info

LEMMA Elements ==
  /\ Node \subseteq Element /\ Way \subseteq Element /\ Relation \subseteq Element
  /\ \A e \in Element : e \in Node \/ e \in Way \/ e \in Relation
  /\ \A w \in Way : WayNodes[w] \subseteq Node
  /\ \A r \in Relation : Members[r] \in Seq(Node \cup Way)
  /\ \A e : WaysOf(e) \subseteq Way /\ RelationsOf(e) \subseteq Relation
  /\ \A e \in Element : Change[e] \in Kind
  BY ChangesetAssumption DEF WaysOf, RelationsOf, Kind

LEMMA BufferType ==
  ASSUME NEW x \in Works, NEW E \in SUBSET Element
  PROVE  /\ Buffer(x, E) \in Works
         /\ Buffer(x, E).info = x.info \cup E
         /\ \A e \in Element : Buffer(x, E).status[e] = IF e \in E THEN "Buffering" ELSE x.status[e]
<1> DEFINE s == [e \in Element |-> IF e \in E THEN "Buffering" ELSE x.status[e]]
<1>1. x.status \in Statuses /\ x.info \in SUBSET Element
  BY DEF Works
<1>2. s \in Statuses
  BY <1>1 DEF Statuses, ElementStatus
<1>3. Buffer(x, E) = [status |-> s, info |-> x.info \cup E]
  BY DEF Buffer
<1> HIDE DEF s
<1>4. Buffer(x, E) \in Works /\ Buffer(x, E).info = x.info \cup E /\ Buffer(x, E).status = s
  BY <1>1, <1>2, <1>3 DEF Works
<1> QED
  BY <1>4 DEF s

\* Taking elements that can be sent.
LEMMA BufferTakes ==
  ASSUME NEW x \in Works, NEW E \in SUBSET Element,
         \A e \in E : x.status[e] = "Available" \/ (e \in x.info /\ x.status[e] = "Buffering")
  PROVE  Takes(x, Buffer(x, E)) /\ Buffer(x, E).info = x.info \cup E
<1>1. /\ Buffer(x, E) \in Works
      /\ Buffer(x, E).info = x.info \cup E
      /\ \A e \in Element : Buffer(x, E).status[e] = IF e \in E THEN "Buffering" ELSE x.status[e]
  BY BufferType
<1> QED
  BY <1>1 DEF Takes

\* Work that marks what it holds still does when it takes more.
LEMMA MarksGrow ==
  ASSUME NEW st, NEW x, NEW y, Marks(st, x), Takes(x, y)
  PROVE  Grows(st, x, y)
<1>1. x.info \subseteq Element /\ y.info \subseteq Element
  BY DEF Marks, Takes, Works
<1> QED
  BY <1>1 DEF Marks, Takes, Grows, AvailableIn

\* What can be sent is Available.
LEMMA CanSendIsAvailable ==
  ASSUME NEW s, NEW e
  PROVE  /\ CanSend(s, e) => s[e] = "Available"
         /\ CanSendWay(s, e) => s[e] = "Available"
         /\ CanSendRelation(s, e) => s[e] = "Available"
  BY DEF CanSend, CanSendNode, CanSendWay, CanSendRelation

LEMMA ParentsTake ==
  ASSUME NEW x \in Works, NEW P \in SUBSET Element
  PROVE  /\ Takes(x, AddParents(x, P))
         /\ AddParents(x, P).info = x.info \cup {p \in PendingParents(x, P) : CanSend(x.status, p)}
<1> DEFINE E == {p \in PendingParents(x, P) : CanSend(x.status, p)}
<1>1. E \in SUBSET Element
  BY DEF PendingParents
<1>2. \A e \in E : x.status[e] = "Available"
  BY CanSendIsAvailable
<1>3. AddParents(x, P) = Buffer(x, E)
  BY DEF AddParents
<1> HIDE DEF E
<1>4. Takes(x, Buffer(x, E)) /\ Buffer(x, E).info = x.info \cup E
  BY <1>1, <1>2, BufferTakes
<1> QED
  BY <1>3, <1>4 DEF E

LEMMA GrowsOn ==
  ASSUME NEW st, NEW x, NEW y, NEW z, Grows(st, x, y), Grows(st, y, z)
  PROVE  Grows(st, x, z)
  BY DEF Grows

LEMMA TakesOn ==
  ASSUME NEW x, NEW y, NEW z, Takes(x, y), Takes(y, z)
  PROVE  Takes(x, z)
  BY DEF Takes

\* An element that could be taken, if it was not taken with its parents, still can be.
LEMMA TakesLast ==
  ASSUME NEW x, NEW y, Takes(x, y), NEW e \in Element, x.status[e] = "Available"
  PROVE  Takes(x, Buffer(y, {e}))
<1>1. y \in Works /\ (y.status[e] = "Available" \/ (e \in y.info /\ y.status[e] = "Buffering"))
  BY DEF Takes
<1>2. Takes(y, Buffer(y, {e}))
  BY <1>1, BufferTakes
<1> QED
  BY <1>2, TakesOn

LEMMA NodeTakes ==
  ASSUME NEW x \in Works, NEW n \in Node
  PROVE  Takes(x, AddNode(x, n))
<1>1. Takes(x, x)
  BY DEF Takes
<1>2. CASE ~CanSendNode(x.status, n)
  BY <1>1, <1>2 DEF AddNode
<1>3. n \in Element /\ WaysOf(n) \in SUBSET Element /\ RelationsOf(n) \in SUBSET Element
  BY Elements
<1>4. ASSUME NEW y, Takes(x, y), CanSendNode(x.status, n)
      PROVE  Takes(x, Buffer(y, {n}))
  BY <1>3, <1>4, TakesLast DEF CanSendNode
<1>5. CASE CanSendNode(x.status, n) /\ Change[n] # "delete"
  BY <1>1, <1>4, <1>5 DEF AddNode
<1>6. CASE CanSendNode(x.status, n) /\ Change[n] = "delete"
  <2> DEFINE y == AddParents(x, RelationsOf(n))
             z == AddParents(y, WaysOf(n))
  <2>1. Takes(x, y)
    BY <1>3, ParentsTake
  <2>2. AddNode(x, n) = z \/ AddNode(x, n) = Buffer(z, {n})
    BY <1>6 DEF AddNode
  <2> HIDE DEF y
  <2>3. Takes(y, z)
    BY <1>3, <2>1, ParentsTake DEF Takes
  <2> HIDE DEF z
  <2>4. Takes(x, z)
    BY <2>1, <2>3, TakesOn
  <2> QED
    BY <1>4, <1>6, <2>2, <2>4
<1> QED
  BY <1>2, <1>5, <1>6

LEMMA WayTakes ==
  ASSUME NEW x \in Works, NEW w \in Way
  PROVE  Takes(x, AddWay(x, w))
<1>1. Takes(x, x)
  BY DEF Takes
<1>2. CASE ~(CanSendWay(x.status, w) /\ Fits(x, w))
  BY <1>1, <1>2 DEF AddWay
<1>3. w \in Element /\ RelationsOf(w) \in SUBSET Element
  BY Elements
<1>4. CASE CanSendWay(x.status, w) /\ Fits(x, w) /\ Change[w] # "delete"
  <2> DEFINE E == {w} \cup {n \in WayNodes[w] : Change[n] = "create" /\ CanSendNode(x.status, n)}
  <2>1. E \in SUBSET Element
    BY Elements
  <2>2. \A e \in E : x.status[e] = "Available"
    BY <1>4 DEF CanSendWay, CanSendNode
  <2>3. AddWay(x, w) = Buffer(x, E)
    BY <1>4 DEF AddWay
  <2> HIDE DEF E
  <2> QED
    BY <2>1, <2>2, <2>3, BufferTakes
<1>5. CASE CanSendWay(x.status, w) /\ Fits(x, w) /\ Change[w] = "delete"
  <2> DEFINE y == AddParents(x, RelationsOf(w))
  <2>1. Takes(x, y)
    BY <1>3, ParentsTake
  <2>2. AddWay(x, w) = y \/ AddWay(x, w) = Buffer(y, {w})
    BY <1>5 DEF AddWay
  <2> HIDE DEF y
  <2>3. Takes(x, Buffer(y, {w}))
    BY <1>3, <1>5, <2>1, TakesLast DEF CanSendWay
  <2> QED
    BY <2>1, <2>2, <2>3
<1> QED
  BY <1>2, <1>4, <1>5

LEMMA MemberTakes ==
  ASSUME NEW x \in Works, NEW m \in Node \cup Way
  PROVE  Takes(x, AddMember(x, m))
<1>1. Takes(x, x)
  BY DEF Takes
<1>2. m \in Way \/ m \in Node
  OBVIOUS
<1> QED
  BY <1>1, <1>2, NodeTakes, WayTakes DEF AddMember

\* The work after each member: what addRelation does before it takes the relation itself.
AfterMembers(a, x, ms) ==
    /\ a[0] = x
    /\ \A k \in Nat : k < Len(ms) => a[k + 1] = AddMember(a[k], ms[k + 1])
    /\ \A k \in Nat : k <= Len(ms) => Takes(x, a[k])
    /\ a[Len(ms)] = FoldLeft(AddMember, x, ms)

LEMMA MemberFold ==
  ASSUME NEW x \in Works, NEW ms \in Seq(Node \cup Way)
  PROVE  \E a : AfterMembers(a, x, ms)
<1> DEFINE n == Len(ms)
           T == Node \cup Way
           W == {y \in Works : Takes(x, y)}
           step == [p \in W \X T |-> AddMember(p[1], p[2])]
           IsFold(g) == g = [s \in SUBSET (1..n) |->
                               IF s = {} THEN x ELSE AddMember(g[s \ {Max(s)}], ms[Max(s)])]
           G == CHOOSE g : IsFold(g)
           a == [k \in Nat |-> G[1..k]]
<1>1. n \in Nat /\ ms \in [1..n -> T] /\ DOMAIN ms = 1..n
  OBVIOUS
<1>2. x \in W
  BY DEF Takes
<1>3. ASSUME NEW y \in W, NEW m \in T PROVE AddMember(y, m) \in W
  <2>1. Takes(y, AddMember(y, m)) /\ Takes(x, y)
    BY MemberTakes
  <2>2. Takes(x, AddMember(y, m)) /\ AddMember(y, m) \in Works
    BY <2>1, TakesOn DEF Takes
  <2> QED
    BY <2>2
<1> HIDE DEF W
<1>4. step \in [W \X T -> W] /\ \A y \in W, m \in T : step[<<y, m>>] = AddMember(y, m)
  BY <1>3
<1> HIDE DEF step
<1>5. PICK g : Folded(g, W, step, x, ms, n)
  <2> HIDE DEF T, n
  <2>1. step \in [W \X T -> W] /\ x \in W /\ n \in Nat /\ ms \in [1..n -> T]
    BY <1>1, <1>2, <1>4
  <2> QED
    BY <2>1, FoldExists
<1>6. ASSUME NEW s \in SUBSET (1..n)
      PROVE  g[s] = IF s = {} THEN x ELSE AddMember(g[s \ {Max(s)}], ms[Max(s)])
  <2>1. s # {} => ms[Max(s)] \in T
    BY <1>1, MaxWithin
  <2>2. g[s \ {Max(s)}] \in W
    BY <1>5 DEF Folded
  <2> QED
    BY <1>4, <1>5, <2>1, <2>2 DEF Folded
<1>7. IsFold(g)
  <2>1. g = [s \in SUBSET (1..n) |-> g[s]]
    BY <1>5 DEF Folded
  <2> QED
    BY <1>6, <2>1
<1>8. IsFold(G)
  BY <1>7
<1>9. FoldLeft(AddMember, x, ms) = G[1..n]
  BY <1>1 DEF FoldLeft, MapThenFoldSet
<1> HIDE DEF G
<1>10. a[0] = x
  <2>1. 1..0 = {} /\ {} \in SUBSET (1..n)
    OBVIOUS
  <2> QED
    BY <1>8, <2>1
<1>11. ASSUME NEW k \in Nat, k < n
       PROVE  a[k + 1] = AddMember(a[k], ms[k + 1])
  <2>1. k + 1 <= n
    BY <1>1, <1>11
  <2> DEFINE s == 1..k + 1
  <2>2. s \in SUBSET (1..n) /\ s # {} /\ Max(s) = k + 1 /\ s \ {k + 1} = 1..k
    BY <1>1, <2>1, UpTo
  <2> HIDE DEF s
  <2>3. G[s] = AddMember(G[s \ {Max(s)}], ms[Max(s)])
    BY <1>8, <2>2
  <2>4. a[k + 1] = G[s] /\ a[k] = G[1..k]
    BY DEF s
  <2> QED
    BY <2>2, <2>3, <2>4
<1> DEFINE S == {k \in Nat : k <= n => a[k] \in W}
<1> HIDE DEF a
<1>12. 0 \in S
  BY <1>2, <1>10
<1>13. ASSUME NEW k \in Nat, k \in S PROVE k + 1 \in S
  <2> SUFFICES ASSUME k + 1 <= n PROVE a[k + 1] \in W
    OBVIOUS
  <2>1. k < n /\ ms[k + 1] \in T /\ a[k] \in W
    BY <1>1, <1>13
  <2> QED
    BY <1>3, <1>11, <2>1
<1> HIDE DEF S
<1>14. \A k \in Nat : k <= n => a[k] \in W
  <2>1. Nat \subseteq S
    BY <1>12, <1>13, Induction
  <2> QED
    BY <1>1, <2>1 DEF S
<1>15. a[n] = FoldLeft(AddMember, x, ms)
  BY <1>1, <1>9 DEF a
<1> QED
  <2>1. \A k \in Nat : k <= n => Takes(x, a[k])
    BY <1>14 DEF W
  <2> QED
    BY <1>10, <1>11, <1>15, <2>1 DEF AfterMembers

LEMMA RelationTakes ==
  ASSUME NEW x \in Works, NEW r \in Relation
  PROVE  Takes(x, AddRelation(x, r))
<1>1. Takes(x, x)
  BY DEF Takes
<1>2. CASE ~(CanSendRelation(x.status, r) /\ Fits(x, r))
  BY <1>1, <1>2 DEF AddRelation
<1>3. r \in Element
  BY Elements
<1>4. ASSUME NEW y, Takes(x, y), CanSendRelation(x.status, r)
      PROVE  Takes(x, Buffer(y, {r}))
  BY <1>3, <1>4, TakesLast DEF CanSendRelation
<1>5. Takes(x, FoldLeft(AddMember, x, Members[r]))
  <2>1. Members[r] \in Seq(Node \cup Way) /\ Len(Members[r]) \in Nat
    BY Elements
  <2> DEFINE ms == Members[r]
  <2> HIDE DEF ms
  <2>2. PICK a : AfterMembers(a, x, ms)
    BY <2>1, MemberFold DEF ms
  <2>3. Takes(x, a[Len(ms)]) /\ a[Len(ms)] = FoldLeft(AddMember, x, ms)
    BY <2>1, <2>2 DEF AfterMembers, ms
  <2> QED
    BY <2>3 DEF ms
<1> QED
  BY <1>1, <1>2, <1>4, <1>5 DEF AddRelation

LEMMA AddTakes ==
  ASSUME NEW x \in Works, NEW e \in Element
  PROVE  Takes(x, Add(x, e))
  BY Elements, NodeTakes, WayTakes, RelationTakes DEF Add

-----------------------------------------------------------------------------
(* Nothing overtakes what it must come after.                              *)

\* Outside a calculation no element is being buffered.
Orderly(st) == DeletesApart /\ \A e \in Element : st[e] # "Buffering"

Follows(st, S, e) == \A d \in Before(e) : d \in S \/ st[d] = "Finalized"

InOrder(st, x) == \A e \in x.info : Follows(st, x.info, e)

\* Elements that follow what is taken with them may be taken.
LEMMA BufferInOrder ==
  ASSUME NEW st \in Statuses, NEW x, Marks(st, x), InOrder(st, x), NEW E \in SUBSET Element,
         \A e \in E : Follows(st, x.info \cup E, e)
  PROVE  InOrder(st, Buffer(x, E))
<1>1. Buffer(x, E).info = x.info \cup E
  BY BufferType DEF Marks
<1> QED
  BY <1>1 DEF InOrder, Follows

\* What comes before an element, by its kind and change.
LEMMA BeforeWhat ==
  /\ \A n \in Node : Change[n] # "delete" => Before(n) = {}
  /\ \A w \in Way : Change[w] # "delete" => Before(w) = {n \in WayNodes[w] : Change[n] = "create"}
  /\ \A r \in Relation : Change[r] # "delete" =>
       Before(r) = {m \in ToSet(Members[r]) : Change[m] = "create"}
  /\ \A e \in Element : Change[e] = "delete" => Before(e) \subseteq WaysOf(e) \cup RelationsOf(e)
  /\ \A w \in Way : WaysOf(w) = {}
  /\ \A r \in Relation : WaysOf(r) = {} /\ RelationsOf(r) = {}
<1>1. Node \cap Way = {} /\ Node \cap Relation = {} /\ Way \cap Relation = {}
  BY ChangesetAssumption
<1>2. \A r \in Relation : ToSet(Members[r]) \subseteq Node \cup Way
  BY Elements DEF ToSet
<1> QED
  BY <1>1, <1>2, Elements DEF Before, WaysOf, RelationsOf

\* The parents of a deleted element wait for nothing.
LEMMA ParentsInOrder ==
  ASSUME NEW st \in Statuses, NEW x, Marks(st, x), InOrder(st, x), Orderly(st),
         NEW e \in Element, Change[e] = "delete", NEW P \in {WaysOf(e), RelationsOf(e)}
  PROVE  /\ InOrder(st, AddParents(x, P))
         /\ ParentsSendable(x, P) =>
              \A p \in P : p \in AddParents(x, P).info \/ st[p] = "Finalized"
<1> DEFINE E == {p \in PendingParents(x, P) : CanSend(x.status, p)}
<1>1. P \in SUBSET Element /\ e \in Deletes(Element)
  BY Elements DEF Deletes
<1>2. \A p \in P : Change[p] = "delete" /\ Before(p) = {}
  BY <1>1 DEF Orderly, DeletesApart
<1>3. E \in SUBSET Element /\ AddParents(x, P) = Buffer(x, E)
  BY <1>1 DEF PendingParents, AddParents
<1>4. \A p \in E : Follows(st, x.info \cup E, p)
  BY <1>2 DEF PendingParents, Follows
<1>5. AddParents(x, P).info = x.info \cup E
  BY <1>1, ParentsTake, MarksGrow DEF Marks
<1>6. InOrder(st, AddParents(x, P))
  <2> HIDE DEF E
  <2> QED
    BY <1>3, <1>4, BufferInOrder
<1>7. ASSUME ParentsSendable(x, P), NEW p \in P PROVE p \in x.info \cup E \/ st[p] = "Finalized"
  <2>1. CASE p \in PendingParents(x, P)
    BY <1>7, <2>1 DEF ParentsSendable
  <2>2. CASE p \notin PendingParents(x, P)
    BY <1>1, <1>2, <2>2 DEF PendingParents, Marks
  <2> QED
    BY <2>1, <2>2
<1> QED
  BY <1>5, <1>6, <1>7

\* What work in progress says of elements.
LEMMA MarksSay ==
  ASSUME NEW st \in Statuses, NEW x, Marks(st, x)
  PROVE  /\ \A e \in Element : CanSendNode(x.status, e) <=> e \notin x.info /\ CanSendNode(st, e)
         /\ \A e \in Element : IsSent(x.status, e) <=> e \in x.info \/ IsSent(st, e)
         /\ \A w \in Way : CanSendWay(x.status, w) <=> w \notin x.info /\ CanSendWay(st, w)
         /\ \A e \in Element : IsSent(st, e) /\ Change[e] = "create" /\ st[e] # "Buffering"
              => st[e] = "Finalized"
<1>1. \A e \in Element : CanSendNode(x.status, e) <=> e \notin x.info /\ CanSendNode(st, e)
  BY DEF CanSendNode, Marks, AvailableIn
<1>2. \A e \in Element : IsSent(x.status, e) <=> e \in x.info \/ IsSent(st, e)
  BY DEF IsSent, Marks, AvailableIn
<1>3. \A e \in Element : e \in x.info => CanSendNode(st, e)
  BY DEF CanSendNode, Marks, AvailableIn
<1>4. ASSUME NEW w \in Way
      PROVE  CanSendWay(x.status, w) <=> w \notin x.info /\ CanSendWay(st, w)
  <2>1. w \in Element /\ WayNodes[w] \subseteq Element
    BY Elements
  <2>2. x.status[w] = "Available" <=> w \notin x.info /\ st[w] = "Available"
    BY <1>1, <2>1 DEF CanSendNode
  <2>3. \A n \in WayNodes[w] : IsSent(x.status, n) \/ CanSendNode(x.status, n)
                                 <=> IsSent(st, n) \/ CanSendNode(st, n)
    BY <1>1, <1>2, <1>3, <2>1
  <2> QED
    BY <2>2, <2>3 DEF CanSendWay
<1>5. \A e \in Element : IsSent(st, e) /\ Change[e] = "create" /\ st[e] # "Buffering"
         => st[e] = "Finalized"
  BY DEF IsSent
<1> QED
  BY <1>1, <1>2, <1>4, <1>5

\* A node: its parents first.
LEMMA NodeInOrder ==
  ASSUME NEW st \in Statuses, NEW x, Marks(st, x), InOrder(st, x), Orderly(st), NEW n \in Node
  PROVE  InOrder(st, AddNode(x, n))
<1>1. n \in Element /\ {n} \in SUBSET Element
  BY Elements
<1>2. CASE ~CanSendNode(x.status, n)
  BY <1>2 DEF AddNode
<1>3. CASE CanSendNode(x.status, n) /\ Change[n] # "delete"
  <2>1. Follows(st, x.info \cup {n}, n)
    BY <1>3, BeforeWhat DEF Follows
  <2>2. InOrder(st, Buffer(x, {n}))
    BY <1>1, <2>1, BufferInOrder
  <2> QED
    BY <1>3, <2>2 DEF AddNode
<1>4. CASE CanSendNode(x.status, n) /\ Change[n] = "delete"
  <2> DEFINE y == AddParents(x, RelationsOf(n))
             z == AddParents(y, WaysOf(n))
             sendable == IF WaysOf(n) # {} THEN ParentsSendable(y, WaysOf(n))
                         ELSE ParentsSendable(x, RelationsOf(n))
  <2>1. AddNode(x, n) = IF sendable THEN Buffer(z, {n}) ELSE z
    BY <1>4 DEF AddNode
  <2>2. WaysOf(n) \in SUBSET Element /\ RelationsOf(n) \in SUBSET Element
    BY Elements
  <2>3. /\ Grows(st, x, y) /\ InOrder(st, y)
        /\ ParentsSendable(x, RelationsOf(n)) =>
             \A p \in RelationsOf(n) : p \in y.info \/ st[p] = "Finalized"
    BY <1>1, <1>4, <2>2, ParentsTake, MarksGrow, ParentsInOrder DEF Marks
  <2> HIDE DEF y
  <2>4. /\ Grows(st, y, z) /\ InOrder(st, z)
        /\ ParentsSendable(y, WaysOf(n)) =>
             \A p \in WaysOf(n) : p \in z.info \/ st[p] = "Finalized"
    BY <1>1, <1>4, <2>2, <2>3, ParentsTake, MarksGrow, ParentsInOrder DEF Grows, Marks
  <2> HIDE DEF z
  <2>5. WaysOf(n) = {} \/ RelationsOf(n) = {}
    BY <1>1, <1>4 DEF Orderly, DeletesApart, Deletes
  <2>6. ASSUME sendable PROVE Follows(st, z.info \cup {n}, n)
    <3>1. Before(n) \subseteq WaysOf(n) \cup RelationsOf(n)
      BY <1>1, <1>4, BeforeWhat
    <3>2. y.info \subseteq z.info
      BY <2>4 DEF Grows
    <3>3. \A p \in WaysOf(n) \cup RelationsOf(n) : p \in z.info \/ st[p] = "Finalized"
      BY <2>3, <2>4, <2>5, <2>6, <3>2
    <3> QED
      BY <3>1, <3>3 DEF Follows
  <2>7. sendable => InOrder(st, Buffer(z, {n}))
    BY <1>1, <2>4, <2>6, BufferInOrder DEF Grows
  <2> QED
    BY <2>1, <2>4, <2>7
<1> QED
  BY <1>2, <1>3, <1>4

\* A way: the created nodes of it are final, taken already or taken with it.
LEMMA WayInOrder ==
  ASSUME NEW st \in Statuses, NEW x, Marks(st, x), InOrder(st, x), Orderly(st), NEW w \in Way
  PROVE  InOrder(st, AddWay(x, w))
<1>1. w \in Element /\ {w} \in SUBSET Element /\ WayNodes[w] \subseteq Node /\ Node \subseteq Element
  BY Elements
<1>2. CASE ~(CanSendWay(x.status, w) /\ Fits(x, w))
  BY <1>2 DEF AddWay
<1>3. CASE CanSendWay(x.status, w) /\ Fits(x, w) /\ Change[w] # "delete"
  <2> DEFINE E == {w} \cup {n \in WayNodes[w] : Change[n] = "create" /\ CanSendNode(x.status, n)}
  <2>1. E \in SUBSET Element
    BY <1>1
  <2>2. Before(w) = {n \in WayNodes[w] : Change[n] = "create"}
    BY <1>3, BeforeWhat
  <2>3. ASSUME NEW n \in Before(w) PROVE n \in x.info \cup E \/ st[n] = "Finalized"
    <3>1. n \in WayNodes[w] /\ n \in Element /\ Change[n] = "create"
      BY <1>1, <2>2
    <3>2. IsSent(x.status, n) \/ CanSendNode(x.status, n)
      BY <1>3, <3>1 DEF CanSendWay
    <3>3. IsSent(x.status, n) => n \in x.info \/ st[n] = "Finalized"
      BY <3>1, MarksSay DEF Orderly
    <3> QED
      BY <3>1, <3>2, <3>3
  <2>4. \A n \in E \ {w} : Before(n) = {}
    BY <1>1, BeforeWhat
  <2>5. \A e \in E : Follows(st, x.info \cup E, e)
    BY <2>3, <2>4 DEF Follows
  <2>6. AddWay(x, w) = Buffer(x, E)
    BY <1>3 DEF AddWay
  <2> HIDE DEF E
  <2> QED
    BY <2>1, <2>5, <2>6, BufferInOrder
<1>4. CASE CanSendWay(x.status, w) /\ Fits(x, w) /\ Change[w] = "delete"
  <2> DEFINE y == AddParents(x, RelationsOf(w))
  <2>1. AddWay(x, w) = IF ParentsSendable(x, RelationsOf(w)) THEN Buffer(y, {w}) ELSE y
    BY <1>4 DEF AddWay
  <2>2. RelationsOf(w) \in SUBSET Element
    BY Elements
  <2>3. /\ Grows(st, x, y) /\ InOrder(st, y)
        /\ ParentsSendable(x, RelationsOf(w)) =>
             \A p \in RelationsOf(w) : p \in y.info \/ st[p] = "Finalized"
    BY <1>1, <1>4, <2>2, ParentsTake, MarksGrow, ParentsInOrder DEF Marks
  <2> HIDE DEF y
  <2>4. ParentsSendable(x, RelationsOf(w)) => Follows(st, y.info \cup {w}, w)
    BY <1>1, <1>4, <2>3, BeforeWhat DEF Follows
  <2>5. ParentsSendable(x, RelationsOf(w)) => InOrder(st, Buffer(y, {w}))
    BY <1>1, <2>3, <2>4, BufferInOrder DEF Grows
  <2> QED
    BY <2>1, <2>3, <2>5
<1> QED
  BY <1>2, <1>3, <1>4

LEMMA MemberInOrder ==
  ASSUME NEW st \in Statuses, NEW x, Marks(st, x), InOrder(st, x), Orderly(st),
         NEW m \in Node \cup Way
  PROVE  /\ InOrder(st, AddMember(x, m))
         /\ m \in Node /\ Change[m] = "create" /\ st[m] = "Available" => m \in AddMember(x, m).info
<1>1. InOrder(st, AddMember(x, m))
  BY NodeInOrder, WayInOrder DEF AddMember
<1>2. ASSUME m \in Node, Change[m] = "create", st[m] = "Available"
      PROVE  m \in AddMember(x, m).info
  <2>1. AddMember(x, m) = AddNode(x, m) /\ m \in Element /\ {m} \in SUBSET Element
    BY <1>2, Elements DEF AddMember
  <2>2. CASE m \in x.info
    BY <1>2, <2>1, <2>2, NodeTakes, MarksGrow DEF Grows, Marks
  <2>3. CASE m \notin x.info
    <3>1. CanSendNode(x.status, m)
      BY <1>2, <2>1, <2>3, MarksSay DEF CanSendNode
    <3>2. AddNode(x, m) = Buffer(x, {m})
      BY <1>2, <3>1 DEF AddNode
    <3> QED
      BY <2>1, <3>2, BufferType DEF Marks
  <2> QED
    BY <2>2, <2>3
<1> QED
  BY <1>1, <1>2

-----------------------------------------------------------------------------
(* Created ways are offered first, so relations need not take them along.  *)

CreatedWays == {w \in Way : Change[w] = "create"}

\* A way that is not taken cannot be sent or would be too much.
Tried(st, x, w) ==
    \/ w \in x.info \/ ~CanSendWay(st, w)
    \/ Cardinality({w} \cup WayNodes[w]) + Cardinality(x.info) > ChangesetLimit

Ready(st, x) == HasRoom(x) => \A w \in CreatedWays : Tried(st, x, w)

LEMMA TriedStays ==
  ASSUME NEW st \in Statuses, NEW x, NEW y, Marks(st, x), Grows(st, x, y)
  PROVE  /\ HasRoom(y) => HasRoom(x)
         /\ \A w \in Way : Tried(st, x, w) => Tried(st, y, w)
         /\ Ready(st, x) => Ready(st, y)
<1>1. x.info \in SUBSET Element /\ y.info \in SUBSET Element /\ x.info \subseteq y.info
  BY DEF Marks, Grows, Works
<1>2. /\ Cardinality(x.info) \in Nat /\ Cardinality(y.info) \in Nat
      /\ Cardinality(x.info) <= Cardinality(y.info)
  BY <1>1, ElementAssumption, FS_Subset, FS_CardinalityType
<1>3. HasRoom(y) => HasRoom(x)
  BY <1>2, ChangesetAssumption DEF HasRoom
<1>4. ASSUME NEW w \in Way, Tried(st, x, w) PROVE Tried(st, y, w)
  <2>1. {w} \cup WayNodes[w] \in SUBSET Element
    BY Elements
  <2>2. Cardinality({w} \cup WayNodes[w]) \in Nat
    BY <2>1, ElementAssumption, FS_Subset, FS_CardinalityType
  <2> QED
    BY <1>1, <1>2, <1>4, <2>2, ChangesetAssumption DEF Tried
<1> QED
  BY <1>3, <1>4 DEF Ready, CreatedWays

\* A created way that has been offered is taken, unless it cannot be sent or does not fit.
LEMMA OfferedIsTried ==
  ASSUME NEW st \in Statuses, NEW x, Marks(st, x), NEW w \in CreatedWays
  PROVE  Tried(st, AddWay(x, w), w)
<1>1. w \in Way /\ w \in Element /\ Change[w] # "delete"
  BY Elements DEF CreatedWays
<1>2. CASE CanSendWay(x.status, w) /\ Fits(x, w)
  <2> DEFINE E == {w} \cup {n \in WayNodes[w] : Change[n] = "create" /\ CanSendNode(x.status, n)}
  <2>1. E \in SUBSET Element /\ w \in E
    BY <1>1, Elements
  <2>2. AddWay(x, w) = Buffer(x, E)
    BY <1>1, <1>2 DEF AddWay
  <2> HIDE DEF E
  <2>3. w \in AddWay(x, w).info
    BY <2>1, <2>2, BufferType DEF Marks
  <2> QED
    BY <2>3 DEF Tried
<1>3. CASE ~CanSendWay(x.status, w)
  <2>1. AddWay(x, w) = x
    BY <1>3 DEF AddWay
  <2> QED
    BY <1>1, <1>3, <2>1, MarksSay DEF Tried
<1>4. CASE ~Fits(x, w)
  <2>1. AddWay(x, w) = x
    BY <1>4 DEF AddWay
  <2>2. Hydrated(x.status, w) = {w} \cup WayNodes[w]
    BY <1>1 DEF Hydrated
  <2>3. {w} \cup WayNodes[w] \in SUBSET Element /\ x.info \in SUBSET Element
    BY <1>1, Elements DEF Marks, Works
  <2>4. Cardinality({w} \cup WayNodes[w]) \in Nat /\ Cardinality(x.info) \in Nat
    BY <2>3, ElementAssumption, FS_Subset, FS_CardinalityType
  <2>5. Cardinality({w} \cup WayNodes[w]) + Cardinality(x.info) > ChangesetLimit
    BY <1>4, <2>2, <2>4, ChangesetAssumption DEF Fits
  <2> QED
    BY <2>1, <2>5 DEF Tried
<1> QED
  BY <1>2, <1>3, <1>4

\* A relation that fits has no created way left that could be sent.
LEMMA NoWayLeft ==
  ASSUME NEW st \in Statuses, NEW x, Marks(st, x), \A w \in CreatedWays : Tried(st, x, w),
         NEW r \in Relation, Fits(x, r), NEW w \in CreatedWays, w \in ToSet(Members[r])
  PROVE  ~CanSendWay(x.status, w)
<1> SUFFICES ASSUME CanSendWay(x.status, w) PROVE FALSE
  OBVIOUS
<1>1. w \in Way /\ r \notin Way /\ r \in Element
  BY ChangesetAssumption, Elements DEF CreatedWays
<1>2. w \notin x.info /\ CanSendWay(st, w) /\ x.status[w] = "Available"
  BY <1>1, MarksSay DEF CanSendWay
<1>3. {w} \cup WayNodes[w] \subseteq Hydrated(x.status, r)
  BY <1>1, <1>2 DEF Hydrated
<1>4. Hydrated(x.status, r) \in SUBSET Element
  BY <1>1, Elements DEF Hydrated
<1>5. /\ Cardinality({w} \cup WayNodes[w]) \in Nat /\ Cardinality(Hydrated(x.status, r)) \in Nat
      /\ Cardinality({w} \cup WayNodes[w]) <= Cardinality(Hydrated(x.status, r))
  BY <1>3, <1>4, ElementAssumption, FS_Subset, FS_CardinalityType
<1>6. Cardinality(x.info) \in Nat
  BY ElementAssumption, FS_Subset, FS_CardinalityType DEF Marks, Works
<1>7. Cardinality(Hydrated(x.status, r)) + Cardinality(x.info) <= ChangesetLimit
  BY DEF Fits
<1>8. Cardinality({w} \cup WayNodes[w]) + Cardinality(x.info) > ChangesetLimit
  BY <1>2 DEF Tried
<1> QED
  BY <1>5, <1>6, <1>7, <1>8, ChangesetAssumption

\* What the members of a relation make of the work.
LEMMA MembersInOrder ==
  ASSUME NEW st \in Statuses, NEW x, Marks(st, x), InOrder(st, x), Orderly(st),
         NEW ms \in Seq(Node \cup Way)
  PROVE  \E z : /\ z = FoldLeft(AddMember, x, ms) /\ Grows(st, x, z) /\ InOrder(st, z)
                /\ \A m \in ToSet(ms) :
                     m \in Node /\ Change[m] = "create" /\ st[m] = "Available" => m \in z.info
<1> DEFINE n == Len(ms)
           New(m) == m \in Node /\ Change[m] = "create" /\ st[m] = "Available"
<1>1. n \in Nat /\ ms \in [1..n -> Node \cup Way]
  OBVIOUS
<1>f. PICK a : AfterMembers(a, x, ms)
  BY MemberFold DEF Marks
<1>2. /\ a[0] = x
      /\ \A k \in Nat : k < n => a[k + 1] = AddMember(a[k], ms[k + 1])
      /\ \A k \in Nat : k <= n => Grows(st, x, a[k])
      /\ a[n] = FoldLeft(AddMember, x, ms)
  BY <1>f, MarksGrow DEF AfterMembers
<1> DEFINE Done(k) == InOrder(st, a[k]) /\ \A j \in 1..k : New(ms[j]) => ms[j] \in a[k].info
           S == {k \in Nat : k <= n => Done(k)}
<1>3. Done(0)
  <2>1. 1..0 = {}
    OBVIOUS
  <2> QED
    BY <1>2, <2>1
<1>4. ASSUME NEW k \in Nat, Done(k), k + 1 <= n PROVE Done(k + 1)
  <2> DEFINE m == ms[k + 1]
  <2>1. k < n /\ k <= n /\ k + 1 \in 1..n
    BY <1>1, <1>4
  <2>2. m \in Node \cup Way /\ a[k + 1] = AddMember(a[k], m) /\ Marks(st, a[k])
    BY <1>1, <1>2, <2>1 DEF Grows
  <2> HIDE DEF m
  <2>3. InOrder(st, a[k])
    BY <1>4
  <2>4. InOrder(st, a[k + 1]) /\ (New(m) => m \in a[k + 1].info) /\ a[k].info \subseteq a[k + 1].info
    BY <2>2, <2>3, MemberInOrder, MemberTakes, MarksGrow DEF Grows, Marks
  <2>5. ASSUME NEW j \in 1..k + 1, New(ms[j]) PROVE ms[j] \in a[k + 1].info
    <3>1. CASE j = k + 1
      BY <2>4, <2>5, <3>1 DEF m
    <3>2. CASE j # k + 1
      <4>1. j \in 1..k
        BY <3>2
      <4> QED
        BY <1>4, <2>4, <2>5, <4>1
    <3> QED
      BY <3>1, <3>2
  <2> QED
    BY <2>4, <2>5
<1> HIDE DEF Done
<1>5. n \in S
  <2>1. 0 \in S /\ \A k \in Nat : k \in S => k + 1 \in S
    BY <1>1, <1>3, <1>4
  <2> HIDE DEF S
  <2> QED
    BY <1>1, <2>1, Induction
<1>6. Done(n)
  BY <1>1, <1>5
<1>7. Grows(st, x, a[n]) /\ a[n] = FoldLeft(AddMember, x, ms)
  BY <1>1, <1>2
<1>8. \A m \in ToSet(ms) : \E j \in 1..n : m = ms[j]
  BY <1>1 DEF ToSet
<1> QED
  BY <1>6, <1>7, <1>8 DEF Done

LEMMA RelationInOrder ==
  ASSUME NEW st \in Statuses, NEW x, Marks(st, x), InOrder(st, x), Orderly(st),
         \A w \in CreatedWays : Tried(st, x, w), NEW r \in Relation
  PROVE  InOrder(st, AddRelation(x, r))
<1>1. r \in Element /\ {r} \in SUBSET Element /\ Members[r] \in Seq(Node \cup Way)
  BY Elements
<1>2. CASE ~(CanSendRelation(x.status, r) /\ Fits(x, r))
  BY <1>2 DEF AddRelation
<1>3. CASE CanSendRelation(x.status, r) /\ Fits(x, r) /\ Change[r] = "delete"
  <2>1. Follows(st, x.info \cup {r}, r)
    BY <1>1, <1>3, BeforeWhat DEF Follows
  <2>2. InOrder(st, Buffer(x, {r}))
    BY <1>1, <2>1, BufferInOrder
  <2> QED
    BY <1>3, <2>2 DEF AddRelation
<1>4. CASE CanSendRelation(x.status, r) /\ Fits(x, r) /\ Change[r] # "delete"
  <2> DEFINE ms == Members[r]
  <2>1. PICK z : /\ z = FoldLeft(AddMember, x, ms) /\ Grows(st, x, z) /\ InOrder(st, z)
                 /\ \A m \in ToSet(ms) :
                      m \in Node /\ Change[m] = "create" /\ st[m] = "Available" => m \in z.info
    BY <1>1, MembersInOrder, Zenon
  <2>2. AddRelation(x, r) = Buffer(z, {r})
    BY <1>4, <2>1 DEF AddRelation
  <2>3. Before(r) = {m \in ToSet(ms) : Change[m] = "create"}
    BY <1>4, BeforeWhat
  <2>4. ToSet(ms) \subseteq Node \cup Way
    BY <1>1 DEF ToSet
  <2>5. ASSUME NEW m \in Before(r) PROVE m \in z.info \/ st[m] = "Finalized"
    <3>1. m \in ToSet(ms) /\ Change[m] = "create" /\ m \in Element
      BY <2>3, <2>4, Elements
    <3>2. IsSent(x.status, m) => m \in z.info \/ st[m] = "Finalized"
      BY <2>1, <3>1, MarksSay DEF Orderly, Grows
    <3>3. m \in Node /\ CanSendNode(x.status, m) => m \in z.info
      BY <2>1, <3>1, MarksSay DEF CanSendNode
    <3>4. ~(m \in Way /\ CanSendWay(x.status, m))
      BY <1>4, <3>1, NoWayLeft DEF CreatedWays
    <3> QED
      BY <1>4, <3>1, <3>2, <3>3, <3>4 DEF CanSendRelation
  <2>6. Follows(st, z.info \cup {r}, r)
    BY <2>5 DEF Follows
  <2>7. InOrder(st, Buffer(z, {r}))
    BY <1>1, <2>1, <2>6, BufferInOrder DEF Grows
  <2> QED
    BY <2>2, <2>7
<1> QED
  BY <1>2, <1>3, <1>4

\* One more element, in work that has been offered the created ways.
LEMMA AddInOrder ==
  ASSUME NEW st \in Statuses, NEW x, Marks(st, x), InOrder(st, x), Orderly(st), NEW e \in Element,
         e \in Relation => \A w \in CreatedWays : Tried(st, x, w)
  PROVE  InOrder(st, Add(x, e))
  BY Elements, NodeInOrder, WayInOrder, RelationInOrder DEF Add

-----------------------------------------------------------------------------
(* Whole rounds.                                                           *)

\* What addNodes, addWays and addRelations do with one element.
Offered(x, e, kind, change) ==
    IF e \in kind /\ Change[e] = change /\ HasRoom(x) THEN Add(x, e) ELSE x

LEMMA OfferGrows ==
  ASSUME NEW st \in Statuses, NEW x, Marks(st, x), NEW e \in Element, NEW kind, NEW change
  PROVE  Grows(st, x, Offered(x, e, kind, change))
<1>1. Grows(st, x, x)
  BY DEF Grows
<1> QED
  BY <1>1, AddTakes, MarksGrow DEF Offered, Marks

\* The work after each element, in the order of their ids.
AfterElements(a, st, x, kind, change) ==
    /\ a[0] = x
    /\ \A k \in Nat : k < Len(IdOrder) =>
         a[k + 1] = Offered(a[k], IdOrder[k + 1], kind, change)
    /\ \A k \in Nat : k <= Len(IdOrder) => Grows(st, x, a[k])
    /\ a[Len(IdOrder)] = AddAll(x, kind, change)

LEMMA AllFold ==
  ASSUME NEW st \in Statuses, NEW x, Marks(st, x), NEW kind, NEW change
  PROVE  \E a : AfterElements(a, st, x, kind, change)
<1> DEFINE n == Len(IdOrder)
           T == Element
           W == {y \in Works : Grows(st, x, y)}
           step == [p \in W \X T |-> Offered(p[1], p[2], kind, change)]
           IsFold(g) == g = [s \in SUBSET (1..n) |->
                               IF s = {} THEN x ELSE Offered(g[s \ {Max(s)}], IdOrder[Max(s)], kind, change)]
           G == CHOOSE g : IsFold(g)
           a == [k \in Nat |-> G[1..k]]
<1>1. n \in Nat /\ IdOrder \in [1..n -> T] /\ DOMAIN IdOrder = 1..n
  BY ChangesetAssumption
<1>2. x \in W
  BY DEF Marks, Grows
<1>3. ASSUME NEW y \in W, NEW m \in T PROVE Offered(y, m, kind, change) \in W
  <2>1. Grows(st, y, Offered(y, m, kind, change)) /\ Grows(st, x, y)
    BY OfferGrows DEF Grows
  <2>2. Grows(st, x, Offered(y, m, kind, change)) /\ Offered(y, m, kind, change) \in Works
    BY <2>1, GrowsOn DEF Grows, Marks
  <2> QED
    BY <2>2
<1> HIDE DEF W
<1>4. step \in [W \X T -> W] /\ \A y \in W, m \in T : step[<<y, m>>] = Offered(y, m, kind, change)
  BY <1>3
<1> HIDE DEF step
<1>5. PICK g : Folded(g, W, step, x, IdOrder, n)
  <2> HIDE DEF T, n
  <2>1. step \in [W \X T -> W] /\ x \in W /\ n \in Nat /\ IdOrder \in [1..n -> T]
    BY <1>1, <1>2, <1>4
  <2> QED
    BY <2>1, FoldExists
<1>6. ASSUME NEW s \in SUBSET (1..n)
      PROVE  g[s] = IF s = {} THEN x ELSE Offered(g[s \ {Max(s)}], IdOrder[Max(s)], kind, change)
  <2>1. s # {} => IdOrder[Max(s)] \in T
    BY <1>1, MaxWithin
  <2>2. g[s \ {Max(s)}] \in W
    BY <1>5 DEF Folded
  <2> QED
    BY <1>4, <1>5, <2>1, <2>2 DEF Folded
<1>7. IsFold(g)
  <2>1. g = [s \in SUBSET (1..n) |-> g[s]]
    BY <1>5 DEF Folded
  <2> QED
    BY <1>6, <2>1
<1>8. IsFold(G)
  BY <1>7
<1>9. AddAll(x, kind, change) = G[1..n]
  BY <1>1 DEF AddAll, Offered, FoldLeft, MapThenFoldSet
<1> HIDE DEF G
<1>10. a[0] = x
  <2>1. 1..0 = {} /\ {} \in SUBSET (1..n)
    OBVIOUS
  <2> QED
    BY <1>8, <2>1
<1>11. ASSUME NEW k \in Nat, k < n
       PROVE  a[k + 1] = Offered(a[k], IdOrder[k + 1], kind, change)
  <2>1. k + 1 <= n
    BY <1>1, <1>11
  <2> DEFINE s == 1..k + 1
  <2>2. s \in SUBSET (1..n) /\ s # {} /\ Max(s) = k + 1 /\ s \ {k + 1} = 1..k
    BY <1>1, <2>1, UpTo
  <2> HIDE DEF s
  <2>3. G[s] = Offered(G[s \ {Max(s)}], IdOrder[Max(s)], kind, change)
    BY <1>8, <2>2
  <2>4. a[k + 1] = G[s] /\ a[k] = G[1..k]
    BY DEF s
  <2> QED
    BY <2>2, <2>3, <2>4
<1> DEFINE S == {k \in Nat : k <= n => a[k] \in W}
<1> HIDE DEF a
<1>12. 0 \in S
  BY <1>2, <1>10
<1>13. ASSUME NEW k \in Nat, k \in S PROVE k + 1 \in S
  <2> SUFFICES ASSUME k + 1 <= n PROVE a[k + 1] \in W
    OBVIOUS
  <2>1. k < n /\ IdOrder[k + 1] \in T /\ a[k] \in W
    BY <1>1, <1>13
  <2> QED
    BY <1>3, <1>11, <2>1
<1> HIDE DEF S
<1>14. \A k \in Nat : k <= n => a[k] \in W
  <2>1. Nat \subseteq S
    BY <1>12, <1>13, Induction
  <2> QED
    BY <1>1, <2>1 DEF S
<1>15. a[n] = AddAll(x, kind, change)
  BY <1>1, <1>9 DEF a
<1> QED
  <2>1. \A k \in Nat : k <= n => Grows(st, x, a[k])
    BY <1>14 DEF W
  <2> QED
    BY <1>10, <1>11, <1>15, <2>1 DEF AfterElements

\* A round keeps its order: relations are offered only to work that has seen the created ways.
LEMMA AllInOrder ==
  ASSUME NEW st \in Statuses, NEW x, Marks(st, x), NEW kind, NEW change
  PROVE  /\ Grows(st, x, AddAll(x, kind, change))
         /\ InOrder(st, x) /\ Orderly(st) /\ (kind \cap Relation = {} \/ Ready(st, x))
              => InOrder(st, AddAll(x, kind, change))
<1> DEFINE n == Len(IdOrder)
<1>1. n \in Nat /\ IdOrder \in [1..n -> Element]
  BY ChangesetAssumption
<1>f. PICK a : AfterElements(a, st, x, kind, change)
  BY AllFold
<1>2. /\ a[0] = x
      /\ \A k \in Nat : k < n => a[k + 1] = Offered(a[k], IdOrder[k + 1], kind, change)
      /\ \A k \in Nat : k <= n => Grows(st, x, a[k])
      /\ a[n] = AddAll(x, kind, change)
  BY <1>f DEF AfterElements
<1>3. Grows(st, x, a[n]) /\ a[n] = AddAll(x, kind, change)
  BY <1>1, <1>2
<1>4. ASSUME InOrder(st, x), Orderly(st), kind \cap Relation = {} \/ Ready(st, x)
      PROVE  InOrder(st, a[n])
  <2> DEFINE Done(k) == InOrder(st, a[k])
             S == {k \in Nat : k <= n => Done(k)}
  <2>1. Done(0)
    BY <1>2, <1>4
  <2>2. ASSUME NEW k \in Nat, Done(k), k + 1 <= n PROVE Done(k + 1)
    <3> DEFINE e == IdOrder[k + 1]
    <3>1. k < n /\ k <= n /\ k + 1 \in 1..n
      BY <1>1, <2>2
    <3>2. e \in Element /\ a[k + 1] = Offered(a[k], e, kind, change) /\ Grows(st, x, a[k])
      BY <1>1, <1>2, <3>1
    <3> HIDE DEF e
    <3>3. ASSUME e \in kind, e \in Relation, HasRoom(a[k])
          PROVE  \A w \in CreatedWays : Tried(st, a[k], w)
      <4>1. Ready(st, a[k])
        BY <1>4, <3>2, <3>3, TriedStays
      <4> QED
        BY <3>3, <4>1 DEF Ready
    <3>4. e \in kind /\ HasRoom(a[k]) => InOrder(st, Add(a[k], e))
      <4>1. Marks(st, a[k]) /\ InOrder(st, a[k])
        BY <2>2, <3>2 DEF Grows
      <4> QED
        BY <1>4, <3>2, <3>3, <4>1, AddInOrder
    <3> QED
      BY <2>2, <3>2, <3>4 DEF Offered
  <2> HIDE DEF Done
  <2>3. n \in S
    <3>1. 0 \in S /\ \A k \in Nat : k \in S => k + 1 \in S
      BY <1>1, <2>1, <2>2
    <3> HIDE DEF S
    <3> QED
      BY <1>1, <3>1, Induction
  <2> QED
    BY <1>1, <2>3 DEF Done
<1> QED
  BY <1>3, <1>4

\* The round of the created ways offers them all, or leaves no room.
LEMMA WaysAreOffered ==
  ASSUME NEW st \in Statuses, NEW x, Marks(st, x)
  PROVE  Ready(st, AddAll(x, Way, "create"))
<1> DEFINE n == Len(IdOrder)
<1>1. n \in Nat /\ IdOrder \in [1..n -> Element] /\ ToSet(IdOrder) = Element
  BY ChangesetAssumption
<1>f. PICK a : AfterElements(a, st, x, Way, "create")
  BY AllFold
<1>2. /\ a[0] = x
      /\ \A k \in Nat : k < n => a[k + 1] = Offered(a[k], IdOrder[k + 1], Way, "create")
      /\ \A k \in Nat : k <= n => Grows(st, x, a[k])
      /\ a[n] = AddAll(x, Way, "create")
  BY <1>f DEF AfterElements
<1> DEFINE Done(k) == HasRoom(a[k]) =>
                        \A j \in 1..k : IdOrder[j] \in CreatedWays => Tried(st, a[k], IdOrder[j])
           S == {k \in Nat : k <= n => Done(k)}
<1>3. Done(0)
  <2>1. 1..0 = {}
    OBVIOUS
  <2> QED
    BY <2>1
<1>4. ASSUME NEW k \in Nat, Done(k), k + 1 <= n PROVE Done(k + 1)
  <2> DEFINE e == IdOrder[k + 1]
  <2>1. k < n /\ k <= n /\ k + 1 \in 1..n
    BY <1>1, <1>4
  <2>2. e \in Element /\ a[k + 1] = Offered(a[k], e, Way, "create") /\ Marks(st, a[k])
    BY <1>1, <1>2, <2>1 DEF Grows
  <2>3. Grows(st, a[k], a[k + 1])
    <3> HIDE DEF e
    <3> QED
      BY <2>2, OfferGrows
  <2> SUFFICES ASSUME HasRoom(a[k + 1]), NEW j \in 1..k + 1, IdOrder[j] \in CreatedWays
               PROVE  Tried(st, a[k + 1], IdOrder[j])
    OBVIOUS
  <2>4. HasRoom(a[k])
    BY <2>2, <2>3, TriedStays
  <2>5. CASE j = k + 1
    <3>1. e \in CreatedWays /\ e \in Way /\ Change[e] = "create" /\ e = IdOrder[j]
      BY <2>5 DEF CreatedWays
    <3> HIDE DEF e
    <3>2. Add(a[k], e) = AddWay(a[k], e)
      BY <3>1, ChangesetAssumption DEF Add
    <3>3. a[k + 1] = AddWay(a[k], e)
      BY <2>2, <2>4, <3>1, <3>2 DEF Offered
    <3> QED
      BY <2>2, <3>1, <3>3, OfferedIsTried
  <2>6. CASE j # k + 1
    <3>1. j \in 1..k
      BY <2>6
    <3>2. Tried(st, a[k], IdOrder[j]) /\ IdOrder[j] \in Way
      BY <1>4, <2>4, <3>1 DEF CreatedWays
    <3> QED
      BY <2>2, <2>3, <3>2, TriedStays
  <2> QED
    BY <2>5, <2>6
<1> HIDE DEF Done
<1>5. n \in S
  <2>1. 0 \in S /\ \A k \in Nat : k \in S => k + 1 \in S
    BY <1>1, <1>3, <1>4
  <2> HIDE DEF S
  <2> QED
    BY <1>1, <2>1, Induction
<1>6. Done(n) /\ a[n] = AddAll(x, Way, "create")
  BY <1>1, <1>2, <1>5
<1>7. \A w \in CreatedWays : \E j \in 1..n : w = IdOrder[j]
  BY <1>1, Elements DEF CreatedWays, ToSet
<1> QED
  BY <1>6, <1>7 DEF Done, Ready

\* Nothing more is taken in this and all later rounds.
Stuck(x, unsent) == ~(HasRoom(x) /\ unsent > Cardinality(x.info))

LEMMA PassInOrder ==
  ASSUME NEW st \in Statuses, NEW x, Marks(st, x), NEW change, NEW unsent
  PROVE  /\ Grows(st, x, Pass(x, change, unsent))
         /\ InOrder(st, x) /\ Orderly(st) /\ (Ready(st, x) \/ Stuck(x, unsent) \/ change = "create")
              => /\ InOrder(st, Pass(x, change, unsent))
                 /\ \/ Ready(st, Pass(x, change, unsent))
                    \/ Stuck(Pass(x, change, unsent), unsent)
<1>1. CASE Stuck(x, unsent)
  <2>1. Pass(x, change, unsent) = x
    BY <1>1 DEF Pass, Stuck
  <2> QED
    BY <1>1, <2>1 DEF Grows
<1>2. CASE ~Stuck(x, unsent) /\ change = "delete"
  <2> DEFINE y == AddAll(x, Relation, change)
             z == AddAll(y, Way, change)
             v == AddAll(z, Node, change)
  <2>1. Pass(x, change, unsent) = v
    BY <1>2 DEF Pass, Stuck
  <2>2. Grows(st, x, y) /\ (InOrder(st, x) /\ Orderly(st) /\ Ready(st, x) => InOrder(st, y))
    BY AllInOrder
  <2> HIDE DEF y
  <2>3. Grows(st, y, z) /\ (InOrder(st, y) /\ Orderly(st) => InOrder(st, z))
    BY <2>2, AllInOrder, ChangesetAssumption DEF Grows
  <2> HIDE DEF z
  <2>4. Grows(st, z, v) /\ (InOrder(st, z) /\ Orderly(st) => InOrder(st, v))
    BY <2>3, AllInOrder, ChangesetAssumption DEF Grows
  <2> HIDE DEF v
  <2>5. Grows(st, x, v)
    BY <2>2, <2>3, <2>4, GrowsOn
  <2>6. Ready(st, x) => Ready(st, v)
    BY <2>5, TriedStays
  <2> QED
    BY <1>2, <2>1, <2>2, <2>3, <2>4, <2>5, <2>6
<1>3. CASE ~Stuck(x, unsent) /\ change # "delete"
  <2> DEFINE y == AddAll(x, Way, change)
             z == AddAll(y, Node, change)
             v == AddAll(z, Relation, change)
  <2>1. Pass(x, change, unsent) = v
    BY <1>3 DEF Pass, Stuck
  <2>2. Grows(st, x, y) /\ (InOrder(st, x) /\ Orderly(st) => InOrder(st, y))
    BY AllInOrder, ChangesetAssumption
  <2>3. Ready(st, x) \/ change = "create" => Ready(st, y)
    BY <2>2, TriedStays, WaysAreOffered
  <2> HIDE DEF y
  <2>4. Grows(st, y, z) /\ (InOrder(st, y) /\ Orderly(st) => InOrder(st, z))
    BY <2>2, AllInOrder, ChangesetAssumption DEF Grows
  <2>5. Ready(st, y) => Ready(st, z)
    BY <2>2, <2>4, TriedStays DEF Grows
  <2> HIDE DEF z
  <2>6. Grows(st, z, v) /\ (InOrder(st, z) /\ Orderly(st) /\ Ready(st, z) => InOrder(st, v))
    BY <2>4, AllInOrder DEF Grows
  <2> HIDE DEF v
  <2>7. Grows(st, x, v)
    BY <2>2, <2>4, <2>6, GrowsOn
  <2>8. Ready(st, z) => Ready(st, v)
    BY <2>4, <2>6, TriedStays DEF Grows
  <2> QED
    BY <1>3, <2>1, <2>2, <2>3, <2>4, <2>5, <2>6, <2>7, <2>8
<1> QED
  BY <1>1, <1>2, <1>3

\* No created node that could be sent is left out, or there is no room.
NodesReady(st, x) ==
    HasRoom(x) => \A v \in Node : Change[v] = "create" => v \in x.info \/ ~CanSendNode(st, v)

LEMMA NodesStay ==
  ASSUME NEW st \in Statuses, NEW x, NEW y, Marks(st, x), Grows(st, x, y), NodesReady(st, x)
  PROVE  NodesReady(st, y)
<1>1. HasRoom(y) => HasRoom(x)
  BY TriedStays
<1>2. x.info \subseteq y.info
  BY DEF Grows
<1> QED
  BY <1>1, <1>2 DEF NodesReady

\* The round of the created nodes takes them all, or leaves no room.
LEMMA NodesAreOffered ==
  ASSUME NEW st \in Statuses, NEW x, Marks(st, x)
  PROVE  NodesReady(st, AddAll(x, Node, "create"))
<1> DEFINE n == Len(IdOrder)
           Taken(y, v) == v \in Node /\ Change[v] = "create" => v \in y.info \/ ~CanSendNode(st, v)
<1>1. n \in Nat /\ IdOrder \in [1..n -> Element] /\ ToSet(IdOrder) = Element
  BY ChangesetAssumption
<1>f. PICK a : AfterElements(a, st, x, Node, "create")
  BY AllFold
<1>2. /\ a[0] = x
      /\ \A k \in Nat : k < n => a[k + 1] = Offered(a[k], IdOrder[k + 1], Node, "create")
      /\ \A k \in Nat : k <= n => Grows(st, x, a[k])
      /\ a[n] = AddAll(x, Node, "create")
  BY <1>f DEF AfterElements
<1> DEFINE Done(k) == HasRoom(a[k]) => \A j \in 1..k : Taken(a[k], IdOrder[j])
           S == {k \in Nat : k <= n => Done(k)}
<1>3. Done(0)
  <2>1. 1..0 = {}
    OBVIOUS
  <2> QED
    BY <2>1
<1>4. ASSUME NEW k \in Nat, Done(k), k + 1 <= n PROVE Done(k + 1)
  <2> DEFINE e == IdOrder[k + 1]
  <2>1. k < n /\ k <= n /\ k + 1 \in 1..n
    BY <1>1, <1>4
  <2>2. e \in Element /\ a[k + 1] = Offered(a[k], e, Node, "create") /\ Marks(st, a[k])
    BY <1>1, <1>2, <2>1 DEF Grows
  <2>3. Grows(st, a[k], a[k + 1])
    <3> HIDE DEF e
    <3> QED
      BY <2>2, OfferGrows
  <2> SUFFICES ASSUME HasRoom(a[k + 1]), NEW j \in 1..k + 1
               PROVE  Taken(a[k + 1], IdOrder[j])
    OBVIOUS
  <2>4. HasRoom(a[k])
    BY <2>2, <2>3, TriedStays
  <2>5. CASE j = k + 1
    <3> SUFFICES ASSUME e \in Node, Change[e] = "create", CanSendNode(st, e)
                 PROVE  e \in a[k + 1].info
      BY <2>5
    <3> HIDE DEF e
    <3>1. a[k + 1] = AddNode(a[k], e)
      BY <2>2, <2>4 DEF Offered, Add
    <3>2. CASE e \in a[k].info
      BY <2>3, <3>2 DEF Grows
    <3>3. CASE e \notin a[k].info
      <4>1. CanSendNode(a[k].status, e)
        BY <2>2, <3>3, MarksSay
      <4>2. a[k + 1] = Buffer(a[k], {e})
        BY <3>1, <4>1 DEF AddNode
      <4> QED
        BY <4>2 DEF Buffer
    <3> QED
      BY <3>2, <3>3
  <2>6. CASE j # k + 1
    <3>1. j \in 1..k
      BY <2>6
    <3>2. Taken(a[k], IdOrder[j]) /\ a[k].info \subseteq a[k + 1].info
      BY <1>4, <2>3, <2>4, <3>1 DEF Grows
    <3> QED
      BY <3>2
  <2> QED
    BY <2>5, <2>6
<1> HIDE DEF Done
<1>5. n \in S
  <2>1. 0 \in S /\ \A k \in Nat : k \in S => k + 1 \in S
    BY <1>1, <1>3, <1>4
  <2> HIDE DEF S
  <2> QED
    BY <1>1, <2>1, Induction
<1>6. Done(n) /\ a[n] = AddAll(x, Node, "create")
  BY <1>1, <1>2, <1>5
<1>7. \A v \in Node : \E j \in 1..n : v = IdOrder[j]
  BY <1>1, Elements DEF ToSet
<1> QED
  BY <1>6, <1>7 DEF Done, NodesReady

\* The first round, if it runs, offers every created node and way.
LEMMA CreatedAreOffered ==
  ASSUME NEW st \in Statuses, NEW x, Marks(st, x), NEW unsent, ~Stuck(x, unsent)
  PROVE  LET y == Pass(x, "create", unsent)
         IN  Marks(st, y) /\ Ready(st, y) /\ NodesReady(st, y)
<1> DEFINE y == AddAll(x, Way, "create")
           z == AddAll(y, Node, "create")
           v == AddAll(z, Relation, "create")
<1>1. Pass(x, "create", unsent) = v
  BY DEF Pass, Stuck
<1>2. Grows(st, x, y) /\ Ready(st, y)
  BY AllInOrder, WaysAreOffered
<1> HIDE DEF y
<1>3. Grows(st, y, z) /\ NodesReady(st, z)
  BY <1>2, AllInOrder, NodesAreOffered DEF Grows
<1>4. Ready(st, z)
  BY <1>2, <1>3, TriedStays DEF Grows
<1> HIDE DEF z
<1>5. Grows(st, z, v)
  BY <1>3, AllInOrder DEF Grows
<1> HIDE DEF v
<1>6. Marks(st, v) /\ Ready(st, v) /\ NodesReady(st, v)
  BY <1>3, <1>4, <1>5, TriedStays, NodesStay DEF Grows
<1> QED
  BY <1>1, <1>6

\* Once the first round of a calculation has run, a relation that is offered while
\* there is room takes no member along: AddMember leaves the work as it is.  So
\* under which change a modified relation files its created members
\* (OsmApiChangeset.cpp:917) makes no difference to calculateChangeset.
THEOREM ModifiedTakeNoMember ==
  ASSUME NEW st \in Statuses, NEW x, Marks(st, x), NEW unsent, ~Stuck(x, unsent),
         NEW y, Grows(st, Pass(x, "create", unsent), y), HasRoom(y), NEW r \in Relation
  PROVE  FoldLeft(AddMember, y, Members[r]) = y
<1>1. /\ Marks(st, y) /\ y \in Works
      /\ \A w \in CreatedWays : Tried(st, y, w)
      /\ \A v \in Node : Change[v] = "create" => v \in y.info \/ ~CanSendNode(st, v)
  <2> DEFINE z == Pass(x, "create", unsent)
  <2>1. Marks(st, z) /\ Ready(st, z) /\ NodesReady(st, z)
    BY CreatedAreOffered
  <2> HIDE DEF z
  <2>2. Marks(st, y) /\ Ready(st, y) /\ NodesReady(st, y)
    BY <2>1, TriedStays, NodesStay DEF Grows, z
  <2> QED
    BY <2>2 DEF Ready, NodesReady, Marks
<1>2. ASSUME NEW m \in Node, Change[m] = "create" PROVE AddMember(y, m) = y
  <2>1. m \in Element /\ ~CanSendNode(y.status, m)
    BY <1>1, <1>2, Elements, MarksSay
  <2> QED
    BY <1>2, <2>1 DEF AddMember, AddNode
<1>3. ASSUME NEW m \in Way, Change[m] = "create" PROVE AddMember(y, m) = y
  <2>1. m \in CreatedWays /\ m \notin Node /\ m \in Element
    BY <1>3, Elements, ChangesetAssumption DEF CreatedWays
  <2>2. ~(CanSendWay(y.status, m) /\ Fits(y, m))
    <3> SUFFICES ASSUME CanSendWay(y.status, m), Fits(y, m) PROVE FALSE
      OBVIOUS
    <3>1. m \notin y.info /\ CanSendWay(st, m)
      BY <1>1, <2>1, MarksSay
    <3>2. Cardinality({m} \cup WayNodes[m]) + Cardinality(y.info) > ChangesetLimit
      BY <1>1, <2>1, <3>1 DEF Tried
    <3>3. Hydrated(y.status, m) = {m} \cup WayNodes[m]
      BY DEF Hydrated
    <3>4. {m} \cup WayNodes[m] \in SUBSET Element /\ y.info \in SUBSET Element
      BY <1>1, <2>1, Elements DEF Works
    <3>5. Cardinality({m} \cup WayNodes[m]) \in Nat /\ Cardinality(y.info) \in Nat
      BY <3>4, ElementAssumption, FS_Subset, FS_CardinalityType
    <3> QED
      BY <3>2, <3>3, <3>5, ChangesetAssumption DEF Fits
  <2> QED
    BY <1>3, <2>1, <2>2 DEF AddMember, AddWay
<1>4. \A m \in Node \cup Way : AddMember(y, m) = y
  BY <1>2, <1>3 DEF AddMember
<1> DEFINE ms == Members[r]
<1>5. ms \in Seq(Node \cup Way)
  BY Elements
<1>6. Len(ms) \in Nat /\ ms \in [1..Len(ms) -> Node \cup Way]
  BY <1>5
<1>7. PICK a : AfterMembers(a, y, ms)
  BY <1>1, <1>5, MemberFold
<1>8. /\ a[0] = y
      /\ \A k \in Nat : k < Len(ms) => a[k + 1] = AddMember(a[k], ms[k + 1])
      /\ a[Len(ms)] = FoldLeft(AddMember, y, ms)
  BY <1>7 DEF AfterMembers
<1> DEFINE S == {k \in Nat : k <= Len(ms) => a[k] = y}
<1> HIDE DEF ms
<1>9. ASSUME NEW k \in Nat, k \in S PROVE k + 1 \in S
  <2> SUFFICES ASSUME k + 1 <= Len(ms) PROVE a[k + 1] = y
    OBVIOUS
  <2>1. k < Len(ms) /\ k + 1 \in 1..Len(ms) /\ a[k] = y
    BY <1>6, <1>9
  <2> QED
    BY <1>4, <1>6, <1>8, <2>1
<1>10. 0 \in S
  BY <1>8
<1> HIDE DEF S
<1>11. Len(ms) \in S
  BY <1>6, <1>9, <1>10, Induction
<1>12. a[Len(ms)] = y
  BY <1>6, <1>11 DEF S
<1> QED
  BY <1>8, <1>12 DEF ms

\* calculateChangeset is its three rounds.
LEMMA Rounds ==
  ASSUME NEW st \in Statuses, NEW unsent
  PROVE  LET x == [status |-> st, info |-> {}]
         IN  CalculateChangeset(st, unsent) =
               Pass(Pass(Pass(x, "create", unsent), "modify", unsent), "delete", unsent).info
<1> DEFINE x == [status |-> st, info |-> {}]
           f == <<"create", "modify", "delete">>
           W == {y \in Works : Marks(st, y)}
           step == [p \in W \X Kind |-> Pass(p[1], p[2], unsent)]
           IsFold(g) == g = [s \in SUBSET (1..3) |->
                               IF s = {} THEN x ELSE Pass(g[s \ {Max(s)}], f[Max(s)], unsent)]
           G == CHOOSE g : IsFold(g)
<1>1. f \in [1..3 -> Kind] /\ DOMAIN f = 1..3 /\ f[1] = "create" /\ f[2] = "modify" /\ f[3] = "delete"
  BY DEF Kind
<1>2. x \in W
  BY DEF Marks, Works, AvailableIn
<1>3. ASSUME NEW y \in W, NEW c \in Kind PROVE Pass(y, c, unsent) \in W
  BY PassInOrder DEF Grows, Marks
<1> HIDE DEF W, x
<1>4. step \in [W \X Kind -> W] /\ \A y \in W, c \in Kind : step[<<y, c>>] = Pass(y, c, unsent)
  BY <1>3
<1> HIDE DEF step
<1>5. PICK g : Folded(g, W, step, x, f, 3)
  <2> HIDE DEF f
  <2>1. step \in [W \X Kind -> W] /\ x \in W /\ 3 \in Nat /\ f \in [1..3 -> Kind]
    BY <1>1, <1>2, <1>4
  <2> QED
    BY <2>1, FoldExists
<1>6. ASSUME NEW s \in SUBSET (1..3)
      PROVE  g[s] = IF s = {} THEN x ELSE Pass(g[s \ {Max(s)}], f[Max(s)], unsent)
  <2> HIDE DEF f
  <2>1. s # {} => f[Max(s)] \in Kind
    BY <1>1, MaxWithin
  <2>2. g[s \ {Max(s)}] \in W
    BY <1>5 DEF Folded
  <2> QED
    BY <1>4, <1>5, <2>1, <2>2 DEF Folded
<1>7. IsFold(g)
  <2>1. g = [s \in SUBSET (1..3) |-> g[s]]
    BY <1>5 DEF Folded
  <2> QED
    BY <1>6, <2>1
<1>8. IsFold(G)
  BY <1>7
<1>9. CalculateChangeset(st, unsent) = G[1..3].info
  BY <1>1 DEF CalculateChangeset, FoldLeft, MapThenFoldSet, x
<1> HIDE DEF G, f
<1>10. G[1..0] = x
  <2>1. 1..0 = {} /\ {} \in SUBSET (1..3)
    OBVIOUS
  <2> QED
    BY <1>8, <2>1
<1>11. ASSUME NEW k \in Nat, NEW m \in Nat, m = k + 1, m <= 3
       PROVE  G[1..m] = Pass(G[1..k], f[m], unsent)
  <2> DEFINE s == 1..m
  <2>1. s \in SUBSET (1..3) /\ s # {} /\ Max(s) = m /\ s \ {m} = 1..k
    BY <1>11, UpTo
  <2> HIDE DEF s
  <2>2. G[s] = Pass(G[s \ {Max(s)}], f[Max(s)], unsent)
    BY <1>8, <2>1
  <2> QED
    BY <2>1, <2>2 DEF s
<1>12. /\ G[1..1] = Pass(x, "create", unsent)
       /\ G[1..2] = Pass(G[1..1], "modify", unsent)
       /\ G[1..3] = Pass(G[1..2], "delete", unsent)
  <2>1. /\ 0 \in Nat /\ 1 \in Nat /\ 2 \in Nat /\ 3 \in Nat
        /\ 1 = 0 + 1 /\ 2 = 1 + 1 /\ 3 = 2 + 1 /\ 1 <= 3 /\ 2 <= 3 /\ 3 <= 3
    OBVIOUS
  <2>2. G[1..1] = Pass(G[1..0], f[1], unsent)
    BY <1>11, <2>1, Zenon
  <2>3. G[1..2] = Pass(G[1..1], f[2], unsent)
    BY <1>11, <2>1, Zenon
  <2>4. G[1..3] = Pass(G[1..2], f[3], unsent)
    BY <1>11, <2>1, Zenon
  <2> QED
    BY <1>1, <1>10, <2>2, <2>3, <2>4
<1> QED
  BY <1>9, <1>12 DEF x

\* Whatever the state of the elements, a new changeset holds only what is Available: the
\* writer may count on XmlChangeset for what it assumes of a calculation.
THEOREM CalculatedIsAvailable ==
  \A st \in Statuses, unsent \in 0..Total : CalculateChangeset(st, unsent) \subseteq AvailableIn(st)
<1> SUFFICES ASSUME NEW st \in Statuses, NEW unsent \in 0..Total
             PROVE  CalculateChangeset(st, unsent) \subseteq AvailableIn(st)
  OBVIOUS
<1> DEFINE x == [status |-> st, info |-> {}]
           y == Pass(x, "create", unsent)
           z == Pass(y, "modify", unsent)
           v == Pass(z, "delete", unsent)
<1>1. Marks(st, x)
  BY DEF Marks, Works, AvailableIn
<1>2. CalculateChangeset(st, unsent) = v.info
  BY Rounds
<1> HIDE DEF x
<1>3. Marks(st, y)
  BY <1>1, PassInOrder DEF Grows
<1> HIDE DEF y
<1>4. Marks(st, z)
  BY <1>3, PassInOrder DEF Grows
<1> HIDE DEF z
<1>5. Marks(st, v)
  BY <1>4, PassInOrder DEF Grows
<1> HIDE DEF v
<1> QED
  BY <1>2, <1>5 DEF Marks

\* A new changeset is in order: all that its elements must come after is in it or final.
LEMMA CalculatedInOrder ==
  ASSUME NEW st \in Statuses, NEW unsent, Orderly(st)
  PROVE  \A e \in CalculateChangeset(st, unsent) :
           Follows(st, CalculateChangeset(st, unsent), e)
<1> DEFINE x == [status |-> st, info |-> {}]
           y == Pass(x, "create", unsent)
           z == Pass(y, "modify", unsent)
           v == Pass(z, "delete", unsent)
<1>1. Marks(st, x) /\ InOrder(st, x)
  BY DEF Marks, Works, AvailableIn, InOrder
<1>2. CalculateChangeset(st, unsent) = v.info
  BY Rounds
<1> HIDE DEF x
<1>3. Marks(st, y) /\ InOrder(st, y) /\ (Ready(st, y) \/ Stuck(y, unsent))
  BY <1>1, PassInOrder DEF Grows
<1> HIDE DEF y
<1>4. Marks(st, z) /\ InOrder(st, z) /\ (Ready(st, z) \/ Stuck(z, unsent))
  BY <1>3, PassInOrder DEF Grows
<1> HIDE DEF z
<1>5. InOrder(st, v)
  BY <1>4, PassInOrder DEF Grows
<1> QED
  BY <1>2, <1>5 DEF InOrder

-----------------------------------------------------------------------------
(* What fails together.                                                    *)

\* The writer may count on XmlChangeset for what it assumes of failures: what is to fail
\* fails, once, and only with what the API cannot apply without it.
THEOREM FailuresSpreadSoundly ==
  ASSUME Composed, DeletesAreOld, NEW st \in Statuses, NEW F \in SUBSET Element
  PROVE  /\ F \ FailedIn(st) \subseteq FailsWith(st, F)
         /\ FailsWith(st, F) \subseteq Element \ FailedIn(st)
         /\ FailsWith(st, F) \cap Gone \subseteq F
         /\ \A A \in SelfSufficient : Apart(A, F) => Apart(A, FailsWith(st, F))
<1> DEFINE failed == FailedIn(st)
           created(E) == {e \in E : Change[e] = "create"}
           given == F \ failed
           ways == (UNION {WaysOf(n) : n \in created(given \cap Node)}) \ failed
           parents == UNION {RelationsOf(e) : e \in created((given \cup ways) \ Relation)}
<1>1. FailsWith(st, F) = given \cup ways \cup (parents \ failed)
  BY DEF FailsWith
<1>2. ways \subseteq Element /\ parents \subseteq Element
  BY Elements
<1>3. ASSUME NEW w \in ways
      PROVE  \E n \in given \cap Node : Change[n] = "create" /\ w \in WaysOf(n) /\ w \in Way
  BY Elements
<1>4. ASSUME NEW r \in parents
      PROVE  \E e \in given \cup ways : Change[e] = "create" /\ r \in RelationsOf(e) /\ r \in Relation
  BY Elements
<1>5. given \subseteq Element /\ Apart(given, failed) /\ Apart(ways, failed)
  <2>1. \A S : Apart(S \ failed, failed)
    BY DEF Apart
  <2> QED
    BY <2>1
<1> HIDE DEF failed, given, ways, parents
<1>6. Apart(ways \cup parents, Deletes(Element))
  <2>1. ASSUME NEW w \in ways PROVE w \notin Deletes(Element)
    BY <1>3, <1>5 DEF DeletesAreOld, Apart
  <2>2. ASSUME NEW r \in parents PROVE r \notin Deletes(Element)
    BY <1>2, <1>4, <1>5 DEF DeletesAreOld, Apart
  <2> QED
    BY <2>1, <2>2 DEF Apart
<1>7. FailsWith(st, F) \cap Gone \subseteq F
  BY <1>1, <1>6 DEF given, DeletesAreOld, Apart
<1>8. ASSUME NEW A \in SelfSufficient, Apart(A, F) PROVE Apart(A, FailsWith(st, F))
  <2>1. A \subseteq Element /\ \A e \in A : Needs(e) \subseteq A
    BY DEF SelfSufficient, Composed
  <2>2. Apart(A, given)
    BY <1>8 DEF given, Apart
  <2>3. ASSUME NEW w \in ways PROVE w \notin A
    <3>1. PICK n \in given \cap Node : Change[n] = "create" /\ w \in WaysOf(n) /\ w \in Way
      BY <1>3
    <3>2. Change[w] # "delete" /\ w \notin Node
      BY <1>2, <1>6, <3>1, ChangesetAssumption DEF Apart, Deletes
    <3>3. n \in Needs(w)
      BY <3>1, <3>2 DEF Needs, WaysOf
    <3> QED
      BY <2>1, <2>2, <3>1, <3>3 DEF Apart
  <2>4. ASSUME NEW r \in parents PROVE r \notin A
    <3>1. PICK e \in given \cup ways : Change[e] = "create" /\ r \in RelationsOf(e) /\ r \in Relation
      BY <1>4
    <3>2. Change[r] # "delete" /\ r \notin Node /\ r \notin Way
      BY <1>2, <1>6, <3>1, ChangesetAssumption DEF Apart, Deletes
    <3>3. e \in Needs(r)
      BY <3>1, <3>2 DEF Needs, RelationsOf
    <3> QED
      BY <2>1, <2>2, <2>3, <3>1, <3>3 DEF Apart
  <2> QED
    BY <1>1, <2>2, <2>3, <2>4 DEF Apart
<1>9. F \ failed \subseteq FailsWith(st, F) /\ FailsWith(st, F) \subseteq Element \ failed
  BY <1>1, <1>2, <1>5 DEF given, Apart
<1> QED
  BY <1>7, <1>8, <1>9 DEF failed

-----------------------------------------------------------------------------
(* Splitting in half.                                                      *)

\* f[k] is what k of n rounds of a nondeterministic step can make of start.
Iterated(f, W, start, step, n) ==
    /\ f \in [0..n -> SUBSET W]
    /\ \A k \in 0..n : f[k] = IF k = 0 THEN start ELSE UNION {step[x] : x \in f[k - 1]}

LEMMA RoundsExist ==
  ASSUME NEW W, NEW start \in SUBSET W, NEW step \in [W -> SUBSET W], NEW n \in Nat
  PROVE  \E f : Iterated(f, W, start, step, n)
<1> DEFINE Reaches(f, m) ==
             \A k \in 0..m : f[k] = IF k = 0 THEN start ELSE UNION {step[x] : x \in f[k - 1]}
           Has(m) == \E f \in [0..m -> SUBSET W] : Reaches(f, m)
           S == {m \in Nat : Has(m)}
<1>1. Has(0)
  <2> DEFINE f == [k \in 0..0 |-> start]
  <2>1. f \in [0..0 -> SUBSET W] /\ Reaches(f, 0)
    OBVIOUS
  <2> QED
    BY <2>1
<1>2. ASSUME NEW m \in Nat, Has(m) PROVE Has(m + 1)
  <2>1. PICK f \in [0..m -> SUBSET W] : Reaches(f, m)
    BY <1>2
  <2> DEFINE next == UNION {step[x] : x \in f[m]}
             g == [k \in 0..m + 1 |-> IF k = m + 1 THEN next ELSE f[k]]
  <2>2. next \in SUBSET W
    OBVIOUS
  <2> HIDE DEF next
  <2>3. g \in [0..m + 1 -> SUBSET W]
    BY <2>2
  <2>4. ASSUME NEW k \in 0..m + 1
        PROVE  g[k] = IF k = 0 THEN start ELSE UNION {step[x] : x \in g[k - 1]}
    <3>1. CASE k = m + 1
      <4>1. k # 0 /\ k - 1 = m /\ m \in 0..m + 1 /\ m # m + 1
        BY <3>1
      <4>2. g[k] = next /\ g[k - 1] = f[m]
        BY <3>1, <4>1
      <4> HIDE DEF g
      <4> QED
        BY <4>1, <4>2 DEF next
    <3>2. CASE k # m + 1
      <4>1. k \in 0..m /\ g[k] = f[k]
        BY <3>2
      <4>2. k # 0 => k - 1 \in 0..m + 1 /\ k - 1 # m + 1
        BY <4>1
      <4>3. k # 0 => g[k - 1] = f[k - 1]
        BY <4>2
      <4> HIDE DEF g
      <4> QED
        BY <2>1, <4>1, <4>3
    <3> QED
      BY <3>1, <3>2
  <2> HIDE DEF g
  <2>5. Reaches(g, m + 1)
    BY <2>4
  <2> QED
    BY <2>3, <2>5
<1> HIDE DEF Has
<1>3. n \in S
  <2>1. 0 \in S /\ \A m \in Nat : m \in S => m + 1 \in S
    BY <1>1, <1>2
  <2> HIDE DEF S
  <2> QED
    BY <2>1, Induction
<1> QED
  BY <1>3 DEF Has, Iterated

\* A split in half under way: what is left, moved and removed is all of S, once.
Halving(S) ==
    {x \in SplitOutcome :
       /\ x.rest \cup x.split \cup x.avail = S
       /\ Apart(x.rest, x.split) /\ Apart(x.avail, x.rest \cup x.split)
       /\ x.orphan = {} /\ x.fails = {} /\ x.adds = {} /\ ~x.error}

\* Moving or removing an element keeps that and leaves fewer.
LEMMA MoveOrRemoveHalves ==
  ASSUME NEW S \in SUBSET Element, NEW x \in Halving(S), NEW e \in x.rest
  PROVE  /\ MoveOrRemove(x, e) \in Halving(S)
         /\ MoveOrRemove(x, e).rest \subseteq x.rest \ {e}
<1> DEFINE moved == Moved(x.rest, e)
<1>1. e \in moved /\ moved \subseteq x.rest
  BY DEF Moved, MovedWay
<1> HIDE DEF moved
<1>2. CASE CanMove(x.rest, x.split, e)
  <2> DEFINE y == [x EXCEPT !.rest = x.rest \ moved, !.split = x.split \cup moved]
  <2>1. MoveOrRemove(x, e) = y
    BY <1>2 DEF MoveOrRemove, moved
  <2>2. /\ y.rest = x.rest \ moved /\ y.split = x.split \cup moved /\ y.avail = x.avail
        /\ y.orphan = {} /\ y.fails = {} /\ y.adds = {} /\ ~y.error /\ y \in SplitOutcome
    BY <1>1 DEF Halving, SplitOutcome
  <2> HIDE DEF y
  <2>3. y \in Halving(S) /\ y.rest \subseteq x.rest \ {e}
    BY <1>1, <2>2 DEF Halving, Apart
  <2> QED
    BY <2>1, <2>3
<1>3. CASE ~CanMove(x.rest, x.split, e)
  <2> DEFINE y == [x EXCEPT !.rest = x.rest \ {e}, !.avail = x.avail \cup {e}]
  <2>1. MoveOrRemove(x, e) = y
    BY <1>3 DEF MoveOrRemove
  <2>2. /\ y.rest = x.rest \ {e} /\ y.split = x.split /\ y.avail = x.avail \cup {e}
        /\ y.orphan = {} /\ y.fails = {} /\ y.adds = {} /\ ~y.error /\ y \in SplitOutcome
    BY DEF Halving, SplitOutcome
  <2> HIDE DEF y
  <2>3. y \in Halving(S) /\ y.rest \subseteq x.rest \ {e}
    BY <2>2 DEF Halving, Apart
  <2> QED
    BY <2>1, <2>3
<1> QED
  BY <1>2, <1>3

\* One turn of the loop that splits S, and what it starts from.
HalfTurn(S, x) ==
    IF x.rest = {} \/ Cardinality(x.split) >= Cardinality(S) \div 2 THEN {x}
    ELSE {MoveOrRemove(x, e) : e \in First(x.rest)}

Whole(S) == [rest |-> S, split |-> {}, avail |-> {}, orphan |-> {},
             fails |-> {}, adds |-> {}, error |-> FALSE]

\* What the loop can have done after each of its turns.
Turns(f, S) ==
    f = [k \in 0..Cardinality(S) |->
           IF k = 0 THEN {Whole(S)} ELSE UNION {HalfTurn(S, x) : x \in f[k - 1]}]

\* Until half is moved, every turn leaves one element less.
Halfway(S, x, k) ==
    \/ x.rest = {}
    \/ Cardinality(x.split) >= Cardinality(S) \div 2
    \/ Cardinality(x.rest) + k <= Cardinality(S)

LEMMA TurnsHalve ==
  ASSUME NEW S \in SUBSET Element, NEW f, Turns(f, S)
  PROVE  f \in [0..Cardinality(S) -> SUBSET Halving(S)]
         /\ \A x \in f[Cardinality(S)] : Halfway(S, x, Cardinality(S))
<1> DEFINE n == Cardinality(S)
           Good(k) == k <= n => f[k] \subseteq Halving(S) /\ \A x \in f[k] : Halfway(S, x, k)
           T == {k \in Nat : Good(k)}
<1>1. n \in Nat /\ \A R \in SUBSET S : IsFiniteSet(R) /\ Cardinality(R) \in Nat
  BY ElementAssumption, FS_Subset, FS_CardinalityType
<1> HIDE DEF n
<1>2. /\ DOMAIN f = 0..n
      /\ \A k \in 0..n :
           f[k] = IF k = 0 THEN {Whole(S)} ELSE UNION {HalfTurn(S, x) : x \in f[k - 1]}
  BY DEF Turns, n
<1>3. Good(0)
  <2>1. Whole(S) \in Halving(S)
    BY DEF Whole, Halving, SplitOutcome, Apart
  <2>2. Whole(S).rest = S
    BY DEF Whole
  <2>3. Cardinality(S) + 0 <= Cardinality(S)
    BY <1>1 DEF n
  <2>4. f[0] = {Whole(S)}
    BY <1>1, <1>2
  <2> QED
    BY <2>1, <2>2, <2>3, <2>4 DEF Halfway
<1>4. ASSUME NEW k \in Nat, Good(k) PROVE Good(k + 1)
  <2> SUFFICES ASSUME k + 1 <= n, NEW y \in f[k + 1]
               PROVE  y \in Halving(S) /\ Halfway(S, y, k + 1)
    OBVIOUS
  <2>1. PICK x \in f[k] : y \in HalfTurn(S, x)
    <3>1. k + 1 \in 0..n /\ k + 1 # 0 /\ k + 1 - 1 = k
      BY <1>1
    <3>2. f[k + 1] = UNION {HalfTurn(S, z) : z \in f[k]}
      BY <1>2, <3>1
    <3> QED
      BY <3>2
  <2>2. x \in Halving(S) /\ Halfway(S, x, k)
    BY <1>1, <1>4
  <2>3. CASE x.rest = {} \/ Cardinality(x.split) >= Cardinality(S) \div 2
    BY <2>1, <2>2, <2>3 DEF HalfTurn, Halfway
  <2>4. CASE ~(x.rest = {} \/ Cardinality(x.split) >= Cardinality(S) \div 2)
    <3>1. PICK e \in x.rest : y = MoveOrRemove(x, e)
      BY <2>1, <2>4 DEF HalfTurn, First
    <3>2. y \in Halving(S) /\ y.rest \subseteq x.rest \ {e}
      BY <2>2, <3>1, MoveOrRemoveHalves
    <3>3. Cardinality(x.rest) + k <= n
      BY <2>2, <2>4 DEF Halfway, n
    <3>4. x.rest \in SUBSET S
      BY <2>2 DEF Halving
    <3>5. IsFiniteSet(x.rest \ {e}) /\ Cardinality(x.rest \ {e}) = Cardinality(x.rest) - 1
      BY <1>1, <3>4, FS_RemoveElement
    <3>6. Cardinality(y.rest) <= Cardinality(x.rest) - 1
      BY <3>2, <3>5, FS_Subset
    <3>7. Cardinality(y.rest) \in Nat /\ Cardinality(x.rest) \in Nat
      BY <1>1, <3>2, <3>4
    <3>8. Cardinality(y.rest) + (k + 1) <= n
      BY <1>1, <3>3, <3>6, <3>7
    <3> QED
      BY <3>2, <3>8 DEF Halfway, n
  <2> QED
    BY <2>3, <2>4
<1> HIDE DEF Good
<1>5. Nat \subseteq T
  <2>1. 0 \in T /\ \A k \in Nat : k \in T => k + 1 \in T
    BY <1>3, <1>4
  <2> HIDE DEF T
  <2> QED
    BY <2>1, Induction
<1>6. \A k \in 0..n : f[k] \subseteq Halving(S) /\ \A x \in f[k] : Halfway(S, x, k)
  BY <1>1, <1>5 DEF Good
<1>7. f \in [0..n -> SUBSET Halving(S)]
  <2>1. f = [k \in DOMAIN f |-> f[k]]
    BY DEF Turns
  <2> QED
    BY <1>2, <1>6, <2>1
<1> QED
  BY <1>1, <1>6, <1>7 DEF n

LEMMA TurnsExist ==
  ASSUME NEW S \in SUBSET Element
  PROVE  \E f : Turns(f, S)
<1> DEFINE W == Halving(S)
           n == Cardinality(S)
           step == [x \in W |-> HalfTurn(S, x)]
           start == {Whole(S)}
<1>1. start \in SUBSET W
  BY DEF Whole, Halving, SplitOutcome, Apart
<1>2. \A x \in W : HalfTurn(S, x) \in SUBSET W
  BY MoveOrRemoveHalves DEF HalfTurn, First
<1>3. n \in Nat
  BY ElementAssumption, FS_Subset, FS_CardinalityType
<1> HIDE DEF W, start
<1>4. step \in [W -> SUBSET W]
  BY <1>2
<1> HIDE DEF step, n
<1>5. PICK f : Iterated(f, W, start, step, n)
  BY <1>1, <1>3, <1>4, RoundsExist
<1>6. /\ f \in [0..n -> SUBSET W]
      /\ \A k \in 0..n : f[k] = IF k = 0 THEN start ELSE UNION {step[x] : x \in f[k - 1]}
  BY <1>5 DEF Iterated
<1>7. ASSUME NEW k \in 0..n, k # 0
      PROVE  UNION {step[x] : x \in f[k - 1]} = UNION {HalfTurn(S, x) : x \in f[k - 1]}
  <2>1. k - 1 \in 0..n
    BY <1>3, <1>7
  <2>2. \A x \in f[k - 1] : step[x] = HalfTurn(S, x)
    BY <1>6, <2>1 DEF step
  <2>3. {step[x] : x \in f[k - 1]} = {HalfTurn(S, x) : x \in f[k - 1]}
    BY <2>2
  <2> QED
    BY <2>3
<1>8. \A k \in 0..n :
        f[k] = IF k = 0 THEN {Whole(S)} ELSE UNION {HalfTurn(S, x) : x \in f[k - 1]}
  BY <1>6, <1>7 DEF start
<1>9. Turns(f, S)
  BY <1>6, <1>8 DEF Turns, n
<1> QED
  BY <1>9

\* The writer may count on XmlChangeset for what it assumes of splitting in half: every
\* element is kept, moved, made Available again or set aside for the cleanup, and no
\* element is in two places.
THEOREM HalvesAreSound ==
  ASSUME NEW S \in SUBSET Element, Cardinality(S) # 1, NEW x \in HalfSplits(S)
  PROVE  SplitsSoundly(x, S, {}) /\ ~x.error
<1> DEFINE n == Cardinality(S)
           f == CHOOSE g : Turns(g, S)
<1>1. Turns(f, S)
  BY TurnsExist, Zenon
<1>2. HalfSplits(S) = {[y EXCEPT !.rest = y.rest \ Orphans(y), !.orphan = Orphans(y)] :
                         y \in f[n]}
  BY Zenon DEF HalfSplits, Turns, HalfTurn, Whole
<1> HIDE DEF f
<1>3. n \in Nat /\ \A R \in SUBSET S : IsFiniteSet(R) /\ Cardinality(R) \in Nat
  BY ElementAssumption, FS_Subset, FS_CardinalityType
<1>4. PICK y \in f[n] : x = [y EXCEPT !.rest = y.rest \ Orphans(y), !.orphan = Orphans(y)]
  BY <1>2
<1>5. y \in Halving(S) /\ Halfway(S, y, n)
  BY <1>1, <1>3, TurnsHalve
<1>6. Orphans(y) \subseteq y.rest
  BY DEF Orphans, Deletes
<1>7. /\ x.rest = y.rest \ Orphans(y) /\ x.orphan = Orphans(y)
      /\ x.split = y.split /\ x.avail = y.avail /\ x.fails = {} /\ x.adds = {} /\ ~x.error
      /\ x \in SplitOutcome
  BY <1>4, <1>5, <1>6 DEF Halving, SplitOutcome
<1>8. y.split = {} => y.rest = {}
  <2> SUFFICES ASSUME y.split = {}, y.rest # {} PROVE FALSE
    OBVIOUS
  <2>1. Cardinality(y.split) = 0
    BY FS_EmptySet
  <2>2. y.rest \in SUBSET S /\ S # {}
    BY <1>5 DEF Halving
  <2>3. Cardinality(y.rest) \in Nat /\ Cardinality(y.rest) # 0 /\ n # 0
    BY <1>3, <2>2, FS_EmptySet
  <2>4. n >= 2
    BY <1>3, <2>3
  <2>5. n \div 2 >= 1
    BY <1>3, <2>4
  <2> HIDE DEF n
  <2>6. Cardinality(y.split) >= n \div 2 \/ Cardinality(y.rest) + n <= n
    BY <1>5 DEF Halfway, n
  <2> QED
    BY <1>3, <2>1, <2>3, <2>5, <2>6
<1> HIDE DEF n
<1> QED
  BY <1>5, <1>6, <1>7, <1>8 DEF Halving, SplitsSoundly, Apart

-----------------------------------------------------------------------------
(* Splitting where the API's answer says.                                  *)

\* The elements that are moved along with e.
LEMMA MovesAlong ==
  ASSUME NEW S, NEW e
  PROVE  e \in Moved(S, e) /\ Moved(S, e) \subseteq S \cup {e}
<1>1. \A w : w \in MovedWay(S, w) /\ MovedWay(S, w) \subseteq S \cup {w}
  BY DEF MovedWay
<1> QED
  BY <1>1 DEF Moved

\* The elements that fail along with e.
LEMMA FailsAlong ==
  ASSUME NEW st, NEW S, NEW e
  PROVE  /\ e \in FailingWay(st, S, e) /\ FailingWay(st, S, e) \subseteq S \cup {e}
         /\ e \in Failing(st, S, e) /\ Failing(st, S, e) \subseteq S \cup {e}
<1>1. \A w : w \in FailingWay(st, S, w) /\ FailingWay(st, S, w) \subseteq S \cup {w}
  BY DEF FailingWay
<1> QED
  BY <1>1 DEF Failing

\* Taking some elements of S out of it splits it soundly.
LEMMA TakeOutIsSound ==
  ASSUME NEW S \in SUBSET Element, NEW E \in SUBSET S, E # {}, NEW b \in BOOLEAN, NEW free
  PROVE  SplitsSoundly(TakeOut(S, E, b), S, free)
<1> DEFINE x == TakeOut(S, E, b)
<1>1. /\ x.rest = S \ E /\ x.split = E /\ x.avail = {} /\ x.orphan = {} /\ x.fails = {}
      /\ x.adds = {} /\ x \in SplitOutcome
  BY DEF TakeOut, SplitOutcome
<1> HIDE DEF x
<1>2. SplitsSoundly(x, S, free)
  BY <1>1 DEF SplitsSoundly, Apart
<1> QED
  BY <1>2 DEF x

\* What is gathered with e: elements of S, which leave the rest, and Available ones,
\* which are marked.
Gathering(st, S, e) ==
    {y \in [rest : SUBSET S, x : Works] :
       /\ e \in y.x.info
       /\ S \subseteq y.rest \cup y.x.info
       /\ \A d \in Element :
            \/ y.x.status[d] = st[d] /\ (d \in y.x.info => d \in S)
            \/ st[d] = "Available" /\ y.x.status[d] = "Buffering" /\ d \in y.x.info
       /\ Apart(S, AvailableIn(st)) => y.rest \cap y.x.info \subseteq {e}}

LEMMA GatherOne ==
  ASSUME NEW st \in Statuses, NEW S \in SUBSET Element, NEW e \in S,
         NEW y \in Gathering(st, S, e), NEW u \in Element, NEW users
  PROVE  Gather(y, u, users) \in Gathering(st, S, e)
<1>1. /\ y \in [rest : SUBSET S, x : Works] /\ y.rest \subseteq S /\ y.x \in Works
      /\ y.x = [status |-> y.x.status, info |-> y.x.info]
      /\ y = [rest |-> y.rest, x |-> y.x]
  BY DEF Gathering, Works
<1>2. CASE u \notin users \/ Change[u] = "create"
  BY <1>2 DEF Gather
<1>3. CASE ~(u \notin users \/ Change[u] = "create") /\ u \in y.rest
  <2> DEFINE moved == Moved(y.rest, u)
             z == [rest |-> y.rest \ moved, x |-> [status |-> y.x.status, info |-> y.x.info \cup moved]]
  <2>1. moved \subseteq y.rest
    BY <1>3, MovesAlong
  <2>2. Gather(y, u, users) = z
    BY <1>1, <1>3 DEF Gather
  <2> HIDE DEF moved
  <2>3. /\ z.rest = y.rest \ moved /\ z.x.status = y.x.status /\ z.x.info = y.x.info \cup moved
        /\ z \in [rest : SUBSET S, x : Works]
    BY <1>1, <2>1 DEF Works
  <2> HIDE DEF z
  <2>4. z \in Gathering(st, S, e)
    BY <1>1, <2>1, <2>3 DEF Gathering, Apart
  <2> QED
    BY <2>2, <2>4
<1>4. CASE ~(u \notin users \/ Change[u] = "create") /\ u \notin y.rest
  <2> DEFINE x == Add(y.x, u)
             z == [rest |-> y.rest, x |-> x]
  <2>1. Takes(y.x, x)
    BY <1>1, AddTakes
  <2>2. Gather(y, u, users) = z
    BY <1>1, <1>4 DEF Gather
  <2> HIDE DEF x
  <2>3. z.rest = y.rest /\ z.x = x /\ z \in [rest : SUBSET S, x : Works]
    BY <1>1, <2>1 DEF Takes
  <2> HIDE DEF z
  <2>4. \A d \in Element :
          \/ x.status[d] = st[d] /\ (d \in x.info => d \in S)
          \/ st[d] = "Available" /\ x.status[d] = "Buffering" /\ d \in x.info
    BY <2>1 DEF Gathering, Takes
  <2>5. ASSUME Apart(S, AvailableIn(st)), NEW d \in y.rest \cap x.info PROVE d = e
    <3>1. d \in Element /\ st[d] # "Available"
      BY <1>1, <2>5 DEF Apart, AvailableIn
    <3>2. d \in y.x.info
      BY <2>1, <3>1 DEF Gathering, Takes
    <3> QED
      BY <2>5, <3>2 DEF Gathering
  <2>6. e \in x.info /\ S \subseteq y.rest \cup x.info
    BY <2>1 DEF Gathering, Takes
  <2>7. z \in Gathering(st, S, e)
    BY <2>3, <2>4, <2>5, <2>6 DEF Gathering
  <2> QED
    BY <2>2, <2>7
<1> QED
  BY <1>2, <1>3, <1>4

\* What every single gathering keeps, the gathering of all users keeps.
LEMMA GatherFold ==
  ASSUME NEW st, NEW S, NEW e, NEW users, NEW W,
         [rest |-> S, x |-> [status |-> st, info |-> {e}]] \in W,
         \A y \in W, u \in Element : Gather(y, u, users) \in W
  PROVE  Gathered(st, S, e, users) \in W
<1> DEFINE n == Len(IdOrder)
           base == [rest |-> S, x |-> [status |-> st, info |-> {e}]]
           step == [p \in W \X Element |-> Gather(p[1], p[2], users)]
           IsFold(g) == g = [s \in SUBSET (1..n) |->
                               IF s = {} THEN base
                               ELSE Gather(g[s \ {Max(s)}], IdOrder[Max(s)], users)]
           G == CHOOSE g : IsFold(g)
<1>1. n \in Nat /\ IdOrder \in [1..n -> Element] /\ DOMAIN IdOrder = 1..n
  BY ChangesetAssumption
<1>2. base \in W
  BY DEF Gathering, Works, Apart
<1>3. \A y \in W, u \in Element : Gather(y, u, users) \in W
  BY GatherOne
<1> HIDE DEF base
<1>4. step \in [W \X Element -> W] /\ \A y \in W, u \in Element : step[<<y, u>>] = Gather(y, u, users)
  BY <1>3
<1> HIDE DEF step
<1>5. PICK g : Folded(g, W, step, base, IdOrder, n)
  <2> HIDE DEF n
  <2>1. step \in [W \X Element -> W] /\ base \in W /\ n \in Nat /\ IdOrder \in [1..n -> Element]
    BY <1>1, <1>2, <1>4
  <2> QED
    BY <2>1, FoldExists
<1>6. ASSUME NEW s \in SUBSET (1..n)
      PROVE  g[s] = IF s = {} THEN base ELSE Gather(g[s \ {Max(s)}], IdOrder[Max(s)], users)
  <2>1. s # {} => IdOrder[Max(s)] \in Element
    BY <1>1, MaxWithin
  <2>2. g[s \ {Max(s)}] \in W
    BY <1>5 DEF Folded
  <2> QED
    BY <1>4, <1>5, <2>1, <2>2 DEF Folded
<1>7. IsFold(g)
  <2>1. g = [s \in SUBSET (1..n) |-> g[s]]
    BY <1>5 DEF Folded
  <2> QED
    BY <1>6, <2>1
<1>8. IsFold(G)
  BY <1>7
<1>9. Gathered(st, S, e, users) = G[1..n]
  BY <1>1 DEF Gathered, FoldLeft, MapThenFoldSet, base
<1> HIDE DEF G
<1>10. \A s \in SUBSET (1..n) :
         G[s] = IF s = {} THEN base ELSE Gather(G[s \ {Max(s)}], IdOrder[Max(s)], users)
  BY <1>8
<1> DEFINE T == {k \in Nat : k <= n => G[1..k] \in W}
<1>11. 0 \in T
  <2>1. 1..0 = {} /\ {} \in SUBSET (1..n)
    OBVIOUS
  <2> QED
    BY <1>2, <1>10, <2>1
<1>12. ASSUME NEW k \in Nat, k \in T PROVE k + 1 \in T
  <2> SUFFICES ASSUME k + 1 <= n PROVE G[1..k + 1] \in W
    OBVIOUS
  <2> DEFINE s == 1..k + 1
  <2>1. s \in SUBSET (1..n) /\ s # {} /\ Max(s) = k + 1 /\ s \ {k + 1} = 1..k
    BY <1>1, UpTo
  <2>2. G[1..k] \in W /\ IdOrder[k + 1] \in Element
    BY <1>1, <1>12
  <2> HIDE DEF s
  <2>3. G[s] = Gather(G[1..k], IdOrder[k + 1], users)
    BY <1>10, <2>1
  <2>4. G[s] \in W
    BY <1>3, <2>2, <2>3
  <2> QED
    BY <2>4 DEF s
<1> HIDE DEF T
<1>13. n \in T
  BY <1>1, <1>11, <1>12, Induction
<1>14. G[1..n] \in W
  BY <1>1, <1>13 DEF T
<1> HIDE DEF n
<1> QED
  BY <1>9, <1>14

\* An outcome of a split that a hint asks for: always typed, sound when nothing of S is
\* Available.
SoundHere(x, st, S) ==
    /\ x \in SplitOutcome
    /\ Apart(S, AvailableIn(st)) => SplitsSoundly(x, S, AvailableIn(st))

LEMMA StillUsedIsSound ==
  ASSUME NEW st \in Statuses, NEW S \in SUBSET Element, NEW e \in S, NEW users, NEW n
  PROVE  SoundHere(StillUsedSplit(st, S, e, users, n), st, S)
<1> DEFINE all == Gathered(st, S, e, users)
           rest == all.rest
           temp == all.x.info
           adds == {u \in Element : all.x.status[u] # st[u]}
           lost == Failing(st, rest, e)
           gone == TakeOut(rest, {e}, FALSE)
           out == [gone EXCEPT !.adds = adds]
           whole == [out EXCEPT !.split = temp]
           part == [out EXCEPT !.rest = out.rest \ lost, !.split = temp \ {e}, !.fails = lost]
<1>1. StillUsedSplit(st, S, e, users, n) =
        IF Cardinality(temp) = n + 1 THEN whole
        ELSE IF Cardinality(temp) = 1 THEN TakeOut(S, lost, TRUE)
        ELSE part
  BY Zenon DEF StillUsedSplit
<1>2. all \in Gathering(st, S, e)
  <2> DEFINE base == [rest |-> S, x |-> [status |-> st, info |-> {e}]]
             W == Gathering(st, S, e)
  <2>1. base \in W
    BY DEF Gathering, Works, Apart
  <2>2. \A y \in W, u \in Element : Gather(y, u, users) \in W
    BY GatherOne
  <2> HIDE DEF W
  <2>3. all \in W
    BY <2>1, <2>2, GatherFold
  <2> QED
    BY <2>3 DEF W
<1> HIDE DEF all
<1>3. /\ rest \subseteq S /\ temp \subseteq Element /\ e \in temp /\ S \subseteq rest \cup temp
      /\ temp \subseteq S \cup adds /\ adds \subseteq temp /\ adds \subseteq AvailableIn(st)
      /\ Apart(S, AvailableIn(st)) => rest \cap temp \subseteq {e}
  BY <1>2 DEF Gathering, Works, AvailableIn
<1>4. e \in lost /\ lost \subseteq rest \cup {e}
  BY FailsAlong
<1> HIDE DEF rest, temp, adds, lost
<1>5. /\ out.rest = rest \ {e} /\ out.split = {e} /\ out.avail = {} /\ out.orphan = {}
      /\ out.fails = {} /\ out.adds = adds /\ out \in SplitOutcome
  <2>1. /\ gone.rest = rest \ {e} /\ gone.split = {e} /\ gone.avail = {} /\ gone.orphan = {}
        /\ gone.fails = {} /\ gone \in SplitOutcome
    BY <1>3 DEF TakeOut, SplitOutcome
  <2> HIDE DEF gone
  <2> QED
    BY <1>3, <2>1 DEF SplitOutcome
<1> HIDE DEF out
<1>6. SoundHere(whole, st, S)
  <2>1. /\ whole.rest = rest \ {e} /\ whole.split = temp /\ whole.avail = {}
        /\ whole.orphan = {} /\ whole.fails = {} /\ whole.adds = adds /\ whole \in SplitOutcome
    BY <1>3, <1>5 DEF SplitOutcome
  <2> HIDE DEF whole
  <2> QED
    BY <1>3, <2>1 DEF SoundHere, SplitsSoundly, Apart
<1>7. SoundHere(TakeOut(S, lost, TRUE), st, S)
  <2>1. SplitsSoundly(TakeOut(S, lost, TRUE), S, AvailableIn(st))
    BY <1>3, <1>4, TakeOutIsSound
  <2> QED
    BY <2>1 DEF SoundHere, SplitsSoundly
<1>8. ASSUME Cardinality(temp) # 1 PROVE SoundHere(part, st, S)
  <2>1. /\ part.rest = (rest \ {e}) \ lost /\ part.split = temp \ {e} /\ part.avail = {}
        /\ part.orphan = {} /\ part.fails = lost /\ part.adds = adds /\ part \in SplitOutcome
    BY <1>3, <1>4, <1>5 DEF SplitOutcome
  <2> HIDE DEF part
  <2>2. temp # {e}
    BY <1>8, FS_Singleton
  <2>3. temp \ {e} # {}
    BY <1>3, <2>2
  <2> QED
    BY <1>3, <1>4, <2>1, <2>3 DEF SoundHere, SplitsSoundly, Apart
<1> HIDE DEF whole, part
<1> QED
  BY <1>1, <1>6, <1>7, <1>8

\* The writer may count on XmlChangeset for what it assumes of a split that the API's
\* answer asks for: every element is kept, moved or fails, in one place, and whatever is
\* added to it was Available.
THEOREM HintsAreSound ==
  ASSUME NEW st \in Statuses, NEW S \in SUBSET Element, NEW x \in HintSplits(st, S)
  PROVE  /\ x \in SplitOutcome
         /\ Apart(S, AvailableIn(st)) => SplitsSoundly(x, S, AvailableIn(st))
<1>1. ASSUME NEW E \in SUBSET S, E # {}, NEW b \in BOOLEAN, x = TakeOut(S, E, b)
      PROVE  SoundHere(x, st, S)
  BY <1>1, TakeOutIsSound DEF SoundHere, SplitsSoundly
<1>2. \A e \in S : /\ {e} \in SUBSET S /\ {e} # {}
                   /\ FailingWay(st, S, e) \in SUBSET S /\ FailingWay(st, S, e) # {}
                   /\ Failing(st, S, e) \in SUBSET S /\ Failing(st, S, e) # {}
  BY FailsAlong
<1>3. ASSUME NEW e \in S, x = PlaceholderSplit(st, S, e) PROVE SoundHere(x, st, S)
  BY <1>1, <1>2, <1>3 DEF PlaceholderSplit
<1>4. ASSUME NEW e \in S, x = RelationSplit(S, e) PROVE SoundHere(x, st, S)
  BY <1>1, <1>2, <1>4 DEF RelationSplit
<1>5. ASSUME NEW e \in S, x = MultiElementSplit(st, S, e) PROVE SoundHere(x, st, S)
  BY <1>1, <1>2, <1>5 DEF MultiElementSplit
<1>6. ASSUME NEW e \in S, NEW users, NEW n, x = StillUsedSplit(st, S, e, users, n)
      PROVE  SoundHere(x, st, S)
  BY <1>6, StillUsedIsSound
<1>7. \/ \E e \in S : x = PlaceholderSplit(st, S, e)
      \/ \E e \in S : x = RelationSplit(S, e)
      \/ \E e \in S : x = MultiElementSplit(st, S, e)
      \/ \E e \in S : \E users, n : x = StillUsedSplit(st, S, e, users, n)
  BY DEF HintSplits, Deletes
<1>8. SoundHere(x, st, S)
  BY <1>3, <1>4, <1>5, <1>6, <1>7
<1> QED
  BY <1>8 DEF SoundHere

\* A split adds elements only because they use one that is deleted: where none is used, no
\* split adds anything, as a plain upload demands.
THEOREM HintsAddNothing ==
  ASSUME \A e \in Deletes(Element) : UsedBy[e] = {},
         NEW st \in Statuses, NEW S \in SUBSET Element, NEW x \in HintSplits(st, S)
  PROVE  x.adds = {}
<1>1. \A E, b : TakeOut(S, E, b).adds = {}
  BY DEF TakeOut
<1>2. ASSUME NEW e PROVE /\ PlaceholderSplit(st, S, e).adds = {}
                         /\ RelationSplit(S, e).adds = {}
                         /\ MultiElementSplit(st, S, e).adds = {}
  BY <1>1 DEF PlaceholderSplit, RelationSplit, MultiElementSplit
<1>3. ASSUME NEW e \in Deletes(S) PROVE StillUsedSplit(st, S, e, {}, 1).adds = {}
  <2> DEFINE base == [rest |-> S, x |-> [status |-> st, info |-> {e}]]
             all == Gathered(st, S, e, {})
  <2>1. \A y \in {base}, u \in Element : Gather(y, u, {}) \in {base}
    BY DEF Gather
  <2> HIDE DEF base
  <2>2. base \in {base}
    OBVIOUS
  <2>3. all \in {base}
    BY <2>1, <2>2, GatherFold DEF base
  <2>4. all.x.info = {e}
    BY <2>3 DEF base
  <2>5. Cardinality(all.x.info) = 1
    BY <2>4, FS_Singleton
  <2> HIDE DEF all
  <2>6. StillUsedSplit(st, S, e, {}, 1) = TakeOut(S, Failing(st, all.rest, e), TRUE)
    <3>1. Cardinality(all.x.info) # 1 + 1
      BY <2>5
    <3> QED
      BY <2>5, <3>1 DEF StillUsedSplit, all
  <2> QED
    BY <1>1, <2>6
<1>4. \A e \in Deletes(S) : UsedBy[e] = {}
  BY DEF Deletes
<1>5. Cardinality({}) = 0
  BY FS_EmptySet
<1>6. \/ \E e : x = PlaceholderSplit(st, S, e) \/ x = RelationSplit(S, e) \/ x = MultiElementSplit(st, S, e)
      \/ \E e \in Deletes(S) : \E users \in SUBSET UsedBy[e] :
           \E n \in {Cardinality(users), Cardinality(users) + 1} \ {0} :
             x = StillUsedSplit(st, S, e, users, n)
  BY DEF HintSplits
<1>7. CASE \E e : x = PlaceholderSplit(st, S, e) \/ x = RelationSplit(S, e) \/ x = MultiElementSplit(st, S, e)
  BY <1>2, <1>7
<1>8. CASE \E e \in Deletes(S) : \E users \in SUBSET UsedBy[e] :
             \E n \in {Cardinality(users), Cardinality(users) + 1} \ {0} :
               x = StillUsedSplit(st, S, e, users, n)
  <2>1. PICK e \in Deletes(S) : \E users \in SUBSET UsedBy[e] :
               \E n \in {Cardinality(users), Cardinality(users) + 1} \ {0} :
                 x = StillUsedSplit(st, S, e, users, n)
    BY <1>8
  <2>2. PICK users \in SUBSET UsedBy[e] :
               \E n \in {Cardinality(users), Cardinality(users) + 1} \ {0} :
                 x = StillUsedSplit(st, S, e, users, n)
    BY <2>1
  <2>3. users = {} /\ {Cardinality(users), Cardinality(users) + 1} \ {0} = {1}
    BY <1>4, <1>5
  <2> QED
    BY <1>3, <2>2, <2>3
<1> QED
  BY <1>6, <1>7, <1>8

-----------------------------------------------------------------------------
(* The writer that takes its changesets from there.                        *)

Unbuffered == \A e \in Element : status[e] # "Buffering"

GaveUpAtEnd == gaveUp => ppc \in {"start", "join", "done"}

SInv == Base /\ Honest /\ Unbuffered /\ GaveUpAtEnd /\ SelfContained

\* In a plain upload nothing is left Buffering.
LEMMA UnbufferedStep ==
    ASSUME PlainUpload, Base, Unbuffered, [Next]_vars
    PROVE  Unbuffered'
  <1>1. \A S, s : s # "Buffering" => \A e \in Element : With(status, S, s)[e] # "Buffering"
    BY DEF With, Unbuffered
  <1>2. CASE Shuffles \/ Applies
    BY <1>2 DEF Shuffles, Applies, Unbuffered
  <1>3. CASE Sends \/ Finalizes \/ Fails \/ Abandons
    <2>1. \E S, s : status' = With(status, S, s) /\ s # "Buffering"
      BY <1>3 DEF Sends, Finalizes, Fails, Abandons, FailRemaining
    <2>2. QED BY <1>1, <2>1 DEF Unbuffered
  <1>4. CASE Divides
    <2>1. PICK V, F : status' = With(With(status, V, "Available"), F, "Failed")
      BY <1>4 DEF Divides
    <2>2. QED BY <1>1, <2>1 DEF With, Unbuffered
  <1>5. QED BY <1>2, <1>3, <1>4, Shapes DEF ElementStep

\* The threads leave what belongs to the thread in apply() alone.
LEMMA ProducerAlone ==
    ASSUME NEW w \in Worker, Thread(w)
    PROVE  UNCHANGED producerVars
  <1>1. CASE Reply(w)
    BY <1>1 DEF Reply, Accept, RetryClosed, FixVersion, QuitVersion, PushSplit, FailSplit,
       PushUnsplit, DropUnsplit, FailUnsplit, FinalizeGone, RetryOther, FailOther,
       RetryUnavailable, FailThenPush, FailThenDrop, FailThenQuit
  <1>2. CASE ~Reply(w)
    BY <1>2 DEF Thread, BeginLoop, SeeDone, TakeWork, FindNoWork, BeginWork, CreateChangeset,
       FailToCreate, DropEmpty, Upload, StopWhenTold, PushCleanup, FindIdle, GoIdle,
       Exit
  <1>3. QED BY <1>1, <1>2

\* apply() does not send any more when it has given up, and has something to push
\* only when it has just calculated it.
LEMMA ProducerPlaces ==
    ASSUME [Next]_vars, GaveUpAtEnd
    PROVE  /\ GaveUpAtEnd'
           /\ ppc' = "push" => CalculateWork \/ (ppc = "push" /\ pwork' = pwork)
  <1>1. CASE UNCHANGED producerVars
    BY <1>1 DEF producerVars, GaveUpAtEnd
  <1>2. CASE Producer
    <2>1. CASE CalculateWork
      BY <2>1 DEF CalculateWork, GaveUpAtEnd
    <2>2. CASE PushWork \/ GiveUp \/ StartWork \/ JoinThreads
      BY <2>2 DEF PushWork, GiveUp, StartWork, JoinThreads, GaveUpAtEnd
    <2>3. CASE \/ PollFinished \/ PollFailed \/ PollRoom \/ PollFull
               \/ KeepWaiting \/ DecideToGiveUp
      BY <2>3 DEF PollFinished, PollFailed, PollRoom, PollFull, KeepWaiting, DecideToGiveUp,
         producerVars, GaveUpAtEnd
    <2>4. QED BY <1>2, <2>1, <2>2, <2>3 DEF Producer
  <1>3. UNCHANGED vars => UNCHANGED producerVars
    BY DEF vars, producerVars
  <1>4. QED BY <1>1, <1>2, <1>3, ProducerAlone DEF Next, Finished

\* A changeset that has just been calculated is in order.
LEMMA CalculateInOrder ==
    ASSUME Composed, DeletesApart, Base, Unbuffered, CalculateWork
    PROVE  SelfContained'
  <1> DEFINE info == Calculate(status, Unsent)
  <1>1. status \in Statuses /\ sentCount \in Nat /\ sendBuffer = {}
    BY DEF Base, IInv, TypeOK
  <1>2. Unsent \in 0..Total /\ info \subseteq AvailableIn(status)
    BY <1>1, UnsentType, CalculateType
  <1>3. info = CalculateChangeset(status, Unsent)
    BY <1>1, <1>2 DEF Composed
  <1>4. pwork' = info /\ status' = With(status, info \cup sendBuffer, "Sent")
    BY DEF CalculateWork
  <1> HIDE DEF info
  <1>5. \A e \in info : Follows(status, info, e)
    BY <1>1, <1>3, CalculatedInOrder DEF Orderly, Unbuffered
  <1>6. \A d \in Element : status[d] = "Finalized" => status'[d] = "Finalized"
    BY <1>1, <1>2, <1>4 DEF With, AvailableIn
  <1>7. \A e \in info : Before(e) \subseteq Element
    <2>1. info \subseteq Element
      BY <1>2 DEF AvailableIn
    <2>2. \A e \in Element : WaysOf(e) \cup RelationsOf(e) \subseteq Element
      BY Elements
    <2>3. \A r \in Relation : ToSet(Members[r]) \subseteq Element
      BY Elements DEF ToSet
    <2>4. QED BY <2>1, <2>2, <2>3, Elements DEF Before
  <1>8. QED BY <1>4, <1>5, <1>6, <1>7 DEF SelfContained, Follows

LEMMA SelfContainedStep ==
    ASSUME PlainUpload, Composed, DeletesApart, SInv, [Next]_vars
    PROVE  SInv'
  <1>1. Base' /\ Honest' /\ Unbuffered' /\ GaveUpAtEnd'
    BY BaseStep, HonestStep, UnbufferedStep, ProducerPlaces DEF SInv
  <1>2. CASE CalculateWork
    BY <1>1, <1>2, CalculateInOrder DEF SInv
  <1>3. CASE ppc = "push" /\ pwork' = pwork
    <2>1. ~gaveUp
      BY <1>3 DEF SInv, GaveUpAtEnd
    <2>2. FinalIn(status) \subseteq FinalIn(status')
      BY <2>1, FinalStays DEF SInv
    <2>3. \A e \in pwork : \A d \in Before(e) : d \in pwork \/ status[d] = "Finalized"
      BY <1>3 DEF SInv, SelfContained
    <2>4. \A e \in pwork : Before(e) \subseteq Element
      <3>1. pwork \subseteq Element
        BY DEF SInv, Base, IInv, TypeOK
      <3>2. \A r \in Relation : ToSet(Members[r]) \subseteq Element
        BY Elements DEF ToSet
      <3>3. QED BY <3>1, <3>2, Elements DEF Before
    <2>5. SelfContained'
      BY <1>3, <2>2, <2>3, <2>4 DEF SelfContained, FinalIn
    <2>6. QED BY <1>1, <2>5 DEF SInv
  <1>4. CASE ppc' # "push"
    BY <1>1, <1>4 DEF SInv, SelfContained
  <1>5. QED BY <1>2, <1>3, <1>4, ProducerPlaces DEF SInv

\* In a plain upload in which what refers to a deleted element is deleted and free to
\* go, a new changeset is never queued before all that its elements must come after is
\* final or in it, whatever the threads have done with the others since it was calculated.
THEOREM ChangesetsAreSelfContained ==
    ASSUME PlainUpload, Composed, DeletesApart
    PROVE  Spec => []SelfContained
  <1>1. Init => SInv
    <2>1. Init => Unbuffered /\ GaveUpAtEnd /\ SelfContained
      BY DEF Init, Unbuffered, GaveUpAtEnd, SelfContained
    <2>2. QED BY <2>1, BaseInit, HonestInit DEF SInv
  <1>2. SInv /\ [Next]_vars => SInv'
    BY SelfContainedStep
  <1>3. SInv => SelfContained
    BY DEF SInv
  <1>4. QED BY <1>1, <1>2, <1>3, PTL DEF Spec
=============================================================================
