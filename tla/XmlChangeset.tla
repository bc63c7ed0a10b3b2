---------------------------- MODULE XmlChangeset ----------------------------
(***************************************************************************)
(* The decisions XmlChangeset makes (OsmApiChangeset.cpp): which elements  *)
(* the next changeset holds, how a refused changeset is taken apart, and   *)
(* what fails together with an element.  Each is a pure operator of the    *)
(* elements' states: the code runs them under _changesetMutex, and         *)
(* OsmApiWriter.tla holds the state they read and change.                  *)
(*                                                                         *)
(* A changeset (ChangesetInfo) is the set of its elements.  Relations that *)
(* are members of relations are left out: Members holds nodes and ways.    *)
(***************************************************************************)
EXTENDS ChangesetElement, SequencesExt

CONSTANTS
    Node, Way, Relation,   \* the three kinds of element
    Change,                \* element -> "create", "modify" or "delete"
    WayNodes,              \* way -> the nodes of it that are in the changeset
    Members,               \* relation -> the sequence of its members here
    UsedBy,                \* element -> the ways and relations of the changeset
                           \* that refer to it on the server beforehand
    IdOrder,               \* every element, in the order of its map of ids
    PushLimit,             \* _maxPushSize
    ChangesetLimit         \* _maxChangesetSize

ASSUME ChangesetAssumption ==
    /\ Node \cup Way \cup Relation = Element
    /\ Node \cap Way = {} /\ Node \cap Relation = {} /\ Way \cap Relation = {}
    /\ Change \in [Element -> {"create", "modify", "delete"}]
    /\ WayNodes \in [Way -> SUBSET Node]
    /\ Members \in [Relation -> Seq(Node \cup Way)]
    /\ UsedBy \in [Element -> SUBSET (Way \cup Relation)]
    /\ IdOrder \in Seq(Element) /\ ToSet(IdOrder) = Element /\ Len(IdOrder) = Total
    /\ PushLimit \in Nat \ {0} /\ ChangesetLimit \in Nat \ {0}

\* Left out (AddMember): a modified relation that still uses, on the server,
\* something deleted and that also has a new member.
ASSUME FilingAssumption ==
    \A e \in Element, r \in Relation :
      Change[e] = "delete" /\ Change[r] = "modify" /\ r \in UsedBy[e] =>
        \A m \in ToSet(Members[r]) : Change[m] # "create"

-----------------------------------------------------------------------------
(* The reverse indexes: _nodeIdsToWays, _nodeIdsToRelations and            *)
(* _wayIdsToRelations.                                                     *)

WaysOf(n) == {w \in Way : n \in WayNodes[w]}

RelationsOf(e) == {r \in Relation : e \in ToSet(Members[r])}

Deletes(S) == {e \in S : Change[e] = "delete"}

-----------------------------------------------------------------------------
(* What can be sent.                                                       *)

\* A fault: a created element that the API has not named yet counts as sent.
IsSentUnnamed(st, e) == st[e] \in {"Buffering", "Sent", "Finalized"}

\* A created element counts as sent only while it is being buffered with the
\* others and once the API has named it: its id is negative until then.
IsSent(st, e) ==
    \/ st[e] \in {"Buffering", "Finalized"}
    \/ st[e] = "Sent" /\ Change[e] # "create"

CanSendNode(st, n) == st[n] = "Available"

CanSendWay(st, w) ==
    /\ st[w] = "Available"
    /\ \A n \in WayNodes[w] : IsSent(st, n) \/ CanSendNode(st, n)

CanSendRelation(st, r) ==
    /\ st[r] = "Available"
    /\ \A m \in ToSet(Members[r]) :
         \/ IsSent(st, m)
         \/ m \in Node /\ CanSendNode(st, m)
         \/ m \in Way /\ CanSendWay(st, m)

CanSend(st, e) ==
    \/ e \in Node /\ CanSendNode(st, e)
    \/ e \in Way /\ CanSendWay(st, e)
    \/ e \in Relation /\ CanSendRelation(st, e)

\* getObjectCount with countSent false counts what is still Available, but the
\* nodes of a way are counted whatever their state (the flag is not passed on).
Hydrated(st, e) ==
    {e} \cup IF e \in Way THEN WayNodes[e]
             ELSE {n \in ToSet(Members[e]) \cap Node : st[n] = "Available"}
                  \cup UNION {{w} \cup WayNodes[w] :
                                w \in {v \in ToSet(Members[e]) \cap Way :
                                         st[v] = "Available"}}

-----------------------------------------------------------------------------
(* Building a changeset.  x is the work in progress: the states and the    *)
(* elements taken so far.                                                  *)

\* ChangesetInfo::add and markBuffered.
Buffer(x, E) ==
    [status |-> [e \in Element |-> IF e \in E THEN "Buffering" ELSE x.status[e]],
     info   |-> x.info \cup E]

Fits(x, e) == Cardinality(Hydrated(x.status, e)) + Cardinality(x.info) <= ChangesetLimit

\* The parents that still have to give up a child before it can be deleted.
PendingParents(x, P) ==
    {p \in P : /\ Change[p] # "create"
               /\ p \notin x.info
               /\ x.status[p] # "Finalized"}

\* addParentWays and addParentRelations take the parents that can be sent; the
\* verdict is whether none was left behind.
AddParents(x, P) ==
    Buffer(x, {p \in PendingParents(x, P) : CanSend(x.status, p)})

ParentsSendable(x, P) == \A p \in PendingParents(x, P) : CanSend(x.status, p)

\* A node is deleted after its parents.  The verdict of the ways replaces the
\* verdict of the relations.
AddNode(x, n) ==
    IF ~CanSendNode(x.status, n) THEN x
    ELSE IF Change[n] # "delete" THEN Buffer(x, {n})
    ELSE LET y == AddParents(x, RelationsOf(n))
             z == AddParents(y, WaysOf(n))
             sendable == IF WaysOf(n) # {} THEN ParentsSendable(y, WaysOf(n))
                         ELSE ParentsSendable(x, RelationsOf(n))
         IN  IF sendable THEN Buffer(z, {n}) ELSE z

AddWay(x, w) ==
    IF ~(CanSendWay(x.status, w) /\ Fits(x, w)) THEN x
    ELSE IF Change[w] # "delete"
         THEN Buffer(x, {w} \cup {n \in WayNodes[w] : /\ Change[n] = "create"
                                                      /\ CanSendNode(x.status, n)})
         ELSE LET y == AddParents(x, RelationsOf(w))
              IN  IF ParentsSendable(x, RelationsOf(w)) THEN Buffer(y, {w}) ELSE y

\* A created member.  The code files it under the change of the relation; here
\* it is filed with the creates.  The two differ for a modified relation: its
\* member would be taken but never written.  While a changeset is calculated no
\* such member is left when the modified relations come (ModifiedTakeNoMember in
\* ChangesetUpload_proofs); a split might add one, hence FilingAssumption.
AddMember(x, m) ==
    IF Change[m] # "create" THEN x
    ELSE IF m \in Node THEN AddNode(x, m)
    ELSE AddWay(x, m)

AddRelation(x, r) ==
    IF ~(CanSendRelation(x.status, r) /\ Fits(x, r)) THEN x
    ELSE IF Change[r] = "delete" THEN Buffer(x, {r})
    ELSE Buffer(FoldLeft(AddMember, x, Members[r]), {r})

Add(x, e) ==
    IF e \in Node THEN AddNode(x, e)
    ELSE IF e \in Way THEN AddWay(x, e)
    ELSE AddRelation(x, e)

HasRoom(x) == Cardinality(x.info) < PushLimit

\* addNodes, addWays and addRelations: the elements of one kind and change, in
\* the order of their ids, until the changeset is full.
AddAll(x, kind, change) ==
    FoldLeft(LAMBDA y, e : IF e \in kind /\ Change[e] = change /\ HasRoom(y) THEN Add(y, e) ELSE y,
             x, IdOrder)

\* One round of calculateChangeset.  unsent is how many elements
\* hasElementsToSend still missed when the calculation began.
Pass(x, change, unsent) ==
    IF ~(HasRoom(x) /\ unsent > Cardinality(x.info)) THEN x
    ELSE IF change = "delete"
         THEN AddAll(AddAll(AddAll(x, Relation, change), Way, change), Node, change)
         ELSE AddAll(AddAll(AddAll(x, Way, change), Node, change), Relation, change)

CalculateChangeset(st, unsent) ==
    FoldLeft(LAMBDA x, change : Pass(x, change, unsent),
             [status |-> st, info |-> {}],
             <<"create", "modify", "delete">>).info

-----------------------------------------------------------------------------
(* Splitting a changeset.  x is a split in progress: rest is what stays in *)
(* the changeset, split what has been moved out, avail what was removed    *)
(* and made Available again.                                               *)

\* The elements of S that moving e takes along (moveNode, moveWay,
\* moveRelation).  A deleted element moves alone.
MovedWay(S, w) == {w} \cup IF Change[w] = "delete" THEN {} ELSE WayNodes[w] \cap S

Moved(S, e) ==
    IF e \in Node \/ Change[e] = "delete" THEN {e}
    ELSE IF e \in Way THEN MovedWay(S, e)
    ELSE {e} \cup (ToSet(Members[e]) \cap Node \cap S)
             \cup UNION {MovedWay(S, w) : w \in ToSet(Members[e]) \cap Way \cap S}

\* With failing set, deletes take their members along too, and a created node
\* that another way has stays behind.  As it is written, that is so unless w
\* itself, and not the other way, has failed already.
FailingWay(st, S, w) ==
    {w} \cup {n \in WayNodes[w] \cap S :
                 Change[n] = "create" => WaysOf(n) = {w} \/ st[w] = "Failed"}

Failing(st, S, e) ==
    IF e \in Node THEN {e}
    ELSE IF e \in Way THEN FailingWay(st, S, e)
    ELSE {e} \cup (ToSet(Members[e]) \cap Node \cap S)
             \cup UNION {FailingWay(st, S, w) : w \in ToSet(Members[e]) \cap Way \cap S}

\* getObjectCount over the source: what of e's "change" is in S.
CountedIn(S, e) ==
    IF e \in Way THEN {e} \cup (WayNodes[e] \cap S)
    ELSE {e} \cup (ToSet(Members[e]) \cap Node \cap S)
             \cup UNION {{w} \cup (WayNodes[w] \cap S) :
                           w \in ToSet(Members[e]) \cap Way \cap S}

\* Taking e out would not take everything.
LeavesSome(S, e) == Cardinality(S) # Cardinality(CountedIn(S, e))

CanMoveNode(S, D, n) ==
    /\ Change[n] = "delete" => RelationsOf(n) \cup WaysOf(n) \subseteq D
    /\ Cardinality(S) # 1

\* As it is written: the id of a deleted way's parent relation is looked up among
\* the ways of the split.  Ids of two kinds do not collide here: it is not there.
CanMoveWay(S, w) ==
    IF Change[w] = "delete" THEN RelationsOf(w) = {} /\ Cardinality(S) # 1
    ELSE LeavesSome(S, w)

\* As it is written: a deleted relation can move only when it is alone.
CanMoveRelation(S, r) ==
    IF Change[r] = "delete" THEN Cardinality(S) = 1 ELSE LeavesSome(S, r)

CanMove(S, D, e) ==
    \/ e \in Node /\ CanMoveNode(S, D, e)
    \/ e \in Way /\ CanMoveWay(S, e)
    \/ e \in Relation /\ CanMoveRelation(S, e)

\* Relations leave first, then ways, then nodes; creates, modifies, deletes.
\* Within one such class getFirst takes an arbitrary one (an unordered_set).
Rank(e) ==
    (IF e \in Relation THEN 0 ELSE IF e \in Way THEN 3 ELSE 6)
  + (IF Change[e] = "create" THEN 0 ELSE IF Change[e] = "modify" THEN 1 ELSE 2)

First(S) == {e \in S : \A d \in S : Rank(e) <= Rank(d)}

\* moveOrRemoveNode, moveOrRemoveWay, moveOrRemoveRelation.
MoveOrRemove(x, e) ==
    IF CanMove(x.rest, x.split, e)
    THEN [x EXCEPT !.rest = @ \ Moved(@, e), !.split = @ \cup Moved(x.rest, e)]
    ELSE [x EXCEPT !.rest = @ \ {e}, !.avail = @ \cup {e}]

\* fixOrphanedNodesSplit: a deleted node is set aside for the final cleanup
\* when a parent of it has moved to the split.
Orphans(x) == {n \in Deletes(x.rest) \cap Node :
                 (RelationsOf(n) \cup WaysOf(n)) \cap x.split # {}}

\* Every way of splitting S roughly in half.
HalfSplits(S) ==
    LET half == Cardinality(S) \div 2
        step(x) == IF x.rest = {} \/ Cardinality(x.split) >= half THEN {x}
                   ELSE {MoveOrRemove(x, e) : e \in First(x.rest)}
        after[k \in 0..Cardinality(S)] ==
          IF k = 0
          THEN {[rest |-> S, split |-> {}, avail |-> {}, orphan |-> {},
                 fails |-> {}, adds |-> {}, error |-> FALSE]}
          ELSE UNION {step(x) : x \in after[k - 1]}
    IN  {[x EXCEPT !.rest = @ \ Orphans(x), !.orphan = Orphans(x)] :
           x \in after[Cardinality(S)]}

-----------------------------------------------------------------------------
(* Splits that follow a hint in the API's answer (the fix...Failure        *)
(* functions).  An outcome with error set holds elements that now fail.    *)

TakeOut(S, E, error) ==
    [rest |-> S \ E, split |-> E, avail |-> {}, orphan |-> {},
     fails |-> {}, adds |-> {}, error |-> error]

\* fixPlaceholderFailure: a reference of e was not found.
PlaceholderSplit(st, S, e) ==
    TakeOut(S, IF e \in Way /\ Change[e] = "create" THEN FailingWay(st, S, e) ELSE {e}, TRUE)

\* fixRelationFailure: e cannot be saved because of a member.
RelationSplit(S, e) == TakeOut(S, {e}, FALSE)

\* fixMultiElementFailure: e requires elements that are not there.
MultiElementSplit(st, S, e) ==
    IF e \in Way /\ Change[e] = "modify" THEN TakeOut(S, {e}, FALSE)
    ELSE IF e \in Way \/ Change[e] = "delete" THEN TakeOut(S, Failing(st, S, e), TRUE)
    ELSE TakeOut(S, {e}, TRUE)

\* A user of an element that cannot be deleted: if it is here, it moves with the
\* element; if it can be sent, it is added.
Gather(y, u, users) ==
    IF u \notin users \/ Change[u] = "create" THEN y
    ELSE IF u \in y.rest
         THEN [y EXCEPT !.rest = @ \ Moved(@, u), !.x.info = @ \cup Moved(y.rest, u)]
         ELSE [y EXCEPT !.x = Add(@, u)]

Gathered(st, S, e, users) ==
    FoldLeft(LAMBDA y, u : Gather(y, u, users),
             [rest |-> S, x |-> [status |-> st, info |-> {e}]], IdOrder)

\* fixChangesetDeletePreconditionFailure: e cannot be deleted while the elements
\* of users, n of them with those this changeset does not know, refer to it.
StillUsedSplit(st, S, e, users, n) ==
    LET all  == Gathered(st, S, e, users)
        temp == all.x.info
        out  == [TakeOut(all.rest, {e}, FALSE) EXCEPT
                   !.adds = {u \in Element : all.x.status[u] # st[u]}]
        lost == Failing(st, all.rest, e)
    IN  IF Cardinality(temp) = n + 1 THEN [out EXCEPT !.split = temp]
        ELSE IF Cardinality(temp) = 1 THEN TakeOut(S, lost, TRUE)
        ELSE [out EXCEPT !.rest = @ \ lost, !.split = temp \ {e}, !.fails = lost]

HintSplits(st, S) ==
    {PlaceholderSplit(st, S, e) : e \in S \ Node}
    \cup {RelationSplit(S, e) : e \in S \cap Relation}
    \cup {MultiElementSplit(st, S, e) : e \in S \ Node}
    \cup UNION {UNION {{StillUsedSplit(st, S, e, users, n) :
                          n \in {Cardinality(users), Cardinality(users) + 1} \ {0}} :
                         users \in (SUBSET (UsedBy[e] \cap Way))
                                     \cup SUBSET (UsedBy[e] \cap Relation)} :
                  e \in Deletes(S)}

-----------------------------------------------------------------------------
(* What fails with the elements of F (failNode, failWay, failRelation):    *)
(* when a create fails, so do its parents.  Nothing fails twice.           *)

FailsWith(st, F) ==
    LET failed  == FailedIn(st)
        created(E) == {e \in E : Change[e] = "create"}
        given   == F \ failed
        ways    == (UNION {WaysOf(n) : n \in created(given \cap Node)}) \ failed
        parents == UNION {RelationsOf(e) : e \in created((given \cup ways) \ Relation)}
    IN  given \cup ways \cup (parents \ failed)

\* What the API wants to find, on the server or in the same changeset, before
\* it accepts e: the created elements a create or modify refers to and, for a
\* delete, the new versions of the elements that still use it.
Needs(e) ==
    IF Change[e] = "delete" THEN UsedBy[e]
    ELSE IF e \in Node THEN {}
    ELSE {m \in IF e \in Way THEN WayNodes[e] ELSE ToSet(Members[e]) :
            Change[m] = "create"}
=============================================================================
