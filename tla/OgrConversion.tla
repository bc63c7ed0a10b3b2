--------------------------- MODULE OgrConversion ---------------------------
(***************************************************************************)
(* hoot::DataConverter writing to an OGR format, in its two streaming      *)
(* ways.  One by one: ElementStreamer hands each element that it reads to  *)
(* OgrWriter, which caches it, converts it and writes it.  Multithreaded:  *)
(* all elements are read, queued and cached; then one thread translates    *)
(* them into features while another writes the features.                   *)
(*                                                                         *)
(* A definition marked "a fault" is not part of the model: it is a version *)
(* of the definition below it with a mistake that a property must notice.  *)
(***************************************************************************)
EXTENDS ElementCacheLRU

CONSTANTS
    Node, Way, Relation,
    WayNodes,   \* of each way: its nodes
    Members,    \* of each relation: its members; ways have the role of a ring
    Shape,      \* of each relation: its geometry, an "area", a "line" or "none"
    Tagged,     \* the elements that have tags worth writing
    Inputs,     \* what may be read, in the order in which it is read
    Limits      \* the cache sizes there may be

Element == Node \cup Way \cup Relation
Kind == {"node", "way", "relation"}

ASSUME ConversionAssumption ==
    /\ IsFiniteSet(Element)
    /\ Node \cap Way = {} /\ Node \cap Relation = {} /\ Way \cap Relation = {}
    /\ WayNodes \in [Way -> Seq(Node)]
    /\ Members \in [Relation -> Seq(Element)]
    /\ Shape \in [Relation -> {"area", "line", "none"}]
    /\ Tagged \subseteq Element
    /\ Inputs \subseteq Seq(Element)
    /\ Limits \subseteq [Kind -> Nat \ {0}]

VARIABLES
    mode,      \* "streaming" or "multithreaded" (_translateMultithreaded)
    limits,    \* the sizes of the cache
    input,     \* all that is there to be read
    read,      \* how much of it has been read
    cache,     \* the ElementCacheLRU
    elementQ,  \* elements that wait to be translated
    featuresQ, \* transFeaturesQ: features that wait to be written
    finished,  \* finishedTranslating
    mpc,       \* where the caller is
    tpc,       \* where the ElementTranslatorThread is
    wpc,       \* where the OgrWriterThread is
    feature,   \* the feature the writer thread has taken, or NoFeature
    putOff,    \* _unwrittenFirstPassRelationIds, as positions in the input
    written    \* the features in the output

inputVars == <<mode, limits, input>>
threadVars == <<elementQ, featuresQ, finished, tpc, wpc, feature>>
vars == <<inputVars, read, cache, threadVars, mpc, putOff, written>>

KindOf(e) == CASE e \in Node -> "node" [] e \in Way -> "way" [] e \in Relation -> "relation"
Feature == [of : Element, whole : BOOLEAN]
NoFeature == [of |-> "none", whole |-> TRUE]

Ends == {"done", "threw", "aborted"}

TypeOK ==
    /\ mode \in {"streaming", "multithreaded"}
    /\ limits \in Limits /\ input \in Inputs
    /\ read \in 0..Len(input)
    /\ cache \in [Kind -> [held : SUBSET Element, order : Seq(Element)]]
    /\ \A k \in Kind : cache[k].held \subseteq ToSet(cache[k].order)
    /\ elementQ \in Seq(Element) /\ featuresQ \in Seq(Feature)
    /\ finished \in BOOLEAN
    /\ mpc \in {"read", "wait"} \cup Ends
    /\ tpc \in {"unborn", "init", "translate", "finished", "ended"}
    /\ wpc \in {"unborn", "init", "take", "write", "sleep", "last", "closed"}
    /\ feature \in Feature \cup {NoFeature}
    /\ putOff \subseteq 1..read
    /\ written \in Seq(Feature)

Init ==
    /\ mode \in {"streaming", "multithreaded"}
    /\ limits \in Limits
    /\ input \in Inputs
    /\ read = 0
    /\ cache = [k \in Kind |-> Empty]
    /\ elementQ = <<>> /\ featuresQ = <<>>
    /\ finished = FALSE
    /\ mpc = "read" /\ tpc = "unborn" /\ wpc = "unborn"
    /\ feature = NoFeature
    /\ putOff = {} /\ written = <<>>

-----------------------------------------------------------------------------
(* The geometry of an element, from the cache. *)

Held(e) == ContainsElement(cache[KindOf(e)], e)
Of(r, S) == ToSet(Members[r]) \cap S

\* S has r, and with a relation its members that are held and count for the geometry
\* of r: below an area only areas.
Closed(r, held, S) ==
    /\ r \in S
    /\ \A p \in S : \A c \in Of(p, held) : (Shape[r] = "area" => Shape[c] = "area") => c \in S

\* The relations whose members make up the geometry of r.
Below(r, held) ==
    {c \in {r} \cup held : \A S \in SUBSET ({r} \cup held) : Closed(r, held, S) => c \in S}

\* The elements that are looked for in the cache although they are not there.  Below a
\* line they are not looked for, only the nodes of its ways are; below an area all are.
Missing(e, held) ==
    CASE e \in Node -> {}
      [] e \in Way  -> ToSet(WayNodes[e]) \ held
      [] e \in Relation ->
           LET parts == UNION {Of(r, Way \cup Relation) : r \in Below(e, held \cap Relation)}
           IN  CASE Shape[e] = "none" -> {}
                 [] Shape[e] = "line" ->
                      ({e} \cup (UNION {ToSet(WayNodes[w]) : w \in parts \cap Way \cap held})) \ held
                 [] Shape[e] = "area" ->
                      (parts \cup (UNION {ToSet(WayNodes[w]) : w \in parts \cap Way \cap held})) \ held

Cached(c) == UNION {c[k].held : k \in Kind}

\* The members that are not there and that a line goes without.
Skipped(e, held) ==
    IF e \in Relation /\ Shape[e] = "line"
    THEN (UNION {Of(r, Element) : r \in Below(e, held \cap Relation)}) \ held
    ELSE {}

\* translateToFeatures: without tags there is nothing to convert.  To look up what is
\* not there is undefined: the process dies, or the geometry is not the element's.
Translated(e, c) ==
    [of |-> e, whole |-> e \in Tagged => Missing(e, Cached(c)) \cup Skipped(e, Cached(c)) = {}]

\* writeTranslatedFeature
Output(f) == IF f.of \in Tagged THEN <<f>> ELSE <<>>

-----------------------------------------------------------------------------
(* Streaming: OgrWriter::writePartial of what ElementStreamer has read. *)

NextElement == input[read + 1]
Advance == read' = read + 1
Added(e) == [cache EXCEPT ![KindOf(e)] = AddElement(@, e, limits[KindOf(e)])]

Reads(m) == mpc = "read" /\ mode = m /\ read < Len(input)

WriteElement(e) ==
    /\ Advance
    /\ cache' = Added(e)
    /\ written' = written \o Output(Translated(e, cache'))
    /\ UNCHANGED <<inputVars, threadVars, mpc, putOff>>

\* A fault: only the number of the nodes is compared with the cache.
FitsByNumber(w) == Len(WayNodes[w]) <= limits["node"]

\* A way is refused if it has more nodes than the cache can hold or some that it does not.
Fits(w) ==
    /\ Len(WayNodes[w]) <= limits["node"]
    /\ \A n \in ToSet(WayNodes[w]) : Held(n)

\* A relation's member is too much for the cache, or is not in it.
TooMany(r, i) ==
    LET k == KindOf(Members[r][i])
    IN  Len(SelectSeq(SubSeq(Members[r], 1, i), LAMBDA m : KindOf(m) = k)) > limits[k]
Lacks(r, i) == TooMany(r, i) \/ ~Held(Members[r][i])
FirstLack(r, i) == Lacks(r, i) /\ \A j \in 1..(i - 1) : ~Lacks(r, j)

WritePartial ==
    /\ Reads("streaming")
    /\ NextElement \in Way => Fits(NextElement)
    /\ NextElement \in Relation => \A i \in DOMAIN Members[NextElement] : ~Lacks(NextElement, i)
    /\ WriteElement(NextElement)

\* A relation whose first lack is another relation is left for later.
PutOff ==
    /\ Reads("streaming")
    /\ NextElement \in Relation
    /\ \E i \in DOMAIN Members[NextElement] :
         /\ FirstLack(NextElement, i)
         /\ Members[NextElement][i] \in Relation /\ ~TooMany(NextElement, i)
    /\ Advance
    /\ putOff' = putOff \cup {read + 1}
    /\ UNCHANGED <<inputVars, cache, threadVars, mpc, written>>

Refuse ==
    /\ Reads("streaming")
    /\ \/ NextElement \in Way /\ ~Fits(NextElement)
       \/ /\ NextElement \in Relation
          /\ \E i \in DOMAIN Members[NextElement] :
               /\ FirstLack(NextElement, i)
               /\ Members[NextElement][i] \notin Relation \/ TooMany(NextElement, i)
    /\ mpc' = "threw"
    /\ UNCHANGED <<inputVars, read, cache, threadVars, putOff, written>>

\* finalizePartial does nothing; the writer is closed with its destruction.
FinishStream ==
    /\ mpc = "read" /\ mode = "streaming"
    /\ read = Len(input)
    /\ mpc' = "done"
    /\ UNCHANGED <<inputVars, read, cache, threadVars, putOff, written>>

\* Undefined: see Translated.
CrashStream ==
    /\ Reads("streaming")
    /\ NextElement \in Relation /\ NextElement \in Tagged
    /\ \A i \in DOMAIN Members[NextElement] : ~Lacks(NextElement, i)
    /\ Missing(NextElement, Cached(Added(NextElement))) # {}
    /\ mpc' = "aborted"
    /\ UNCHANGED <<inputVars, read, cache, threadVars, putOff, written>>

-----------------------------------------------------------------------------
(* Multithreaded: _convertToOgrMT. *)

FillElementCache ==
    /\ Reads("multithreaded")
    /\ Advance
    /\ elementQ' = Append(elementQ, NextElement)
    /\ cache' = Added(NextElement)
    /\ UNCHANGED <<inputVars, featuresQ, finished, mpc, tpc, wpc, feature, putOff, written>>

StartThreads ==
    /\ mpc = "read" /\ mode = "multithreaded"
    /\ read = Len(input)
    /\ mpc' = "wait" /\ tpc' = "init" /\ wpc' = "init"
    /\ UNCHANGED <<inputVars, read, cache, elementQ, featuresQ, finished, feature, putOff, written>>

InitTranslator ==
    /\ mpc = "wait" /\ tpc = "init"
    /\ tpc' = "translate"
    /\ UNCHANGED <<inputVars, read, cache, elementQ, featuresQ, finished, mpc, wpc, feature, putOff,
                   written>>

\* A fault: elements without tags are not queued, nor any that come after them.
TranslateTagged ==
    /\ mpc = "wait" /\ tpc = "translate"
    /\ elementQ # <<>>
    /\ elementQ' = IF Head(elementQ) \in Tagged THEN Tail(elementQ) ELSE <<>>
    /\ featuresQ' = featuresQ \o Output(Translated(Head(elementQ), cache))
    /\ UNCHANGED <<inputVars, read, cache, finished, mpc, tpc, wpc, feature, putOff, written>>

Translate ==
    /\ mpc = "wait" /\ tpc = "translate"
    /\ elementQ # <<>>
    /\ elementQ' = Tail(elementQ)
    /\ featuresQ' = Append(featuresQ, Translated(Head(elementQ), cache))
    /\ UNCHANGED <<inputVars, read, cache, finished, mpc, tpc, wpc, feature, putOff, written>>

\* A fault: the translator ends without a word.
SetFinishedSilently ==
    /\ mpc = "wait" /\ tpc = "translate"
    /\ elementQ = <<>>
    /\ tpc' = "finished"
    /\ UNCHANGED <<inputVars, read, cache, elementQ, featuresQ, finished, mpc, wpc, feature, putOff,
                   written>>

SetFinished ==
    /\ mpc = "wait" /\ tpc = "translate"
    /\ elementQ = <<>>
    /\ finished' = TRUE
    /\ tpc' = "finished"
    /\ UNCHANGED <<inputVars, read, cache, elementQ, featuresQ, mpc, wpc, feature, putOff, written>>

EndTranslator ==
    /\ mpc = "wait" /\ tpc = "finished"
    /\ tpc' = "ended"
    /\ UNCHANGED <<inputVars, read, cache, elementQ, featuresQ, finished, mpc, wpc, feature, putOff,
                   written>>

Translator == InitTranslator \/ Translate \/ SetFinished \/ EndTranslator

OpenWriter ==
    /\ mpc = "wait" /\ wpc = "init"
    /\ wpc' = "take"
    /\ UNCHANGED <<inputVars, read, cache, elementQ, featuresQ, finished, mpc, tpc, feature, putOff,
                   written>>

\* A fault: an empty queue is the end.
IsLastEmpty == TRUE

\* The writer has found the queue empty: it looks once more unless the flag is set.
IsLast == finished

TakeFeature ==
    /\ mpc = "wait" /\ wpc = "take"
    /\ IF featuresQ = <<>>
       THEN /\ wpc' = IF IsLast THEN "last" ELSE "sleep"
            /\ UNCHANGED <<featuresQ, feature>>
       ELSE /\ wpc' = "write"
            /\ feature' = Head(featuresQ)
            /\ featuresQ' = Tail(featuresQ)
    /\ UNCHANGED <<inputVars, read, cache, elementQ, finished, mpc, tpc, putOff, written>>

WriteFeature ==
    /\ mpc = "wait" /\ wpc = "write"
    /\ written' = written \o Output(feature)
    /\ feature' = NoFeature
    /\ wpc' = "take"
    /\ UNCHANGED <<inputVars, read, cache, elementQ, featuresQ, finished, mpc, tpc, putOff>>

\* It closes the output after its last sleep.
Wake ==
    /\ mpc = "wait" /\ wpc \in {"sleep", "last"}
    /\ wpc' = IF wpc = "last" THEN "closed" ELSE "take"
    /\ UNCHANGED <<inputVars, read, cache, elementQ, featuresQ, finished, mpc, tpc, feature, putOff,
                   written>>

Writer == OpenWriter \/ TakeFeature \/ WriteFeature \/ Wake

\* The caller waits for the writer only.  Destroying a thread that runs is fatal.
Return ==
    /\ mpc = "wait" /\ wpc = "closed"
    /\ mpc' = IF tpc = "ended" THEN "done" ELSE "aborted"
    /\ UNCHANGED <<inputVars, read, cache, threadVars, putOff, written>>

\* An exception that leaves a thread ends the process; so may a lookup that fails.
Abort ==
    /\ mpc = "wait"
    /\ tpc \in {"init", "translate"} \/ wpc \in {"init", "write"}
    /\ mpc' = "aborted"
    /\ UNCHANGED <<inputVars, read, cache, threadVars, putOff, written>>

Caller ==
    \/ WritePartial \/ PutOff \/ Refuse \/ FinishStream
    \/ FillElementCache \/ StartThreads \/ Return

Over == mpc \in Ends /\ UNCHANGED vars

Next == Caller \/ Translator \/ Writer \/ CrashStream \/ Abort \/ Over

Spec == Init /\ [][Next]_vars

\* The caller and the threads are scheduled.
Fairness == WF_vars(Caller) /\ WF_vars(Translator) /\ WF_vars(Writer)

FairSpec == Spec /\ Fairness

-----------------------------------------------------------------------------
\* How many elements have been translated, and their features taken and written.
Converted == read - Len(elementQ)
Taken == Converted - Len(featuresQ)
Past == IF wpc = "write" THEN Taken - 1 ELSE Taken

\* The elements that are to be written, by their positions in the input, and their
\* places in the output.
Due(i) == input[i] \in Tagged /\ i \notin putOff
Place(i) == Cardinality({j \in 1..i : Due(j)})

\* Every element that has been read and has tags is written once, in the order in
\* which it was read, or is still on its way through the two queues; relations that
\* were put off are not (OgrWriter.cpp:505 "Will attempt to write relation").
NothingDropped ==
    /\ Past \in Nat
    /\ \A i \in 1..Len(elementQ) : elementQ[i] = input[Converted + i]
    /\ \A i \in 1..Len(featuresQ) : featuresQ[i].of = input[Taken + i]
    /\ wpc = "write" => feature.of = input[Taken]
    /\ Len(written) = Place(Past)
    /\ \A i \in 1..Past : Due(i) => written[Place(i)].of = input[i]

\* The output is closed when nothing is left to translate or to write.
ClosedIsComplete ==
    wpc = "closed" => elementQ = <<>> /\ featuresQ = <<>> /\ feature = NoFeature

\* Where the elements of a kind are that have come, and those of them that were cached.
CameOf(k) == {i \in 1..read : KindOf(input[i]) = k}
CachedOf(k) == CameOf(k) \ putOff

\* The cache has thrown something out.
Overflown == \E k \in Kind : Cardinality(CameOf(k)) > limits[k]

Parts(e) == CASE e \in Node -> {}
              [] e \in Way -> ToSet(WayNodes[e])
              [] e \in Relation -> ToSet(Members[e])
Complete == \A e \in ToSet(input) : Parts(e) \subseteq ToSet(input)

\* A geometry is not its element's only if the cache was too small: one by one only
\* that of a relation, whose members' nodes and members nobody asks for; with threads,
\* where nothing is refused, also if the input was incomplete.
TornForAReason ==
    \A i \in DOMAIN written : ~written[i].whole =>
      IF mode = "streaming" THEN Overflown /\ written[i].of \in Relation
      ELSE Overflown \/ ~Complete

\* No element of a kind has come twice.
Fresh(k) == \A i, j \in CameOf(k) : input[i] = input[j] => i = j

\* How many of a kind have been cached since, the element itself included.
Age(k, i) == Cardinality({j \in CachedOf(k) : i <= j})

\* The list of a kind is always those that were cached last, the latest first, and at
\* least as many as the cache is to hold; also when an element comes again, which is
\* listed once more. If none does, the list is no longer than that, and the map has
\* just what is listed.
CacheIsWindow ==
    \A k \in Kind :
      LET came == Cardinality(CachedOf(k))
          full == IF came < limits[k] THEN came ELSE limits[k]
          list == cache[k].order
      IN  /\ Len(list) \in full..came
          /\ \A i \in CachedOf(k) : Age(k, i) <= Len(list) => list[Age(k, i)] = input[i]
          /\ Fresh(k) => Len(list) = full /\ cache[k].held = ToSet(list)

\* An element that is in the cache already can be added again without a change
\* (ElementCache.h:78 "If the item already exists in the cache"): what changes the
\* cache is the arrival of an element that it does not have.
AddTwiceIsNoOp ==
    [][\A k \in Kind : cache'[k] # cache[k] => ~(cache'[k].held \subseteq cache[k].held)]_vars

\* A conversion ends.
Terminates == <>(mpc \in Ends)
=============================================================================
