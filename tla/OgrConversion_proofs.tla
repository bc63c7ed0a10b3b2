------------------------ MODULE OgrConversion_proofs ------------------------
(***************************************************************************)
(* Proofs about OgrConversion: what it writes, in which order and when it  *)
(* closes its output, what the cache holds, and what a geometry can lack,  *)
(* whatever the input and the sizes of the cache.                          *)
(***************************************************************************)
EXTENDS OgrConversion, FiniteSetTheorems, TLAPS

\* Nobody works before the caller has started the threads.
Unborn == mpc = "read" => tpc = "unborn" /\ wpc = "unborn"

\* The flag is set by a translator that has emptied its queue and adds nothing more.
Flag == finished => tpc \in {"finished", "ended"} /\ elementQ = <<>>

\* The writer holds a feature only while it writes it.
Hand == wpc # "write" => feature = NoFeature

\* The writer has decided to stop, or has stopped.
Stopped == wpc \in {"last", "closed"} => finished /\ featuresQ = <<>>

IInv == Unborn /\ Flag /\ Hand /\ Stopped

\* It holds in the beginning.
LEMMA InitIInv == Init => IInv
  BY DEF Init, IInv, Unborn, Flag, Hand, Stopped

\* Reading elements and writing them one by one do not concern the threads.
LEMMA CallerKeeps == IInv /\ (Caller \/ CrashStream \/ Over) => IInv'
<1> SUFFICES ASSUME IInv, Caller \/ CrashStream \/ Over PROVE IInv'
    OBVIOUS
<1> USE DEF IInv, Unborn, Flag, Hand, Stopped
<1>1. CASE WritePartial
    BY <1>1 DEF WritePartial, Reads, WriteElement, threadVars
<1>2. CASE PutOff
    BY <1>2 DEF PutOff, Reads, threadVars
<1>3. CASE Refuse
    BY <1>3 DEF Refuse, Reads, threadVars
<1>4. CASE FinishStream
    BY <1>4 DEF FinishStream, threadVars
<1>5. CASE FillElementCache
    BY <1>5 DEF FillElementCache, Reads
<1>6. CASE StartThreads
    BY <1>6 DEF StartThreads
<1>7. CASE Return
    BY <1>7 DEF Return, threadVars
<1>8. CASE CrashStream
    BY <1>8 DEF CrashStream, Reads, threadVars
<1>9. CASE Over
    BY <1>9 DEF Over, vars, threadVars
<1> QED
    BY <1>1, <1>2, <1>3, <1>4, <1>5, <1>6, <1>7, <1>8, <1>9 DEF Caller

\* The translator adds features only before it sets the flag.
LEMMA TranslatorKeeps == IInv /\ Translator => IInv'
<1> SUFFICES ASSUME IInv, Translator PROVE IInv'
    OBVIOUS
<1> USE DEF IInv, Unborn, Flag, Hand, Stopped
<1>1. CASE InitTranslator
    BY <1>1 DEF InitTranslator
<1>2. CASE Translate
  <2>1. ~finished
      BY <1>2 DEF Translate
  <2> QED
      BY <1>2, <2>1 DEF Translate
<1>3. CASE SetFinished
    BY <1>3 DEF SetFinished
<1>4. CASE EndTranslator
    BY <1>4 DEF EndTranslator
<1> QED
    BY <1>1, <1>2, <1>3, <1>4 DEF Translator

\* The writer stops after it has seen the flag and the empty queue in one step.
LEMMA WriterKeeps == IInv /\ Writer => IInv'
<1> SUFFICES ASSUME IInv, Writer PROVE IInv'
    OBVIOUS
<1> USE DEF IInv, Unborn, Flag, Hand, Stopped
<1>1. CASE OpenWriter
    BY <1>1 DEF OpenWriter
<1>2. CASE TakeFeature
  <2>1. CASE featuresQ = <<>>
      BY <1>2, <2>1 DEF TakeFeature, IsLast
  <2>2. CASE featuresQ # <<>>
      BY <1>2, <2>2 DEF TakeFeature
  <2> QED
      BY <2>1, <2>2
<1>3. CASE WriteFeature
    BY <1>3 DEF WriteFeature
<1>4. CASE Wake
    BY <1>4 DEF Wake
<1> QED
    BY <1>1, <1>2, <1>3, <1>4 DEF Writer

\* The output is closed when nothing is left to translate or to write
\* (OgrWriterThread::run leaves its loop at OgrWriterThread.cpp:76).
THEOREM NothingLeftAtClose == Spec => []ClosedIsComplete
<1>1. IInv /\ [Next]_vars => IInv'
  <2> SUFFICES ASSUME IInv, [Next]_vars PROVE IInv'
      OBVIOUS
  <2>1. CASE Abort
      BY <2>1 DEF Abort, threadVars, IInv, Unborn, Flag, Hand, Stopped
  <2>2. CASE UNCHANGED vars
      BY <2>2 DEF vars, threadVars, IInv, Unborn, Flag, Hand, Stopped
  <2> QED
      BY <2>1, <2>2, CallerKeeps, TranslatorKeeps, WriterKeeps DEF Next
<1>2. IInv => ClosedIsComplete
    BY DEF IInv, Flag, Hand, Stopped, ClosedIsComplete
<1> QED
    BY InitIInv, <1>1, <1>2, PTL DEF Spec

-----------------------------------------------------------------------------
(* The types. *)

Entry == [held : SUBSET Element, order : Seq(Element)]

\* The two ways of converting keep to their own variables: one by one there are no
\* threads, and with threads nothing is put off and all is read before they start.
Ways ==
    /\ mode = "streaming" =>
         tpc = "unborn" /\ wpc = "unborn" /\ elementQ = <<>> /\ featuresQ = <<>>
    /\ mode = "multithreaded" => putOff = {}
    /\ mpc = "read" => tpc = "unborn" /\ wpc = "unborn"
    /\ mpc = "wait" => mode = "multithreaded" /\ read = Len(input) /\ wpc # "unborn"
    /\ wpc = "unborn" => featuresQ = <<>>
    /\ wpc = "write" => feature \in Feature

TypeInv == TypeOK /\ Ways

\* An element is of one kind.
LEMMA Kinds ==
    ASSUME NEW e \in Element
    PROVE  /\ KindOf(e) \in Kind
           /\ KindOf(e) = "node" <=> e \in Node
           /\ KindOf(e) = "way" <=> e \in Way
           /\ KindOf(e) = "relation" <=> e \in Relation
  BY ConversionAssumption, SMT DEF Element, Kind, KindOf

\* A list with another id in front.
LEMMA Prepended ==
    ASSUME NEW s \in Seq(Element), NEW e \in Element
    PROVE  /\ <<e>> \o s \in Seq(Element) /\ Len(<<e>> \o s) = Len(s) + 1
           /\ (<<e>> \o s)[1] = e
           /\ \A i \in 1..Len(s) : (<<e>> \o s)[i + 1] = s[i]
           /\ ToSet(<<e>> \o s) = ToSet(s) \cup {e}
  <1>1. /\ <<e>> \o s \in Seq(Element) /\ Len(<<e>> \o s) = Len(s) + 1 /\ Len(s) \in Nat
        /\ (<<e>> \o s)[1] = e
        /\ \A i \in 1..Len(s) : (<<e>> \o s)[i + 1] = s[i]
    OBVIOUS
  <1>2. DOMAIN s = 1..Len(s) /\ DOMAIN (<<e>> \o s) = 1..(Len(s) + 1)
    BY <1>1
  <1>3. ASSUME NEW x \in ToSet(s) \cup {e} PROVE x \in ToSet(<<e>> \o s)
    <2>1. CASE x = e
      <3>1. 1 \in DOMAIN (<<e>> \o s)
        BY <1>1, <1>2
      <3> QED
        BY <1>1, <2>1, <3>1 DEF ToSet
    <2>2. CASE x # e
      <3>1. PICK i \in 1..Len(s) : x = s[i]
        BY <1>2, <1>3, <2>2 DEF ToSet
      <3>2. i + 1 \in DOMAIN (<<e>> \o s)
        BY <1>1, <1>2
      <3> QED
        BY <1>1, <3>1, <3>2 DEF ToSet
    <2> QED
      BY <2>1, <2>2
  <1>4. ASSUME NEW x \in ToSet(<<e>> \o s) PROVE x \in ToSet(s) \cup {e}
    <2>1. PICK i \in 1..(Len(s) + 1) : x = (<<e>> \o s)[i]
      BY <1>2, <1>4 DEF ToSet
    <2>2. CASE i # 1
      <3>1. i - 1 \in 1..Len(s) /\ (i - 1) + 1 = i
        BY <1>1, <2>2
      <3>2. x = s[i - 1]
        BY <1>1, <2>1, <3>1
      <3> QED
        BY <1>2, <3>1, <3>2 DEF ToSet
    <2> QED
      BY <1>1, <2>1, <2>2
  <1> QED
    BY <1>1, <1>3, <1>4

\* What is listed: the id that was added, and what was listed before, but the oldest
\* if the cache was full.
LEMMA AddedEntry ==
    ASSUME NEW c \in Entry, c.held \subseteq ToSet(c.order), NEW e \in Element,
           NEW max \in Nat \ {0}
    PROVE  /\ AddElement(c, e, max) \in Entry
           /\ AddElement(c, e, max).held \subseteq ToSet(AddElement(c, e, max).order)
  <1> DEFINE room == IF Cardinality(c.held) = max THEN RemoveOldest(c) ELSE c
  <1>1. room \in Entry /\ room.held \subseteq ToSet(room.order)
    <2>1. CASE Cardinality(c.held) = max
      <3>1. c.order \in Seq(Element) /\ c.order # <<>>
        <4>1. c.held # {}
          BY <2>1, FS_EmptySet
        <4> QED
          BY <4>1 DEF Entry, ToSet
      <3>2. /\ Len(c.order) \in Nat \ {0} /\ Front(c.order) \in Seq(Element)
            /\ Len(Front(c.order)) = Len(c.order) - 1 /\ Last(c.order) = c.order[Len(c.order)]
            /\ \A i \in 1..(Len(c.order) - 1) : Front(c.order)[i] = c.order[i]
        BY <3>1 DEF Front, Last
      <3>3. c.held \ {Last(c.order)} \subseteq ToSet(Front(c.order))
        <4> SUFFICES ASSUME NEW x \in c.held, x # Last(c.order) PROVE x \in ToSet(Front(c.order))
          OBVIOUS
        <4>1. PICK i \in 1..Len(c.order) : x = c.order[i]
          BY <3>1 DEF ToSet
        <4>2. i \in 1..(Len(c.order) - 1)
          BY <3>2, <4>1
        <4>3. DOMAIN Front(c.order) = 1..(Len(c.order) - 1)
          BY <3>2
        <4> QED
          BY <3>2, <4>1, <4>2, <4>3 DEF ToSet
      <3>4. room = [held |-> c.held \ {Last(c.order)}, order |-> Front(c.order)]
        BY <2>1 DEF RemoveOldest
      <3> QED
        BY <3>2, <3>3, <3>4 DEF Entry
    <2>2. CASE Cardinality(c.held) # max
      BY <2>2
    <2> QED
      BY <2>1, <2>2
  <1>2. AddElement(c, e, max) = [held |-> room.held \cup {e}, order |-> <<e>> \o room.order]
    BY DEF AddElement
  <1> HIDE DEF room
  <1>3. room.order \in Seq(Element) /\ room.held \subseteq Element
    BY <1>1 DEF Entry
  <1> QED
    BY <1>1, <1>2, <1>3, Prepended DEF Entry

\* The element that is read next, and the cache with it.
LEMMA NextTypes ==
    ASSUME TypeOK, read < Len(input)
    PROVE  /\ NextElement \in Element /\ KindOf(NextElement) \in Kind
           /\ limits[KindOf(NextElement)] \in Nat \ {0}
           /\ read + 1 \in 1..Len(input)
           /\ Added(NextElement) \in [Kind -> Entry]
           /\ \A k \in Kind : Added(NextElement)[k].held \subseteq ToSet(Added(NextElement)[k].order)
  <1> DEFINE e == NextElement
  <1>1. /\ input \in Seq(Element) /\ read \in Nat /\ read + 1 \in 1..Len(input)
        /\ limits \in [Kind -> Nat \ {0}]
    BY ConversionAssumption DEF TypeOK
  <1>2. e \in Element /\ KindOf(e) \in Kind
    BY <1>1, Kinds DEF NextElement
  <1>3. limits[KindOf(e)] \in Nat \ {0}
    BY <1>1, <1>2
  <1>4. /\ cache \in [Kind -> Entry] /\ cache[KindOf(e)] \in Entry
        /\ cache[KindOf(e)].held \subseteq ToSet(cache[KindOf(e)].order)
        /\ \A k \in Kind : cache[k].held \subseteq ToSet(cache[k].order)
    BY <1>2 DEF TypeOK, Entry
  <1> DEFINE new == AddElement(cache[KindOf(e)], e, limits[KindOf(e)])
  <1>5. new \in Entry /\ new.held \subseteq ToSet(new.order)
    BY <1>2, <1>3, <1>4, AddedEntry
  <1>6. Added(e) = [cache EXCEPT ![KindOf(e)] = new]
    BY DEF Added
  <1> HIDE DEF e, new
  <1>7. Added(e) \in [Kind -> Entry]
    BY <1>2, <1>4, <1>5, <1>6
  <1>8. \A k \in Kind : Added(e)[k] = IF k = KindOf(e) THEN new ELSE cache[k]
    BY <1>2, <1>4, <1>6
  <1> QED
    BY <1>1, <1>2, <1>3, <1>4, <1>5, <1>7, <1>8 DEF e

LEMMA FeatureTypes ==
    ASSUME NEW e \in Element, NEW c
    PROVE  Translated(e, c) \in Feature /\ Output(Translated(e, c)) \in Seq(Feature)
  <1>1. Translated(e, c) \in Feature
    BY DEF Translated, Feature
  <1>2. ASSUME NEW f \in Feature PROVE Output(f) \in Seq(Feature)
    BY <1>2 DEF Output
  <1> QED
    BY <1>1, <1>2

LEMMA InitTypes == Init => TypeInv
  <1> SUFFICES ASSUME Init PROVE TypeInv
    OBVIOUS
  <1>1. cache \in [Kind -> Entry] /\ \A k \in Kind : cache[k].held \subseteq ToSet(cache[k].order)
    BY DEF Init, Empty, Entry
  <1>2. input \in Seq(Element) /\ 0 \in 0..Len(input)
    BY ConversionAssumption DEF Init
  <1>3. elementQ \in Seq(Element) /\ featuresQ \in Seq(Feature) /\ written \in Seq(Feature)
    BY DEF Init
  <1>4. putOff \subseteq 1..read /\ read \in 0..Len(input)
    BY <1>2 DEF Init
  <1>5. TypeOK
    BY <1>1, <1>2, <1>3, <1>4 DEF Init, TypeOK, Entry
  <1> QED
    BY <1>5 DEF Init, TypeInv, Ways

\* The steps of the caller, and those that end the process.
LEMMA CallerTypes == TypeInv /\ (Caller \/ CrashStream \/ Abort \/ Over) => TypeInv'
  <1> SUFFICES ASSUME TypeInv, Caller \/ CrashStream \/ Abort \/ Over PROVE TypeInv'
    OBVIOUS
  <1>t. /\ TypeOK /\ Ways /\ read \in 0..Len(input) /\ Len(input) \in Nat
        /\ cache \in [Kind -> Entry] /\ input \in Seq(Element)
    BY ConversionAssumption DEF TypeInv, TypeOK, Entry
  <1>1. CASE WritePartial
    <2>1. /\ Reads("streaming") /\ WriteElement(NextElement) /\ read < Len(input)
      BY <1>1 DEF WritePartial, Reads
    <2>2. /\ read' \in 0..Len(input) /\ putOff' \subseteq 1..read' /\ cache' = Added(NextElement)
          /\ written' = written \o Output(Translated(NextElement, cache'))
      BY <1>t, <2>1 DEF WriteElement, Advance, TypeOK
    <2>3. written' \in Seq(Feature)
      BY <1>t, <2>1, <2>2, NextTypes, FeatureTypes DEF TypeOK
    <2>4. TypeOK'
      BY <1>t, <2>1, <2>2, <2>3, NextTypes DEF TypeOK, Entry, WriteElement, inputVars, threadVars
    <2> QED
      BY <1>t, <2>1, <2>4 DEF TypeInv, Ways, Reads, WriteElement, inputVars, threadVars
  <1>2. CASE PutOff
    <2>1. /\ mode = "streaming" /\ read < Len(input) /\ read' = read + 1
          /\ putOff' = putOff \cup {read + 1} /\ UNCHANGED <<inputVars, cache, threadVars, mpc, written>>
      BY <1>2 DEF PutOff, Reads, Advance
    <2>2. read' \in 0..Len(input) /\ putOff' \subseteq 1..read'
      BY <1>t, <2>1 DEF TypeOK
    <2> QED
      BY <1>t, <1>2, <2>1, <2>2 DEF TypeInv, TypeOK, Ways, Reads, PutOff, inputVars, threadVars
  <1>3. CASE Refuse \/ FinishStream \/ CrashStream
    <2>1. /\ mpc' \in Ends /\ mode = "streaming"
          /\ UNCHANGED <<inputVars, read, cache, threadVars, putOff, written>>
      BY <1>3 DEF Refuse, FinishStream, CrashStream, Reads, Ends
    <2> QED
      BY <1>t, <2>1 DEF TypeInv, TypeOK, Ways, Ends, inputVars, threadVars
  <1>4. CASE FillElementCache
    <2>1. /\ mode = "multithreaded" /\ read < Len(input) /\ read' = read + 1 /\ mpc = "read"
          /\ elementQ' = Append(elementQ, NextElement) /\ cache' = Added(NextElement)
          /\ UNCHANGED <<inputVars, featuresQ, finished, mpc, tpc, wpc, feature, putOff, written>>
      BY <1>4 DEF FillElementCache, Reads, Advance
    <2>2. read' \in 0..Len(input) /\ putOff' \subseteq 1..read' /\ elementQ' \in Seq(Element)
      BY <1>t, <2>1, NextTypes DEF TypeOK
    <2>3. TypeOK'
      BY <1>t, <2>1, <2>2, NextTypes DEF TypeOK, Entry, inputVars
    <2> QED
      BY <1>t, <2>1, <2>3 DEF TypeInv, Ways, inputVars
  <1>5. CASE StartThreads
    BY <1>t, <1>5 DEF StartThreads, TypeInv, TypeOK, Ways, inputVars
  <1>6. CASE Return \/ Abort
    <2>1. /\ mpc' \in Ends /\ mpc = "wait"
          /\ UNCHANGED <<inputVars, read, cache, threadVars, putOff, written>>
      BY <1>6 DEF Return, Abort, Ends
    <2> QED
      BY <1>t, <2>1 DEF TypeInv, TypeOK, Ways, Ends, inputVars, threadVars
  <1>7. CASE Over
    BY <1>t, <1>7 DEF Over, vars, TypeInv, TypeOK, Ways, inputVars, threadVars
  <1> QED
    BY <1>1, <1>2, <1>3, <1>4, <1>5, <1>6, <1>7 DEF Caller

\* The steps of the two threads.
LEMMA ThreadTypes == TypeInv /\ (Translator \/ Writer) => TypeInv'
  <1> SUFFICES ASSUME TypeInv, Translator \/ Writer PROVE TypeInv'
    OBVIOUS
  <1>t. TypeOK /\ Ways /\ elementQ \in Seq(Element) /\ featuresQ \in Seq(Feature)
    BY DEF TypeInv, TypeOK
  <1>1. CASE InitTranslator \/ SetFinished \/ EndTranslator
    BY <1>t, <1>1 DEF InitTranslator, SetFinished, EndTranslator, TypeInv, TypeOK, Ways, inputVars
  <1>2. CASE Translate
    <2>1. /\ elementQ # <<>> /\ mpc = "wait" /\ tpc = "translate" /\ elementQ' = Tail(elementQ)
          /\ featuresQ' = Append(featuresQ, Translated(Head(elementQ), cache))
          /\ UNCHANGED <<inputVars, read, cache, finished, mpc, tpc, wpc, feature, putOff, written>>
      BY <1>2 DEF Translate
    <2>2. Head(elementQ) \in Element /\ Tail(elementQ) \in Seq(Element)
      BY <1>t, <2>1
    <2>3. elementQ' \in Seq(Element) /\ featuresQ' \in Seq(Feature)
      BY <1>t, <2>1, <2>2, FeatureTypes
    <2> QED
      BY <1>t, <2>1, <2>3 DEF TypeInv, TypeOK, Ways, inputVars
  <1>3. CASE TakeFeature
    <2>1. CASE featuresQ = <<>>
      BY <1>t, <1>3, <2>1 DEF TakeFeature, TypeInv, TypeOK, Ways, inputVars
    <2>2. CASE featuresQ # <<>>
      <3>1. feature' \in Feature /\ featuresQ' \in Seq(Feature) /\ wpc' = "write"
        BY <1>t, <1>3, <2>2 DEF TakeFeature
      <3> QED
        BY <1>t, <1>3, <2>2, <3>1 DEF TakeFeature, TypeInv, TypeOK, Ways, inputVars
    <2> QED
      BY <2>1, <2>2
  <1>4. CASE WriteFeature
    <2>1. feature \in Feature /\ written \in Seq(Feature)
      BY <1>t, <1>4 DEF WriteFeature, Ways, TypeOK
    <2>2. Output(feature) \in Seq(Feature)
      BY <2>1 DEF Output
    <2>3. written' \in Seq(Feature)
      BY <1>4, <2>1, <2>2 DEF WriteFeature
    <2> QED
      BY <1>t, <1>4, <2>3 DEF WriteFeature, TypeInv, TypeOK, Ways, inputVars
  <1>5. CASE OpenWriter \/ Wake
    BY <1>t, <1>5 DEF OpenWriter, Wake, TypeInv, TypeOK, Ways, inputVars
  <1> QED
    BY <1>1, <1>2, <1>3, <1>4, <1>5 DEF Translator, Writer

LEMMA NextTyped == TypeInv /\ [Next]_vars => TypeInv'
  <1>1. TypeInv /\ UNCHANGED vars => TypeInv'
    BY DEF vars, inputVars, threadVars, TypeInv, TypeOK, Ways
  <1> QED
    BY <1>1, CallerTypes, ThreadTypes DEF Next

\* Whatever the input, the cache sizes and the order of the threads' steps, every
\* variable stays in its type; no id is in the cache that is not listed there, so it is
\* thrown out when its turn comes.
THEOREM TypeCorrect == Spec => []TypeOK
  <1>1. TypeInv => TypeOK
    BY DEF TypeInv
  <1> QED
    BY InitTypes, NextTyped, <1>1, PTL DEF Spec

-----------------------------------------------------------------------------
(* What is written. *)

WrittenInOrder ==
    /\ Len(written) = Place(Past)
    /\ \A i \in 1..Past : Due(i) => written[Place(i)].of = input[i]

DropInv == TypeInv /\ NothingDropped

\* Places count up by one for each element that is due.
LEMMA PlaceNext ==
    ASSUME NEW n \in Nat
    PROVE  /\ Place(n) \in Nat
           /\ Place(n + 1) = Place(n) + (IF Due(n + 1) THEN 1 ELSE 0)
  <1> DEFINE D(m) == {j \in 1..m : Due(j)}
  <1>1. IsFiniteSet(1..n) /\ D(n) \subseteq 1..n
    BY FS_Interval
  <1>2. IsFiniteSet(D(n))
    BY <1>1, FS_Subset
  <1>3. D(n + 1) = IF Due(n + 1) THEN D(n) \cup {n + 1} ELSE D(n)
    <2>1. 1..(n + 1) = 1..n \cup {n + 1}
      OBVIOUS
    <2> QED
      BY <2>1
  <1>4. n + 1 \notin D(n)
    OBVIOUS
  <1>5. /\ Cardinality(D(n)) \in Nat
        /\ Cardinality(D(n) \cup {n + 1}) = Cardinality(D(n)) + 1
    BY <1>2, <1>4, FS_CardinalityType, FS_AddElement
  <1>6. Place(n) = Cardinality(D(n)) /\ Place(n + 1) = Cardinality(D(n + 1))
    BY DEF Place
  <1> HIDE DEF D
  <1> QED
    BY <1>3, <1>5, <1>6

Counts == \A n \in Nat : Place(n + 1) = Place(n) + (IF Due(n + 1) THEN 1 ELSE 0)

LEMMA PlacesCount == Counts
  BY PlaceNext DEF Counts

LEMMA PlaceZero == Place(0) = 0
  <1>1. {j \in 1..0 : Due(j)} = {}
    OBVIOUS
  <1> QED
    BY <1>1, FS_EmptySet DEF Place

\* What is due has a place among those up to any later one.
LEMMA PlaceWithin ==
    ASSUME NEW n \in Nat, NEW i \in 1..n, Due(i)
    PROVE  Place(i) \in 1..Place(n)
  <1> DEFINE D(m) == {j \in 1..m : Due(j)}
  <1>1. IsFiniteSet(D(n)) /\ D(i) \subseteq D(n) /\ i \in D(i)
    <2>1. IsFiniteSet(1..n) /\ D(n) \subseteq 1..n
      BY FS_Interval
    <2> QED
      BY <2>1, FS_Subset
  <1>2. IsFiniteSet(D(i)) /\ Cardinality(D(i)) <= Cardinality(D(n))
    BY <1>1, FS_Subset
  <1>3. Cardinality(D(i)) # 0
    BY <1>1, <1>2, FS_EmptySet
  <1>4. Cardinality(D(i)) \in Nat /\ Cardinality(D(n)) \in Nat
    BY <1>1, <1>2, FS_CardinalityType
  <1>5. Place(i) = Cardinality(D(i)) /\ Place(n) = Cardinality(D(n))
    BY DEF Place
  <1> QED
    BY <1>2, <1>3, <1>4, <1>5

LEMMA PlaceSame ==
    ASSUME NEW n \in Nat, \A i \in 1..n : Due(i)' <=> Due(i)
    PROVE  \A i \in 0..n : Place(i)' = Place(i)
  <1> SUFFICES ASSUME NEW i \in 0..n PROVE Place(i)' = Place(i)
    OBVIOUS
  <1>1. {j \in 1..i : Due(j)'} = {j \in 1..i : Due(j)}
    OBVIOUS
  <1> QED
    BY <1>1 DEF Place

\* The next element is passed: it is written if it is due.
LEMMA OnePassed ==
    ASSUME WrittenInOrder, NEW n \in Nat, Past = n, Past' = n + 1, input' = input,
           written \in Seq(Feature), \A i \in 1..n : Due(i)' <=> Due(i),
           NEW f \in Feature, f.of = input[n + 1], NEW b \in BOOLEAN, Due(n + 1)' <=> b,
           written' = IF b THEN Append(written, f) ELSE written
    PROVE  WrittenInOrder'
  <1>1. /\ \A i \in 1..n : Place(i)' = Place(i)
        /\ Place(n)' = Place(n) /\ Place(n) \in Nat
        /\ Place(n + 1)' = Place(n)' + (IF Due(n + 1)' THEN 1 ELSE 0)
    <2>1. Counts'
      BY PlacesCount, PTL
    <2>2. \A i \in 0..n : Place(i)' = Place(i)
      BY PlaceSame
    <2>3. Place(n + 1)' = Place(n)' + (IF Due(n + 1)' THEN 1 ELSE 0)
      BY <2>1 DEF Counts
    <2>4. n \in 0..n /\ \A i \in 1..n : i \in 0..n
      OBVIOUS
    <2>5. Place(n) \in Nat
      BY PlaceNext
    <2>6. Place(n)' = Place(n)
      BY <2>2, <2>4
    <2>7. \A i \in 1..n : Place(i)' = Place(i)
      BY <2>2, <2>4
    <2> QED
      BY <2>3, <2>5, <2>6, <2>7
  <1>2. Len(written) = Place(n)
    BY DEF WrittenInOrder
  <1>3. Len(written') = Place(n + 1)'
    BY <1>1, <1>2
  <1>4. ASSUME NEW i \in 1..(n + 1), Due(i)' PROVE written'[Place(i)'].of = input[i]
    <2>1. CASE i = n + 1
      BY <1>1, <1>2, <1>4, <2>1
    <2>2. CASE i # n + 1
      <3>1. i \in 1..n /\ Due(i)
        BY <1>4, <2>2
      <3>2. Place(i) \in 1..Len(written) /\ written[Place(i)].of = input[i]
        BY <1>2, <3>1, PlaceWithin DEF WrittenInOrder
      <3>3. written'[Place(i)] = written[Place(i)]
        BY <3>2
      <3> QED
        BY <1>1, <3>1, <3>2, <3>3
    <2> QED
      BY <2>1, <2>2
  <1> QED
    BY <1>3, <1>4 DEF WrittenInOrder

LEMMA NonePassed ==
    ASSUME WrittenInOrder, NEW n \in Nat, Past = n, Past' = n, input' = input,
           written' = written, \A i \in 1..n : Due(i)' <=> Due(i)
    PROVE  WrittenInOrder'
  <1>1. \A i \in 0..n : Place(i)' = Place(i)
    BY PlaceSame
  <1> QED
    BY <1>1 DEF WrittenInOrder

\* What is under way, in the queues and in the writer's hand.
UnderWay ==
    /\ \A i \in 1..Len(elementQ) : elementQ[i] = input[Converted + i]
    /\ \A i \in 1..Len(featuresQ) : featuresQ[i].of = input[Taken + i]
    /\ wpc = "write" => feature.of = input[Taken]

LEMMA DropParts == NothingDropped <=> Past \in Nat /\ UnderWay /\ WrittenInOrder
  BY DEF NothingDropped, UnderWay, WrittenInOrder

LEMMA DropPartsNext == Past' \in Nat /\ UnderWay' /\ WrittenInOrder' => NothingDropped'
  <1>1. (Past \in Nat /\ UnderWay /\ WrittenInOrder => NothingDropped)'
    BY DropParts, PTL
  <1> QED
    BY <1>1

LEMMA InitDrop == Init => NothingDropped
  <1> SUFFICES ASSUME Init PROVE NothingDropped
    OBVIOUS
  <1>0. read = 0 /\ Len(elementQ) = 0 /\ Len(featuresQ) = 0 /\ wpc # "write"
    BY DEF Init
  <1>1. Past = 0 /\ UnderWay
    BY <1>0 DEF Past, Taken, Converted, UnderWay
  <1>2. WrittenInOrder
    BY <1>1, PlaceZero DEF Init, WrittenInOrder
  <1> QED
    BY <1>1, <1>2, DropParts

\* One by one, all that is read is past, and the next element is written or put off.
LEMMA StreamDrop ==
    ASSUME DropInv, TypeInv', WritePartial \/ PutOff, NEW n \in Nat, read = n
    PROVE  NothingDropped'
  <1>t. /\ TypeOK /\ Ways /\ NothingDropped /\ UnderWay /\ WrittenInOrder
        /\ written \in Seq(Feature) /\ putOff \subseteq 1..n
    BY DropParts DEF DropInv, TypeInv, TypeOK
  <1>1. /\ Reads("streaming") /\ n < Len(input) /\ read' = n + 1
        /\ UNCHANGED <<inputVars, threadVars, mpc>>
    BY DEF WritePartial, PutOff, Reads, WriteElement, Advance
  <1>2. /\ elementQ = <<>> /\ featuresQ = <<>> /\ wpc = "unborn" /\ input' = input
        /\ elementQ' = <<>> /\ featuresQ' = <<>> /\ wpc' = "unborn"
    BY <1>t, <1>1 DEF Ways, Reads, inputVars, threadVars
  <1>3. Past = n /\ Past' = n + 1
    BY <1>t, <1>1, <1>2 DEF Past, Taken, Converted
  <1>4. UnderWay'
    BY <1>2 DEF UnderWay
  <1>5. NextElement \in Element /\ NextElement = input[n + 1] /\ n + 1 \notin putOff
    BY <1>t, <1>1, NextTypes DEF NextElement
  <1>6. CASE WritePartial
    <2> DEFINE f == Translated(NextElement, cache')
               b == NextElement \in Tagged
    <2>1. f \in Feature /\ f.of = input[n + 1]
      BY <1>5, FeatureTypes DEF Translated
    <2>2. written' = written \o Output(f) /\ putOff' = putOff
      BY <1>6 DEF WritePartial, WriteElement
    <2>3. Output(f) = IF b THEN <<f>> ELSE <<>>
      BY DEF Output, Translated
    <2>4. (Due(n + 1)' <=> b) /\ \A i \in 1..n : Due(i)' <=> Due(i)
      BY <1>2, <1>5, <2>2 DEF Due
    <2> HIDE DEF f, b
    <2>5. written' = IF b THEN Append(written, f) ELSE written
      BY <1>t, <2>1, <2>2, <2>3
    <2>6. b \in BOOLEAN
      BY DEF b
    <2>7. WrittenInOrder'
      BY <1>t, <1>2, <1>3, <2>1, <2>4, <2>5, <2>6, OnePassed
    <2> QED
      BY <1>3, <1>4, <2>7, DropPartsNext
  <1>7. CASE PutOff
    <2> DEFINE f == [of |-> input[n + 1], whole |-> TRUE]
    <2>1. putOff' = putOff \cup {n + 1} /\ written' = written
      BY <1>7 DEF PutOff
    <2>2. ~Due(n + 1)' /\ \A i \in 1..n : Due(i)' <=> Due(i)
      BY <1>2, <2>1 DEF Due
    <2>3. f \in Feature /\ f.of = input[n + 1]
      BY <1>5 DEF Feature
    <2> HIDE DEF f
    <2>4. WrittenInOrder'
      BY <1>t, <1>2, <1>3, <2>1, <2>2, <2>3, OnePassed
    <2> QED
      BY <1>3, <1>4, <2>4, DropPartsNext
  <1> QED
    BY <1>6, <1>7

\* With threads an element is past when its feature is written; until then it moves
\* from the input through the queues without leaving its place in the row.
LEMMA ThreadDrop ==
    ASSUME DropInv, TypeInv', FillElementCache \/ StartThreads \/ Translator \/ Writer,
           NEW n \in Nat, Past = n
    PROVE  NothingDropped'
  <1>t. /\ TypeOK /\ Ways /\ UnderWay /\ WrittenInOrder
        /\ written \in Seq(Feature) /\ elementQ \in Seq(Element) /\ featuresQ \in Seq(Feature)
        /\ read \in Nat /\ Len(elementQ) \in Nat /\ Len(featuresQ) \in Nat
    BY DropParts DEF DropInv, TypeInv, TypeOK
  <1>s. input' = input /\ putOff' = putOff
    BY DEF FillElementCache, StartThreads, Translator, InitTranslator, Translate, SetFinished,
      EndTranslator, Writer, OpenWriter, TakeFeature, WriteFeature, Wake, inputVars
  <1>d. \A i \in 1..(n + 1) : Due(i)' <=> Due(i)
    BY <1>s DEF Due
  <1>1. ASSUME Past' = n, written' = written, UnderWay' PROVE NothingDropped'
    <2>1. WrittenInOrder'
      BY <1>t, <1>s, <1>d, <1>1, NonePassed
    <2> QED
      BY <1>1, <2>1, DropPartsNext
  <1>2. CASE FillElementCache
    <2>1. /\ read' = read + 1 /\ elementQ' = Append(elementQ, input[read + 1]) /\ written' = written
          /\ featuresQ' = featuresQ /\ wpc' = wpc /\ feature' = feature
      BY <1>2 DEF FillElementCache, Advance, NextElement
    <2>2. Len(elementQ') = Len(elementQ) + 1
      BY <1>t, <2>1
    <2>3. Converted' = Converted /\ Taken' = Taken /\ Past' = Past
      BY <1>t, <2>1, <2>2 DEF Converted, Taken, Past
    <2>4. ASSUME NEW i \in 1..Len(elementQ') PROVE elementQ'[i] = input[Converted + i]
      <3>1. CASE i = Len(elementQ) + 1
        <4>1. elementQ'[i] = input[read + 1] /\ Converted + i = read + 1
          BY <1>t, <2>1, <3>1 DEF Converted
        <4> QED
          BY <4>1
      <3>2. CASE i # Len(elementQ) + 1
        <4>1. i \in 1..Len(elementQ) /\ elementQ'[i] = elementQ[i]
          BY <1>t, <2>1, <2>2, <2>4, <3>2
        <4> QED
          BY <1>t, <4>1 DEF UnderWay
      <3> QED
        BY <3>1, <3>2
    <2>5. UnderWay'
      BY <1>t, <1>s, <2>1, <2>3, <2>4 DEF UnderWay
    <2> QED
      BY <1>1, <2>1, <2>3, <2>5
  <1>3. CASE StartThreads \/ InitTranslator \/ SetFinished \/ EndTranslator \/ OpenWriter \/ Wake
    <2>1. /\ UNCHANGED <<read, elementQ, featuresQ, feature, written>>
          /\ wpc' = "write" <=> wpc = "write"
      BY <1>t, <1>3 DEF StartThreads, InitTranslator, SetFinished, EndTranslator, OpenWriter, Wake, Ways
    <2>2. Converted' = Converted /\ Taken' = Taken /\ Past' = Past
      BY <2>1 DEF Converted, Taken, Past
    <2>3. UnderWay'
      BY <1>t, <1>s, <2>1, <2>2 DEF UnderWay
    <2> QED
      BY <1>1, <2>1, <2>2, <2>3
  <1>4. CASE Translate
    <2> DEFINE f == Translated(Head(elementQ), cache)
    <2>1. /\ elementQ # <<>> /\ elementQ' = Tail(elementQ) /\ featuresQ' = Append(featuresQ, f)
          /\ UNCHANGED <<read, wpc, feature, written>>
      BY <1>4 DEF Translate
    <2>2. f.of = input[Converted + 1] /\ f \in Feature
      <3>1. Head(elementQ) = elementQ[1] /\ 1 \in 1..Len(elementQ) /\ Head(elementQ) \in Element
        BY <1>t, <2>1
      <3> QED
        BY <1>t, <3>1, FeatureTypes DEF UnderWay, Translated
    <2> HIDE DEF f
    <2>3. Len(elementQ') = Len(elementQ) - 1 /\ Len(featuresQ') = Len(featuresQ) + 1
      BY <1>t, <2>1, <2>2
    <2>4. Converted' = Converted + 1 /\ Taken' = Taken /\ Past' = Past
      BY <1>t, <2>1, <2>3 DEF Converted, Taken, Past
    <2>5. ASSUME NEW i \in 1..Len(elementQ') PROVE elementQ'[i] = input[(Converted + 1) + i]
      <3>1. i + 1 \in 1..Len(elementQ) /\ elementQ'[i] = elementQ[i + 1]
        BY <1>t, <2>1, <2>3
      <3>2. elementQ[i + 1] = input[Converted + (i + 1)] /\ Converted + (i + 1) = (Converted + 1) + i
        BY <1>t, <3>1 DEF UnderWay, Converted
      <3> QED
        BY <3>1, <3>2
    <2>6. ASSUME NEW i \in 1..Len(featuresQ') PROVE featuresQ'[i].of = input[Taken + i]
      <3>1. CASE i = Len(featuresQ) + 1
        <4>1. featuresQ'[i] = f /\ Taken + i = Converted + 1
          BY <1>t, <2>1, <2>2, <3>1 DEF Converted, Taken
        <4> QED
          BY <2>2, <4>1
      <3>2. CASE i # Len(featuresQ) + 1
        <4>1. i \in 1..Len(featuresQ) /\ featuresQ'[i] = featuresQ[i]
          BY <1>t, <2>1, <2>2, <2>3, <2>6, <3>2
        <4> QED
          BY <1>t, <4>1 DEF UnderWay
      <3> QED
        BY <3>1, <3>2
    <2>7. UnderWay'
      BY <1>t, <1>s, <2>1, <2>4, <2>5, <2>6 DEF UnderWay
    <2> QED
      BY <1>1, <2>1, <2>4, <2>7
  <1>5. CASE TakeFeature
    <2>1. wpc = "take" /\ UNCHANGED <<read, elementQ, written>>
      BY <1>5 DEF TakeFeature
    <2>2. CASE featuresQ = <<>>
      <3>1. UNCHANGED <<featuresQ, feature>> /\ wpc' # "write"
        BY <1>5, <2>2 DEF TakeFeature
      <3>2. Converted' = Converted /\ Taken' = Taken /\ Past' = Past
        BY <2>1, <3>1 DEF Converted, Taken, Past
      <3>3. UnderWay'
        BY <1>t, <1>s, <2>1, <3>1, <3>2 DEF UnderWay
      <3> QED
        BY <1>1, <2>1, <3>2, <3>3
    <2>3. CASE featuresQ # <<>>
      <3>1. wpc' = "write" /\ feature' = Head(featuresQ) /\ featuresQ' = Tail(featuresQ)
        BY <1>5, <2>3 DEF TakeFeature
      <3>2. /\ Head(featuresQ) = featuresQ[1] /\ 1 \in 1..Len(featuresQ)
            /\ Len(featuresQ') = Len(featuresQ) - 1
        BY <1>t, <2>3, <3>1
      <3>3. Converted' = Converted /\ Taken' = Taken + 1 /\ Past' = Past
        <4>1. read' = read /\ elementQ' = elementQ
          BY <2>1
        <4>2. Converted' = Converted /\ Converted \in Int
          BY <1>t, <4>1 DEF Converted
        <4>3. Taken' = Taken + 1 /\ Taken \in Int
          BY <1>t, <3>2, <4>2 DEF Taken
        <4>4. Past' = Taken' - 1 /\ Past = Taken
          BY <2>1, <3>1 DEF Past
        <4> QED
          BY <4>2, <4>3, <4>4
      <3>4. feature'.of = input[Taken + 1]
        BY <1>t, <3>1, <3>2 DEF UnderWay
      <3>5. ASSUME NEW i \in 1..Len(featuresQ') PROVE featuresQ'[i].of = input[(Taken + 1) + i]
        <4>1. i + 1 \in 1..Len(featuresQ) /\ featuresQ'[i] = featuresQ[i + 1]
          BY <1>t, <2>3, <3>1, <3>2
        <4>2. featuresQ[i + 1].of = input[Taken + (i + 1)] /\ Taken + (i + 1) = (Taken + 1) + i
          BY <1>t, <4>1 DEF UnderWay, Taken, Converted
        <4> QED
          BY <4>1, <4>2
      <3>6. UnderWay'
        BY <1>t, <1>s, <2>1, <3>1, <3>3, <3>4, <3>5 DEF UnderWay
      <3> QED
        BY <1>1, <2>1, <3>3, <3>6
    <2> QED
      BY <2>2, <2>3
  <1>6. CASE WriteFeature
    <2>1. /\ mpc = "wait" /\ wpc = "write" /\ wpc' = "take" /\ written' = written \o Output(feature)
          /\ UNCHANGED <<read, elementQ, featuresQ>>
      BY <1>6 DEF WriteFeature
    <2>2. Converted' = Converted /\ Taken' = Taken /\ Past' = n + 1 /\ Taken = n + 1
      BY <1>t, <2>1 DEF Converted, Taken, Past
    <2>3. feature \in Feature /\ feature.of = input[n + 1] /\ putOff = {}
      BY <1>t, <2>1, <2>2 DEF Ways, UnderWay
    <2> DEFINE b == feature.of \in Tagged
    <2>4. Due(n + 1)' <=> b
      BY <1>s, <2>3 DEF Due
    <2>5. b \in BOOLEAN /\ \A i \in 1..n : Due(i)' <=> Due(i)
      BY <1>s DEF Due
    <2>6. written' = IF b THEN Append(written, feature) ELSE written
      BY <1>t, <2>1, <2>3 DEF Output
    <2> HIDE DEF b
    <2>7. WrittenInOrder'
      BY <1>t, <1>s, <2>2, <2>3, <2>4, <2>5, <2>6, OnePassed
    <2>8. UnderWay'
      BY <1>t, <1>s, <2>1, <2>2 DEF UnderWay
    <2> QED
      BY <2>2, <2>7, <2>8, DropPartsNext
  <1> QED
    BY <1>2, <1>3, <1>4, <1>5, <1>6 DEF Translator, Writer

\* Nothing else is done to what is read and written.
LEMMA OthersDrop ==
    ASSUME NothingDropped,
           UNCHANGED <<input, read, elementQ, featuresQ, wpc, feature, putOff, written>>
    PROVE  NothingDropped'
  <1>1. Converted' = Converted /\ Taken' = Taken /\ Past' = Past
    BY DEF Converted, Taken, Past
  <1>2. \A i \in Nat : Due(i)' <=> Due(i)
    BY DEF Due
  <1>3. Past \in Nat /\ UnderWay /\ WrittenInOrder
    BY DropParts
  <1>4. WrittenInOrder'
    BY <1>1, <1>2, <1>3, NonePassed
  <1>5. UnderWay'
    BY <1>1, <1>3 DEF UnderWay
  <1> QED
    BY <1>1, <1>3, <1>4, <1>5, DropPartsNext

LEMMA NextDrop == DropInv /\ [Next]_vars => DropInv'
  <1> SUFFICES ASSUME DropInv, [Next]_vars PROVE DropInv'
    OBVIOUS
  <1>1. TypeInv' /\ read \in Nat /\ Past \in Nat
    BY NextTyped DEF DropInv, TypeInv, TypeOK, NothingDropped
  <1>2. CASE WritePartial \/ PutOff
    BY <1>1, <1>2, StreamDrop DEF DropInv
  <1>3. CASE FillElementCache \/ StartThreads \/ Translator \/ Writer
    BY <1>1, <1>3, ThreadDrop DEF DropInv
  <1>4. CASE Refuse \/ FinishStream \/ Return \/ CrashStream \/ Abort \/ Over \/ UNCHANGED vars
    <2>1. UNCHANGED <<input, read, elementQ, featuresQ, wpc, feature, putOff, written>>
      BY <1>4 DEF Refuse, FinishStream, Return, CrashStream, Abort, Over, vars, inputVars, threadVars
    <2> QED
      BY <1>1, <2>1, OthersDrop DEF DropInv
  <1> QED
    BY <1>2, <1>3, <1>4 DEF Next, Caller

\* For any input and any cache, one by one or with threads: every element that is read,
\* has tags and is not put off is written once, in the order in which it was read, or is
\* under way in its place.
THEOREM EachWrittenOnce == Spec => []NothingDropped
  <1>1. Init => DropInv
    BY InitTypes, InitDrop DEF DropInv
  <1>2. DropInv => NothingDropped
    BY DEF DropInv
  <1> QED
    BY <1>1, <1>2, NextDrop, PTL DEF Spec

-----------------------------------------------------------------------------
(* What the cache holds, and what a geometry lacks. *)

\* The elements at these positions.
At(S) == {input[i] : i \in S}

\* What is cached has come, and as long as the cache was never full all that came is
\* there, unless it was put off.
HeldCame == \A k \in Kind : cache[k].held \subseteq At(CachedOf(k))
Full == ~Overflown => \A k \in Kind : cache[k].held = At(CachedOf(k))

\* One by one, what is cached has been cached with all its parts.
KeepsParts ==
    mode = "streaming" /\ ~Overflown =>
      \A x \in Cached(cache) : Parts(x) \subseteq Cached(cache)

Excused(f) ==
    ~f.whole => IF mode = "streaming" THEN Overflown /\ f.of \in Relation
                ELSE Overflown \/ ~Complete

AllExcused ==
    /\ \A i \in 1..Len(featuresQ) : Excused(featuresQ[i])
    /\ \A i \in 1..Len(written) : Excused(written[i])
    /\ wpc = "write" => Excused(feature)

TornInv == DropInv /\ HeldCame /\ Full /\ KeepsParts /\ AllExcused

\* There are no more values than places.
LEMMA ImageSize ==
    ASSUME NEW S, IsFiniteSet(S), NEW f, NEW T, T \subseteq {f[i] : i \in S}
    PROVE  IsFiniteSet(T) /\ Cardinality(T) <= Cardinality(S)
  <1> DEFINE g == [i \in S |-> f[i]]
             R == {f[i] : i \in S}
  <1>1. g \in Surjection(S, R)
    BY DEF Surjection
  <1> HIDE DEF g, R
  <1>2. IsFiniteSet(R) /\ Cardinality(R) <= Cardinality(S)
    BY <1>1, FS_Surjection
  <1>3. IsFiniteSet(T) /\ Cardinality(T) <= Cardinality(R)
    BY <1>2, FS_Subset DEF R
  <1>4. Cardinality(T) \in Nat /\ Cardinality(R) \in Nat /\ Cardinality(S) \in Nat
    BY <1>2, <1>3, FS_CardinalityType
  <1> QED
    BY <1>2, <1>3, <1>4

\* A geometry whose element is held together with all that is below it lacks nothing.
LEMMA NothingLacks ==
    ASSUME NEW H, H \subseteq Element, NEW e \in H, \A x \in H : Parts(x) \subseteq H
    PROVE  Missing(e, H) \cup Skipped(e, H) = {}
  <1> DEFINE B == Below(e, H \cap Relation)
  <1>k. Node \cap Way = {} /\ Node \cap Relation = {} /\ Way \cap Relation = {} /\ e \in Element
    BY ConversionAssumption
  <1>1. CASE e \in Node
    BY <1>k, <1>1 DEF Missing, Skipped
  <1>2. CASE e \in Way
    <2>1. ToSet(WayNodes[e]) \subseteq H
      BY <1>k, <1>2 DEF Parts
    <2> QED
      BY <1>k, <1>2, <2>1 DEF Missing, Skipped
  <1>3. CASE e \in Relation
    <2>1. B \subseteq H \cap Relation
      BY <1>3 DEF Below
    <2> HIDE DEF B
    <2>2. ASSUME NEW r \in B, NEW S PROVE Of(r, S) \subseteq H
      <3>1. r \in H /\ r \in Relation /\ r \notin Node /\ r \notin Way
        BY <1>k, <2>1
      <3>2. Parts(r) = ToSet(Members[r])
        BY <3>1 DEF Parts
      <3> QED
        BY <3>1, <3>2 DEF Of
    <2>3. ASSUME NEW x \in Way \cap H PROVE ToSet(WayNodes[x]) \subseteq H
      <3>1. Parts(x) = ToSet(WayNodes[x])
        BY <1>k DEF Parts
      <3> QED
        BY <3>1
    <2>4. Skipped(e, H) = {}
      BY <2>2 DEF Skipped, B
    <2> DEFINE P == UNION {Of(r, Way \cup Relation) : r \in B}
    <2>5. P \subseteq H
      BY <2>2
    <2>6. Missing(e, H) = CASE Shape[e] = "none" -> {}
            [] Shape[e] = "line" -> ({e} \cup (UNION {ToSet(WayNodes[x]) : x \in P \cap Way \cap H})) \ H
            [] Shape[e] = "area" -> (P \cup (UNION {ToSet(WayNodes[x]) : x \in P \cap Way \cap H})) \ H
      BY <1>k, <1>3 DEF Missing, B
    <2>7. UNION {ToSet(WayNodes[x]) : x \in P \cap Way \cap H} \subseteq H
      BY <2>3
    <2>8. Shape[e] \in {"area", "line", "none"}
      BY <1>3, ConversionAssumption
    <2> HIDE DEF P
    <2>9. Missing(e, H) = {}
      BY <2>5, <2>6, <2>7, <2>8
    <2> QED
      BY <2>4, <2>9
  <1> QED
    BY <1>k, <1>1, <1>2, <1>3 DEF Element

\* What the cache holds after an element has been added.
LEMMA HeldAfter ==
    ASSUME NEW c, NEW e, NEW max
    PROVE  /\ AddElement(c, e, max).held \subseteq c.held \cup {e}
           /\ Cardinality(c.held) # max => AddElement(c, e, max).held = c.held \cup {e}
  BY DEF AddElement, RemoveOldest

LEMMA CameFinite ==
    ASSUME TypeInv, NEW k \in Kind
    PROVE  /\ IsFiniteSet(CameOf(k)) /\ IsFiniteSet(CachedOf(k))
           /\ Cardinality(CameOf(k)) \in Nat /\ Cardinality(CachedOf(k)) \in Nat
           /\ Cardinality(CachedOf(k)) <= Cardinality(CameOf(k))
  <1>1. IsFiniteSet(1..read) /\ CameOf(k) \subseteq 1..read /\ CachedOf(k) \subseteq CameOf(k)
    <2>1. read \in Nat
      BY DEF TypeInv, TypeOK
    <2> QED
      BY <2>1, FS_Interval DEF CameOf, CachedOf
  <1>2. IsFiniteSet(CameOf(k))
    BY <1>1, FS_Subset
  <1> QED
    BY <1>1, <1>2, FS_Subset, FS_CardinalityType

\* The positions after the next element has been read.
LEMMA CameNext ==
    ASSUME TypeInv, NEW n \in Nat, read = n, n < Len(input), read' = n + 1, input' = input,
           NEW k \in Kind
    PROVE  /\ CameOf(k)' = IF KindOf(NextElement) = k THEN CameOf(k) \cup {n + 1} ELSE CameOf(k)
           /\ n + 1 \notin CameOf(k)
           /\ putOff' = putOff =>
                CachedOf(k)' = IF KindOf(NextElement) = k THEN CachedOf(k) \cup {n + 1} ELSE CachedOf(k)
           /\ putOff' = putOff \cup {n + 1} => CachedOf(k)' = CachedOf(k)
           /\ Cardinality(CameOf(k)') =
                Cardinality(CameOf(k)) + (IF KindOf(NextElement) = k THEN 1 ELSE 0)
  <1>1. 1..(n + 1) = 1..n \cup {n + 1} /\ n + 1 \notin 1..n
    OBVIOUS
  <1>2. NextElement = input[n + 1] /\ putOff \subseteq 1..n
    BY DEF NextElement, TypeInv, TypeOK
  <1>3. /\ CameOf(k)' = IF KindOf(NextElement) = k THEN CameOf(k) \cup {n + 1} ELSE CameOf(k)
        /\ n + 1 \notin CameOf(k)
    BY <1>1, <1>2 DEF CameOf, KindOf
  <1>4. /\ putOff' = putOff =>
             CachedOf(k)' = IF KindOf(NextElement) = k THEN CachedOf(k) \cup {n + 1} ELSE CachedOf(k)
        /\ putOff' = putOff \cup {n + 1} => CachedOf(k)' = CachedOf(k)
    BY <1>1, <1>2, <1>3 DEF CachedOf
  <1>5. IsFiniteSet(CameOf(k)) /\ Cardinality(CameOf(k)) \in Nat
    BY CameFinite
  <1>6. Cardinality(CameOf(k) \cup {n + 1}) = Cardinality(CameOf(k)) + 1
    BY <1>3, <1>5, FS_AddElement
  <1> QED
    BY <1>3, <1>4, <1>5, <1>6

\* What has overflown stays so.
LEMMA OverflownStays ==
    ASSUME TypeInv, NEW n \in Nat, read = n, n < Len(input), read' = n + 1, input' = input,
           limits' = limits
    PROVE  Overflown => Overflown'
  <1> SUFFICES ASSUME NEW k \in Kind, Cardinality(CameOf(k)) > limits[k]
               PROVE  Cardinality(CameOf(k)') > limits[k]
    BY DEF Overflown
  <1>1. Cardinality(CameOf(k)) \in Nat /\ limits[k] \in Nat
    BY CameFinite, ConversionAssumption DEF TypeInv, TypeOK
  <1> QED
    BY <1>1, CameNext

\* Another element in the cache: nothing is thrown out for it while there was room.
LEMMA CacheAdds ==
    ASSUME TypeInv, HeldCame, Full, NEW n \in Nat, read = n, n < Len(input), read' = n + 1,
           UNCHANGED <<input, limits, putOff>>, cache' = Added(NextElement)
    PROVE  /\ HeldCame' /\ Full'
           /\ ~Overflown' => Cached(cache') = Cached(cache) \cup {NextElement}
  <1>e. PICK e : e = NextElement
    OBVIOUS
  <1>q. PICK q : q = KindOf(e)
    OBVIOUS
  <1> DEFINE new == AddElement(cache[q], e, limits[q])
  <1>1. /\ e = input[n + 1] /\ q \in Kind /\ limits[q] \in Nat \ {0} /\ TypeOK
        /\ cache \in [Kind -> Entry]
    BY <1>e, <1>q, NextTypes DEF TypeInv, TypeOK, NextElement, Entry
  <1>2. \A k \in Kind : cache'[k] = IF k = q THEN new ELSE cache[k]
    BY <1>e, <1>q, <1>1 DEF Added
  <1>3. /\ new.held \subseteq cache[q].held \cup {e}
        /\ Cardinality(cache[q].held) # limits[q] => new.held = cache[q].held \cup {e}
    BY HeldAfter
  <1>4. \A k \in Kind : At(CachedOf(k))' = IF k = q THEN At(CachedOf(k)) \cup {e} ELSE At(CachedOf(k))
    <2> TAKE k \in Kind
    <2>1. At(CachedOf(k))' = {input[i] : i \in CachedOf(k)'}
      BY DEF At
    <2>2. CachedOf(k)' = IF q = k THEN CachedOf(k) \cup {n + 1} ELSE CachedOf(k)
      BY <1>e, <1>q, CameNext
    <2> QED
      BY <1>1, <2>1, <2>2 DEF At
  <1> HIDE DEF new
  <1>5. HeldCame'
    <2> SUFFICES ASSUME NEW k \in Kind PROVE cache'[k].held \subseteq At(CachedOf(k))'
      BY DEF HeldCame
    <2> QED
      BY <1>2, <1>3, <1>4 DEF HeldCame
  <1>6. ASSUME ~Overflown'
        PROVE  \A k \in Kind : cache'[k].held = IF k = q THEN cache[k].held \cup {e} ELSE cache[k].held
    <2>1. Cardinality(CameOf(q)') <= limits[q]
      <3>1. ~(Cardinality(CameOf(q)') > limits'[q])
        BY <1>1, <1>6 DEF Overflown
      <3>2. Cardinality(CameOf(q)') \in Nat
        BY <1>e, <1>q, <1>1, CameNext, CameFinite
      <3> QED
        BY <1>1, <3>1, <3>2
    <2>2. Cardinality(CameOf(q)') = Cardinality(CameOf(q)) + 1 /\ Cardinality(CameOf(q)) \in Nat
      BY <1>e, <1>q, <1>1, CameNext, CameFinite
    <2>3. Cardinality(cache[q].held) <= Cardinality(CachedOf(q))
          /\ IsFiniteSet(cache[q].held)
      BY <1>1, CameFinite, ImageSize DEF HeldCame, At
    <2>4. Cardinality(cache[q].held) # limits[q]
      BY <1>1, <2>1, <2>2, <2>3, CameFinite, FS_CardinalityType
    <2> QED
      BY <1>2, <1>3, <2>4
  <1>7. Full'
    <2> SUFFICES ASSUME ~Overflown', NEW k \in Kind PROVE cache'[k].held = At(CachedOf(k))'
      BY DEF Full
    <2>1. ~Overflown
      BY OverflownStays
    <2> QED
      BY <1>4, <1>6, <2>1 DEF Full
  <1>8. ASSUME ~Overflown' PROVE Cached(cache') = Cached(cache) \cup {e}
    <2>1. \A x : x \in Cached(cache') <=> \E k \in Kind : x \in cache'[k].held
      BY DEF Cached
    <2>2. \A x : x \in Cached(cache) <=> \E k \in Kind : x \in cache[k].held
      BY DEF Cached
    <2>3. \A k \in Kind : \A x :
            x \in cache'[k].held <=> x \in cache[k].held \/ (k = q /\ x = e)
      BY <1>6, <1>8
    <2>4. q \in Kind
      BY <1>1
    <2>5. \A x : x \in Cached(cache') <=> x \in Cached(cache) \/ x = e
      BY <2>1, <2>2, <2>3, <2>4
    <2> QED
      BY <2>5
  <1> QED
    BY <1>e, <1>5, <1>7, <1>8

LEMMA ExcusedStays ==
    ASSUME mode' = mode, input' = input, Overflown => Overflown', NEW f, Excused(f)
    PROVE  Excused(f)'
  <1>1. Complete' <=> Complete
    BY DEF Complete
  <1> QED
    BY <1>1 DEF Excused

\* What is cached is known by kind.
LEMMA HeldIsCached ==
    ASSUME NEW x \in Element, Held(x)
    PROVE  x \in Cached(cache)
  BY Kinds DEF Held, ContainsElement, Cached

\* One by one an element is cached when its parts are, so its geometry lacks something
\* only if they, or theirs, have been thrown out again.
LEMMA StreamTorn ==
    ASSUME TornInv, WritePartial, NEW n \in Nat, read = n
    PROVE  HeldCame' /\ Full' /\ KeepsParts' /\ AllExcused'
  <1>e. PICK e : e = NextElement
    OBVIOUS
  <1>t. /\ TypeInv /\ TypeOK /\ Ways /\ HeldCame /\ Full /\ KeepsParts /\ AllExcused
        /\ written \in Seq(Feature) /\ cache \in [Kind -> Entry]
    BY DEF TornInv, DropInv, TypeInv, TypeOK, Entry
  <1>1. /\ mode = "streaming" /\ n < Len(input) /\ read' = n + 1 /\ cache' = Added(e)
        /\ UNCHANGED <<mode, input, limits, putOff, featuresQ, wpc>>
        /\ written' = written \o Output(Translated(e, cache'))
    BY <1>e DEF WritePartial, Reads, WriteElement, Advance, inputVars, threadVars
  <1>2. featuresQ = <<>> /\ wpc = "unborn"
    BY <1>t, <1>1 DEF Ways
  <1>3. HeldCame' /\ Full' /\ (~Overflown' => Cached(cache') = Cached(cache) \cup {e})
    BY <1>e, <1>t, <1>1, CacheAdds
  <1>4. Overflown => Overflown'
    BY <1>t, <1>1, OverflownStays
  <1>5. e \in Element
    BY <1>e, <1>t, <1>1, NextTypes
  <1>k. Node \cap Way = {} /\ Node \cap Relation = {} /\ Way \cap Relation = {}
    BY ConversionAssumption
  <1>6. e \in Way => \A x \in ToSet(WayNodes[e]) : x \in Node /\ Held(x)
    <2>1. e \in Way => ToSet(WayNodes[e]) \subseteq Node
      BY ConversionAssumption DEF ToSet
    <2> QED
      BY <1>e, <2>1 DEF WritePartial, Fits
  <1>7. e \in Relation => \A x \in ToSet(Members[e]) : x \in Element /\ Held(x)
    <2> SUFFICES ASSUME e \in Relation, NEW x \in ToSet(Members[e]) PROVE x \in Element /\ Held(x)
      OBVIOUS
    <2>1. PICK i \in DOMAIN Members[e] : x = Members[e][i]
      BY DEF ToSet
    <2>2. x \in Element
      BY <2>1, ConversionAssumption
    <2>3. ~Lacks(e, i)
      BY <1>e DEF WritePartial
    <2> QED
      BY <2>1, <2>2, <2>3 DEF Lacks
  <1>8. Parts(e) \subseteq Cached(cache)
    BY <1>5, <1>k, <1>6, <1>7, HeldIsCached DEF Parts, Element
  <1>9. ASSUME ~Overflown'
        PROVE  e \in Cached(cache') /\ \A x \in Cached(cache') : Parts(x) \subseteq Cached(cache')
    BY <1>t, <1>1, <1>3, <1>4, <1>8, <1>9 DEF KeepsParts
  <1>10. KeepsParts'
    BY <1>9 DEF KeepsParts
  <1>11. Cached(cache') \subseteq Element
    <2>1. Added(e) \in [Kind -> Entry]
      BY <1>e, <1>t, <1>1, NextTypes
    <2> QED
      BY <1>1, <2>1 DEF Cached, Entry
  <1>12. e \notin Relation => Missing(e, Cached(cache')) \cup Skipped(e, Cached(cache')) = {}
    <2>1. CASE e \in Node
      BY <1>k, <2>1 DEF Missing, Skipped
    <2>2. CASE e \in Way
      <3>1. KindOf(e) = "way"
        BY <1>5, <2>2, Kinds
      <3>2. cache'["node"] = cache["node"] /\ "node" \in Kind
        BY <1>t, <1>1, <3>1 DEF Added, Kind
      <3>3. \A x \in ToSet(WayNodes[e]) : x \in cache["node"].held
        <4>1. \A x \in Node : KindOf(x) = "node"
          BY Kinds DEF Element
        <4> QED
          BY <1>6, <2>2, <4>1 DEF Held, ContainsElement
      <3>4. ToSet(WayNodes[e]) \subseteq Cached(cache')
        BY <3>2, <3>3 DEF Cached
      <3> QED
        BY <1>k, <2>2, <3>4 DEF Missing, Skipped
    <2> QED
      BY <1>5, <2>1, <2>2 DEF Element
  <1>f. PICK f : f = Translated(e, cache')
    OBVIOUS
  <1>13. Excused(f)'
    <2>1. CASE e \in Relation /\ Overflown'
      <3>1. f.of = e /\ mode' = "streaming"
        BY <1>f, <1>1 DEF Translated
      <3> QED
        BY <2>1, <3>1 DEF Excused
    <2>2. CASE ~(e \in Relation /\ Overflown')
      <3>1. Missing(e, Cached(cache')) \cup Skipped(e, Cached(cache')) = {}
        BY <1>9, <1>11, <1>12, <2>2, NothingLacks
      <3>2. f.whole
        BY <1>f, <3>1 DEF Translated
      <3> QED
        BY <3>2 DEF Excused
    <2> QED
      BY <2>1, <2>2
  <1>14. f \in Feature
    BY <1>5, <1>f, FeatureTypes
  <1>15. written' = IF e \in Tagged THEN Append(written, f) ELSE written
    <2>1. Output(f) = IF e \in Tagged THEN <<f>> ELSE <<>>
      BY <1>f DEF Output, Translated
    <2>2. written' = written \o Output(f) /\ written \in Seq(Feature)
      BY <1>f, <1>t, <1>1
    <2>3. written \o <<f>> = Append(written, f) /\ written \o <<>> = written
      BY <1>14, <2>2
    <2> QED
      BY <2>1, <2>2, <2>3
  <1>16. ASSUME NEW i \in 1..Len(written') PROVE Excused(written[i])'
    <2>1. CASE written'[i] = f
      BY <1>13, <2>1 DEF Excused
    <2>2. CASE written'[i] # f
      <3>1. i \in 1..Len(written) /\ written'[i] = written[i]
        BY <1>t, <1>14, <1>15, <1>16, <2>2
      <3>2. PICK g : g = written[i]
        OBVIOUS
      <3>3. Excused(g)
        BY <1>t, <3>1, <3>2 DEF AllExcused
      <3>4. Excused(g)'
        BY <1>1, <1>4, <3>3, ExcusedStays
      <3> QED
        BY <3>1, <3>2, <3>4 DEF Excused
    <2> QED
      BY <2>1, <2>2
  <1>17. AllExcused'
    BY <1>1, <1>2, <1>16 DEF AllExcused
  <1> QED
    BY <1>3, <1>10, <1>17

\* A relation that is put off changes nothing but what has come.
LEMMA PutOffTorn ==
    ASSUME TornInv, PutOff, NEW n \in Nat, read = n
    PROVE  HeldCame' /\ Full' /\ KeepsParts' /\ AllExcused'
  <1>t. TypeInv /\ HeldCame /\ Full /\ KeepsParts /\ AllExcused
    BY DEF TornInv, DropInv
  <1>1. /\ n < Len(input) /\ read' = n + 1 /\ putOff' = putOff \cup {n + 1}
        /\ UNCHANGED <<mode, input, limits, cache, featuresQ, wpc, feature, written>>
    BY DEF PutOff, Reads, Advance, inputVars, threadVars
  <1>2. Overflown => Overflown'
    BY <1>t, <1>1, OverflownStays
  <1>3. \A k \in Kind : At(CachedOf(k))' = At(CachedOf(k))
    BY <1>t, <1>1, CameNext DEF At
  <1>4. HeldCame' /\ Full'
    BY <1>t, <1>1, <1>2, <1>3 DEF HeldCame, Full
  <1>5. KeepsParts'
    BY <1>t, <1>1, <1>2 DEF KeepsParts
  <1>6. \A f : Excused(f) => Excused(f)'
    BY <1>1, <1>2, ExcusedStays
  <1>7. AllExcused'
    BY <1>t, <1>1, <1>6 DEF AllExcused, Excused
  <1> QED
    BY <1>4, <1>5, <1>7

LEMMA FillTorn ==
    ASSUME TornInv, FillElementCache, NEW n \in Nat, read = n
    PROVE  HeldCame' /\ Full' /\ KeepsParts' /\ AllExcused'
  <1>t. TypeInv /\ HeldCame /\ Full /\ KeepsParts /\ AllExcused
    BY DEF TornInv, DropInv
  <1>1. /\ mode = "multithreaded" /\ n < Len(input) /\ read' = n + 1 /\ cache' = Added(NextElement)
        /\ UNCHANGED <<mode, input, limits, putOff, featuresQ, wpc, feature, written>>
    BY DEF FillElementCache, Reads, Advance, inputVars
  <1>2. Overflown => Overflown'
    BY <1>t, <1>1, OverflownStays
  <1>3. HeldCame' /\ Full'
    BY <1>t, <1>1, CacheAdds
  <1>4. KeepsParts'
    BY <1>1 DEF KeepsParts
  <1>5. \A f : Excused(f) => Excused(f)'
    BY <1>1, <1>2, ExcusedStays
  <1>6. AllExcused'
    BY <1>t, <1>1, <1>5 DEF AllExcused, Excused
  <1> QED
    BY <1>3, <1>4, <1>6

\* With threads, all that is to be had is cached before the first geometry is made.
LEMMA TranslateExcused ==
    ASSUME TornInv, Translate
    PROVE  Excused(Translated(Head(elementQ), cache))
  <1>t. /\ TypeInv /\ TypeOK /\ Ways /\ Full /\ NothingDropped /\ UnderWay
        /\ input \in Seq(Element) /\ elementQ \in Seq(Element) /\ featuresQ \in Seq(Feature)
        /\ cache \in [Kind -> Entry]
    BY DropParts, ConversionAssumption DEF TornInv, DropInv, TypeInv, TypeOK, Entry
  <1>1. /\ mode = "multithreaded" /\ read = Len(input) /\ putOff = {} /\ elementQ # <<>>
    BY <1>t DEF Translate, Ways
  <1> DEFINE e == Head(elementQ)
             H == Cached(cache)
  <1>2. SUFFICES ASSUME ~Overflown, Complete
                 PROVE  Missing(e, H) \cup Skipped(e, H) = {}
    BY <1>1 DEF Excused, Translated
  <1>3. \A k \in Kind : cache[k].held = {input[i] : i \in {j \in 1..Len(input) : KindOf(input[j]) = k}}
    BY <1>t, <1>1, <1>2 DEF Full, At, CachedOf, CameOf
  <1>4. \A i \in 1..Len(input) : input[i] \in Element /\ KindOf(input[i]) \in Kind
    BY <1>t, Kinds
  <1>5. H = ToSet(input)
    <2>1. ToSet(input) = {input[i] : i \in 1..Len(input)}
      BY <1>t DEF ToSet
    <2>2. ASSUME NEW x \in H PROVE x \in ToSet(input)
      BY <1>3, <2>1, <2>2 DEF Cached
    <2>3. ASSUME NEW i \in 1..Len(input) PROVE input[i] \in H
      <3>1. input[i] \in cache[KindOf(input[i])].held
        BY <1>3, <1>4
      <3> QED
        BY <1>4, <3>1 DEF Cached
    <2> QED
      BY <2>1, <2>2, <2>3
  <1>6. e \in ToSet(input)
    <2>1. e = elementQ[1] /\ 1 \in 1..Len(elementQ) /\ Len(elementQ) \in Nat /\ Len(featuresQ) \in Nat
      BY <1>t, <1>1
    <2>2. e = input[Converted + 1]
      BY <1>t, <2>1 DEF UnderWay
    <2>3. Past \in Nat /\ Past <= Converted
      BY <1>t, <2>1 DEF NothingDropped, Past, Taken, Converted, TypeOK
    <2>4. Converted + 1 \in 1..Len(input)
      BY <1>t, <1>1, <2>1, <2>3 DEF Converted
    <2>5. Converted + 1 \in DOMAIN input
      BY <1>t, <2>4
    <2> QED
      BY <2>2, <2>5 DEF ToSet
  <1>7. ToSet(input) \subseteq Element
    BY <1>t, <1>4 DEF ToSet
  <1>8. \A x \in ToSet(input) : Parts(x) \subseteq ToSet(input)
    BY <1>2 DEF Complete
  <1> HIDE DEF e, H
  <1> QED
    BY <1>5, <1>6, <1>7, <1>8, NothingLacks

LEMMA ThreadTorn ==
    ASSUME TornInv, Translator \/ Writer \/ StartThreads
    PROVE  HeldCame' /\ Full' /\ KeepsParts' /\ AllExcused'
  <1>t. /\ TypeInv /\ HeldCame /\ Full /\ KeepsParts /\ AllExcused
        /\ featuresQ \in Seq(Feature) /\ written \in Seq(Feature) /\ elementQ \in Seq(Element) /\ Ways
    BY DEF TornInv, DropInv, TypeInv, TypeOK
  <1>1. UNCHANGED <<mode, input, limits, read, cache, putOff>>
    BY DEF StartThreads, Translator, InitTranslator, Translate, SetFinished, EndTranslator, Writer,
      OpenWriter, TakeFeature, WriteFeature, Wake, inputVars
  <1>2. (Overflown' <=> Overflown) /\ \A k \in Kind : CachedOf(k)' = CachedOf(k)
    BY <1>1 DEF Overflown, CachedOf, CameOf
  <1>3. HeldCame' /\ Full' /\ KeepsParts'
    BY <1>t, <1>1, <1>2 DEF HeldCame, Full, KeepsParts, At
  <1>4. \A f : Excused(f) => Excused(f)'
    BY <1>1, <1>2, ExcusedStays
  <1>5. CASE StartThreads \/ InitTranslator \/ SetFinished \/ EndTranslator \/ OpenWriter \/ Wake
    <2>1. /\ UNCHANGED <<featuresQ, feature, written>>
          /\ wpc' # "write" \/ wpc' = wpc
      BY <1>5 DEF StartThreads, InitTranslator, SetFinished, EndTranslator, OpenWriter, Wake
    <2>2. AllExcused'
      BY <1>t, <1>4, <2>1 DEF AllExcused, Excused
    <2> QED
      BY <1>3, <2>2
  <1>6. CASE Translate
    <2>1. PICK f : f = Translated(Head(elementQ), cache)
      OBVIOUS
    <2>2. f \in Feature /\ featuresQ' = Append(featuresQ, f) /\ UNCHANGED <<wpc, feature, written>>
      BY <1>t, <1>6, <2>1, FeatureTypes DEF Translate
    <2>3. Excused(f)'
      BY <1>4, <1>6, <2>1, TranslateExcused
    <2>4. ASSUME NEW i \in 1..Len(featuresQ') PROVE Excused(featuresQ[i])'
      <3>1. CASE featuresQ'[i] = f
        BY <2>3, <3>1 DEF Excused
      <3>2. CASE featuresQ'[i] # f
        <4>1. i \in 1..Len(featuresQ) /\ featuresQ'[i] = featuresQ[i]
          BY <1>t, <2>2, <2>4, <3>2
        <4> QED
          BY <1>t, <1>4, <4>1 DEF AllExcused, Excused
      <3> QED
        BY <3>1, <3>2
    <2>5. AllExcused'
      BY <1>t, <1>4, <2>2, <2>4 DEF AllExcused, Excused
    <2> QED
      BY <1>3, <2>5
  <1>7. CASE TakeFeature
    <2>1. CASE featuresQ = <<>>
      <3>1. UNCHANGED <<featuresQ, feature, written>> /\ wpc' # "write"
        BY <1>7, <2>1 DEF TakeFeature
      <3> QED
        BY <1>t, <1>3, <1>4, <3>1 DEF AllExcused, Excused
    <2>2. CASE featuresQ # <<>>
      <3>1. feature' = Head(featuresQ) /\ featuresQ' = Tail(featuresQ) /\ written' = written
        BY <1>7, <2>2 DEF TakeFeature
      <3>2. /\ Head(featuresQ) = featuresQ[1] /\ 1 \in 1..Len(featuresQ)
            /\ \A i \in 1..Len(featuresQ') : i + 1 \in 1..Len(featuresQ) /\ featuresQ'[i] = featuresQ[i + 1]
        BY <1>t, <2>2, <3>1
      <3> QED
        BY <1>t, <1>3, <1>4, <3>1, <3>2 DEF AllExcused, Excused
    <2> QED
      BY <2>1, <2>2
  <1>8. CASE WriteFeature
    <2>1. /\ featuresQ' = featuresQ /\ wpc' # "write" /\ wpc = "write"
          /\ written' = written \o Output(feature)
      BY <1>8 DEF WriteFeature
    <2>2. feature \in Feature /\ Excused(feature)
      BY <1>t, <2>1 DEF Ways, AllExcused
    <2>3. ASSUME NEW i \in 1..Len(written') PROVE Excused(written[i])'
      <3>1. written' \in {written, Append(written, feature)}
        BY <1>t, <2>1, <2>2 DEF Output
      <3>2. written'[i] = feature \/ (i \in 1..Len(written) /\ written'[i] = written[i])
        BY <1>t, <2>2, <2>3, <3>1
      <3>3. CASE written'[i] = feature
        BY <1>4, <2>2, <3>3 DEF Excused
      <3>4. CASE i \in 1..Len(written) /\ written'[i] = written[i]
        BY <1>t, <1>4, <3>4 DEF AllExcused, Excused
      <3> QED
        BY <3>2, <3>3, <3>4
    <2>4. AllExcused'
      BY <1>t, <1>4, <2>1, <2>3 DEF AllExcused, Excused
    <2> QED
      BY <1>3, <2>4
  <1> QED
    BY <1>5, <1>6, <1>7, <1>8 DEF Translator, Writer

LEMMA NextTorn == TornInv /\ [Next]_vars => TornInv'
  <1> SUFFICES ASSUME TornInv, [Next]_vars PROVE TornInv'
    OBVIOUS
  <1>0. DropInv /\ DropInv' /\ HeldCame /\ Full /\ KeepsParts /\ AllExcused /\ read \in Nat
    BY NextDrop DEF TornInv, DropInv, TypeInv, TypeOK
  <1>1. CASE WritePartial
    BY <1>0, <1>1, StreamTorn DEF TornInv
  <1>2. CASE PutOff
    BY <1>0, <1>2, PutOffTorn DEF TornInv
  <1>3. CASE FillElementCache
    BY <1>0, <1>3, FillTorn DEF TornInv
  <1>4. CASE StartThreads \/ Translator \/ Writer
    BY <1>0, <1>4, ThreadTorn DEF TornInv
  <1>5. CASE Refuse \/ FinishStream \/ Return \/ CrashStream \/ Abort \/ Over \/ UNCHANGED vars
    <2>1. UNCHANGED <<mode, input, limits, read, cache, putOff, featuresQ, wpc, feature, written>>
      BY <1>5 DEF Refuse, FinishStream, Return, CrashStream, Abort, Over, vars, inputVars, threadVars
    <2>2. (Overflown' <=> Overflown) /\ \A k \in Kind : CachedOf(k)' = CachedOf(k)
      BY <2>1 DEF Overflown, CachedOf, CameOf
    <2>3. \A f : Excused(f) => Excused(f)'
      BY <2>1, <2>2, ExcusedStays
    <2>4. HeldCame' /\ Full' /\ KeepsParts'
      BY <1>0, <2>1, <2>2 DEF HeldCame, Full, KeepsParts, At
    <2>5. AllExcused'
      BY <1>0, <2>1, <2>3 DEF AllExcused, Excused
    <2> QED
      BY <1>0, <2>4, <2>5 DEF TornInv
  <1> QED
    BY <1>1, <1>2, <1>3, <1>4, <1>5 DEF Next, Caller

LEMMA InitTorn == Init => TornInv
  <1> SUFFICES ASSUME Init PROVE TornInv
    OBVIOUS
  <1>1. DropInv
    BY InitTypes, InitDrop DEF DropInv
  <1>2. \A k \in Kind : cache[k].held = {} /\ CachedOf(k) = {}
    BY DEF Init, Empty, CachedOf, CameOf
  <1>3. HeldCame /\ Full /\ KeepsParts
    BY <1>2 DEF HeldCame, Full, KeepsParts, Cached, At
  <1>4. Len(featuresQ) = 0 /\ Len(written) = 0 /\ wpc # "write"
    BY DEF Init
  <1>5. AllExcused
    BY <1>4 DEF AllExcused
  <1> QED
    BY <1>1, <1>3, <1>5 DEF TornInv

\* For any input, any shapes and any cache: a geometry that is written and is not its
\* element's is a relation's after the cache has been too small, or, with threads, one
\* of an incomplete input or after the cache has been too small.
THEOREM TornOnlyForAReason == Spec => []TornForAReason
  <1>1. TornInv => TornForAReason
    <2> SUFFICES ASSUME TornInv, NEW i \in DOMAIN written
                 PROVE  Excused(written[i])
      BY DEF TornForAReason, Excused
    <2>1. i \in 1..Len(written)
      BY DEF TornInv, DropInv, TypeInv, TypeOK
    <2> QED
      BY <2>1 DEF TornInv, AllExcused
  <1> QED
    BY InitTorn, NextTorn, <1>1, PTL DEF Spec

-----------------------------------------------------------------------------
(* The cache as a window on the input. *)

\* How many of S are no earlier than i.
AgeIn(S, i) == Cardinality({j \in S : i <= j})
Smaller(m, n) == IF m < n THEN m ELSE n

\* An entry of the cache that holds the last of f at the positions S, each once.
Window(c, S, f, max) ==
    /\ Len(c.order) = Smaller(Cardinality(S), max)
    /\ \A i \in S : AgeIn(S, i) <= max => c.order[AgeIn(S, i)] = f[i]
    /\ c.held = ToSet(c.order)
    /\ \A a, b \in 1..Len(c.order) : c.order[a] = c.order[b] => a = b
    /\ ToSet(c.order) \subseteq {f[i] : i \in S}

\* A list of the last of f at the positions S, at least max of them if there are so many.
Listed(c, S, f, max) ==
    /\ Smaller(Cardinality(S), max) <= Len(c.order) /\ Len(c.order) <= Cardinality(S)
    /\ \A i \in S : AgeIn(S, i) <= Len(c.order) => c.order[AgeIn(S, i)] = f[i]

\* A list has no more elements than places.
LEMMA NoMoreThanPlaces ==
    ASSUME NEW s \in Seq(Element)
    PROVE  IsFiniteSet(ToSet(s)) /\ Cardinality(ToSet(s)) <= Len(s)
  <1>1. Len(s) \in Nat /\ DOMAIN s = 1..Len(s)
    OBVIOUS
  <1>2. s \in [1..Len(s) -> ToSet(s)]
    BY <1>1 DEF ToSet
  <1>3. s \in Surjection(1..Len(s), ToSet(s))
    BY <1>1, <1>2 DEF Surjection, ToSet
  <1>4. IsFiniteSet(1..Len(s)) /\ Cardinality(1..Len(s)) = Len(s)
    <2>1. \A m \in Nat : IsFiniteSet(1..m) /\ Cardinality(1..m) = m
      BY FS_Interval
    <2> QED
      BY <1>1, <2>1
  <1> QED
    BY <1>3, <1>4, FS_Surjection

\* A list without repetition has as many elements as places.
LEMMA AsManyAsPlaces ==
    ASSUME NEW s \in Seq(Element), \A a, b \in 1..Len(s) : s[a] = s[b] => a = b
    PROVE  Cardinality(ToSet(s)) = Len(s)
  <1>1. Len(s) \in Nat /\ DOMAIN s = 1..Len(s)
    OBVIOUS
  <1>2. s \in [1..Len(s) -> ToSet(s)]
    BY <1>1 DEF ToSet
  <1>3. s \in Bijection(1..Len(s), ToSet(s))
    BY <1>1, <1>2 DEF Bijection, Injection, Surjection, IsInjective, ToSet
  <1>4. IsFiniteSet(1..Len(s)) /\ Cardinality(1..Len(s)) = Len(s)
    BY <1>1, FS_Interval
  <1>5. ExistsBijection(1..Len(s), ToSet(s))
    BY <1>3 DEF ExistsBijection
  <1> QED
    BY <1>4, <1>5, FS_Bijection

LEMMA PositionsFinite ==
    ASSUME NEW n \in Nat, NEW S, S \subseteq 1..n
    PROVE  IsFiniteSet(S) /\ Cardinality(S) \in Nat /\ n + 1 \notin S
  <1>1. IsFiniteSet(1..n)
    BY FS_Interval
  <1>2. IsFiniteSet(S)
    BY <1>1, FS_Subset
  <1>3. n + 1 \notin 1..n
    OBVIOUS
  <1> QED
    BY <1>2, <1>3, FS_CardinalityType

LEMMA Ages ==
    ASSUME NEW n \in Nat, NEW S, S \subseteq 1..n, NEW i \in S
    PROVE  /\ AgeIn(S, i) \in 1..Cardinality(S)
           /\ AgeIn(S \cup {n + 1}, i) = AgeIn(S, i) + 1
  <1> DEFINE D == {j \in S : i <= j}
  <1>0. IsFiniteSet(S)
    BY PositionsFinite
  <1>1. IsFiniteSet(S) /\ IsFiniteSet(D) /\ Cardinality(D) <= Cardinality(S)
    BY <1>0, FS_Subset
  <1>2. Cardinality(D) \in Nat /\ Cardinality(S) \in Nat
    BY <1>1, FS_CardinalityType
  <1>3. Cardinality(D) # 0
    <2>1. i \in D
      OBVIOUS
    <2> QED
      BY <1>1, <2>1, FS_EmptySet
  <1>4. {j \in S \cup {n + 1} : i <= j} = D \cup {n + 1} /\ n + 1 \notin D
    OBVIOUS
  <1>5. Cardinality(D \cup {n + 1}) = Cardinality(D) + 1
    BY <1>1, <1>4, FS_AddElement
  <1>6. AgeIn(S, i) = Cardinality(D) /\ AgeIn(S \cup {n + 1}, i) = Cardinality(D \cup {n + 1})
    BY <1>4 DEF AgeIn
  <1> HIDE DEF D
  <1> QED
    BY <1>1, <1>2, <1>3, <1>5, <1>6

LEMMA YoungestAge ==
    ASSUME NEW n \in Nat, NEW S, S \subseteq 1..n
    PROVE  AgeIn(S \cup {n + 1}, n + 1) = 1
  <1>0. \A j \in S : ~(n + 1 <= j)
    <2>1. \A j \in 1..n : ~(n + 1 <= j)
      OBVIOUS
    <2> QED
      BY <2>1
  <1>1. {j \in S \cup {n + 1} : n + 1 <= j} = {n + 1}
    <2>1. n + 1 <= n + 1
      OBVIOUS
    <2> QED
      BY <1>0, <2>1
  <1>2. Cardinality({n + 1}) = 1
    BY FS_Singleton
  <1> QED
    BY <1>1, <1>2 DEF AgeIn

LEMMA FrontPlaces ==
    ASSUME NEW s \in Seq(Element), s # <<>>
    PROVE  /\ Len(s) \in Nat \ {0} /\ Front(s) \in Seq(Element) /\ Len(Front(s)) = Len(s) - 1
           /\ \A a \in 1..(Len(s) - 1) : Front(s)[a] = s[a]
           /\ Last(s) = s[Len(s)] /\ Len(s) \in 1..Len(s)
  <1>1. PICK n \in Nat : n = Len(s) - 1
    OBVIOUS
  <1>2. SubSeq(s, 1, n) \in Seq(Element) /\ Len(SubSeq(s, 1, n)) = n
    BY <1>1
  <1>3. \A i \in 1..n : SubSeq(s, 1, n)[i] = s[i]
    BY <1>1
  <1>4. Len(s) \in Nat \ {0} /\ Len(s) \in 1..Len(s)
    OBVIOUS
  <1> QED
    BY <1>1, <1>2, <1>3, <1>4 DEF Front, Last

\* Without its last, a list without repetition has all the others.
LEMMA Fronts ==
    ASSUME NEW s \in Seq(Element), s # <<>>, \A a, b \in 1..Len(s) : s[a] = s[b] => a = b
    PROVE  /\ Front(s) \in Seq(Element) /\ Len(Front(s)) = Len(s) - 1
           /\ \A a \in 1..(Len(s) - 1) : Front(s)[a] = s[a]
           /\ ToSet(Front(s)) = ToSet(s) \ {Last(s)}
  <1>1. /\ Len(s) \in Nat \ {0} /\ Front(s) \in Seq(Element) /\ Len(Front(s)) = Len(s) - 1
        /\ \A a \in 1..(Len(s) - 1) : Front(s)[a] = s[a]
        /\ Last(s) = s[Len(s)] /\ Len(s) \in 1..Len(s)
    BY FrontPlaces
  <1>2. DOMAIN s = 1..Len(s) /\ DOMAIN Front(s) = 1..(Len(s) - 1)
    BY <1>1
  <1>3. ASSUME NEW x \in ToSet(Front(s)) PROVE x \in ToSet(s) \ {Last(s)}
    <2>1. PICK a \in 1..(Len(s) - 1) : x = s[a]
      BY <1>1, <1>2, <1>3 DEF ToSet
    <2>2. a \in 1..Len(s) /\ a # Len(s)
      BY <1>1
    <2> QED
      BY <1>1, <1>2, <2>1, <2>2 DEF ToSet
  <1>4. ASSUME NEW x \in ToSet(s), x # Last(s) PROVE x \in ToSet(Front(s))
    <2>1. PICK a \in 1..Len(s) : x = s[a]
      BY <1>2 DEF ToSet
    <2>2. a \in 1..(Len(s) - 1)
      BY <1>1, <1>4, <2>1
    <2> QED
      BY <1>1, <1>2, <2>1, <2>2 DEF ToSet
  <1> QED
    BY <1>1, <1>3, <1>4

\* Any element comes to the front of the list, which loses its last only when it is
\* long enough: the map has no more than is listed.
LEMMA ListMoves ==
    ASSUME NEW n \in Nat, NEW S, S \subseteq 1..n, NEW f, NEW max \in Nat \ {0},
           NEW c \in Entry, c.held \subseteq ToSet(c.order), Listed(c, S, f, max),
           NEW e \in Element, e = f[n + 1]
    PROVE  Listed(AddElement(c, e, max), S \cup {n + 1}, f, max)
  <1> DEFINE came == Cardinality(S)
             full == Cardinality(c.held) = max
             rest == IF full THEN Front(c.order) ELSE c.order
             new == AddElement(c, e, max)
  <1>1. /\ c.order \in Seq(Element) /\ Len(c.order) \in Nat
        /\ Smaller(came, max) <= Len(c.order) /\ Len(c.order) <= came
        /\ \A i \in S : AgeIn(S, i) <= Len(c.order) => c.order[AgeIn(S, i)] = f[i]
    BY DEF Listed, Entry
  <1>2. IsFiniteSet(S) /\ came \in Nat /\ n + 1 \notin S
    BY PositionsFinite
  <1>3. Cardinality(S \cup {n + 1}) = came + 1
    BY <1>2, FS_AddElement
  <1>4. Cardinality(c.held) \in Nat /\ Cardinality(c.held) <= Len(c.order)
    <2>1. IsFiniteSet(ToSet(c.order)) /\ Cardinality(ToSet(c.order)) <= Len(c.order)
      BY <1>1, NoMoreThanPlaces
    <2>2. IsFiniteSet(c.held) /\ Cardinality(c.held) <= Cardinality(ToSet(c.order))
      BY <2>1, FS_Subset
    <2>3. Cardinality(c.held) \in Nat /\ Cardinality(ToSet(c.order)) \in Nat
      BY <2>1, <2>2, FS_CardinalityType
    <2> QED
      BY <1>1, <2>1, <2>2, <2>3
  <1> HIDE DEF came
  <1>5. /\ rest \in Seq(Element) /\ Len(rest) \in Nat
        /\ Len(rest) = (IF full THEN Len(c.order) - 1 ELSE Len(c.order))
        /\ \A a \in 1..Len(rest) : a \in 1..Len(c.order) /\ rest[a] = c.order[a]
    <2>1. CASE full
      <3>1. c.order # <<>> /\ Len(c.order) >= 1
        BY <1>1, <1>4, <2>1
      <3>2. /\ Len(Front(c.order)) = Len(c.order) - 1 /\ Front(c.order) \in Seq(Element)
            /\ \A a \in 1..(Len(c.order) - 1) : Front(c.order)[a] = c.order[a]
        BY <1>1, <3>1, FrontPlaces
      <3>3. rest = Front(c.order)
        BY <2>1
      <3>4. \A a \in 1..(Len(c.order) - 1) : a \in 1..Len(c.order)
        BY <1>1
      <3> HIDE DEF rest
      <3> QED
        BY <1>1, <2>1, <3>1, <3>2, <3>3, <3>4
    <2>2. CASE ~full
      BY <1>1, <2>2
    <2> QED
      BY <2>1, <2>2
  <1>6. new.order = <<e>> \o rest
    BY DEF AddElement, RemoveOldest
  <1>7. full => max <= Len(c.order)
    BY <1>4
  <1> HIDE DEF rest, new, full
  <1>8. /\ Len(new.order) = Len(rest) + 1 /\ new.order[1] = e
        /\ \A a \in 1..Len(rest) : new.order[a + 1] = rest[a]
    BY <1>5, <1>6, Prepended
  <1>9. /\ Smaller(Cardinality(S \cup {n + 1}), max) <= Len(new.order)
        /\ Len(new.order) <= Cardinality(S \cup {n + 1})
    <2>1. CASE full
      <3>1. Len(new.order) = Len(c.order)
        BY <1>1, <1>5, <1>8, <2>1
      <3> QED
        BY <1>1, <1>2, <1>3, <1>7, <2>1, <3>1 DEF Smaller
    <2>2. CASE ~full
      <3>1. Len(new.order) = Len(c.order) + 1
        BY <1>1, <1>5, <1>8, <2>2
      <3> QED
        BY <1>1, <1>2, <1>3, <3>1 DEF Smaller
    <2> QED
      BY <2>1, <2>2
  <1>10. ASSUME NEW i \in S \cup {n + 1}, AgeIn(S \cup {n + 1}, i) <= Len(new.order)
         PROVE  new.order[AgeIn(S \cup {n + 1}, i)] = f[i]
    <2>1. CASE i = n + 1
      BY <1>8, <2>1, YoungestAge
    <2>2. CASE i # n + 1
      <3>1. i \in S /\ AgeIn(S, i) \in 1..came /\ AgeIn(S \cup {n + 1}, i) = AgeIn(S, i) + 1
        BY <2>2, Ages DEF came
      <3>2. AgeIn(S, i) \in 1..Len(rest)
        BY <1>2, <1>5, <1>8, <1>10, <3>1
      <3>3. AgeIn(S, i) \in 1..Len(c.order) /\ rest[AgeIn(S, i)] = c.order[AgeIn(S, i)]
        BY <1>5, <3>2
      <3>4. AgeIn(S, i) <= Len(c.order)
        BY <1>1, <3>3
      <3> QED
        BY <1>1, <1>8, <3>1, <3>2, <3>3, <3>4
    <2> QED
      BY <2>1, <2>2
  <1> QED
    BY <1>9, <1>10 DEF Listed, new

\* One that is new comes to the front, and the window moves on.
LEMMA WindowMoves ==
    ASSUME NEW n \in Nat, NEW S, S \subseteq 1..n, NEW f, NEW max \in Nat \ {0},
           NEW c \in Entry, Window(c, S, f, max), NEW e \in Element, e = f[n + 1],
           e \notin {f[i] : i \in S}
    PROVE  Window(AddElement(c, e, max), S \cup {n + 1}, f, max)
  <1> DEFINE came == Cardinality(S)
             full == Len(c.order) = max
             rest == IF full THEN Front(c.order) ELSE c.order
             new == AddElement(c, e, max)
  <1>1. /\ c.order \in Seq(Element) /\ Len(c.order) \in Nat /\ Len(c.order) = Smaller(came, max)
        /\ \A a, b \in 1..Len(c.order) : c.order[a] = c.order[b] => a = b
        /\ c.held = ToSet(c.order) /\ ToSet(c.order) \subseteq {f[i] : i \in S}
        /\ \A i \in S : AgeIn(S, i) <= max => c.order[AgeIn(S, i)] = f[i]
    BY DEF Window, Entry
  <1>2. IsFiniteSet(S) /\ came \in Nat /\ n + 1 \notin S
    BY PositionsFinite
  <1>3. Cardinality(S \cup {n + 1}) = came + 1
    BY <1>2, FS_AddElement
  <1>4. Cardinality(c.held) = Len(c.order)
    BY <1>1, AsManyAsPlaces
  <1> HIDE DEF came
  <1>5. /\ rest \in Seq(Element) /\ Len(rest) \in Nat
        /\ Len(rest) = (IF full THEN max - 1 ELSE came) /\ Len(rest) <= max - 1
        /\ \A a \in 1..Len(rest) : a \in 1..Len(c.order) /\ rest[a] = c.order[a]
        /\ ToSet(rest) \subseteq ToSet(c.order)
    <2>1. CASE full
      <3>1. c.order # <<>>
        BY <2>1
      <3>2. /\ Len(Front(c.order)) = max - 1 /\ Front(c.order) \in Seq(Element)
            /\ \A a \in 1..(max - 1) : Front(c.order)[a] = c.order[a]
            /\ ToSet(Front(c.order)) \subseteq ToSet(c.order)
        BY <1>1, <2>1, <3>1, Fronts
      <3>3. \A a \in 1..(max - 1) : a \in 1..max
        OBVIOUS
      <3>4. rest = Front(c.order)
        BY <2>1
      <3> HIDE DEF rest
      <3> QED
        BY <2>1, <3>2, <3>3, <3>4
    <2>2. CASE ~full
      BY <1>1, <1>2, <2>2 DEF Smaller
    <2> QED
      BY <2>1, <2>2
  <1>6. new = [held |-> ToSet(rest) \cup {e}, order |-> <<e>> \o rest]
    <2>1. CASE full
      <3>1. c.order # <<>>
        BY <2>1
      <3>2. ToSet(Front(c.order)) = c.held \ {Last(c.order)}
        BY <1>1, <3>1, Fronts
      <3> QED
        BY <1>4, <2>1, <3>2 DEF AddElement, RemoveOldest
    <2>2. CASE ~full
      BY <1>1, <1>4, <2>2 DEF AddElement
    <2> QED
      BY <2>1, <2>2
  <1> HIDE DEF rest, new
  <1>7. /\ new.order \in Seq(Element) /\ Len(new.order) = Len(rest) + 1 /\ new.order[1] = e
        /\ \A a \in 1..Len(rest) : new.order[a + 1] = rest[a]
        /\ ToSet(new.order) = ToSet(rest) \cup {e}
        /\ new.held = ToSet(new.order)
    BY <1>5, <1>6, Prepended
  <1>8. Len(new.order) = Smaller(Cardinality(S \cup {n + 1}), max)
    BY <1>1, <1>2, <1>3, <1>5, <1>7 DEF Smaller
  <1>9. ASSUME NEW i \in S \cup {n + 1}, AgeIn(S \cup {n + 1}, i) <= max
        PROVE  new.order[AgeIn(S \cup {n + 1}, i)] = f[i]
    <2>1. CASE i = n + 1
      BY <1>7, <2>1, YoungestAge
    <2>2. CASE i # n + 1
      <3>1. i \in S /\ AgeIn(S, i) \in 1..came /\ AgeIn(S \cup {n + 1}, i) = AgeIn(S, i) + 1
        BY <2>2, Ages DEF came
      <3>2. AgeIn(S, i) \in 1..Len(rest) /\ AgeIn(S, i) <= max
        BY <1>2, <1>5, <1>9, <3>1
      <3>3. rest[AgeIn(S, i)] = f[i]
        BY <1>1, <1>5, <3>1, <3>2
      <3> QED
        BY <1>7, <3>1, <3>2, <3>3
    <2> QED
      BY <2>1, <2>2
  <1>10. ASSUME NEW a \in 1..Len(new.order), NEW b \in 1..Len(new.order), new.order[a] = new.order[b]
         PROVE  a = b
    <2>1. \A d \in 1..Len(new.order) :
            d # 1 => d - 1 \in 1..Len(rest) /\ new.order[d] = rest[d - 1]
      BY <1>5, <1>7
    <2>2. \A d \in 1..Len(rest) : rest[d] # e
      <3> SUFFICES ASSUME NEW d \in 1..Len(rest) PROVE rest[d] # e
        OBVIOUS
      <3>1. rest[d] \in ToSet(rest)
        BY <1>5 DEF ToSet
      <3> QED
        BY <1>1, <1>5, <3>1
    <2>3. CASE a = 1 \/ b = 1
      <3>1. \A d \in 1..Len(new.order) : new.order[d] = e => d = 1
        BY <2>1, <2>2
      <3> QED
        BY <1>7, <1>10, <2>3, <3>1
    <2>4. CASE a # 1 /\ b # 1
      <3>1. /\ a - 1 \in 1..Len(rest) /\ new.order[a] = rest[a - 1]
            /\ b - 1 \in 1..Len(rest) /\ new.order[b] = rest[b - 1]
        BY <1>10, <2>1, <2>4
      <3>2. c.order[a - 1] = c.order[b - 1]
        BY <1>5, <1>10, <3>1
      <3>3. a - 1 = b - 1
        BY <1>1, <1>5, <3>1, <3>2
      <3> QED
        BY <3>3
    <2> QED
      BY <2>3, <2>4
  <1>11. ToSet(new.order) \subseteq {f[i] : i \in S \cup {n + 1}}
    BY <1>1, <1>5, <1>7
  <1> QED
    BY <1>7, <1>8, <1>9, <1>10, <1>11 DEF Window, new

Windows == \A k \in Kind : Fresh(k) => Window(cache[k], CachedOf(k), input, limits[k])
Lists == \A k \in Kind : Listed(cache[k], CachedOf(k), input, limits[k])

WindowInv == TypeInv /\ Windows /\ Lists

\* Each element that is added moves the list of its kind, and its window if it is new.
LEMMA ListsMove ==
    ASSUME WindowInv, NEW n \in Nat, read = n, n < Len(input), read' = n + 1,
           UNCHANGED <<input, limits, putOff>>, cache' = Added(NextElement)
    PROVE  Lists'
  <1>e. PICK e : e = NextElement
    OBVIOUS
  <1>q. PICK q : q = KindOf(e)
    OBVIOUS
  <1>1. /\ TypeInv /\ TypeOK /\ Lists /\ e \in Element /\ e = input[n + 1] /\ q \in Kind
        /\ limits[q] \in Nat \ {0} /\ cache \in [Kind -> Entry] /\ read = n
        /\ \A k \in Kind : cache[k].held \subseteq ToSet(cache[k].order)
    BY <1>e, <1>q, NextTypes DEF WindowInv, TypeInv, TypeOK, NextElement, Entry
  <1>2. \A k \in Kind : cache'[k] = IF k = q THEN AddElement(cache[q], e, limits[q]) ELSE cache[k]
    BY <1>e, <1>q, <1>1 DEF Added
  <1>3. ASSUME NEW k \in Kind
        PROVE  CachedOf(k)' = IF q = k THEN CachedOf(k) \cup {n + 1} ELSE CachedOf(k)
    BY <1>e, <1>q, <1>1, CameNext
  <1>4. CachedOf(q) \subseteq 1..n /\ cache[q] \in Entry
    BY <1>1 DEF CachedOf, CameOf
  <1>5. Listed(AddElement(cache[q], e, limits[q]), CachedOf(q) \cup {n + 1}, input, limits[q])
    BY <1>1, <1>4, ListMoves DEF Lists
  <1>6. ASSUME NEW k \in Kind PROVE Listed(cache'[k], CachedOf(k)', input, limits[k])
    BY <1>1, <1>2, <1>3, <1>5 DEF Lists
  <1> QED
    BY <1>6 DEF Lists

LEMMA WindowsMove ==
    ASSUME WindowInv, NEW n \in Nat, read = n, n < Len(input), read' = n + 1,
           UNCHANGED <<input, limits, putOff>>, cache' = Added(NextElement)
    PROVE  Windows'
  <1>e. PICK e : e = NextElement
    OBVIOUS
  <1>q. PICK q : q = KindOf(e)
    OBVIOUS
  <1>1. /\ TypeInv /\ TypeOK /\ Windows /\ e \in Element /\ e = input[n + 1] /\ q \in Kind
        /\ limits[q] \in Nat \ {0} /\ cache \in [Kind -> Entry] /\ read = n
    BY <1>e, <1>q, NextTypes DEF WindowInv, TypeInv, TypeOK, NextElement, Entry
  <1>2. \A k \in Kind : cache'[k] = IF k = q THEN AddElement(cache[q], e, limits[q]) ELSE cache[k]
    BY <1>e, <1>q, <1>1 DEF Added
  <1>3. ASSUME NEW k \in Kind
        PROVE  /\ CameOf(k)' = IF q = k THEN CameOf(k) \cup {n + 1} ELSE CameOf(k)
               /\ CachedOf(k)' = IF q = k THEN CachedOf(k) \cup {n + 1} ELSE CachedOf(k)
               /\ n + 1 \notin CameOf(k)
    BY <1>e, <1>q, <1>1, CameNext
  <1> SUFFICES ASSUME NEW k \in Kind, Fresh(k)'
               PROVE  Window(cache'[k], CachedOf(k)', input, limits[k])
    BY DEF Windows
  <1>4. Fresh(k)
    BY <1>3 DEF Fresh
  <1>5. Window(cache[k], CachedOf(k), input, limits[k])
    BY <1>1, <1>4 DEF Windows
  <1>6. CASE k = q
    <2>1. CachedOf(q) \subseteq 1..n /\ CachedOf(q) \subseteq CameOf(q) /\ cache[q] \in Entry
      BY <1>1 DEF CachedOf, CameOf
    <2>2. e \notin {input[i] : i \in CachedOf(q)}
      <3> SUFFICES ASSUME NEW i \in CachedOf(q), input[i] = e PROVE FALSE
        OBVIOUS
      <3>1. i \in CameOf(q)' /\ n + 1 \in CameOf(q)'
        BY <1>1, <1>3, <2>1
      <3>2. i = n + 1
        BY <1>1, <1>6, <3>1 DEF Fresh
      <3> QED
        BY <1>1, <1>3, <2>1, <3>2
    <2>3. Window(AddElement(cache[q], e, limits[q]), CachedOf(q) \cup {n + 1}, input, limits[q])
      BY <1>1, <1>5, <1>6, <2>1, <2>2, WindowMoves
    <2> QED
      BY <1>2, <1>3, <1>6, <2>3
  <1>7. CASE k # q
    BY <1>2, <1>3, <1>5, <1>7
  <1> QED
    BY <1>6, <1>7

LEMMA NextWindow == WindowInv /\ [Next]_vars => WindowInv'
  <1> SUFFICES ASSUME WindowInv, [Next]_vars PROVE WindowInv'
    OBVIOUS
  <1>0. TypeInv /\ TypeInv' /\ Windows /\ Lists /\ read \in Nat
    BY NextTyped DEF WindowInv, TypeInv, TypeOK
  <1>1. CASE WritePartial \/ FillElementCache
    <2>1. /\ read < Len(input) /\ read' = read + 1 /\ cache' = Added(NextElement)
          /\ UNCHANGED <<input, limits, putOff>>
      BY <1>1 DEF WritePartial, FillElementCache, Reads, WriteElement, Advance, inputVars
    <2>2. Windows' /\ Lists'
      BY <1>0, <2>1, WindowsMove, ListsMove
    <2> QED
      BY <1>0, <2>2 DEF WindowInv
  <1>2. CASE PutOff
    <2>1. PICK n \in Nat : n = read
      BY <1>0
    <2>2. /\ n < Len(input) /\ read' = n + 1 /\ putOff' = putOff \cup {n + 1}
          /\ UNCHANGED <<input, limits, cache>>
      BY <1>2, <2>1 DEF PutOff, Reads, Advance, inputVars
    <2>3. \A k \in Kind : CachedOf(k)' = CachedOf(k) /\ CameOf(k) \subseteq CameOf(k)'
      BY <1>0, <2>1, <2>2, CameNext
    <2>4. \A k \in Kind : Fresh(k)' => Fresh(k)
      BY <2>2, <2>3 DEF Fresh
    <2>5. Windows' /\ Lists'
      BY <1>0, <2>2, <2>3, <2>4 DEF Windows, Lists
    <2> QED
      BY <1>0, <2>5 DEF WindowInv
  <1>3. CASE \/ StartThreads \/ Translator \/ Writer \/ Refuse \/ FinishStream \/ Return \/ CrashStream
             \/ Abort \/ Over \/ UNCHANGED vars
    <2>1. UNCHANGED <<input, limits, read, cache, putOff>>
      BY <1>3 DEF StartThreads, Translator, InitTranslator, Translate, SetFinished, EndTranslator, Writer,
        OpenWriter, TakeFeature, WriteFeature, Wake, Refuse, FinishStream, Return, CrashStream, Abort,
        Over, vars, inputVars
    <2>2. \A k \in Kind : CachedOf(k)' = CachedOf(k) /\ CameOf(k)' = CameOf(k)
      BY <2>1 DEF CachedOf, CameOf
    <2>3. Windows' /\ Lists'
      BY <1>0, <2>1, <2>2 DEF Windows, Lists, Fresh
    <2> QED
      BY <1>0, <2>3 DEF WindowInv
  <1> QED
    BY <1>1, <1>2, <1>3 DEF Next, Caller

LEMMA InitWindow == Init => WindowInv
  <1> SUFFICES ASSUME Init PROVE WindowInv
    OBVIOUS
  <1>0. TypeInv
    BY InitTypes
  <1>1. ASSUME NEW k \in Kind
        PROVE  /\ Window(cache[k], CachedOf(k), input, limits[k])
               /\ Listed(cache[k], CachedOf(k), input, limits[k])
    <2>1. /\ CachedOf(k) = {} /\ cache[k].order = <<>> /\ cache[k].held = {} /\ Len(cache[k].order) = 0
      BY DEF Init, Empty, CachedOf, CameOf
    <2>2. limits[k] \in Nat \ {0}
      BY <1>0, ConversionAssumption DEF TypeInv, TypeOK
    <2>3. Cardinality({}) = 0
      BY FS_EmptySet
    <2>4. ToSet(cache[k].order) = {}
      BY <2>1 DEF ToSet
    <2> QED
      BY <2>1, <2>2, <2>3, <2>4 DEF Window, Listed, Smaller
  <1> QED
    BY <1>0, <1>1 DEF WindowInv, Windows, Lists

\* For any input and any sizes: the list of a kind is those that were cached last, in
\* their order, and no fewer than the cache is to hold; as long as no element of the kind
\* comes twice it is no longer than that, and the map has just what is listed.
THEOREM CacheHoldsTheLast == Spec => []CacheIsWindow
  <1>1. WindowInv => CacheIsWindow
    <2> SUFFICES ASSUME WindowInv, NEW k \in Kind
                 PROVE  LET came == Cardinality(CachedOf(k))
                            full == IF came < limits[k] THEN came ELSE limits[k]
                            list == cache[k].order
                        IN  /\ Len(list) \in full..came
                            /\ \A i \in CachedOf(k) : Age(k, i) <= Len(list) => list[Age(k, i)] = input[i]
                            /\ Fresh(k) => Len(list) = full /\ cache[k].held = ToSet(list)
      BY DEF CacheIsWindow
    <2>1. Listed(cache[k], CachedOf(k), input, limits[k])
      BY DEF WindowInv, Lists
    <2>2. \A i : Age(k, i) = AgeIn(CachedOf(k), i)
      BY DEF Age, AgeIn
    <2>3. Fresh(k) => Window(cache[k], CachedOf(k), input, limits[k])
      BY DEF WindowInv, Windows
    <2>4. Cardinality(CachedOf(k)) \in Nat
      BY CameFinite DEF WindowInv
    <2>5. cache[k] \in Entry /\ limits[k] \in Nat
      BY ConversionAssumption DEF WindowInv, TypeInv, TypeOK, Entry
    <2>6. Len(cache[k].order) \in Nat
      BY <2>5 DEF Entry
    <2> QED
      BY <2>1, <2>2, <2>3, <2>4, <2>5, <2>6 DEF Window, Listed, Smaller
  <1> QED
    BY InitWindow, NextWindow, <1>1, PTL DEF Spec

=============================================================================
