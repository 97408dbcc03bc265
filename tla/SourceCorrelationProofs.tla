----------------------- MODULE SourceCorrelationProofs -----------------------
(***************************************************************************)
(* Theorems of SourceCorrelation.tla, for every set of documents.  The     *)
(* invariant says what the loop has done with the elements it has passed:  *)
(* the ids it inserted are the synthetic ids of elements without one and   *)
(* no id of the document, and the anchors so far are the prepared ids of   *)
(* the elements passed that can be told apart.  The last part is about the *)
(* definitions: what is seen of a closed outline is what is drawn of it.   *)
(***************************************************************************)
EXTENDS SourceCorrelation, Induction, FiniteSetTheorems, TLAPS

\* Element k can be told apart.
HasAnchor(k) == IF Elements[k].id = NoId
                THEN InjectionSafe /\ Synthetic[k] \notin OwnIds
                ELSE Count(Elements[k].id) = 1

\* An id is inserted only into an element passed that has none.
InsertionsFresh ==
  \A k \in DOMAIN Elements : inserted[k] # NoId =>
    /\ k < next /\ inserted[k] = Synthetic[k] /\ Elements[k].id = NoId
    /\ HasAnchor(k)

\* ... and into every one that can be told apart by it.
InsertionsMade ==
  \A k \in DOMAIN Elements :
    k < next /\ Elements[k].id = NoId /\ HasAnchor(k) => inserted[k] = Synthetic[k]

\* What may not be inserted any more.
ReservedKept == reserved = OwnIds \cup ({inserted[k] : k \in DOMAIN Elements} \ {NoId})

\* The anchors are those of the elements passed, each with its own metadata.
AnchorsKept ==
  /\ \A id \in DOMAIN nodes : \E k \in DOMAIN Elements :
       k < next /\ HasAnchor(k) /\ PreparedId(k) = id /\ nodes[id] = Metadata(k)
  /\ \A k \in DOMAIN Elements :
       k < next /\ HasAnchor(k) => PreparedId(k) \in DOMAIN nodes

Passed ==
  /\ document \in Documents /\ next \in 1 .. Len(Elements) + 1
  /\ result \in {"none", "Ok"}
  /\ result = "Ok" => next = Len(Elements) + 1
  /\ inserted \in [DOMAIN Elements -> ToSet(Synthetic) \cup {NoId}]

LoopInv == /\ Passed /\ InsertionsFresh /\ InsertionsMade
           /\ ReservedKept /\ AnchorsKept

-----------------------------------------------------------------------------
\* The elements of a document are numbered, and each has a synthetic id.
LEMMA Numbered ==
  ASSUME document \in Documents
  PROVE  /\ Len(Elements) \in Nat
         /\ DOMAIN Elements = 1 .. Len(Elements)
         /\ DOMAIN Elements \subseteq DOMAIN Synthetic
         /\ \A k \in DOMAIN Elements : /\ Synthetic[k] \in ToSet(Synthetic)
                                       /\ Synthetic[k] # NoId
<1>1. Elements \in Seq(ToSet(Elements)) /\ Len(Elements) <= Len(Synthetic)
  BY SyntheticAssumption DEF Elements
<1>2. Synthetic \in Seq(ToSet(Synthetic))
  BY SyntheticAssumption
<1>3. /\ Len(Elements) \in Nat /\ DOMAIN Elements = 1 .. Len(Elements)
      /\ Len(Synthetic) \in Nat /\ DOMAIN Synthetic = 1 .. Len(Synthetic)
  BY <1>1, <1>2
<1>4. DOMAIN Elements \subseteq DOMAIN Synthetic
  BY <1>1, <1>3
<1>5. \A k \in DOMAIN Elements : Synthetic[k] \in ToSet(Synthetic)
  BY <1>4 DEF ToSet
<1>6. QED
  BY <1>3, <1>4, <1>5, SyntheticAssumption

\* An id counted once is the id of one element.
LEMMA CountedOnce ==
  ASSUME document \in Documents, NEW j \in DOMAIN Elements, NEW k \in DOMAIN Elements,
         Elements[j].id = Elements[k].id, Count(Elements[k].id) = 1
  PROVE  j = k
<1> DEFINE Same == {i \in DOMAIN Elements : Elements[i].id = Elements[k].id}
<1>1. IsFiniteSet(Same)
  <2>1. Same \subseteq 1 .. Len(Elements) /\ Len(Elements) \in Nat
    BY Numbered
  <2>2. IsFiniteSet(1 .. Len(Elements))
    BY <2>1, FS_Interval
  <2>3. QED
    BY <2>1, <2>2, FS_Subset
<1>2. Cardinality(Same) = 1
  BY DEF Count
<1>3. \E x : Same = {x}
  BY <1>1, <1>2, FS_Singleton
<1>4. j \in Same /\ k \in Same
  OBVIOUS
<1>5. QED
  BY <1>3, <1>4

\* No other element has the prepared id of an element that was passed with an
\* anchor.
LEMMA AnchorsApart ==
  ASSUME Passed, InsertionsFresh, InsertionsMade,
         NEW k \in DOMAIN Elements, k < next, HasAnchor(k),
         NEW j \in DOMAIN Elements, PreparedId(j) = PreparedId(k)
  PROVE  j = k /\ PreparedId(k) # NoId
<1>1. document \in Documents
  BY DEF Passed
<1>2. CASE Elements[k].id = NoId
  <2>1. inserted[k] = Synthetic[k] /\ Synthetic[k] \notin OwnIds
    BY <1>2 DEF InsertionsMade, HasAnchor
  <2>2. PreparedId(k) = Synthetic[k] /\ Synthetic[k] # NoId
    BY <1>1, <2>1, Numbered DEF PreparedId
  <2>3. CASE inserted[j] = NoId
    <3>1. Elements[j].id = Synthetic[k]
      BY <2>2, <2>3 DEF PreparedId
    <3>2. QED
      BY <2>1, <2>2, <3>1 DEF OwnIds
  <2>4. CASE inserted[j] # NoId
    <3>1. Synthetic[j] = Synthetic[k]
      BY <2>2, <2>4 DEF PreparedId, InsertionsFresh
    <3>2. j \in DOMAIN Synthetic /\ k \in DOMAIN Synthetic
      BY <1>1, Numbered
    <3>3. QED
      BY <2>2, <3>1, <3>2, SyntheticAssumption
  <2>5. QED
    BY <2>3, <2>4
<1>3. CASE Elements[k].id # NoId
  <2>1. inserted[k] = NoId /\ PreparedId(k) = Elements[k].id
    BY <1>3 DEF InsertionsFresh, PreparedId
  <2>2. Count(Elements[k].id) = 1 /\ Elements[k].id \in OwnIds
    BY <1>3 DEF HasAnchor, OwnIds
  <2>3. CASE inserted[j] = NoId
    <3>1. Elements[j].id = Elements[k].id
      BY <2>1, <2>3 DEF PreparedId
    <3>2. QED
      BY <1>1, <1>3, <2>1, <2>2, <3>1, CountedOnce
  <2>4. CASE inserted[j] # NoId
    <3>1. Synthetic[j] = Elements[k].id /\ Synthetic[j] \notin OwnIds
      BY <2>1, <2>4 DEF PreparedId, InsertionsFresh, HasAnchor
    <3>2. QED
      BY <2>2, <3>1
  <2>5. QED
    BY <2>3, <2>4
<1>4. QED
  BY <1>2, <1>3

-----------------------------------------------------------------------------
\* What is computed from the source stays.
LEMMA SourceKept ==
  ASSUME document' = document
  PROVE  /\ Elements' = Elements /\ OwnIds' = OwnIds /\ InjectionSafe' = InjectionSafe
         /\ \A k : HasAnchor(k)' = HasAnchor(k)
<1>1. Elements' = Elements
  BY DEF Elements
<1>2. OwnIds' = OwnIds
  BY <1>1 DEF OwnIds
<1>3. InjectionSafe' = InjectionSafe
  BY DEF InjectionSafe
<1>4. \A id : Count(id)' = Count(id)
  BY <1>1 DEF Count
<1>5. QED
  BY <1>1, <1>2, <1>3, <1>4 DEF HasAnchor

LEMMA MetadataKept ==
  ASSUME document' = document, NEW k
  PROVE  Metadata(k)' = Metadata(k)
<1>1. Elements' = Elements
  BY DEF Elements
<1>2. \A id : Count(id)' = Count(id)
  BY <1>1 DEF Count
<1>3. \A id, tag : Defined(id, tag)' = Defined(id, tag)
  BY <1>1, <1>2 DEF Defined, Bearing
<1>4. ASSUME NEW e, NEW side
      PROVE  MarkerColor(e, side)' = MarkerColor(e, side)
  <2> DEFINE known == {m \in Defined(e[side], "marker") : KnownMarker(Elements[m].def, side)}
             chosen == CHOOSE m \in known : TRUE
  <2>1. known' = known
    BY <1>1, <1>3
  <2>2. chosen' = chosen
    BY <2>1
  <2>3. MarkerColor(e, side) = IF known = {} THEN Nothing
                               ELSE Elements[chosen].def.children[1].fill
    BY DEF MarkerColor
  <2>4. MarkerColor(e, side)' = IF known' = {} THEN Nothing
                                ELSE Elements'[chosen'].def.children[1].fill
    BY DEF MarkerColor
  <2> HIDE DEF known, chosen
  <2>5. QED
    BY <1>1, <2>1, <2>2, <2>3, <2>4
<1>5. ASSUME NEW e
      PROVE  Shadow(e)' = Shadow(e)
  <2> DEFINE filters == Defined(e.filter, "filter")
             chosen == CHOOSE m \in filters : TRUE
  <2>1. filters' = filters
    BY <1>3
  <2>2. chosen' = chosen
    BY <2>1
  <2>3. Shadow(e) = IF filters = {} THEN Nothing ELSE ShadowClass(Elements[chosen].def)
    BY DEF Shadow
  <2>4. Shadow(e)' = IF filters' = {} THEN Nothing ELSE ShadowClass(Elements'[chosen'].def)
    BY DEF Shadow
  <2> HIDE DEF filters, chosen
  <2>5. QED
    BY <1>1, <2>1, <2>2, <2>3, <2>4
<1>6. QED
  BY <1>1, <1>4, <1>5 DEF Metadata

-----------------------------------------------------------------------------
LEMMA LoopInit == Init => LoopInv
<1> SUFFICES ASSUME Init PROVE LoopInv
  OBVIOUS
<1>1. document \in Documents /\ Len(Elements) \in Nat
  BY Numbered DEF Init
<1>2. Passed
  BY <1>1 DEF Init, Passed
<1>3. \A k \in DOMAIN Elements : inserted[k] = NoId /\ ~(k < next)
  BY <1>1, Numbered DEF Init
<1>4. InsertionsFresh /\ InsertionsMade
  BY <1>3 DEF InsertionsFresh, InsertionsMade
<1>5. ReservedKept
  BY <1>3 DEF Init, ReservedKept
<1>6. DOMAIN nodes = {}
  BY DEF Init
<1>7. AnchorsKept
  BY <1>3, <1>6 DEF AnchorsKept
<1>8. QED
  BY <1>2, <1>4, <1>5, <1>7 DEF LoopInv

\* Reading an element adds its anchor, with its own metadata, to those of the
\* elements before it.
LEMMA NotedAnchor ==
  ASSUME LoopInv, AtElement, next' = next + 1, document' = document,
         NEW i, i = next,
         \A k \in DOMAIN Elements : k # i => inserted'[k] = inserted[k],
         \/ HasAnchor(i) /\ nodes' = Noted(PreparedId(i)')
         \/ ~HasAnchor(i) /\ nodes' = nodes
  PROVE  AnchorsKept'
<1>1. document \in Documents /\ i \in DOMAIN Elements /\ i \in Nat
  BY Numbered DEF LoopInv, Passed, AtElement
<1>2. Elements' = Elements /\ DOMAIN Elements \subseteq Nat
  BY <1>1, SourceKept, Numbered
<1>3. \A k \in DOMAIN Elements : k # i => PreparedId(k)' = PreparedId(k)
  BY <1>2 DEF PreparedId
<1>4. \A k : HasAnchor(k)' = HasAnchor(k) /\ Metadata(k)' = Metadata(k)
  BY SourceKept, MetadataKept
<1>5. \A k \in DOMAIN Elements : k < next' <=> k < next \/ k = i
  BY <1>1, <1>2
<1>6. AnchorsKept
  BY DEF LoopInv
<1>7. ~(i < next)
  BY <1>1
<1>8. CASE ~HasAnchor(i) /\ nodes' = nodes
  <2>1. \A id \in DOMAIN nodes' : \E k \in DOMAIN Elements' :
          k < next' /\ HasAnchor(k)' /\ PreparedId(k)' = id /\ nodes'[id] = Metadata(k)'
    <3> SUFFICES ASSUME NEW id \in DOMAIN nodes'
                 PROVE  \E k \in DOMAIN Elements' :
                          /\ k < next' /\ HasAnchor(k)' /\ PreparedId(k)' = id
                          /\ nodes'[id] = Metadata(k)'
      OBVIOUS
    <3>1. PICK k \in DOMAIN Elements :
            k < next /\ HasAnchor(k) /\ PreparedId(k) = id /\ nodes[id] = Metadata(k)
      BY <1>6, <1>8 DEF AnchorsKept
    <3>2. QED
      BY <1>2, <1>3, <1>4, <1>5, <1>7, <1>8, <3>1
  <2>2. \A k \in DOMAIN Elements' :
          k < next' /\ HasAnchor(k)' => PreparedId(k)' \in DOMAIN nodes'
    BY <1>2, <1>3, <1>4, <1>5, <1>6, <1>7, <1>8 DEF AnchorsKept
  <2>3. QED
    BY <2>1, <2>2 DEF AnchorsKept
<1>9. CASE HasAnchor(i) /\ nodes' = Noted(PreparedId(i)')
  <2> DEFINE anchor == PreparedId(i)'
  <2>1. DOMAIN nodes' = DOMAIN nodes \cup {anchor}
    BY <1>9 DEF Noted
  <2>2. nodes'[anchor] = Metadata(i)
    BY <1>9 DEF Noted
  <2>3. \A id \in DOMAIN nodes : id # anchor => nodes'[id] = nodes[id]
    BY <1>9 DEF Noted
  <2> HIDE DEF anchor
  <2>4. HasAnchor(i)' /\ Metadata(i)' = Metadata(i) /\ i < next'
    BY <1>1, <1>4, <1>5, <1>9
  <2>5. \A id \in DOMAIN nodes' : \E k \in DOMAIN Elements' :
          k < next' /\ HasAnchor(k)' /\ PreparedId(k)' = id /\ nodes'[id] = Metadata(k)'
    <3> SUFFICES ASSUME NEW id \in DOMAIN nodes'
                 PROVE  \E k \in DOMAIN Elements' :
                          /\ k < next' /\ HasAnchor(k)' /\ PreparedId(k)' = id
                          /\ nodes'[id] = Metadata(k)'
      OBVIOUS
    <3>1. CASE id = anchor
      BY <1>1, <1>2, <2>2, <2>4, <3>1 DEF anchor
    <3>2. CASE id # anchor
      <4>1. id \in DOMAIN nodes
        BY <2>1, <3>2
      <4>2. PICK k \in DOMAIN Elements :
              k < next /\ HasAnchor(k) /\ PreparedId(k) = id /\ nodes[id] = Metadata(k)
        BY <1>6, <4>1 DEF AnchorsKept
      <4>3. QED
        BY <1>2, <1>3, <1>4, <1>5, <1>7, <2>3, <3>2, <4>1, <4>2
    <3>3. QED
      BY <3>1, <3>2
  <2>6. \A k \in DOMAIN Elements' :
          k < next' /\ HasAnchor(k)' => PreparedId(k)' \in DOMAIN nodes'
    <3> SUFFICES ASSUME NEW k \in DOMAIN Elements, k < next', HasAnchor(k)
                 PROVE  PreparedId(k)' \in DOMAIN nodes'
      BY <1>2, <1>4
    <3>1. CASE k = i
      BY <2>1, <3>1 DEF anchor
    <3>2. CASE k # i
      BY <1>3, <1>5, <1>6, <2>1, <3>2 DEF AnchorsKept
    <3>3. QED
      BY <3>1, <3>2
  <2>7. QED
    BY <2>5, <2>6 DEF AnchorsKept
<1>10. QED
  BY <1>8, <1>9

\* An element with an id of its own.
LEMMA KeepOwnIdKeeps == ASSUME LoopInv, KeepOwnId PROVE LoopInv'
<1>1. document \in Documents /\ next \in DOMAIN Elements /\ next \in Nat
  BY Numbered DEF LoopInv, Passed, KeepOwnId, AtElement
<1>2. /\ Elements' = Elements /\ OwnIds' = OwnIds /\ inserted' = inserted
      /\ \A k : HasAnchor(k)' = HasAnchor(k)
  BY SourceKept DEF KeepOwnId
<1>3. DOMAIN Elements = 1 .. Len(Elements) /\ Len(Elements) \in Nat
  BY <1>1, Numbered
<1>4. Passed'
  BY <1>1, <1>2, <1>3 DEF LoopInv, Passed, KeepOwnId, AtElement
<1>5. \A k \in DOMAIN Elements : k < next' <=> k < next \/ k = next
  BY <1>1, <1>3 DEF KeepOwnId
<1>6. InsertionsFresh' /\ InsertionsMade'
  BY <1>2, <1>5 DEF LoopInv, InsertionsFresh, InsertionsMade, KeepOwnId
<1>7. ReservedKept'
  BY <1>2 DEF LoopInv, ReservedKept, KeepOwnId
<1>8. HasAnchor(next)
  BY DEF KeepOwnId, HasAnchor
<1>9. inserted[next] = NoId
  BY <1>1 DEF LoopInv, InsertionsFresh, KeepOwnId
<1>10. ASSUME NEW m, m = next
       PROVE  AnchorsKept'
  <2>1. PreparedId(m)' = Elements[m].id
    BY <1>2, <1>9, <1>10 DEF PreparedId
  <2>2. HasAnchor(m) /\ nodes' = Noted(PreparedId(m)')
    BY <1>8, <1>10, <2>1 DEF KeepOwnId
  <2>3. QED
    BY <1>2, <1>10, <2>2, NotedAnchor DEF KeepOwnId
<1>11. QED
  BY <1>4, <1>6, <1>7, <1>10 DEF LoopInv

\* An element without an id, whose synthetic id is free.
LEMMA InsertIdKeeps == ASSUME LoopInv, InsertId PROVE LoopInv'
<1>1. document \in Documents /\ next \in DOMAIN Elements /\ next \in Nat
  <2>1. document \in Documents /\ next \in 1 .. Len(Elements) + 1 /\ next <= Len(Elements)
    BY DEF LoopInv, Passed, InsertId, AtElement
  <2>2. QED
    BY <2>1, Numbered
<1>2. /\ Elements' = Elements /\ OwnIds' = OwnIds
      /\ \A k : HasAnchor(k)' = HasAnchor(k)
  BY SourceKept DEF InsertId
<1>3. /\ DOMAIN Elements = 1 .. Len(Elements) /\ Len(Elements) \in Nat
      /\ Synthetic[next] \in ToSet(Synthetic) /\ Synthetic[next] # NoId
  BY <1>1, Numbered
<1>4. DOMAIN inserted = DOMAIN Elements
  BY DEF LoopInv, Passed
<1>5. /\ inserted'[next] = Synthetic[next]
      /\ \A k \in DOMAIN Elements : k # next => inserted'[k] = inserted[k]
      /\ DOMAIN inserted' = DOMAIN Elements
  BY <1>1, <1>4 DEF InsertId
<1>6. Passed'
  BY <1>1, <1>2, <1>3 DEF LoopInv, Passed, InsertId, AtElement
<1>7. \A k \in DOMAIN Elements : k < next' <=> k < next \/ k = next
  BY <1>1, <1>3 DEF InsertId
<1>8. Elements[next].id = NoId /\ HasAnchor(next)
  BY DEF InsertId, Injectable, LoopInv, ReservedKept, HasAnchor
<1>9. InsertionsFresh'
  BY <1>2, <1>5, <1>7, <1>8 DEF LoopInv, InsertionsFresh
<1>10. InsertionsMade'
  BY <1>2, <1>5, <1>7, <1>8 DEF LoopInv, InsertionsMade
<1>11. inserted[next] = NoId
  BY <1>1 DEF LoopInv, InsertionsFresh
<1>12. ReservedKept'
  <2>1. {inserted'[k] : k \in DOMAIN Elements} \ {NoId}
          = ({inserted[k] : k \in DOMAIN Elements} \ {NoId}) \cup {Synthetic[next]}
    BY <1>1, <1>3, <1>5, <1>11
  <2>2. QED
    BY <1>2, <2>1 DEF LoopInv, ReservedKept, InsertId
<1>13. ASSUME NEW m, m = next
       PROVE  AnchorsKept'
  <2>1. PreparedId(m)' = Synthetic[m]
    BY <1>3, <1>5, <1>13 DEF PreparedId
  <2>2. HasAnchor(m) /\ nodes' = Noted(PreparedId(m)')
    BY <1>8, <1>13, <2>1 DEF InsertId
  <2>3. QED
    BY <1>5, <1>13, <2>2, NotedAnchor DEF InsertId
<1>14. QED
  BY <1>6, <1>9, <1>10, <1>12, <1>13 DEF LoopInv

\* An element that cannot be told apart: the synthetic ids reserved so far
\* are those of other elements.
LEMMA PassOverKeeps == ASSUME LoopInv, PassOver PROVE LoopInv'
<1>1. document \in Documents /\ next \in DOMAIN Elements /\ next \in Nat
  BY Numbered DEF LoopInv, Passed, PassOver, AtElement
<1>2. /\ Elements' = Elements /\ OwnIds' = OwnIds /\ inserted' = inserted
      /\ \A k : HasAnchor(k)' = HasAnchor(k)
  BY SourceKept DEF PassOver
<1>3. DOMAIN Elements = 1 .. Len(Elements) /\ DOMAIN Elements \subseteq DOMAIN Synthetic
  BY <1>1, Numbered
<1>4. Passed'
  BY <1>1, <1>2, <1>3 DEF LoopInv, Passed, PassOver, AtElement
<1>5. \A k \in DOMAIN Elements : k < next' <=> k < next \/ k = next
  BY <1>1, <1>3 DEF PassOver
<1>6. ~HasAnchor(next)
  <2>1. CASE Elements[next].id # NoId
    <3>1. Count(Elements[next].id) > 1
      BY <2>1 DEF PassOver
    <3>2. Count(Elements[next].id) # 1
      BY <3>1
    <3>3. QED
      BY <2>1, <3>2 DEF HasAnchor
  <2>2. CASE Elements[next].id = NoId
    <3>1. \A k \in DOMAIN Elements : inserted[k] # NoId => Synthetic[next] # inserted[k]
      <4> SUFFICES ASSUME NEW k \in DOMAIN Elements, inserted[k] # NoId
                   PROVE  Synthetic[next] # inserted[k]
        OBVIOUS
      <4>1. inserted[k] = Synthetic[k] /\ k < next
        BY DEF LoopInv, InsertionsFresh
      <4>2. k # next
        BY <1>1, <1>3, <4>1
      <4>3. QED
        BY <1>1, <1>3, <4>1, <4>2, SyntheticAssumption
    <3>2. ~InjectionSafe \/ Synthetic[next] \in reserved
      BY <2>2 DEF PassOver, Injectable
    <3>3. reserved = OwnIds \cup ({inserted[k] : k \in DOMAIN Elements} \ {NoId})
      BY DEF LoopInv, ReservedKept
    <3>4. QED
      BY <2>2, <3>1, <3>2, <3>3 DEF HasAnchor
  <2>3. QED
    BY <2>1, <2>2
<1>7. InsertionsFresh'
  BY <1>2, <1>5 DEF LoopInv, InsertionsFresh
<1>8. InsertionsMade'
  BY <1>2, <1>5, <1>6 DEF LoopInv, InsertionsMade
<1>9. ReservedKept'
  BY <1>2 DEF LoopInv, ReservedKept, PassOver
<1>10. ASSUME NEW m, m = next
       PROVE  AnchorsKept'
  <2>1. ~HasAnchor(m) /\ nodes' = nodes
    BY <1>6, <1>10 DEF PassOver
  <2>2. QED
    BY <1>2, <1>10, <2>1, NotedAnchor DEF PassOver
<1>11. QED
  BY <1>4, <1>7, <1>8, <1>9, <1>10 DEF LoopInv

\* The end of the loop, and a stutter.
LEMMA SameKeeps ==
  ASSUME LoopInv, UNCHANGED <<document, next, reserved, inserted, nodes>>, Passed'
  PROVE  LoopInv'
<1>1. /\ Elements' = Elements /\ OwnIds' = OwnIds
      /\ \A k : HasAnchor(k)' = HasAnchor(k)
  BY SourceKept
<1>2. \A k : Metadata(k)' = Metadata(k)
  BY MetadataKept
<1>3. \A k : PreparedId(k)' = PreparedId(k)
  BY <1>1 DEF PreparedId
<1>4. InsertionsFresh' /\ InsertionsMade' /\ ReservedKept'
  BY <1>1 DEF LoopInv, InsertionsFresh, InsertionsMade, ReservedKept
<1>5. AnchorsKept'
  BY <1>1, <1>2, <1>3 DEF LoopInv, AnchorsKept
<1>6. QED
  BY <1>4, <1>5 DEF LoopInv

LEMMA FinishKeeps == ASSUME LoopInv, Finish PROVE LoopInv'
<1>1. document \in Documents /\ Elements' = Elements /\ Len(Elements) \in Nat
  BY SourceKept, Numbered DEF LoopInv, Passed, Finish
<1>2. Passed'
  BY <1>1 DEF LoopInv, Passed, Finish
<1>3. QED
  BY <1>2, SameKeeps DEF Finish

LEMMA LoopNext == ASSUME LoopInv, [Next]_vars PROVE LoopInv'
<1>1. CASE UNCHANGED vars
  <2>1. Elements' = Elements
    BY <1>1, SourceKept DEF vars
  <2>2. Passed'
    BY <1>1, <2>1 DEF LoopInv, Passed, vars
  <2>3. QED
    BY <1>1, <2>2, SameKeeps DEF vars
<1>2. QED
  BY <1>1, KeepOwnIdKeeps, InsertIdKeeps, PassOverKeeps, FinishKeeps DEF Next

\* What the loop has done with the elements it has passed.
THEOREM LoopInvariant == Spec => []LoopInv
<1>1. Init => LoopInv
  BY LoopInit
<1>2. LoopInv /\ [Next]_vars => LoopInv'
  BY LoopNext
<1>3. QED
  BY <1>1, <1>2, PTL DEF Spec

-----------------------------------------------------------------------------
\* Every reachable state is of its type.
THEOREM CorrelationTyped == Spec => []TypeOK
<1>1. LoopInv => TypeOK
  <2> SUFFICES ASSUME LoopInv PROVE TypeOK
    OBVIOUS
  <2>1. Passed
    BY DEF LoopInv
  <2>2. reserved = OwnIds \cup ({inserted[k] : k \in DOMAIN Elements} \ {NoId})
    BY DEF LoopInv, ReservedKept
  <2>3. reserved \subseteq OwnIds \cup ToSet(Synthetic)
    BY <2>1, <2>2 DEF Passed
  <2>4. ASSUME NEW id \in DOMAIN nodes PROVE id \in reserved
    <3>1. PICK k \in DOMAIN Elements :
            k < next /\ HasAnchor(k) /\ PreparedId(k) = id
      BY DEF LoopInv, AnchorsKept
    <3>2. id # NoId
      BY <2>1, <3>1, AnchorsApart DEF LoopInv
    <3>3. CASE inserted[k] = NoId
      BY <2>2, <3>1, <3>2, <3>3 DEF PreparedId, OwnIds
    <3>4. CASE inserted[k] # NoId
      BY <2>2, <3>1, <3>2, <3>4 DEF PreparedId
    <3>5. QED
      BY <3>3, <3>4
  <2>5. QED
    BY <2>1, <2>3, <2>4 DEF Passed, TypeOK
<1>2. QED
  BY <1>1, LoopInvariant, PTL

\* Every anchor names one element of the prepared text and carries what is
\* known of that element, and every element that can be told apart has one.
THEOREM AnchorsNameElements == Spec => []AnchorsIdentify
<1>1. LoopInv => AnchorsIdentify
  <2> SUFFICES ASSUME LoopInv, result = "Ok"
               PROVE  /\ \A id \in DOMAIN nodes : \E k \in DOMAIN Elements :
                           Found(id, Prepared) = {k} /\ nodes[id] = Metadata(k)
                      /\ \A k \in DOMAIN Elements : Prepared[k] \in DOMAIN nodes <=> HasAnchor(k)
    BY DEF AnchorsIdentify, HasAnchor, OwnId
  <2>1. Passed /\ InsertionsFresh /\ InsertionsMade /\ AnchorsKept
    BY DEF LoopInv
  <2>2. \A k \in DOMAIN Elements : k < next /\ Prepared[k] = PreparedId(k)
    BY <2>1, Numbered DEF Passed, Prepared
  <2>3. ASSUME NEW id \in DOMAIN nodes
        PROVE  \E k \in DOMAIN Elements :
                 HasAnchor(k) /\ Found(id, Prepared) = {k} /\ nodes[id] = Metadata(k)
    <3>1. PICK k \in DOMAIN Elements :
            k < next /\ HasAnchor(k) /\ PreparedId(k) = id /\ nodes[id] = Metadata(k)
      BY <2>1 DEF AnchorsKept
    <3>2. id # NoId
      BY <2>1, <3>1, AnchorsApart
    <3>3. \A j \in DOMAIN Elements : Prepared[j] = id <=> j = k
      BY <2>1, <2>2, <3>1, AnchorsApart
    <3>4. Found(id, Prepared) = {k}
      BY <3>2, <3>3 DEF Found
    <3>5. QED
      BY <3>1, <3>4
  <2>4. ASSUME NEW k \in DOMAIN Elements
        PROVE  Prepared[k] \in DOMAIN nodes <=> HasAnchor(k)
    <3>1. HasAnchor(k) => Prepared[k] \in DOMAIN nodes
      BY <2>1, <2>2 DEF AnchorsKept
    <3>2. ASSUME Prepared[k] \in DOMAIN nodes PROVE HasAnchor(k)
      <4>1. PICK j \in DOMAIN Elements :
              HasAnchor(j) /\ j < next /\ PreparedId(j) = PreparedId(k)
        BY <2>1, <2>2, <3>2 DEF AnchorsKept
      <4>2. j = k
        BY <2>1, <4>1, AnchorsApart
      <4>3. QED
        BY <4>1, <4>2
    <3>3. QED
      BY <3>1, <3>2
  <2>5. QED
    BY <2>3, <2>4
<1>2. QED
  BY <1>1, LoopInvariant, PTL

\* Inserting ids changes no id of the source, selects nothing more by a style
\* sheet, and leads no reference to another element.
THEOREM InsertionsUnobserved == Spec => []InjectionUnobserved
<1>1. LoopInv => InjectionUnobserved
  <2> SUFFICES ASSUME LoopInv PROVE InjectionUnobserved
    OBVIOUS
  <2>1. \A k \in DOMAIN Elements : OwnId[k] # NoId => Prepared[k] = OwnId[k]
    BY DEF LoopInv, InsertionsFresh, OwnId, Prepared, PreparedId
  <2>2. \A k \in DOMAIN Elements : Prepared[k] # OwnId[k] =>
          InjectionSafe /\ OwnId[k] = NoId /\ Prepared[k] \notin OwnIds
    BY DEF LoopInv, InsertionsFresh, OwnId, Prepared, PreparedId, HasAnchor
  <2>3. ASSUME NEW sheet \in document.sheets
        PROVE  Selected(sheet, Prepared) = Selected(sheet, OwnId)
    <3>1. CASE InjectionSafe
      <4>1. sheet # "synthetic" /\ sheet # "attribute"
        BY <3>1 DEF InjectionSafe, Observes
      <4>2. QED
        BY <4>1 DEF Selected
    <3>2. CASE ~InjectionSafe
      <4>1. Prepared = OwnId
        BY <2>2, <3>2 DEF Prepared, OwnId
      <4>2. QED
        BY <4>1
    <3>3. QED
      BY <3>1, <3>2
  <2>4. ASSUME NEW ref \in OwnIds
        PROVE  Found(ref, Prepared) = Found(ref, OwnId)
    <3>1. ref # NoId
      BY DEF OwnIds
    <3>2. \A k \in DOMAIN Elements : Prepared[k] = ref <=> OwnId[k] = ref
      BY <2>2, <3>1
    <3>3. QED
      BY <3>2 DEF Found
  <2>5. QED
    BY <2>1, <2>3, <2>4 DEF InjectionUnobserved
<1>2. QED
  BY <1>1, LoopInvariant, PTL

-----------------------------------------------------------------------------
(* Reading an outline                                                      *)

Spots    == Int \X Int
Readings == [at : Spots, points : Seq(Spots), closed : BOOLEAN]
Pens     == [at : Spots, begin : Spots, paths : Seq(Seq(Spots))]

StartReading == [at |-> <<0, 0>>, points |-> <<>>, closed |-> FALSE]
StartPen     == [at |-> <<0, 0>>, begin |-> <<0, 0>>, paths |-> <<>>]

LEMMA ResolveTyped ==
  ASSUME NEW at \in Spots, NEW segment \in Segments
  PROVE  Resolve(at, segment) \in Spots
BY DEF Spots, Segments, Resolve

LEMMA FreshTyped ==
  ASSUME NEW points \in Seq(Spots), NEW here \in Spots
  PROVE  AppendFresh(points, here) \in Seq(Spots) /\ AppendFresh(points, here) # <<>>
<1>1. Append(points, here) \in Seq(Spots) /\ Append(points, here) # <<>>
  OBVIOUS
<1>2. \/ AppendFresh(points, here) = points /\ points # <<>>
      \/ AppendFresh(points, here) = Append(points, here)
  BY DEF AppendFresh
<1>3. QED
  BY <1>1, <1>2

LEMMA ReadTyped ==
  ASSUME NEW seen \in Readings, NEW segment \in Segments
  PROVE  ReadSegment(seen, segment) \in Readings
<1> DEFINE here == Resolve(seen.at, segment)
<1>1. here \in Spots
  BY ResolveTyped DEF Readings
<1>2. AppendFresh(seen.points, here) \in Seq(Spots)
  BY <1>1, FreshTyped DEF Readings
<1> HIDE DEF here
<1>3. ReadSegment(seen, segment) =
        IF segment.op = "close" THEN [seen EXCEPT !.closed = TRUE]
        ELSE [seen EXCEPT !.at = here, !.points = AppendFresh(seen.points, here)]
  BY DEF ReadSegment, here
<1>4. QED
  BY <1>1, <1>2, <1>3 DEF Readings

LEMMA DrawTyped ==
  ASSUME NEW pen \in Pens, NEW segment \in Segments
  PROVE  DrawSegment(pen, segment) \in Pens
<1> DEFINE here == Resolve(pen.at, segment)
           last == Len(pen.paths)
           longer == AppendFresh(pen.paths[last], here)
<1>1. here \in Spots /\ pen.paths \in Seq(Seq(Spots)) /\ pen.begin \in Spots
  BY ResolveTyped DEF Pens
<1>2. [pen.paths EXCEPT ![last] = longer] \in Seq(Seq(Spots))
  <2>1. CASE pen.paths = <<>>
    <3>1. last = 0 /\ DOMAIN pen.paths = {}
      BY <2>1
    <3>2. [pen.paths EXCEPT ![last] = longer] = pen.paths
      BY <1>1, <3>1
    <3>3. QED
      BY <1>1, <3>2
  <2>2. CASE pen.paths # <<>>
    <3>1. last \in DOMAIN pen.paths /\ pen.paths[last] \in Seq(Spots)
      BY <1>1, <2>2
    <3>2. longer \in Seq(Spots)
      BY <1>1, <3>1, FreshTyped
    <3> HIDE DEF longer
    <3>3. QED
      BY <1>1, <3>1, <3>2
  <2>3. QED
    BY <2>1, <2>2
<1>3. <<here>> \in Seq(Spots) /\ <<pen.begin>> \in Seq(Spots)
  BY <1>1
<1>4. /\ Append(pen.paths, <<here>>) \in Seq(Seq(Spots))
      /\ Append(pen.paths, <<pen.begin>>) \in Seq(Seq(Spots))
  BY <1>1, <1>3
<1> HIDE DEF here
<1>5. DrawSegment(pen, segment) =
        IF segment.op = "close"
        THEN [pen EXCEPT !.at = pen.begin, !.paths = Append(pen.paths, <<pen.begin>>)]
        ELSE IF segment.op = "move"
        THEN [at |-> here, begin |-> here, paths |-> Append(pen.paths, <<here>>)]
        ELSE [pen EXCEPT !.at = here, !.paths = [pen.paths EXCEPT ![last] = longer]]
  BY DEF DrawSegment, here
<1> HIDE DEF last, longer
<1>6. ASSUME NEW paths \in Seq(Seq(Spots)), NEW at \in Spots
      PROVE  /\ [pen EXCEPT !.at = at, !.paths = paths] \in Pens
             /\ [at |-> at, begin |-> at, paths |-> paths] \in Pens
  <2> DEFINE S == Seq(Seq(Spots))
  <2>1. paths \in S /\ pen \in [at : Spots, begin : Spots, paths : S]
    BY DEF Pens
  <2> HIDE DEF S
  <2>2. /\ [pen EXCEPT !.at = at, !.paths = paths] \in [at : Spots, begin : Spots, paths : S]
        /\ [at |-> at, begin |-> at, paths |-> paths] \in [at : Spots, begin : Spots, paths : S]
    BY <2>1
  <2>3. QED
    BY <2>2 DEF S, Pens
<1>7. CASE segment.op = "close"
  BY <1>1, <1>4, <1>5, <1>6, <1>7
<1>8. CASE segment.op = "move"
  BY <1>1, <1>4, <1>5, <1>6, <1>8
<1>9. CASE segment.op \notin {"close", "move"}
  BY <1>1, <1>2, <1>5, <1>6, <1>9
<1>10. QED
  BY <1>7, <1>8, <1>9

\* f and g are what is seen and drawn of the outline, segment by segment.
Reads(f, outline) == /\ f[0] = StartReading
                     /\ \A k \in 1 .. Len(outline) : f[k] = ReadSegment(f[k - 1], outline[k])
Draws(g, outline) == /\ g[0] = StartPen
                     /\ \A k \in 1 .. Len(outline) : g[k] = DrawSegment(g[k - 1], outline[k])

LEMMA LinearReads ==
  ASSUME NEW outline \in Seq(Segments)
  PROVE  \E f : Reads(f, outline) /\ LinearPoints(outline) = f[Len(outline)]
<1> DEFINE m == Len(outline)
           step == [k \in 1 .. m |-> [x \in Readings |-> ReadSegment(x, outline[k])]]
           body(f) == [k \in 0 .. Len(outline) |->
                         IF k = 0 THEN [at |-> <<0, 0>>, points |-> <<>>, closed |-> FALSE]
                         ELSE ReadSegment(f[k - 1], outline[k])]
           upTo == CHOOSE f : f = body(f)
<1>1. LinearPoints(outline) = upTo[m]
  BY DEF LinearPoints
<1>2. m \in Nat /\ \A k \in 1 .. m : outline[k] \in Segments
  OBVIOUS
<1> HIDE DEF m
<1>3. step \in Steps(Readings, m)
  BY <1>2, ReadTyped DEF Steps
<1>4. StartReading \in Readings
  BY DEF StartReading, Readings, Spots
<1> HIDE DEF step
<1>5. PICK f : Recurses(f, Readings, StartReading, m, step)
  BY <1>2, <1>3, <1>4, RecursionExists, Zenon
<1>6. f = body(f)
  <2>1. ASSUME NEW k \in 1 .. m PROVE f[k] = ReadSegment(f[k - 1], outline[k])
    <3>1. k - 1 \in 0 .. m
      BY <1>2
    <3>2. f[k] = step[k][f[k - 1]] /\ f[k - 1] \in Readings
      BY <1>5, <3>1 DEF Recurses
    <3>3. QED
      BY <3>2 DEF step
  <2>2. f[0] = StartReading /\ f = [k \in 0 .. m |-> f[k]]
    BY <1>5 DEF Recurses
  <2>3. \A k \in 0 .. m : k # 0 => k \in 1 .. m
    BY <1>2
  <2>4. \A k \in 0 .. m : f[k] = IF k = 0 THEN StartReading ELSE ReadSegment(f[k - 1], outline[k])
    BY <2>1, <2>2, <2>3, Zenon
  <2>5. f = [k \in 0 .. m |-> IF k = 0 THEN StartReading ELSE ReadSegment(f[k - 1], outline[k])]
    BY <2>2, <2>4, Zenon
  <2>6. QED
    BY <2>5 DEF m, StartReading
<1>7. upTo = body(upTo)
  BY <1>6
<1> HIDE DEF upTo
<1>8. Reads(upTo, outline)
  <2>1. upTo = [k \in 0 .. m |-> IF k = 0 THEN StartReading
                                 ELSE ReadSegment(upTo[k - 1], outline[k])]
    BY <1>7 DEF m, StartReading
  <2> HIDE DEF body
  <2>2. \A k \in 0 .. m : upTo[k] = IF k = 0 THEN StartReading
                                    ELSE ReadSegment(upTo[k - 1], outline[k])
    BY <2>1, Zenon
  <2>3. 0 \in 0 .. m /\ \A k \in 1 .. m : k \in 0 .. m /\ k # 0
    BY <1>2
  <2>4. upTo[0] = StartReading /\ \A k \in 1 .. m : upTo[k] = ReadSegment(upTo[k - 1], outline[k])
    BY <2>2, <2>3, Zenon
  <2>5. QED
    BY <2>4 DEF Reads, m
<1>9. QED
  BY <1>1, <1>8 DEF m

LEMMA SubpathsDraw ==
  ASSUME NEW outline \in Seq(Segments)
  PROVE  \E g : Draws(g, outline) /\ Subpaths(outline) = g[Len(outline)].paths
<1> DEFINE m == Len(outline)
           step == [k \in 1 .. m |-> [x \in Pens |-> DrawSegment(x, outline[k])]]
           body(f) == [k \in 0 .. Len(outline) |->
                         IF k = 0 THEN [at |-> <<0, 0>>, begin |-> <<0, 0>>, paths |-> <<>>]
                         ELSE DrawSegment(f[k - 1], outline[k])]
           upTo == CHOOSE f : f = body(f)
<1>1. Subpaths(outline) = upTo[m].paths
  BY DEF Subpaths
<1>2. m \in Nat /\ \A k \in 1 .. m : outline[k] \in Segments
  OBVIOUS
<1> HIDE DEF m
<1>3. step \in Steps(Pens, m)
  BY <1>2, DrawTyped DEF Steps
<1>4. StartPen \in Pens
  BY DEF StartPen, Pens, Spots
<1> HIDE DEF step
<1>5. PICK f : Recurses(f, Pens, StartPen, m, step)
  BY <1>2, <1>3, <1>4, RecursionExists, Zenon
<1>6. f = body(f)
  <2>1. ASSUME NEW k \in 1 .. m PROVE f[k] = DrawSegment(f[k - 1], outline[k])
    <3>1. k - 1 \in 0 .. m
      BY <1>2
    <3>2. f[k] = step[k][f[k - 1]] /\ f[k - 1] \in Pens
      BY <1>5, <3>1 DEF Recurses
    <3>3. QED
      BY <3>2 DEF step
  <2>2. f[0] = StartPen /\ f = [k \in 0 .. m |-> f[k]]
    BY <1>5 DEF Recurses
  <2>3. \A k \in 0 .. m : k # 0 => k \in 1 .. m
    BY <1>2
  <2>4. \A k \in 0 .. m : f[k] = IF k = 0 THEN StartPen ELSE DrawSegment(f[k - 1], outline[k])
    BY <2>1, <2>2, <2>3, Zenon
  <2>5. f = [k \in 0 .. m |-> IF k = 0 THEN StartPen ELSE DrawSegment(f[k - 1], outline[k])]
    BY <2>2, <2>4, Zenon
  <2>6. QED
    BY <2>5 DEF m, StartPen
<1>7. upTo = body(upTo)
  BY <1>6
<1> HIDE DEF upTo
<1>8. Draws(upTo, outline)
  <2>1. upTo = [k \in 0 .. m |-> IF k = 0 THEN StartPen ELSE DrawSegment(upTo[k - 1], outline[k])]
    BY <1>7 DEF m, StartPen
  <2> HIDE DEF body
  <2>2. \A k \in 0 .. m : upTo[k] = IF k = 0 THEN StartPen ELSE DrawSegment(upTo[k - 1], outline[k])
    BY <2>1, Zenon
  <2>3. 0 \in 0 .. m /\ \A k \in 1 .. m : k \in 0 .. m /\ k # 0
    BY <1>2
  <2>4. upTo[0] = StartPen /\ \A k \in 1 .. m : upTo[k] = DrawSegment(upTo[k - 1], outline[k])
    BY <2>2, <2>3, Zenon
  <2>5. QED
    BY <2>4 DEF Draws, m
<1>9. QED
  BY <1>1, <1>8 DEF m

\* In the first subpath, what is seen is what is drawn.
Together(seen, pen) ==
  /\ seen.at \in Spots /\ seen.points \in Seq(Spots) /\ seen.closed = FALSE
  /\ DOMAIN seen = {"at", "points", "closed"}
  /\ pen.at = seen.at /\ pen.paths = <<seen.points>>
  /\ DOMAIN pen = {"at", "begin", "paths"}

LEMMA TogetherFirst ==
  ASSUME NEW segment \in Segments, segment.op = "move"
  PROVE  Together(ReadSegment(StartReading, segment), DrawSegment(StartPen, segment))
<1> DEFINE here == Resolve(<<0, 0>>, segment)
<1>1. here \in Spots
  <2>1. <<0, 0>> \in Spots
    BY DEF Spots
  <2>2. QED
    BY <2>1, ResolveTyped
<1>2. StartReading.at = <<0, 0>> /\ StartPen.at = <<0, 0>>
  BY DEF StartReading, StartPen
<1>3. ReadSegment(StartReading, segment)
        = [StartReading EXCEPT !.at = here, !.points = AppendFresh(StartReading.points, here)]
  BY <1>2 DEF ReadSegment
<1>4. DrawSegment(StartPen, segment)
        = [at |-> here, begin |-> here, paths |-> Append(StartPen.paths, <<here>>)]
  BY <1>2 DEF DrawSegment
<1> HIDE DEF here
<1>5. AppendFresh(StartReading.points, here) = <<here>> /\ <<here>> \in Seq(Spots)
  BY <1>1 DEF AppendFresh, StartReading
<1>6. Append(StartPen.paths, <<here>>) = <<<<here>>>>
  BY DEF StartPen
<1>7. ReadSegment(StartReading, segment) = [at |-> here, points |-> <<here>>, closed |-> FALSE]
  BY <1>3, <1>5 DEF StartReading
<1>8. QED
  BY <1>1, <1>4, <1>5, <1>6, <1>7 DEF Together

LEMMA TogetherNext ==
  ASSUME NEW seen, NEW pen, Together(seen, pen), NEW segment \in Segments,
         segment.op \notin {"close", "move"}
  PROVE  Together(ReadSegment(seen, segment), DrawSegment(pen, segment))
<1> DEFINE here == Resolve(seen.at, segment)
           longer == AppendFresh(seen.points, here)
<1>1. here \in Spots /\ longer \in Seq(Spots)
  BY ResolveTyped, FreshTyped DEF Together
<1>2. ReadSegment(seen, segment) = [seen EXCEPT !.at = here, !.points = longer]
  BY DEF ReadSegment
<1>3. Len(pen.paths) = 1 /\ pen.paths[1] = seen.points /\ pen.paths = <<seen.points>>
  <2>1. pen.paths = <<seen.points>> /\ seen.points \in Seq(Spots)
    BY DEF Together
  <2>2. QED
    BY <2>1
<1>4. DrawSegment(pen, segment)
        = [pen EXCEPT !.at = here, !.paths = [pen.paths EXCEPT ![1] = longer]]
  BY <1>3 DEF DrawSegment, Together
<1> HIDE DEF here, longer
<1>5. [pen.paths EXCEPT ![1] = longer] = <<longer>>
  <2>1. [<<seen.points>> EXCEPT ![1] = longer] = <<longer>>
    OBVIOUS
  <2>2. QED
    BY <1>3, <2>1
<1>6. DrawSegment(pen, segment) = [pen EXCEPT !.at = here, !.paths = <<longer>>]
  BY <1>4, <1>5
<1>7. QED
  BY <1>1, <1>2, <1>6 DEF Together

LEMMA FirstOfTwo ==
  ASSUME NEW p, NEW q
  PROVE  p \in ToSet(Append(<<p>>, q))
<1> DEFINE S == {p, q}
<1>0. p \in S /\ q \in S
  OBVIOUS
<1> HIDE DEF S
<1>1. <<p>> \in Seq(S) /\ Len(<<p>>) = 1 /\ <<p>>[1] = p
  BY <1>0
<1>2. 1 \in DOMAIN Append(<<p>>, q) /\ Append(<<p>>, q)[1] = p
  BY <1>0, <1>1
<1>3. QED
  BY <1>2 DEF ToSet

\* The points of a closed outline that is one subpath are those of a subpath
\* that a renderer follows.
LEMMA OneOutline ==
  ASSUME NEW outline \in Seq(Segments), outline # <<>> => outline[1].op = "move",
         OneSubpath(outline), \A i \in DOMAIN outline : outline[i].op # "curve",
         LinearPoints(outline).closed
  PROVE  /\ LinearPoints(outline).points \in Seq(Spots)
         /\ LinearPoints(outline).points \in ToSet(Subpaths(outline))
<1>1. PICK f : Reads(f, outline) /\ LinearPoints(outline) = f[Len(outline)]
  BY LinearReads
<1>2. PICK g : Draws(g, outline) /\ Subpaths(outline) = g[Len(outline)].paths
  BY SubpathsDraw
<1> DEFINE m == Len(outline)
<1>3. /\ m \in Nat /\ \A k \in 1 .. m : outline[k] \in Segments /\ outline[k].op # "curve"
      /\ \A k \in 1 .. m : /\ outline[k].op = "move" => k = 1
                           /\ outline[k].op = "close" => k = m
  BY DEF OneSubpath
<1>4. /\ f[0] = StartReading /\ \A k \in 1 .. m : f[k] = ReadSegment(f[k - 1], outline[k])
      /\ g[0] = StartPen /\ \A k \in 1 .. m : g[k] = DrawSegment(g[k - 1], outline[k])
      /\ f[m].closed
  BY <1>1, <1>2 DEF Reads, Draws
<1>5. m # 0 => outline[1].op = "move"
  OBVIOUS
<1> HIDE DEF m
<1>6. m # 0
  <2>1. ~StartReading.closed
    BY DEF StartReading
  <2>2. QED
    BY <1>4, <2>1
<1> DEFINE S == {k \in 0 .. m : k = 0 \/ (k = m /\ outline[m].op = "close") \/ Together(f[k], g[k])}
<1>7. 0 \in S
  BY <1>3
<1>8. ASSUME NEW k \in 0 .. m - 1, k \in S PROVE k + 1 \in S
  <2>1. k \in Nat /\ k + 1 \in 1 .. m /\ k + 1 \in 0 .. m /\ (k + 1) - 1 = k /\ k # m
    BY <1>3, <1>8
  <2>2. outline[k + 1] \in Segments /\ f[k + 1] = ReadSegment(f[k], outline[k + 1])
        /\ g[k + 1] = DrawSegment(g[k], outline[k + 1])
    BY <1>3, <1>4, <2>1
  <2>3. CASE outline[k + 1].op = "close"
    BY <1>3, <2>1, <2>3
  <2>4. CASE k = 0
    <3>1. outline[1].op = "move" /\ f[1] = ReadSegment(StartReading, outline[1])
          /\ g[1] = DrawSegment(StartPen, outline[1]) /\ outline[1] \in Segments
      BY <1>4, <1>5, <1>6, <2>2, <2>4
    <3>2. Together(f[1], g[1])
      BY <3>1, TogetherFirst
    <3>3. QED
      BY <2>1, <2>4, <3>2
  <2>5. CASE k # 0 /\ outline[k + 1].op # "close"
    <3>1. outline[k + 1].op \notin {"close", "move"} /\ Together(f[k], g[k])
      BY <1>3, <1>8, <2>1, <2>5
    <3>2. Together(f[k + 1], g[k + 1])
      BY <2>2, <3>1, TogetherNext
    <3>3. QED
      BY <2>1, <3>2
  <2>6. QED
    BY <2>3, <2>4, <2>5
<1> HIDE DEF S
<1>9. 0 .. m \subseteq S
  BY <1>3, <1>7, <1>8, IntervalInduction
<1>10. ~Together(f[m], g[m])
  BY <1>4 DEF Together
<1>11. m \in 1 .. m /\ m - 1 \in 0 .. m /\ outline[m].op = "close"
  BY <1>3, <1>6, <1>9, <1>10 DEF S
<1>12. m # 1
  BY <1>5, <1>11
<1>13. Together(f[m - 1], g[m - 1])
  BY <1>3, <1>6, <1>9, <1>11, <1>12 DEF S
<1> DEFINE seen == f[m - 1]
           pen  == g[m - 1]
<1>14. f[m] = [seen EXCEPT !.closed = TRUE]
       /\ g[m] = [pen EXCEPT !.at = pen.begin, !.paths = Append(pen.paths, <<pen.begin>>)]
  BY <1>4, <1>11 DEF ReadSegment, DrawSegment
<1>15. Together(seen, pen)
  BY <1>13
<1> HIDE DEF seen, pen
<1>16. f[m].points = seen.points /\ g[m].paths = Append(<<seen.points>>, <<pen.begin>>)
       /\ seen.points \in Seq(Spots)
  BY <1>14, <1>15 DEF Together
<1>17. seen.points \in ToSet(Append(<<seen.points>>, <<pen.begin>>))
  BY FirstOfTwo
<1>18. QED
  BY <1>1, <1>2, <1>16, <1>17 DEF m

-----------------------------------------------------------------------------
(* Recognized markers                                                      *)

\* A triangle has room inside.
LEMMA TriangleHasRoom ==
  ASSUME NEW points \in Seq(Spots), Len(points) = 3, \A i \in 1 .. 3 : Near(points[i], Triangle[i])
  PROVE  Cardinality(ToSet(points)) >= 3
<1> DEFINE a == points[1]
           b == points[2]
           c == points[3]
<1>1. /\ a \in Spots /\ b \in Spots /\ c \in Spots
      /\ Near(a, <<0, 12>>) /\ Near(b, <<190, 100>>) /\ Near(c, <<0, 188>>)
  <2>1. Triangle[1] = <<0, 12>> /\ Triangle[2] = <<190, 100>> /\ Triangle[3] = <<0, 188>>
    BY DEF Triangle
  <2>2. Near(points[1], Triangle[1]) /\ Near(points[2], Triangle[2]) /\ Near(points[3], Triangle[3])
    OBVIOUS
  <2>3. points[1] \in Spots /\ points[2] \in Spots /\ points[3] \in Spots
    <3>1. \A i \in 1 .. Len(points) : points[i] \in Spots
      BY SeqElements
    <3>2. QED
      BY <3>1
  <2>4. QED
    BY <2>1, <2>2, <2>3
<1>2. ToSet(points) = {a, b, c}
  <2>1. DOMAIN points = 1 .. 3
    OBVIOUS
  <2>2. ToSet(points) = {points[i] : i \in 1 .. 3}
    BY <2>1 DEF ToSet
  <2>3. 1 .. 3 = {1, 2, 3}
    OBVIOUS
  <2>4. QED
    BY <2>2, <2>3
<1> HIDE DEF a, b, c
<1>3. a[1] \in Int /\ a[2] \in Int /\ b[1] \in Int /\ c[2] \in Int /\ c[1] \in Int
  BY <1>1 DEF Spots
<1>4. a[1] - 0 \in -1 .. 1 /\ b[1] - 190 \in -1 .. 1 /\ c[1] - 0 \in -1 .. 1
      /\ a[2] - 12 \in -1 .. 1 /\ c[2] - 188 \in -1 .. 1
  BY <1>1 DEF Near
<1>5. a[1] # b[1] /\ c[1] # b[1] /\ a[2] # c[2]
  BY <1>3, <1>4
<1>6. a # b /\ c # b /\ a # c
  BY <1>5
<1>7. IsFiniteSet({a}) /\ Cardinality({a}) = 1
  BY FS_Singleton
<1> DEFINE two == {a} \cup {b}
<1>8. IsFiniteSet(two) /\ Cardinality(two) = 2 /\ c \notin two
  <2>1. b \notin {a} /\ c \notin two
    BY <1>6
  <2>2. IsFiniteSet({a} \cup {b}) /\ Cardinality({a} \cup {b}) = Cardinality({a}) + 1
    BY <1>7, <2>1, FS_AddElement, Zenon
  <2>3. Cardinality({a}) + 1 = 2
    BY <1>7
  <2>4. QED
    BY <2>1, <2>2, <2>3
<1>9. {a, b, c} = two \cup {c}
  OBVIOUS
<1> HIDE DEF two
<1>10. Cardinality(two \cup {c}) = Cardinality(two) + 1
  BY <1>8, FS_AddElement, Zenon
<1>11. ToSet(points) = two \cup {c}
  BY <1>2, <1>9, Zenon
<1>12. Cardinality(ToSet(points)) = Cardinality(two) + 1
  BY <1>10, <1>11, Zenon
<1>13. Cardinality(ToSet(points)) = 3
  BY <1>8, <1>12
<1>14. QED
  BY <1>13

\* A marker that is recognized draws the triangle it is recognized for.
LEMMA KnownDrawn ==
  ASSUME document \in Documents, NEW k \in DOMAIN Elements, Elements[k].tag = "marker",
         NEW side, KnownMarker(Elements[k].def, side)
  PROVE  Drawn(Elements[k].def, side, Elements[k].def.children[1].fill)
<1> DEFINE def == Elements[k].def
           child == def.children[1]
           outline == child.outline
<1>1. /\ Supports(def, side) /\ Len(def.children) = 1 /\ TriangleMarker(outline)
  BY DEF KnownMarker
<1>2. Drawable(def.children)
  BY OutlinesAssumption DEF Elements
<1>3. 1 \in DOMAIN def.children
  BY <1>1, <1>2 DEF Drawable
<1>4. outline \in Seq(Segments) /\ (outline # <<>> => outline[1].op = "move")
  BY <1>2, <1>3 DEF Drawable, PathData
<1> HIDE DEF outline
<1>5. ASSUME OneSubpath(outline)
      PROVE  \E points \in Filled(outline) : \A i \in 1 .. 3 : Near(points[i], Triangle[i])
  <2> DEFINE points == LinearPoints(outline).points
  <2>1. /\ \A i \in DOMAIN outline : outline[i].op # "curve"
        /\ LinearPoints(outline).closed /\ Len(points) = 3
        /\ \A i \in 1 .. 3 : Near(points[i], Triangle[i])
    BY <1>1 DEF TriangleMarker
  <2>2. points \in Seq(Spots) /\ points \in ToSet(Subpaths(outline))
    BY <1>4, <1>5, <2>1, OneOutline
  <2> HIDE DEF points
  <2>3. Cardinality(ToSet(points)) >= 3
    BY <2>1, <2>2, TriangleHasRoom
  <2>4. QED
    BY <2>1, <2>2, <2>3 DEF Filled
<1>6. def.orient = "auto-start-reverse" \/ (def.orient = "auto" /\ side = "end")
  BY <1>1 DEF Supports
<1>7. QED
  BY <1>1, <1>5, <1>6 DEF Drawn, outline

\* In the prepared text a reference to an id that one element has finds it.
LEMMA FoundPrepared ==
  ASSUME LoopInv, result = "Ok", NEW id, id # NoId, Count(id) = 1,
         NEW k \in DOMAIN Elements, Elements[k].id = id
  PROVE  Found(id, Prepared) = {k}
<1>1. Passed /\ InsertionsFresh /\ InsertionsMade /\ k < next
  BY Numbered DEF LoopInv, Passed
<1>2. HasAnchor(k)
  BY DEF HasAnchor
<1>3. PreparedId(k) = id
  BY <1>1 DEF InsertionsFresh, PreparedId
<1>4. \A j \in DOMAIN Elements : PreparedId(j) = id <=> j = k
  BY <1>1, <1>2, <1>3, AnchorsApart
<1>5. QED
  BY <1>4 DEF Found, Prepared

\* What is recognized, and what may be left out, is proven to be so.
LEMMA DefinedFound ==
  ASSUME LoopInv, result = "Ok", NEW id, NEW tag, NEW k \in Defined(id, tag)
  PROVE  k \in DOMAIN Elements /\ Elements[k].tag = tag /\ Found(id, Prepared) = {k}
<1>1. k \in Bearing(id, tag) /\ Count(id) = 1
  BY DEF Defined
<1>2. k \in DOMAIN Elements /\ id # NoId /\ Elements[k].id = id /\ Elements[k].tag = tag
  BY <1>1 DEF Bearing
<1>3. QED
  BY <1>1, <1>2, FoundPrepared

LEMMA ColorProven ==
  ASSUME LoopInv, result = "Ok", NEW e, NEW side, MarkerColor(e, side) # Nothing
  PROVE  \E k \in DOMAIN Elements :
           /\ Found(e[side], Prepared) = {k} /\ Elements[k].tag = "marker"
           /\ Drawn(Elements[k].def, side, MarkerColor(e, side))
<1> DEFINE known == {k \in Defined(e[side], "marker") : KnownMarker(Elements[k].def, side)}
           chosen == CHOOSE k \in known : TRUE
<1>1. known # {} /\ MarkerColor(e, side) = Elements[chosen].def.children[1].fill
  BY DEF MarkerColor
<1>2. chosen \in known
  BY <1>1
<1>3. chosen \in Defined(e[side], "marker") /\ KnownMarker(Elements[chosen].def, side)
  BY <1>2
<1> HIDE DEF chosen, known
<1>4. /\ chosen \in DOMAIN Elements /\ Elements[chosen].tag = "marker"
      /\ Found(e[side], Prepared) = {chosen}
  BY <1>3, DefinedFound
<1>5. document \in Documents
  BY DEF LoopInv, Passed
<1>6. Drawn(Elements[chosen].def, side, Elements[chosen].def.children[1].fill)
  BY <1>3, <1>4, <1>5, KnownDrawn
<1>7. QED
  BY <1>1, <1>4, <1>6

LEMMA ShadowProven ==
  ASSUME LoopInv, result = "Ok", NEW e, Shadow(e) # Nothing
  PROVE  \E k \in DOMAIN Elements :
           /\ Found(e.filter, Prepared) = {k} /\ Elements[k].tag = "filter"
           /\ Elements[k].def.plain
<1> DEFINE filters == Defined(e.filter, "filter")
           chosen == CHOOSE k \in filters : TRUE
<1>1. filters # {} /\ Shadow(e) = ShadowClass(Elements[chosen].def)
  BY DEF Shadow
<1>2. chosen \in Defined(e.filter, "filter")
  BY <1>1
<1> HIDE DEF chosen, filters
<1>3. Elements[chosen].def.plain
  BY <1>1 DEF ShadowClass
<1>4. QED
  BY <1>2, <1>3, DefinedFound

\* The lowering is told of a marker or a shadow only where the reference finds
\* one definition that is what it is taken for.
THEOREM RecognizedIsProven == Spec => []DefinitionsProven
<1>1. LoopInv => DefinitionsProven
  <2> SUFFICES ASSUME LoopInv, result = "Ok", NEW id \in DOMAIN nodes
               PROVE  LET e == Elements[nodes[id].order + 1]
                      IN /\ nodes[id].recognized =>
                              \A side \in {"start", "end"} : e[side] # NoId =>
                                \E k \in DOMAIN Elements :
                                  /\ Found(e[side], Prepared) = {k} /\ Elements[k].tag = "marker"
                                  /\ Drawn(Elements[k].def, side, nodes[id][side])
                         /\ nodes[id].shadow # Nothing =>
                              \E k \in DOMAIN Elements :
                                /\ Found(e.filter, Prepared) = {k}
                                /\ Elements[k].tag = "filter" /\ Elements[k].def.plain
    BY DEF DefinitionsProven
  <2>1. PICK n \in DOMAIN Elements : nodes[id] = Metadata(n)
    BY DEF LoopInv, AnchorsKept
  <2> DEFINE e == Elements[n]
  <2>2. /\ nodes[id].order = n - 1
        /\ nodes[id].recognized <=> \A side \in {"start", "end"} :
                                      e[side] # NoId => MarkerColor(e, side) # Nothing
        /\ nodes[id].start = MarkerColor(e, "start") /\ nodes[id].end = MarkerColor(e, "end")
        /\ nodes[id].shadow = Shadow(e)
    BY <2>1 DEF Metadata
  <2>3. nodes[id].order + 1 = n
    <3>1. n \in Nat
      BY Numbered DEF LoopInv, Passed
    <3>2. QED
      BY <2>2, <3>1
  <2> HIDE DEF e
  <2>4. ASSUME nodes[id].recognized, NEW side \in {"start", "end"}, e[side] # NoId
        PROVE  \E k \in DOMAIN Elements :
                 /\ Found(e[side], Prepared) = {k} /\ Elements[k].tag = "marker"
                 /\ Drawn(Elements[k].def, side, nodes[id][side])
    <3>1. MarkerColor(e, side) # Nothing
      BY <2>2, <2>4
    <3>2. nodes[id][side] = MarkerColor(e, side)
      BY <2>2
    <3>3. QED
      BY <3>1, <3>2, ColorProven
  <2>5. ASSUME nodes[id].shadow # Nothing
        PROVE  \E k \in DOMAIN Elements :
                 /\ Found(e.filter, Prepared) = {k} /\ Elements[k].tag = "filter"
                 /\ Elements[k].def.plain
    BY <2>2, <2>5, ShadowProven
  <2>6. QED
    BY <2>3, <2>4, <2>5 DEF e
<1>2. QED
  BY <1>1, LoopInvariant, PTL
=============================================================================
