-------------------------- MODULE MapReferences_proofs --------------------------
(*****************************************************************************)
(* Theorems about the references that the map compiler follows, from ways    *)
(* to nodes and from relations to nodes and ways, for documents of any       *)
(* length and indexes of any size:                                           *)
(*                                                                           *)
(*   WaysHavePoints   ways have the points of their nodes                    *)
(*   MembersTheirs    members are the records that their relations name      *)
(*   CompilerTypes    no record and no member points past what is written    *)
(*                                                                           *)
(* A step of the compiler fills an index of ids, freezes it, searches it or  *)
(* leaves it alone, so the invariants that IndexFile_proofs proves of one    *)
(* index hold of each of the four.  Beside them, the ids of an index are     *)
(* those of the records in the order of the records.  What a search answers  *)
(* is then the place of the element named, and the invariants WayPointsInv,  *)
(* MembersInv and MembersBounded say what is kept of it.                     *)
(*****************************************************************************)
EXTENDS MapCompiler_proofs

(* The ids of elements, and the references to them. *)

\* The ids, in the order of the elements.
IdsOf(s) == [i \in DOMAIN s |-> s[i].id]

\* One element more.
LEMMA IdsOfAppend ==
  ASSUME NEW R, NEW s \in Seq(R), NEW e \in R
  PROVE  IdsOf(Append(s, e)) = Append(IdsOf(s), e.id)
<1>1. PICK t, ids, more : t = Append(s, e) /\ ids = IdsOf(s) /\ more = Append(ids, e.id)
  OBVIOUS
<1>2. /\ DOMAIN t = 1 .. Len(s) + 1 /\ DOMAIN s = 1 .. Len(s) /\ Len(s) \in Nat
      /\ t[Len(s) + 1] = e /\ \A i \in 1 .. Len(s) : t[i] = s[i]
  BY <1>1, AppendProperties, LenProperties
<1>3. ids = [i \in 1 .. Len(s) |-> s[i].id]
  BY <1>1, <1>2 DEF IdsOf
<1>4. ids \in Seq({s[i].id : i \in 1 .. Len(s)}) /\ Len(ids) = Len(s)
  BY <1>2, <1>3
<1>5. more = [i \in 1 .. Len(s) + 1 |-> IF i \in 1 .. Len(s) THEN ids[i] ELSE e.id]
  BY <1>1, <1>2, <1>4
<1>6. IdsOf(t) = [i \in 1 .. Len(s) + 1 |-> t[i].id]
  BY <1>2 DEF IdsOf
<1>7. \A i \in 1 .. Len(s) + 1 : t[i].id = IF i \in 1 .. Len(s) THEN ids[i] ELSE e.id
  <2> TAKE i \in 1 .. Len(s) + 1
  <2>1. CASE i \in 1 .. Len(s)
    BY <1>2, <1>3, <2>1
  <2>2. CASE i \notin 1 .. Len(s)
    <3>1. i = Len(s) + 1
      BY <1>2, <2>2
    <3> QED BY <1>2, <2>2, <3>1
  <2> QED BY <2>1, <2>2
<1> QED BY <1>1, <1>5, <1>6, <1>7

\* The ids of a sequence, one by one.
LEMMA IdsOfAre ==
  ASSUME NEW R, NEW s \in Seq(R)
  PROVE  /\ Len(IdsOf(s)) = Len(s) /\ Len(s) \in Nat /\ DOMAIN s = 1 .. Len(s)
         /\ DOMAIN IdsOf(s) = 1 .. Len(s) /\ \A i \in 1 .. Len(s) : IdsOf(s)[i] = s[i].id
<1>1. DOMAIN s = 1 .. Len(s) /\ Len(s) \in Nat
  BY LenProperties
<1>2. PICK ids : ids = IdsOf(s)
  OBVIOUS
<1>3. ids = [i \in 1 .. Len(s) |-> s[i].id]
  BY <1>1, <1>2 DEF IdsOf
<1>4. ids \in Seq({s[i].id : i \in 1 .. Len(s)}) /\ Len(ids) = Len(s)
  BY <1>1, <1>3
<1> QED BY <1>1, <1>2, <1>3, <1>4

\* What rises from each place to the next rises from each to any later one.
LEMMA RisesThroughout ==
  ASSUME NEW n \in Nat, NEW ks, \A i \in 1 .. n : ks[i] \in Int,
         \A i \in 1 .. n - 1 : ks[i] <= ks[i + 1]
  PROVE  \A i, j \in 1 .. n : i <= j => ks[i] <= ks[j]
<1>1. ASSUME NEW i \in 1 .. n, NEW j \in i .. n PROVE ks[i] <= ks[j]
  <2>1. PICK T : T = {k \in i .. n : ~(ks[i] <= ks[k])}
    OBVIOUS
  <2> SUFFICES ASSUME T # {} PROVE FALSE
    BY <2>1
  <2>2. T \in SUBSET Nat
    BY <2>1
  <2>3. PICK k \in T : \A m \in T : k <= m
    BY <2>2, LeastElement
  <2>4. k \in 1 .. n /\ i <= k /\ k # i
    BY <2>1
  <2>5. k - 1 \in i .. n /\ k - 1 \in 1 .. n - 1 /\ k - 1 \notin T /\ (k - 1) + 1 = k
    BY <2>1, <2>3, <2>4
  <2>6. ks[i] <= ks[k - 1] /\ ks[k - 1] <= ks[k]
    BY <2>1, <2>5
  <2>7. ks[i] <= ks[k]
    BY <2>4, <2>5, <2>6
  <2> QED BY <2>1, <2>7
<1> QED BY <1>1


\* A list of numbers that rise, some of them more than once.
Rising(keys) == keys \in Seq(Int) /\ \A i, j \in 1 .. Len(keys) : i <= j => keys[i] <= keys[j]

\* What std::sort makes of the references: the same ones, in order.
LEMMA SortedRefsAre ==
  ASSUME CompilerAssumption, DocumentInv, NEW keys \in SortedRefs
  PROVE  /\ keys \in Seq(References) /\ Len(keys) = Len(refs) /\ DOMAIN keys = 1 .. Len(keys)
         /\ Rising(keys)
         /\ \A i \in 1 .. Len(refs) : \E j \in 1 .. Len(keys) : keys[j] = refs[i]
<1>1. refs \in Seq(References) /\ Len(refs) \in Nat /\ DOMAIN refs = 1 .. Len(refs)
  BY LenProperties DEF DocumentInv
<1>2. PICK n : n = Len(refs)
  OBVIOUS
<1>3. PICK p \in Bijection(DOMAIN refs, DOMAIN refs) :
        /\ keys = [i \in DOMAIN refs |-> refs[p[i]]]
        /\ \A i \in 1 .. Len(refs) - 1 : keys[i] <= keys[i + 1]
  BY DEF SortedRefs
<1>4. p \in [1 .. n -> 1 .. n] /\ \A i \in 1 .. n : \E j \in 1 .. n : p[j] = i
  BY <1>1, <1>2, <1>3 DEF Bijection, Injection, Surjection
<1>5. /\ keys = [i \in 1 .. n |-> refs[p[i]]] /\ n \in Nat
      /\ \A i \in 1 .. n - 1 : keys[i] <= keys[i + 1]
  BY <1>1, <1>2, <1>3
<1>6. \A i \in 1 .. n : refs[i] \in References
  BY <1>1, <1>2, ElementOfSeq
<1>7. \A i \in 1 .. n : keys[i] \in References /\ keys[i] = refs[p[i]]
  BY <1>4, <1>5, <1>6
<1>8. keys \in [1 .. n -> References]
  BY <1>5, <1>7
<1>9. keys \in Seq(References) /\ Len(keys) = n /\ DOMAIN keys = 1 .. n
  BY <1>5, <1>8
<1>10. keys \in Seq(Int) /\ \A i \in 1 .. n : keys[i] \in Int
  <2>1. References \subseteq Int
    BY IdsAreNumbers
  <2>2. \A i \in 1 .. n : keys[i] \in Int
    BY <1>7, <2>1
  <2>3. keys \in [1 .. n -> Int]
    BY <1>5, <2>2
  <2> QED BY <1>5, <2>2, <2>3
<1>11. \A i, j \in 1 .. n : i <= j => keys[i] <= keys[j]
  BY <1>5, <1>10, RisesThroughout
<1>12. \A i \in 1 .. n : \E j \in 1 .. n : keys[j] = refs[i]
  BY <1>4, <1>7
<1> QED BY <1>2, <1>9, <1>10, <1>11, <1>12 DEF Rising
-----------------------------------------------------------------------------
(* What a step does to the indexes of ids. *)

\* What the indexes have been given.
NodeList == IdsOf(document.nodes)
TaggedList == IdsOf(TaggedNodes)
WayList == IdsOf(document.ways)
RelationList == IdsOf(document.relations)
Beyond(k, ids) == \A i \in 1 .. Len(ids) : ids[i] < k

\* The indexes of the nodes are filled, frozen by the first way, and then searched.
NodeIdsMove ==
  \/ UNCHANGED <<nodeVars, waysStarted>> /\ NodeList' = NodeList
  \/ /\ waysStarted = FALSE /\ waysStarted' = FALSE
     /\ \E k \in NodeIds :
          Beyond(k, NodeList) /\ nodeIds!AppendKey(k) /\ NodeList' = Append(NodeList, k)
  \/ /\ waysStarted = FALSE /\ waysStarted' = TRUE
     /\ nodeIds!FlushAndSort /\ NodeList' = NodeList
  \/ /\ waysStarted = TRUE /\ waysStarted' = TRUE /\ NodeList' = NodeList /\ NodeList # << >>
     /\ \E keys : /\ Rising(keys) /\ DOMAIN keys = 1 .. Len(keys)
                  /\ nodeIds!Fill(nodeIds!FindKeys(keys).read)
NodeRefsMove ==
  \/ UNCHANGED <<refVars, waysStarted>> /\ (relsStarted => relsStarted') /\ TaggedList' = TaggedList
  \/ /\ waysStarted = FALSE /\ waysStarted' = FALSE /\ relsStarted = FALSE
     /\ \E k \in NodeIds :
          Beyond(k, TaggedList) /\ nodeRefs!AppendKey(k) /\ TaggedList' = Append(TaggedList, k)
  \/ /\ waysStarted = FALSE /\ waysStarted' = TRUE /\ relsStarted = FALSE
     /\ nodeRefs!FlushAndSort /\ TaggedList' = TaggedList
  \/ /\ waysStarted' = waysStarted /\ relsStarted' = TRUE /\ TaggedList' = TaggedList
     /\ \E ref \in References : nodeRefs!Fill(nodeRefs!Find(ref).read)

\* That of the ways is filled, frozen by the first relation, and then searched.
WayIdsMove ==
  \/ UNCHANGED <<wayVars, relsStarted>> /\ WayList' = WayList
  \/ /\ relsStarted = FALSE /\ relsStarted' = FALSE
     /\ \E k \in WayIds :
          Beyond(k, WayList) /\ wayIds!AppendKey(k) /\ WayList' = Append(WayList, k)
  \/ /\ relsStarted = FALSE /\ relsStarted' = TRUE
     /\ wayIds!FlushAndSort /\ WayList' = WayList
  \/ /\ relsStarted = TRUE /\ relsStarted' = TRUE /\ WayList' = WayList
     /\ \E ref \in References : wayIds!Fill(wayIds!Find(ref).read)

\* That of the relations is searched while it is filled, and frozen in the end.
RelationIdsMove ==
  \/ UNCHANGED <<relVars, closed>> /\ RelationList' = RelationList
  \/ /\ closed = FALSE /\ closed' = FALSE
     /\ \E k \in RelationIds :
          Beyond(k, RelationList) /\ relationIds!AppendKey(k) /\ RelationList' = Append(RelationList, k)
  \/ /\ closed = FALSE /\ relationIds!FlushAndSort /\ RelationList' = RelationList
     /\ closed' = TRUE
  \/ /\ closed = FALSE /\ closed' = FALSE /\ RelationList' = RelationList
     /\ \E ref \in References : relationIds!Fill(relationIds!Find(ref).read)

\* What EndWay does to the indexes.
LEMMA WayIndexed ==
  ASSUME CompilerAssumption, DocumentInv, NEW keys, WayRead(keys)
  PROVE  /\ open.kind = "way" /\ refs # << >>
         /\ nodeIds!Fill(nodeIds!FindKeys(keys).read) /\ wayIds!AppendKey(open.id)
         /\ UNCHANGED <<refVars, relVars, waysStarted, relsStarted>>
BY DEF WayRead

\* What a member does to the indexes.
LEMMA MemberSearches ==
  ASSUME NEW type \in {"point", "way", "relation"}, NEW ref, Member(type, ref)
  PROVE  /\ open.kind = "relation" /\ UNCHANGED <<nodeVars, waysStarted, relsStarted, baliseTags>>
         /\ type = "point" => nodeRefs!Fill(nodeRefs!Find(ref).read)
         /\ type = "way" => wayIds!Fill(wayIds!Find(ref).read)
         /\ type = "relation" => relationIds!Fill(relationIds!Find(ref).read)
         /\ type # "point" => UNCHANGED refVars
         /\ type # "way" => UNCHANGED wayVars
         /\ type # "relation" => UNCHANGED relVars
<1>1. /\ open.kind = "relation" /\ UNCHANGED <<nodeVars, waysStarted, relsStarted, baliseTags>>
      /\ type # "point" => UNCHANGED refVars
      /\ type # "way" => UNCHANGED wayVars
      /\ type # "relation" => UNCHANGED relVars
  BY DEF Member, tagVars
<1>2. ASSUME type = "point" PROVE nodeRefs!Fill(nodeRefs!Find(ref).read)
  BY <1>2 DEF Member
<1>3. ASSUME type = "way" PROVE wayIds!Fill(wayIds!Find(ref).read)
  BY <1>3 DEF Member
<1>4. ASSUME type = "relation" PROVE relationIds!Fill(relationIds!Find(ref).read)
  BY <1>4 DEF Member
<1> QED BY <1>1, <1>2, <1>3, <1>4
-----------------------------------------------------------------------------
(* Every step is one of these for each index. *)

IndexesMove == NodeIdsMove /\ NodeRefsMove /\ WayIdsMove /\ RelationIdsMove

\* The ids of what stays, and of what gets one element more.
LEMMA ListsMove ==
  /\ document'.nodes = document.nodes => NodeList' = NodeList
  /\ TaggedNodes' = TaggedNodes => TaggedList' = TaggedList
  /\ document'.ways = document.ways => WayList' = WayList
  /\ document'.relations = document.relations => RelationList' = RelationList
<1>1. document'.nodes = document.nodes => NodeList' = NodeList
  BY DEF NodeList, IdsOf
<1>2. TaggedNodes' = TaggedNodes => TaggedList' = TaggedList
  BY DEF TaggedList, IdsOf
<1>3. document'.ways = document.ways => WayList' = WayList
  BY DEF WayList, IdsOf
<1>4. document'.relations = document.relations => RelationList' = RelationList
  BY DEF RelationList, IdsOf
<1> QED BY <1>1, <1>2, <1>3, <1>4

\* An id that is beyond those of a sequence is beyond its ids.
LEMMA BeyondThem ==
  ASSUME NEW R, NEW s \in Seq(R), NEW k, Below(s, k)
  PROVE  Beyond(k, IdsOf(s))
BY IdsOfAre DEF Below, Beyond

\* A node is entered into its index, and if it has tags into the other one.
LEMMA EndNodeMoves ==
  ASSUME CompilerAssumption, DocumentInv, TagsInv, EndNode
  PROVE  IndexesMove
<1>1. PICK k, e : k = open.id /\ e = [id |-> k]
  OBVIOUS
<1>2. /\ open.kind = "node" /\ nodeIds!AppendKey(k)
      /\ SizeFrom(tagStart, baliseTags) = 0 => UNCHANGED refVars
      /\ SizeFrom(tagStart, baliseTags) # 0 => nodeRefs!AppendKey(k)
      /\ UNCHANGED <<wayVars, relVars, waysStarted, relsStarted, closed>>
  BY <1>1 DEF EndNode
<1>3. k \in NodeIds /\ e \in Nodes /\ e.id = k
  BY <1>1, <1>2, OpenIds DEF DocumentInv, Nodes
<1>4. waysStarted = FALSE /\ relsStarted = FALSE /\ Below(document.nodes, k)
  BY <1>1, <1>2 DEF DocumentInv, OpenInv
<1>5. document.nodes \in Seq(Nodes)
  BY DEF DocumentInv, Documents
<1>6. NodeIdsMove
  <2>1. Beyond(k, NodeList)
    BY <1>4, <1>5, BeyondThem DEF NodeList
  <2>2. NodeList' = Append(NodeList, k)
    <3>1. document'.nodes = Append(document.nodes, e)
      BY <1>1, EndNodeReads
    <3>2. IdsOf(document'.nodes) = Append(IdsOf(document.nodes), k)
      BY <1>3, <1>5, <3>1, IdsOfAppend
    <3> QED BY <3>2 DEF NodeList, IdsOf
  <2> QED BY <1>2, <1>3, <1>4, <2>1, <2>2 DEF NodeIdsMove
<1>7. NodeRefsMove
  <2>1. CASE SizeFrom(tagStart, baliseTags) = 0
    <3>1. TaggedNodes' = TaggedNodes
      BY <2>1, TaggedEnd
    <3> QED BY <1>2, <1>4, <2>1, <3>1, ListsMove DEF NodeRefsMove
  <2>2. CASE SizeFrom(tagStart, baliseTags) # 0
    <3>1. PICK t : t = TaggedNodes
      OBVIOUS
    <3>2. t \in Seq(Nodes) /\ \A i \in 1 .. Len(t) : t[i].id < k
      BY <1>4, <3>1, TaggedNodesAre DEF Below
    <3>3. Beyond(k, TaggedList)
      BY <3>1, <3>2, IdsOfAre DEF Beyond, TaggedList
    <3>4. TaggedNodes' = Append(t, e)
      BY <1>1, <2>2, <3>1, TaggedEnd
    <3>5. IdsOf(Append(t, e)) = Append(IdsOf(t), k)
      BY <1>3, <3>2, IdsOfAppend
    <3>6. TaggedList' = Append(TaggedList, k)
      BY <3>1, <3>4, <3>5 DEF TaggedList, IdsOf
    <3> QED BY <1>2, <1>3, <1>4, <2>2, <3>3, <3>6 DEF NodeRefsMove
  <2> QED BY <2>1, <2>2
<1>8. WayIdsMove /\ RelationIdsMove
  BY <1>2, EndNodeReads, ListsMove DEF WayIdsMove, RelationIdsMove
<1> QED BY <1>6, <1>7, <1>8 DEF IndexesMove

\* The first way freezes the indexes of the nodes.
LEMMA StartWayMoves ==
  ASSUME CompilerAssumption, DocumentInv, TagsInv, StartWay
  PROVE  IndexesMove
<1>1. /\ ~relsStarted /\ waysStarted' = TRUE /\ FreezeNodes
      /\ UNCHANGED <<wayVars, relVars, relsStarted, document, baliseTags, closed>>
  BY DEF StartWay, StartElement
<1>2. TaggedNodes' = TaggedNodes
  BY <1>1, TaggedStay DEF Next
<1>3. waysStarted \in BOOLEAN /\ relsStarted = FALSE
  BY <1>1 DEF DocumentInv
<1>4. /\ NodeList' = NodeList /\ TaggedList' = TaggedList /\ WayList' = WayList
      /\ RelationList' = RelationList
  BY <1>1, <1>2, ListsMove
<1>5. NodeIdsMove /\ NodeRefsMove
  <2>1. CASE waysStarted
    BY <1>1, <1>3, <1>4, <2>1 DEF FreezeNodes, NodeIdsMove, NodeRefsMove
  <2>2. CASE ~waysStarted
    <3>1. waysStarted = FALSE /\ nodeIds!FlushAndSort /\ nodeRefs!FlushAndSort
      BY <1>1, <1>3, <2>2 DEF FreezeNodes
    <3> QED BY <1>1, <1>3, <1>4, <3>1 DEF NodeIdsMove, NodeRefsMove
  <2> QED BY <2>1, <2>2
<1>6. WayIdsMove /\ RelationIdsMove
  BY <1>1, <1>4 DEF WayIdsMove, RelationIdsMove
<1> QED BY <1>5, <1>6 DEF IndexesMove

\* The nodes of a way are searched, and the way is entered into its index.
LEMMA EndWayMoves ==
  ASSUME CompilerAssumption, DocumentInv, TagsInv, EndWay
  PROVE  IndexesMove
<1>1. PICK keys \in SortedRefs : WayRead(keys)
  BY DEF EndWay
<1>2. PICK k, e : k = open.id /\ e = [id |-> k, refs |-> refs]
  OBVIOUS
<1>3. /\ open.kind = "way" /\ wayIds!AppendKey(k) /\ nodeIds!Fill(nodeIds!FindKeys(keys).read)
      /\ UNCHANGED <<refVars, relVars, waysStarted, relsStarted, closed>>
  <2>1. closed' = closed
    BY <1>1 DEF WayRead
  <2> QED BY <1>1, <1>2, <2>1, WayIndexed
<1>4. k \in WayIds /\ e \in Ways /\ e.id = k
  BY <1>2, <1>3, OpenIds DEF DocumentInv, Ways
<1>5. waysStarted = TRUE /\ relsStarted = FALSE /\ Below(document.ways, k)
  BY <1>2, <1>3 DEF DocumentInv, OpenInv
<1>6. /\ document.ways \in Seq(Ways) /\ document.nodes \in Seq(Nodes) /\ document.nodes # << >>
  BY <1>5 DEF DocumentInv, Documents
<1>7. /\ document'.ways = Append(document.ways, e) /\ document'.nodes = document.nodes
      /\ document'.relations = document.relations
  BY <1>1, <1>2, WayReads
<1>8. NodeIdsMove
  <2>1. NodeList # << >>
    <3>1. Len(document.nodes) # 0
      BY <1>6, EmptySeq
    <3>2. Len(NodeList) # 0
      BY <1>6, <3>1, IdsOfAre DEF NodeList
    <3> QED BY <3>2
  <2>2. Rising(keys) /\ DOMAIN keys = 1 .. Len(keys)
    BY <1>1, SortedRefsAre
  <2>3. NodeList' = NodeList /\ waysStarted' = TRUE
    BY <1>3, <1>5, <1>7, ListsMove
  <2> QED BY <1>3, <1>5, <2>1, <2>2, <2>3 DEF NodeIdsMove
<1>9. WayIdsMove
  <2>1. Beyond(k, WayList)
    BY <1>5, <1>6, BeyondThem DEF WayList
  <2>2. WayList' = Append(WayList, k)
    <3>1. IdsOf(document'.ways) = Append(IdsOf(document.ways), k)
      BY <1>4, <1>6, <1>7, IdsOfAppend
    <3> QED BY <3>1 DEF WayList, IdsOf
  <2> QED BY <1>3, <1>4, <1>5, <2>1, <2>2 DEF WayIdsMove
<1>10. NodeRefsMove /\ RelationIdsMove
  <2>1. TaggedNodes' = TaggedNodes
    <3>1. Next
      BY DEF Next
    <3> QED BY <1>7, <3>1, TaggedStay
  <2> QED BY <1>3, <1>5, <1>7, <2>1, ListsMove DEF NodeRefsMove, RelationIdsMove
<1> QED BY <1>8, <1>9, <1>10 DEF IndexesMove

\* The first relation freezes the index of the ways.
LEMMA StartRelationMoves ==
  ASSUME CompilerAssumption, DocumentInv, TagsInv, StartRelation
  PROVE  IndexesMove
<1>1. /\ relsStarted' = TRUE
      /\ IF relsStarted THEN UNCHANGED wayVars ELSE wayIds!FlushAndSort
      /\ UNCHANGED <<nodeVars, refVars, relVars, waysStarted, baliseTags, closed>>
  BY DEF StartRelation, StartElement
<1>2. /\ document'.nodes = document.nodes /\ document'.ways = document.ways
      /\ document'.relations = document.relations
  BY StartRelationReads
<1>3. TaggedNodes' = TaggedNodes
  BY <1>2, TaggedStay DEF Next
<1>4. waysStarted \in BOOLEAN /\ relsStarted \in BOOLEAN
  BY DEF DocumentInv
<1>5. NodeIdsMove /\ NodeRefsMove /\ RelationIdsMove
  BY <1>1, <1>2, <1>3, ListsMove DEF NodeIdsMove, NodeRefsMove, RelationIdsMove
<1>6. WayIdsMove
  <2>1. WayList' = WayList
    BY <1>2, ListsMove
  <2>2. CASE relsStarted
    BY <1>1, <1>4, <2>1, <2>2 DEF WayIdsMove
  <2>3. CASE ~relsStarted
    <3>1. relsStarted = FALSE /\ wayIds!FlushAndSort
      BY <1>1, <1>4, <2>3
    <3> QED BY <1>1, <2>1, <3>1 DEF WayIdsMove
  <2> QED BY <2>2, <2>3
<1> QED BY <1>5, <1>6 DEF IndexesMove

\* A member is searched for in the index of its type.
LEMMA MemberMoves ==
  ASSUME CompilerAssumption, DocumentInv, TagsInv, StartMember
  PROVE  IndexesMove
<1>1. PICK type \in {"point", "way", "relation"}, ref \in References : Member(type, ref)
  BY DEF StartMember
<1>2. /\ document'.nodes = document.nodes /\ document'.ways = document.ways
      /\ document'.relations = document.relations
  BY <1>1, MemberReads
<1>3. TaggedNodes' = TaggedNodes
  <2>1. Next
    BY DEF Next
  <2> QED BY <1>2, <2>1, TaggedStay
<1>4. /\ NodeList' = NodeList /\ TaggedList' = TaggedList /\ WayList' = WayList
      /\ RelationList' = RelationList
  BY <1>2, <1>3, ListsMove
<1>5. /\ open.kind = "relation" /\ UNCHANGED <<nodeVars, waysStarted, relsStarted, closed>>
      /\ type = "point" => nodeRefs!Fill(nodeRefs!Find(ref).read)
      /\ type = "way" => wayIds!Fill(wayIds!Find(ref).read)
      /\ type = "relation" => relationIds!Fill(relationIds!Find(ref).read)
      /\ type # "point" => UNCHANGED refVars
      /\ type # "way" => UNCHANGED wayVars
      /\ type # "relation" => UNCHANGED relVars
  <2>1. closed' = closed
    BY <1>1 DEF Member
  <2> QED BY <1>1, <2>1, MemberSearches
<1>6. relsStarted = TRUE /\ relsStarted' = TRUE /\ closed = FALSE /\ closed' = FALSE
  <2>1. Nothing.kind = "none"
    BY DEF Nothing
  <2>2. relsStarted = TRUE /\ closed = FALSE
    BY <1>5, <2>1 DEF DocumentInv, OpenInv
  <2> QED BY <1>5, <2>2
<1>7. NodeIdsMove
  BY <1>4, <1>5 DEF NodeIdsMove
<1>8. NodeRefsMove
  <2>1. CASE type = "point"
    BY <1>1, <1>4, <1>5, <1>6, <2>1 DEF NodeRefsMove
  <2>2. CASE type # "point"
    BY <1>4, <1>5, <1>6, <2>2 DEF NodeRefsMove
  <2> QED BY <2>1, <2>2
<1>9. WayIdsMove
  <2>1. CASE type = "way"
    BY <1>1, <1>4, <1>5, <1>6, <2>1 DEF WayIdsMove
  <2>2. CASE type # "way"
    BY <1>4, <1>5, <1>6, <2>2 DEF WayIdsMove
  <2> QED BY <2>1, <2>2
<1>10. RelationIdsMove
  <2>1. CASE type = "relation"
    BY <1>1, <1>4, <1>5, <1>6, <2>1 DEF RelationIdsMove
  <2>2. CASE type # "relation"
    BY <1>4, <1>5, <1>6, <2>2 DEF RelationIdsMove
  <2> QED BY <2>1, <2>2
<1> QED BY <1>7, <1>8, <1>9, <1>10 DEF IndexesMove

\* A relation is entered into its index.
LEMMA EndRelationMoves ==
  ASSUME CompilerAssumption, DocumentInv, TagsInv, EndRelation
  PROVE  IndexesMove
<1>1. PICK k, e : k = open.id /\ e = [id |-> k, members |-> document.members]
  OBVIOUS
<1>2. /\ open.kind = "relation" /\ relationIds!AppendKey(k)
      /\ UNCHANGED <<nodeVars, refVars, wayVars, waysStarted, relsStarted, closed>>
  BY <1>1 DEF EndRelation
<1>3. k \in RelationIds /\ e \in Relations /\ e.id = k
  BY <1>1, <1>2, OpenIds DEF DocumentInv, Documents, Relations
<1>4. closed = FALSE /\ closed' = FALSE /\ Below(document.relations, k)
  <2>1. Nothing.kind = "none"
    BY DEF Nothing
  <2> QED BY <1>1, <1>2, <2>1 DEF DocumentInv, OpenInv
<1>5. document.relations \in Seq(Relations)
  BY DEF DocumentInv, Documents
<1>6. /\ document'.relations = Append(document.relations, e)
      /\ document'.nodes = document.nodes /\ document'.ways = document.ways
  BY <1>1, EndRelationReads
<1>7. RelationIdsMove
  <2>1. Beyond(k, RelationList)
    BY <1>4, <1>5, BeyondThem DEF RelationList
  <2>2. RelationList' = Append(RelationList, k)
    <3>1. IdsOf(document'.relations) = Append(IdsOf(document.relations), k)
      BY <1>3, <1>5, <1>6, IdsOfAppend
    <3> QED BY <3>1 DEF RelationList, IdsOf
  <2> QED BY <1>2, <1>3, <1>4, <2>1, <2>2 DEF RelationIdsMove
<1>8. NodeIdsMove /\ NodeRefsMove /\ WayIdsMove
  <2>1. TaggedNodes' = TaggedNodes
    <3>1. Next
      BY DEF Next
    <3> QED BY <1>6, <3>1, TaggedStay
  <2> QED BY <1>2, <1>6, <2>1, ListsMove DEF NodeIdsMove, NodeRefsMove, WayIdsMove
<1> QED BY <1>7, <1>8 DEF IndexesMove

\* In the end the index of the relations is frozen.
LEMMA CloseMoves ==
  ASSUME CompilerAssumption, DocumentInv, TagsInv, Close
  PROVE  IndexesMove
<1>1. /\ relationIds!FlushAndSort /\ closed = FALSE /\ closed' = TRUE
      /\ UNCHANGED <<nodeVars, refVars, wayVars, waysStarted, relsStarted, document, baliseTags>>
  BY DEF Close, tagVars, DocumentInv
<1>2. TaggedNodes' = TaggedNodes
  <2>1. Next
    BY DEF Next
  <2> QED BY <1>1, <2>1, TaggedStay
<1>3. /\ NodeList' = NodeList /\ TaggedList' = TaggedList /\ WayList' = WayList
      /\ RelationList' = RelationList
  BY <1>1, <1>2, ListsMove
<1> QED BY <1>1, <1>3 DEF IndexesMove, NodeIdsMove, NodeRefsMove, WayIdsMove, RelationIdsMove

\* The other steps leave the indexes of ids.
LEMMA OtherMoves ==
  ASSUME CompilerAssumption, DocumentInv, TagsInv,
         StartNode \/ StartTag \/ Nd \/ ShapePoint \/ ShapeLines \/ ShapeOther \/ UNCHANGED vars
  PROVE  IndexesMove
<1>1. /\ UNCHANGED <<nodeVars, refVars, wayVars, relVars, waysStarted, relsStarted, closed>>
      /\ document'.nodes = document.nodes /\ document'.ways = document.ways
      /\ document'.relations = document.relations
  <2>1. CASE ShapePoint \/ ShapeLines \/ ShapeOther
    <3>1. PICK shape \in ShapeRecords, n \in {0, 1} : ShapeRead(shape, n)
      BY <2>1, ShapesReadAre
    <3>2. UNCHANGED <<nodeVars, refVars, wayVars, relVars, waysStarted, relsStarted, closed>>
      BY <3>1 DEF ShapeRead
    <3> QED BY <3>1, <3>2, ShapeReads
  <2>2. CASE StartNode
    BY <2>2 DEF StartNode, StartElement
  <2>3. CASE StartTag
    BY <2>3 DEF StartTag
  <2>4. CASE Nd
    BY <2>4 DEF Nd
  <2>5. CASE UNCHANGED vars
    BY <2>5 DEF vars
  <2> QED BY <2>1, <2>2, <2>3, <2>4, <2>5
<1>2. TaggedNodes' = TaggedNodes
  <2>1. [Next]_vars
    BY DEF Next
  <2> QED BY <1>1, <2>1, TaggedStay
<1>3. /\ NodeList' = NodeList /\ TaggedList' = TaggedList /\ WayList' = WayList
      /\ RelationList' = RelationList
  BY <1>1, <1>2, ListsMove
<1> QED BY <1>1, <1>3 DEF IndexesMove, NodeIdsMove, NodeRefsMove, WayIdsMove, RelationIdsMove

\* So does every step.
LEMMA AllMove ==
  ASSUME CompilerAssumption, DocumentInv, TagsInv, [Next]_vars
  PROVE  IndexesMove
BY EndNodeMoves, StartWayMoves, EndWayMoves, StartRelationMoves, MemberMoves, EndRelationMoves,
   CloseMoves, OtherMoves DEF Next
-----------------------------------------------------------------------------
(* The points of a way. *)

\* Does the document have this node, and does the reference lie between its first and
\* its last one?
KnownNode(ref) == \E j \in 1 .. Len(document.nodes) : document.nodes[j].id = ref
WithinNodes(ref) ==
  document.nodes[1].id <= ref /\ ref <= document.nodes[Len(document.nodes)].id

\* What findKeys may say of a reference.
RankRight(ref, r) ==
  /\ r \in Int
  /\ r # -1 => r + 1 \in 1 .. Len(document.nodes) /\ nodeFile[r + 1].item = r
  /\ KnownNode(ref) => r # -1 /\ document.nodes[r + 1].id = ref
  /\ WithinNodes(ref) /\ ~KnownNode(ref) => r = -1

\* What a rank stands for.
PlaceOf(r) == Place[document.nodes[nodeFile[r + 1].item + 1].id]

\* The points that are found for some references, and for them all if these lie between
\* the first and the last node.
LEMMA PointsAreRight ==
  ASSUME CompilerAssumption, DocumentInv, NEW named \in Seq(References), NEW rank,
         rank \in [1 .. Len(named) -> Int],
         \A i \in 1 .. Len(named) : RankRight(named[i], rank[i]),
         NEW points, points = PlacesFound(Those(rank, Int \ {-1}))
  PROVE  /\ points \in Seq(Int \X Int)
         /\ (\A i \in 1 .. Len(named) : WithinNodes(named[i])) =>
              LET known == Those(named, Ended("nodes")) IN
              points = [j \in DOMAIN known |-> Place[known[j]]]
<1>1. Len(named) \in Nat /\ DOMAIN named = 1 .. Len(named)
  BY LenProperties
<1>2. rank \in Seq(Int) /\ Len(rank) = Len(named) /\ DOMAIN rank = 1 .. Len(named)
  BY <1>1
<1>3. PICK found : found = Those(rank, Int \ {-1})
  OBVIOUS
<1>4. /\ found \in Seq(Int \cap (Int \ {-1}))
      /\ ToSet(found) = ToSet(rank) \cap (Int \ {-1})
  BY <1>2, <1>3, ThoseAre
<1>5. /\ DOMAIN found = 1 .. Len(found) /\ Len(found) \in Nat
      /\ \A j \in 1 .. Len(found) : found[j] \in Int /\ found[j] # -1
  BY <1>4, LenProperties, ElementOfSeq
<1>6. document.nodes \in Seq(Nodes)
  BY DEF DocumentInv, Documents
<1>7. ASSUME NEW j \in 1 .. Len(found)
      PROVE  /\ PlaceOf(found[j]) \in Int \X Int
             /\ PlaceOf(found[j]) = Place[document.nodes[found[j] + 1].id]
  <2>1. found[j] \in ToSet(found)
    BY <1>5 DEF ToSet
  <2>2. found[j] \in ToSet(rank)
    BY <1>4, <2>1
  <2>3. PICK i \in 1 .. Len(named) : rank[i] = found[j]
    BY <1>2, <2>2 DEF ToSet
  <2>4. /\ found[j] + 1 \in 1 .. Len(document.nodes)
        /\ nodeFile[found[j] + 1].item = found[j]
    BY <1>5, <2>3 DEF RankRight
  <2>5. document.nodes[found[j] + 1] \in Nodes
    BY <1>6, <2>4, ElementOfSeq
  <2>6. document.nodes[found[j] + 1].id \in NodeIds
    BY <2>5 DEF Nodes
  <2> QED BY <2>4, <2>6 DEF PlaceOf, CompilerAssumption
<1>8. points = [j \in 1 .. Len(found) |-> PlaceOf(found[j])]
  BY <1>3, <1>5, Zenon DEF PlacesFound, PlaceOf
<1>9. points \in [1 .. Len(found) -> Int \X Int]
  BY <1>7, <1>8
<1>10. points \in Seq(Int \X Int)
  <2>1. PICK n, T : n = Len(found) /\ T = Int \X Int
    OBVIOUS
  <2>2. n \in Nat /\ points \in [1 .. n -> T]
    BY <1>5, <1>9, <2>1
  <2>3. points \in Seq(T)
    BY <2>2
  <2> QED BY <2>1, <2>3
<1>11. ASSUME \A i \in 1 .. Len(named) : WithinNodes(named[i]),
              NEW known, known = Those(named, Ended("nodes"))
       PROVE  points = [j \in DOMAIN known |-> Place[known[j]]]
  <2>1. PICK R : R = {x \in Int \X Int : PlaceOf(x[2]) = Place[x[1]]}
    OBVIOUS
  <2>2. ASSUME NEW i \in 1 .. Len(named)
        PROVE  /\ named[i] \in Ended("nodes") <=> rank[i] \in Int \ {-1}
               /\ named[i] \in Ended("nodes") => <<named[i], rank[i]>> \in R
    <3>1. RankRight(named[i], rank[i]) /\ WithinNodes(named[i]) /\ named[i] \in Int
      BY <1>11, IdsAreNumbers, ElementOfSeq
    <3>2. named[i] \in Ended("nodes") <=> KnownNode(named[i])
      <4>1. DOMAIN document.nodes = 1 .. Len(document.nodes)
        BY <1>6, LenProperties
      <4> QED BY <4>1 DEF Ended, KnownNode
    <3>3. /\ KnownNode(named[i]) <=> rank[i] \in Int \ {-1}
          /\ KnownNode(named[i]) => PlaceOf(rank[i]) = Place[named[i]]
      <4>1. KnownNode(named[i]) => rank[i] \in Int /\ rank[i] # -1 /\ nodeFile[rank[i] + 1].item = rank[i]
                                   /\ document.nodes[rank[i] + 1].id = named[i]
        BY <3>1 DEF RankRight
      <4>2. ~KnownNode(named[i]) => rank[i] = -1
        BY <3>1 DEF RankRight
      <4> QED BY <4>1, <4>2 DEF PlaceOf
    <3>4. rank[i] \in Int
      BY <3>1 DEF RankRight
    <3>5. KnownNode(named[i]) => <<named[i], rank[i]>> \in R
      BY <2>1, <3>1, <3>3, <3>4
    <3> QED BY <3>2, <3>3, <3>5
  <2>3. Len(known) = Len(found) /\ \A j \in 1 .. Len(known) : <<known[j], found[j]>> \in R
    <3>1. PICK S, T : S = Ended("nodes") /\ T = Int \ {-1}
      OBVIOUS
    <3>2. \A i \in 1 .. Len(named) : /\ named[i] \in S <=> rank[i] \in T
                                     /\ named[i] \in S => <<named[i], rank[i]>> \in R
      BY <2>2, <3>1
    <3>3. known = Those(named, S) /\ found = Those(rank, T)
      BY <1>3, <1>11, <3>1
    <3>4. /\ Len(Those(named, S)) = Len(Those(rank, T))
          /\ \A j \in 1 .. Len(Those(named, S)) : <<Those(named, S)[j], Those(rank, T)[j]>> \in R
      <4>1. rank \in Seq(Int) /\ Len(named) = Len(rank)
        BY <1>2
      <4>2. LET a == Those(named, S)  b == Those(rank, T) IN
            Len(a) = Len(b) /\ \A j \in 1 .. Len(a) : <<a[j], b[j]>> \in R
        BY ONLY named \in Seq(References), <4>1, <3>2, ThoseParallel
      <4> QED BY <4>2
    <3> QED BY <3>3, <3>4
  <2>4. known \in Seq(References \cap Ended("nodes"))
    BY <1>11, ThoseAre
  <2>5. DOMAIN known = 1 .. Len(found)
    BY <2>3, <2>4, LenProperties
  <2>6. \A j \in 1 .. Len(found) : PlaceOf(found[j]) = Place[known[j]]
    BY <2>1, <2>3
  <2> QED BY <1>8, <2>5, <2>6
<1> QED BY <1>10, <1>11
-----------------------------------------------------------------------------
(* The rectangle of some points. *)

\* The boxes grow over the points one by one.
LEMMA BoxStep ==
  ASSUME NEW points \in Seq(Points), NEW n \in Nat, n + 1 \in 1 .. Len(points), n # 0,
         NEW r, Covers(r, points, 1, n)
  PROVE  Covers(AddPoint(r, points[n + 1]), points, 1, n + 1)
<1>1. points[n + 1] \in Points
  BY ElementOfSeq
<1>2. 1 \in Int /\ n \in Int /\ 1 <= n + 1
  OBVIOUS
<1> QED BY <1>1, <1>2, CoversMore

\* A box is one.
LEMMA BoxesAre ==
  ASSUME NEW p \in Points
  PROVE  Box(p) \in Boxes /\ \A r \in Boxes : AddPoint(r, p) \in Boxes
<1>1. p[1] \in Int /\ p[2] \in Int
  BY DEF Points
<1>2. ASSUME NEW a \in Int, NEW b \in Int PROVE Lesser(a, b) \in Int /\ -Lesser(-a, -b) \in Int
  BY DEF Lesser
<1>3. Box(p) \in Boxes
  BY <1>1 DEF Box, Boxes
<1>4. ASSUME NEW r \in Boxes PROVE AddPoint(r, p) \in Boxes
  <2>1. r.x0 \in Int /\ r.y0 \in Int /\ r.x1 \in Int /\ r.y1 \in Int
    BY DEF Boxes
  <2>2. /\ Lesser(r.x0, p[1]) \in Int /\ Lesser(r.y0, p[2]) \in Int
        /\ -Lesser(-r.x1, -p[1]) \in Int /\ -Lesser(-r.y1, -p[2]) \in Int
    BY <1>1, <1>2, <2>1
  <2> QED BY <2>2 DEF AddPoint, Boxes
<1> QED BY <1>3, <1>4

\* What is left of a sequence.
LEMMA RestOf ==
  ASSUME NEW R, NEW s \in Seq(R), s # << >>
  PROVE  /\ Len(s) \in Nat \ {0} /\ Tail(s) \in Seq(R) /\ Len(Tail(s)) = Len(s) - 1
         /\ DOMAIN Tail(s) = 1 .. Len(s) - 1
         /\ \A i \in 1 .. Len(s) - 1 : Tail(s)[i] = s[i + 1]
<1>1. Tail(s) \in Seq(R) /\ Len(Tail(s)) = Len(s) - 1
      /\ \A i \in 1 .. Len(s) - 1 : Tail(s)[i] = s[i + 1]
  BY HeadTailProperties
<1>2. Len(s) \in Nat /\ Len(s) # 0
  BY LenProperties, EmptySeq
<1> QED BY <1>1, <1>2, LenProperties

\* Begun with the first point and grown by each other one, the rectangle is that of them all.
LEMMA BoxWalk ==
  ASSUME NEW points \in Seq(Points), points # << >>
  PROVE  FoldLeft(AddPoint, Box(points[1]), Tail(points)) = Hull(ToSet(points))
<1>1. PICK N, V, s, part : N = Len(part) /\ V = Boxes /\ s = Box(points[1]) /\ part = Tail(points)
  OBVIOUS
<1>2. /\ N \in Nat /\ N + 1 = Len(points) /\ DOMAIN part = 1 .. N
      /\ \A i \in 1 .. N : part[i] = points[i + 1]
  <2>1. /\ Len(points) \in Nat \ {0} /\ Len(part) = Len(points) - 1
        /\ DOMAIN part = 1 .. Len(points) - 1
        /\ \A i \in 1 .. Len(points) - 1 : part[i] = points[i + 1]
    BY <1>1, RestOf
  <2> QED BY <1>1, <2>1
<1>3. \A i \in 1 .. N + 1 : points[i] \in Points
  BY <1>2, ElementOfSeq
<1>4. PICK H : H = [z \in (1 .. N) \X V |-> AddPoint(z[2], part[z[1]])]
  OBVIOUS
<1>5. ASSUME NEW n \in 1 .. N, NEW t \in V PROVE AddPoint(t, part[n]) \in V
  <2>1. n + 1 \in 1 .. N + 1
    BY <1>2
  <2> QED BY <1>1, <1>2, <1>3, <2>1, BoxesAre
<1>6. H \in [(1 .. N) \X V -> V]
  BY <1>4, <1>5
<1>7. s \in V
  <2>1. 1 \in 1 .. N + 1
    BY <1>2
  <2> QED BY <1>1, <1>3, <2>1, BoxesAre
<1>8. PICK g \in [SUBSET (1 .. N) -> V] : Folds(g, N, s, H)
  BY <1>2, <1>6, <1>7, FoldExists
<1>9. ASSUME NEW t \in SUBSET (1 .. N), t # {}
      PROVE  H[<<Greatest(t), g[t \ {Greatest(t)}]>>]
               = AddPoint(g[t \ {Greatest(t)}], part[Greatest(t)])
  <2>1. Greatest(t) \in 1 .. N /\ t \ {Greatest(t)} \in SUBSET (1 .. N)
    BY <1>2, <1>9, GreatestIs
  <2>2. g[t \ {Greatest(t)}] \in V
    BY <2>1
  <2> QED BY <1>4, <2>1, <2>2
<1>10. g = [t \in SUBSET (1 .. N) |->
              IF t = {} THEN s ELSE AddPoint(g[t \ {Greatest(t)}], part[Greatest(t)])]
  BY <1>8, <1>9, Zenon DEF Folds
<1>11. PICK h : h = CHOOSE iter : iter =
                      [t \in SUBSET (1 .. N) |->
                        IF t = {} THEN s
                        ELSE AddPoint(iter[t \ {Greatest(t)}], part[Greatest(t)])]
  OBVIOUS
<1>12. h = [t \in SUBSET (1 .. N) |->
              IF t = {} THEN s ELSE AddPoint(h[t \ {Greatest(t)}], part[Greatest(t)])]
  BY <1>10, <1>11
<1>13. FoldLeft(AddPoint, s, part) = h[1 .. N]
  BY <1>2, <1>11, Zenon DEF FoldLeft, MapThenFoldSet, Max, Greatest
<1>14. h[1 .. 0] = s
  <2>1. 1 .. 0 = {} /\ {} \in SUBSET (1 .. N)
    BY <1>2
  <2> QED BY <1>12, <2>1
<1>15. ASSUME NEW n \in 1 .. N PROVE h[1 .. n] = AddPoint(h[1 .. n - 1], part[n])
  <2>1. /\ 1 .. n \in SUBSET (1 .. N) /\ 1 .. n # {}
        /\ Greatest(1 .. n) = n /\ (1 .. n) \ {n} = 1 .. n - 1
    BY <1>2, GreatestOfFirst
  <2> QED BY <1>12, <2>1
<1>16. PICK T : T = {n \in 0 .. N : Covers(h[1 .. n], points, 1, n + 1)}
  OBVIOUS
<1>17. 0 \in T
  <2>1. points[0 + 1] \in Points /\ 0 + 1 = 1 /\ 0 \in 0 .. N
    BY <1>2, <1>3
  <2>2. Covers(Box(points[0 + 1]), points, 1, 0 + 1)
    <3>1. 1 \in Int /\ 0 \in Int /\ 1 <= 0 + 1 /\ 1 = 0 + 1
      OBVIOUS
    <3> QED BY <2>1, <3>1, CoversMore
  <2> QED BY <1>1, <1>14, <1>16, <2>1, <2>2
<1>18. ASSUME NEW n \in 1 .. N, n - 1 \in T PROVE n \in T
  <2>1. PICK r : r = h[1 .. n - 1] /\ Covers(r, points, 1, n)
    <3>1. (n - 1) + 1 = n
      BY <1>2
    <3> QED BY <1>16, <1>18, <3>1
  <2>2. n \in Nat /\ n # 0 /\ n + 1 \in 1 .. Len(points) /\ n \in 0 .. N
    BY <1>2
  <2>3. Covers(AddPoint(r, points[n + 1]), points, 1, n + 1)
    BY <2>1, <2>2, BoxStep
  <2>4. h[1 .. n] = AddPoint(r, points[n + 1])
    BY <1>2, <1>15, <2>1
  <2> QED BY <1>16, <2>2, <2>3, <2>4
<1>19. N \in T
  <2>1. \A n \in 0 .. N : n \in T
    BY <1>2, <1>17, <1>18, StepInduction
  <2>2. N \in 0 .. N
    BY <1>2
  <2> QED BY <2>1, <2>2
<1>20. h[1 .. N] = Hull({points[j] : j \in 1 .. N + 1})
  <2>1. 1 \in Int /\ N + 1 \in Int /\ Covers(h[1 .. N], points, 1, N + 1)
    BY <1>2, <1>16, <1>19
  <2> QED BY <2>1, CoversHull
<1>21. ToSet(points) = {points[j] : j \in 1 .. N + 1}
  <2>1. DOMAIN points = 1 .. N + 1
    BY <1>2, LenProperties
  <2> QED BY <2>1 DEF ToSet
<1> QED BY <1>1, <1>13, <1>20, <1>21
-----------------------------------------------------------------------------
(* What is kept of the points of a way. *)

IdsIn(nodes) == {nodes[i].id : i \in DOMAIN nodes}

\* The references of a way that are nodes, as points; and do they all lie between the
\* first and the last node?
PointsFound(named, nodes) ==
  LET known == Those(named, IdsIn(nodes)) IN [j \in DOMAIN known |-> Place[known[j]]]
AllWithin(named, nodes) ==
  \A j \in 1 .. Len(named) : nodes[1].id <= named[j] /\ named[j] <= nodes[Len(nodes)].id

\* A record has these points, and they are those of the way.
HasPoints(w, way, points, nodes, ps) ==
  /\ ps \in Seq(Points)
  /\ w.pstart \in Nat /\ w.pstart + Len(ps) <= Len(points)
  /\ w.psize = Lesser(Len(ps), CountLimit)
  /\ \A j \in 1 .. Len(ps) : points[w.pstart + j] = ps[j]
  /\ ps # << >> => w.rect = Hull(ToSet(ps))
  /\ AllWithin(way.refs, nodes) => ps = PointsFound(way.refs, nodes)
WayHas(w, way, points, nodes) == \E ps : HasPoints(w, way, points, nodes, ps)

\* The inductive invariant of the points of ways.
WayPointsInv ==
  /\ open.kind = "way" => pointStart = Len(wayPoints) /\ isFirstNd = TRUE
  /\ \A i \in DOMAIN document.ways :
       WayHas(wayIndex[i], document.ways[i], wayPoints, document.nodes)

\* What findKeys has to yield for the references of the way that ends.
RanksFor(keys) == [i \in DOMAIN refs |-> nodeIds!FindKeys(keys).result
                                            [CHOOSE j \in DOMAIN keys : keys[j] = refs[i]]]
RanksKnown ==
  \A keys \in SortedRefs : \A i \in 1 .. Len(refs) : RankRight(refs[i], RanksFor(keys)[i])

\* More points leave those of a record.
LEMMA WayHasMore ==
  ASSUME NEW w, NEW way, NEW points, IsList(points), NEW more, IsList(more), Extends(points, more),
         NEW nodes, WayHas(w, way, points, nodes)
  PROVE  WayHas(w, way, more, nodes)
<1>1. PICK ps : HasPoints(w, way, points, nodes, ps)
  BY DEF WayHas
<1>2. PICK a, n : a = w.pstart /\ n = Len(ps)
  OBVIOUS
<1>3. /\ a \in Nat /\ n \in Nat /\ a + n <= Len(points) /\ Len(points) \in Nat /\ Len(more) \in Nat
      /\ DOMAIN points = 1 .. Len(points) /\ DOMAIN more = 1 .. Len(more)
      /\ \A j \in 1 .. n : points[a + j] = ps[j]
  BY <1>1, <1>2, ListIs, LenProperties DEF HasPoints
<1>4. \A j \in 1 .. n : a + j \in DOMAIN points
  BY <1>3
<1>5. \A j \in 1 .. n : more[a + j] = ps[j]
  BY <1>3, <1>4 DEF Extends
<1>6. Len(points) <= Len(more)
  <2>1. CASE Len(points) = 0
    BY <1>3, <2>1
  <2>2. CASE Len(points) # 0
    <3>1. Len(points) \in DOMAIN points
      BY <1>3, <2>2
    <3>2. Len(points) \in DOMAIN more
      BY <3>1 DEF Extends
    <3> QED BY <1>3, <3>2
  <2> QED BY <2>1, <2>2
<1>7. a + n <= Len(more)
  BY <1>3, <1>6
<1>8. HasPoints(w, way, more, nodes, ps)
  BY <1>1, <1>2, <1>5, <1>7 DEF HasPoints
<1> QED BY <1>8 DEF WayHas

\* The nodes of the document, and its first and its last one.
LEMMA NodesInOrder ==
  ASSUME CompilerAssumption, DocumentInv, document.nodes # << >>
  PROVE  /\ Ended("nodes") = IdsIn(document.nodes)
         /\ Min(Ended("nodes")) = document.nodes[1].id
         /\ Max(Ended("nodes")) = document.nodes[Len(document.nodes)].id
<1>1. PICK nodes, n, S : nodes = document.nodes /\ n = Len(nodes) /\ S = Ended("nodes")
  OBVIOUS
<1>2. nodes \in Seq(Nodes) /\ n \in Nat /\ n # 0 /\ DOMAIN nodes = 1 .. n
  <2>1. nodes \in Seq(Nodes) /\ nodes # << >>
    BY <1>1 DEF DocumentInv, Documents
  <2> QED BY <1>1, <2>1, LenProperties, EmptySeq
<1>3. \A i \in 1 .. n : nodes[i].id \in Int
  <2> TAKE i \in 1 .. n
  <2>1. nodes[i] \in Nodes
    BY <1>1, <1>2, ElementOfSeq
  <2> QED BY <2>1, IdsAreNumbers DEF Nodes
<1>4. S = IdsIn(nodes) /\ S = {nodes[i].id : i \in 1 .. n}
  BY <1>1, <1>2 DEF Ended, IdsIn
<1>5. \A i, j \in 1 .. n : i < j => nodes[i].id < nodes[j].id
  BY <1>1, <1>2 DEF DocumentInv, Ascending
<1>6. 1 \in 1 .. n /\ n \in 1 .. n
  BY <1>2
<1>7. \A i \in 1 .. n : nodes[1].id <= nodes[i].id /\ nodes[i].id <= nodes[n].id
  <2> TAKE i \in 1 .. n
  <2>1. nodes[1].id <= nodes[i].id
    BY <1>3, <1>5, <1>6
  <2>2. nodes[i].id <= nodes[n].id
    BY <1>3, <1>5, <1>6
  <2> QED BY <2>1, <2>2
<1>8. PICK a, b : a = nodes[1].id /\ b = nodes[n].id
  OBVIOUS
<1>9. /\ a \in S /\ b \in S /\ S \subseteq Int /\ a \in Int /\ b \in Int
      /\ \A x \in S : a <= x /\ b >= x
  BY <1>3, <1>4, <1>6, <1>7, <1>8
<1>10. Min(S) = a
  <2>1. Min(S) \in S /\ \A y \in S : Min(S) <= y
    BY <1>9 DEF Min
  <2> QED BY <1>9, <2>1
<1>11. Max(S) = b
  <2>1. Max(S) \in S /\ \A y \in S : Max(S) >= y
    BY <1>9 DEF Max
  <2>2. PICK m : m = Max(S)
    OBVIOUS
  <2>3. m \in Int /\ m >= b /\ b >= m
    BY <1>9, <2>1, <2>2
  <2>4. m = b
    BY <1>9, <2>3
  <2> QED BY <2>2, <2>4
<1> QED BY <1>1, <1>4, <1>8, <1>10, <1>11

\* The part of a raw file that a record stands for.
LEMMA PointsAreFirst ==
  ASSUME CompilerAssumption, IsList(wayPoints), NEW w, NEW way, NEW nodes, NEW ps,
         HasPoints(w, way, wayPoints, nodes, ps)
  PROVE  PointsOf(w) = FirstOf(ps)
<1>1. PICK s, a, n, l : s = wayPoints /\ a = w.pstart /\ n = w.psize /\ l = Len(ps)
  OBVIOUS
<1>2. /\ a \in Nat /\ l \in Nat /\ a + l <= Len(s) /\ Len(s) \in Nat /\ n = Lesser(l, CountLimit)
      /\ \A j \in 1 .. l : s[a + j] = ps[j]
      /\ ps \in Seq(Points)
  BY <1>1, ListIs, LenProperties DEF HasPoints
<1>3. n \in Nat /\ n <= l /\ a + n <= Len(s) /\ 0 + n <= l
  <2>1. CountLimit \in Nat
    BY DEF CompilerAssumption
  <2> QED BY <1>2, <2>1 DEF Lesser
<1>4. PICK t, u : t = SubSeq(s, a + 1, a + n) /\ u = SubSeq(ps, 0 + 1, 0 + n)
  OBVIOUS
<1>5. SliceOf(t, s, a, n)
  BY <1>1, <1>2, <1>3, <1>4, SubSeqIs
<1>6. SliceOf(u, ps, 0, n)
  <2>1. IsList(ps) /\ 0 \in Nat
    BY <1>2 DEF IsList
  <2> QED BY <1>1, <1>3, <1>4, <2>1, SubSeqIs
<1>7. \A i \in 1 .. n : t[i] = u[i]
  <2> TAKE i \in 1 .. n
  <2>1. t[i] = s[a + i] /\ u[i] = ps[0 + i] /\ 0 + i = i /\ i \in 1 .. l
    BY <1>2, <1>3, <1>5, <1>6 DEF SliceOf
  <2> QED BY <1>2, <2>1
<1>8. t = u
  <2>1. /\ IsList(t) /\ IsList(u) /\ DOMAIN t = 1 .. n /\ DOMAIN u = 1 .. n
    BY <1>5, <1>6 DEF SliceOf
  <2>2. t = [i \in 1 .. n |-> t[i]] /\ u = [i \in 1 .. n |-> u[i]]
    <3>1. t = [i \in DOMAIN t |-> t[i]] /\ u = [i \in DOMAIN u |-> u[i]]
      BY <2>1 DEF IsList
    <3> QED BY <2>1, <3>1
  <2> QED BY <1>7, <2>2
<1>9. t = PointsOf(w) /\ u = FirstOf(ps)
  <2>1. 0 + 1 = 1 /\ 0 + n = n
    BY <1>3
  <2> QED BY <1>1, <1>2, <1>4, <2>1 DEF PointsOf, FirstOf
<1> QED BY <1>8, <1>9

\* Is the invariant enough?
LEMMA WayPointsAreRight ==
  ASSUME CompilerAssumption, DocumentInv, RecordsInv, WayPointsInv
  PROVE  WaysHaveTheirPoints
<1>1. ASSUME NEW i \in DOMAIN document.ways,
             \A j \in DOMAIN document.ways[i].refs :
               Min(Ended("nodes")) <= document.ways[i].refs[j]
                 /\ document.ways[i].refs[j] <= Max(Ended("nodes")),
             NEW known, known = Those(document.ways[i].refs, Ended("nodes")),
             NEW points, points = [j \in DOMAIN known |-> Place[known[j]]]
      PROVE  /\ PointsOf(wayIndex[i]) = FirstOf(points)
             /\ known # << >> => wayIndex[i].rect = Hull(ToSet(points))
  <2>1. PICK w, way, nodes : /\ w = wayIndex[i] /\ way = document.ways[i] /\ nodes = document.nodes
    OBVIOUS
  <2>2. document.ways # << >>
    OBVIOUS
  <2>3. nodes # << >>
    BY <2>1, <2>2 DEF DocumentInv
  <2>4. /\ Ended("nodes") = IdsIn(nodes) /\ Min(Ended("nodes")) = nodes[1].id
        /\ Max(Ended("nodes")) = nodes[Len(nodes)].id
    BY <2>1, <2>3, NodesInOrder
  <2>5. way.refs \in Seq(References)
    <3>1. document.ways \in Seq(Ways)
      BY DEF DocumentInv, Documents
    <3>2. way \in Ways
      BY <2>1, <3>1, LenProperties, ElementOfSeq
    <3> QED BY <3>2 DEF Ways
  <2>6. AllWithin(way.refs, nodes)
    <3>1. DOMAIN way.refs = 1 .. Len(way.refs)
      BY <2>5, LenProperties
    <3> QED BY <1>1, <2>1, <2>4, <3>1 DEF AllWithin
  <2>7. PICK ps : HasPoints(w, way, wayPoints, nodes, ps)
    BY <2>1 DEF WayPointsInv, WayHas
  <2>8. ps = points
    <3>1. ps = PointsFound(way.refs, nodes)
      BY <2>6, <2>7 DEF HasPoints
    <3> QED BY <1>1, <2>1, <2>4, <3>1 DEF PointsFound
  <2>9. PointsOf(w) = FirstOf(ps)
    BY <2>7, PointsAreFirst DEF RecordsInv
  <2>10. known # << >> => ps # << >>
    <3>1. known \in Seq(References \cap Ended("nodes"))
      BY <1>1, <2>1, <2>5, ThoseAre
    <3>2. ASSUME known # << >> PROVE 1 \in DOMAIN known
      <4>1. Len(known) \in Nat /\ Len(known) # 0 /\ DOMAIN known = 1 .. Len(known)
        BY <3>1, <3>2, LenProperties, EmptySeq
      <4> QED BY <4>1
    <3>3. DOMAIN ps = DOMAIN known
      BY <1>1, <2>8
    <3>4. DOMAIN << >> = {}
      OBVIOUS
    <3> QED BY <3>2, <3>3, <3>4
  <2> QED BY <2>1, <2>7, <2>8, <2>9, <2>10 DEF HasPoints
<1> QED BY <1>1 DEF WaysHaveTheirPoints
-----------------------------------------------------------------------------
(* The steps that change it. *)

\* The first point of a way starts its rectangle.
LEMMA RectangleIs ==
  ASSUME NEW keys, WayRead(keys), isFirstNd = TRUE, NEW points \in Seq(Points),
         points = PlacesFound(Those(RanksFor(keys), Int \ {-1}))
  PROVE  /\ wayPoints' = wayPoints \o points
         /\ points # << >> => rect' = Hull(ToSet(points))
<1>1. PICK f : f = RanksFor(keys)
  OBVIOUS
<1>2. points = PlacesFound(Those(f, Int \ {nodeIds!IdxNotFound}))
  BY <1>1 DEF nodeIds!IdxNotFound
<1>3. wayPoints' = wayPoints \o points
  BY <1>1, <1>2, Zenon DEF WayRead, RanksFor
<1>4. rect' = IF points = << >> THEN rect
              ELSE FoldLeft(AddPoint, IF isFirstNd THEN Box(points[1]) ELSE AddPoint(rect, points[1]),
                            Tail(points))
  BY <1>1, <1>2, Zenon DEF WayRead, RanksFor
<1>5. points # << >> => rect' = FoldLeft(AddPoint, Box(points[1]), Tail(points))
  BY <1>4
<1> QED BY <1>3, <1>5, BoxWalk

\* The way that ends.
LEMMA WayEnds ==
  ASSUME CompilerAssumption, DocumentInv, RecordsInv, WayPointsInv, RanksKnown,
         NEW keys \in SortedRefs, WayRead(keys)
  PROVE  \E w, way : /\ wayIndex' = Append(wayIndex, w)
                     /\ document'.ways = Append(document.ways, way)
                     /\ WayHas(w, way, wayPoints', document.nodes)
<1>1. PICK n, f, points : /\ n = Len(refs) /\ f = RanksFor(keys)
                          /\ points = PlacesFound(Those(f, Int \ {-1}))
  OBVIOUS
<1>2. n \in Nat /\ DOMAIN refs = 1 .. n /\ refs \in Seq(References)
  BY <1>1, LenProperties DEF DocumentInv
<1>3. \A i \in 1 .. n : RankRight(refs[i], f[i])
  BY <1>1 DEF RanksKnown
<1>4. f \in [1 .. n -> Int]
  <2>1. \A i \in 1 .. n : f[i] \in Int
    BY <1>3 DEF RankRight
  <2>2. f = [i \in 1 .. n |-> f[i]]
    BY <1>1, <1>2 DEF RanksFor
  <2> QED BY <2>1, <2>2
<1>5. /\ points \in Seq(Int \X Int)
      /\ (\A i \in 1 .. n : WithinNodes(refs[i])) =>
           LET known == Those(refs, Ended("nodes")) IN
           points = [j \in DOMAIN known |-> Place[known[j]]]
  BY <1>1, <1>2, <1>3, <1>4, PointsAreRight
<1>6. points \in Seq(Points)
  BY <1>5 DEF Points
<1>7. open.kind = "way" /\ pointStart = Len(wayPoints) /\ isFirstNd = TRUE
  BY DEF WayRead, WayPointsInv
<1>8. PICK p, q, k : p = wayPoints /\ q = p \o points /\ k = Len(p)
  OBVIOUS
<1>9. /\ IsList(q) /\ Len(q) = k + Len(points) /\ k \in Nat /\ Len(points) \in Nat
      /\ \A i \in 1 .. Len(points) : q[k + i] = points[i]
  <2>1. IsList(p) /\ IsList(points)
    BY <1>6, <1>8 DEF RecordsInv, IsList
  <2> QED BY <1>8, <2>1, ListConcat, ListIs
<1>10. wayPoints' = q /\ (points # << >> => rect' = Hull(ToSet(points)))
  BY <1>1, <1>6, <1>7, <1>8, RectangleIs
<1>11. PICK w : w = [rect |-> rect', pstart |-> pointStart,
                     psize |-> SizeFrom(pointStart, wayPoints'),
                     tstart |-> tagStart, tsize |-> SizeFrom(tagStart, baliseTags)]
  OBVIOUS
<1>12. wayIndex' = Append(wayIndex, w)
  BY <1>11, Zenon DEF WayRead
<1>13. PICK way : way = [id |-> open.id, refs |-> refs]
  OBVIOUS
<1>14. document'.ways = Append(document.ways, way)
  BY <1>13, WayReads
<1>15. HasPoints(w, way, q, document.nodes, points)
  <2>1. w.pstart = k /\ w.rect = rect' /\ w.psize = SizeFrom(pointStart, wayPoints')
    BY <1>7, <1>8, <1>11
  <2>2. w.psize = Lesser(Len(points), CountLimit)
    <3>1. Len(q) - k = Len(points)
      BY <1>9
    <3> QED BY <1>7, <1>8, <1>10, <2>1, <3>1 DEF SizeFrom
  <2>3. w.pstart \in Nat /\ w.pstart + Len(points) <= Len(q)
    BY <1>9, <2>1
  <2>4. AllWithin(way.refs, document.nodes) => points = PointsFound(way.refs, document.nodes)
    <3> SUFFICES ASSUME AllWithin(way.refs, document.nodes)
                 PROVE  points = PointsFound(way.refs, document.nodes)
      OBVIOUS
    <3>1. \A i \in 1 .. n : WithinNodes(refs[i])
      BY <1>1, <1>13 DEF AllWithin, WithinNodes
    <3>2. PICK known : known = Those(refs, Ended("nodes"))
      OBVIOUS
    <3>3. points = [j \in DOMAIN known |-> Place[known[j]]]
      BY <1>5, <3>1, <3>2
    <3>4. Ended("nodes") = IdsIn(document.nodes)
      BY DEF Ended, IdsIn
    <3> QED BY <1>13, <3>2, <3>3, <3>4 DEF PointsFound
  <2> QED BY <1>6, <1>9, <1>10, <2>1, <2>2, <2>3, <2>4 DEF HasPoints
<1> QED BY <1>10, <1>12, <1>14, <1>15 DEF WayHas

\* No step takes points away.
LEMMA PointsGrow ==
  ASSUME CompilerAssumption, DocumentInv, TagsInv, RecordsInv, [Next]_vars
  PROVE  Extends(wayPoints, wayPoints')
<1>1. CASE EndWay
  <2>1. PICK keys : WayRead(keys)
    BY <1>1 DEF EndWay
  <2>2. PICK points : IsList(points) /\ wayPoints' = wayPoints \o points
    BY <2>1, WayWrites
  <2> QED BY <2>2, ListConcat DEF RecordsInv
<1>2. CASE ShapePoint \/ ShapeLines \/ ShapeOther
  BY <1>2, ShapesExtend
<1>3. CASE ~EndWay /\ ~(ShapePoint \/ ShapeLines \/ ShapeOther)
  <2>1. wayPoints' = wayPoints
    <3>1. CASE StartNode \/ StartWay \/ StartRelation
      BY <3>1 DEF StartNode, StartWay, StartRelation, StartElement
    <3>2. CASE StartTag \/ Nd \/ EndNode \/ EndRelation \/ Close \/ UNCHANGED vars
      BY <3>2 DEF StartTag, Nd, EndNode, EndRelation, Close, vars, pointVars
    <3>3. CASE StartMember
      BY <3>3 DEF StartMember, Member, pointVars
    <3> QED BY <1>3, <3>1, <3>2, <3>3 DEF Next
  <2> QED BY <2>1, ExtendsSame
<1> QED BY <1>1, <1>2, <1>3

\* While a way is open none of its points has been written.
LEMMA WayOpens ==
  ASSUME CompilerAssumption, DocumentInv, WayPointsInv, [Next]_vars, open'.kind = "way"
  PROVE  pointStart' = Len(wayPoints') /\ isFirstNd' = TRUE
<1>1. Nothing.kind = "none"
  BY DEF Nothing
<1>2. CASE StartWay
  BY <1>2 DEF StartWay, StartElement
<1>3. CASE StartNode \/ StartRelation
  BY <1>3 DEF StartNode, StartRelation, StartElement
<1>4. CASE EndNode \/ EndWay \/ EndRelation
  <2>1. open' = Nothing
    BY <1>4 DEF EndNode, EndWay, WayRead, EndRelation
  <2> QED BY <1>1, <2>1
<1>5. CASE ShapePoint \/ ShapeLines \/ ShapeOther
  <2>1. PICK shape \in ShapeRecords, n \in {0, 1} : ShapeRead(shape, n)
    BY <1>5, ShapesReadAre
  <2>2. open' = Nothing
    BY <2>1 DEF ShapeRead
  <2> QED BY <1>1, <2>2
<1>6. CASE StartTag \/ Nd \/ StartMember \/ Close \/ UNCHANGED vars
  <2>1. UNCHANGED <<open, pointStart, wayPoints, isFirstNd>>
    <3>1. CASE StartMember
      BY <3>1 DEF StartMember, Member, pointVars
    <3> QED BY <1>6, <3>1 DEF StartTag, Nd, Close, vars, pointVars
  <2> QED BY <2>1 DEF WayPointsInv
<1> QED BY <1>2, <1>3, <1>4, <1>5, <1>6 DEF Next

\* The invariant is kept by a step, if findKeys yields what it should.
LEMMA WayPointsStep ==
  ASSUME CompilerAssumption, DocumentInv, TagsInv, RecordsInv, RecordsInv', CountsInv, WayPointsInv,
         [Next]_vars, EndWay => RanksKnown
  PROVE  WayPointsInv'
<1>1. PICK p, q, x, y, v, u, m, n :
        /\ p = wayPoints /\ q = wayPoints' /\ x = wayIndex /\ y = wayIndex'
        /\ v = document.ways /\ u = document'.ways /\ m = document.nodes /\ n = document'.nodes
  OBVIOUS
<1>2. IsList(p) /\ IsList(q) /\ Extends(p, q) /\ IsList(x) /\ IsList(v)
  <2>1. IsList(wayPoints) /\ IsList(wayPoints')
    BY DEF RecordsInv
  <2> QED BY <1>1, <2>1, PointsGrow, Lists
<1>3. \A i \in DOMAIN v : WayHas(x[i], v[i], p, m)
  BY <1>1 DEF WayPointsInv
<1>4. v # << >> => n = m
  <2> SUFFICES ASSUME v # << >> PROVE n = m
    OBVIOUS
  <2>1. ~EndNode
    BY <1>1 DEF DocumentInv, OpenInv, EndNode
  <2>2. CASE Quiet
    BY <1>1, <2>2 DEF Quiet
  <2>3. CASE EndWay
    BY <1>1, <2>3, WayReads DEF EndWay
  <2>4. CASE EndRelation
    BY <1>1, <2>4, EndRelationReads
  <2>5. CASE ShapePoint \/ ShapeLines \/ ShapeOther
    <3>1. PICK shape \in ShapeRecords, k \in {0, 1} : ShapeRead(shape, k)
      BY <2>5, ShapesReadAre
    <3> QED BY <1>1, <3>1, ShapeReads
  <2> QED BY <2>1, <2>2, <2>3, <2>4, <2>5, QuietSteps
<1>5. \A i \in DOMAIN v : WayHas(x[i], v[i], q, n)
  <2> TAKE i \in DOMAIN v
  <2>1. v # << >> /\ n = m
    <3>1. DOMAIN << >> = {}
      OBVIOUS
    <3> QED BY <1>4, <3>1
  <2> QED BY <1>2, <1>3, <2>1, WayHasMore
<1>6. \A i \in DOMAIN u : WayHas(y[i], u[i], q, n)
  <2>1. CASE u = v /\ Extends(x, y)
    <3>1. Len(v) <= Len(x) /\ DOMAIN v = 1 .. Len(v) /\ DOMAIN x = 1 .. Len(x)
          /\ Len(v) \in Nat /\ Len(x) \in Nat
      BY <1>1, <1>2, CountsAre, ListIs
    <3>2. \A i \in DOMAIN v : y[i] = x[i]
      BY <2>1, <3>1 DEF Extends
    <3> QED BY <1>5, <2>1, <3>2
  <2>2. CASE EndWay
    <3>1. PICK keys \in SortedRefs : WayRead(keys)
      BY <2>2 DEF EndWay
    <3>2. PICK w, way : y = Append(x, w) /\ u = Append(v, way) /\ WayHas(w, way, q, m)
      BY <1>1, <2>2, <3>1, WayEnds
    <3>3. n = m
      BY <1>1, <3>1, WayReads
    <3>4. Len(v) = Len(x)
      <4>1. document.shapes = << >>
        <5>1. open.kind = "way" /\ Nothing.kind = "none"
          BY <3>1 DEF WayRead, Nothing
        <5> QED BY <5>1 DEF DocumentInv, OpenInv
      <4> QED BY <1>1, <4>1, CountsAre
    <3>5. Beside(v, x, u, y, {<<way, w>>})
      BY <1>2, <3>2, <3>4, BesideGrows
    <3> QED BY <1>5, <3>2, <3>3, <3>5 DEF Beside
  <2>3. CASE Quiet
    BY <1>1, <2>1, <2>3, ExtendsSame DEF Quiet
  <2>4. CASE EndNode
    BY <1>1, <2>1, <2>4, EndNodeWrites, EndNodeReads, ExtendsSame
  <2>5. CASE EndRelation
    BY <1>1, <2>1, <2>5, EndRelationWrites, EndRelationReads, ExtendsSame
  <2>6. CASE ShapePoint \/ ShapeLines \/ ShapeOther
    BY <1>1, <2>1, <2>6, ShapesExtend
  <2> QED BY <2>2, <2>3, <2>4, <2>5, <2>6, QuietSteps
<1> QED BY <1>1, <1>6, WayOpens DEF WayPointsInv
-----------------------------------------------------------------------------
(* The members of a relation. *)

MemberTypes == {"point", "way", "relation"}
KeptMembers == [type : MemberTypes, id : Nat, named : References]
NamesOf(ms) == [j \in DOMAIN ms |-> [type |-> ms[j].type, named |-> ms[j].named]]
Kinds == [type : {"point", "way"}, named : References]

\* The members that a relation can keep: the ways, and the nodes with tags.
KnownMembers(ways, tagged) ==
  [type : {"way"}, named : IdsIn(ways)]
    \cup [type : {"point"}, named : {n.id : n \in ToSet(tagged)}]

\* A member is the record of what it names.
MemberRight(m, ways, tagged, index) ==
  /\ m.type = "way" => ways[m.id + 1].id = m.named
  /\ m.type = "point" => /\ m.id + 1 \in DOMAIN tagged /\ m.id + 1 \in DOMAIN index
                         /\ index[m.id + 1].place = Place[m.named]

\* What is kept of the members that a relation names.
Kept(ms, ways, tagged, index, named, complete) ==
  /\ ms \in Seq(KeptMembers)
  /\ \A j \in 1 .. Len(ms) : MemberRight(ms[j], ways, tagged, index)
  /\ complete => Those(NamesOf(ms), Kinds) = Those(named, KnownMembers(ways, tagged))

\* Where they are in the raw file.
LiesAt(ms, members, start) ==
  /\ start \in Nat /\ start + Len(ms) <= Len(members)
  /\ \A j \in 1 .. Len(ms) : members[start + j] = ms[j]

\* A record has the members of the relation.
RelationHas(r, relation, members, ways, tagged, index, complete) ==
  \E ms : /\ Kept(ms, ways, tagged, index, relation.members, complete)
          /\ LiesAt(ms, members, r.mstart) /\ r.msize = Lesser(Len(ms), CountLimit)

\* The inductive invariant of the members, for the relation that is open and for those
\* that have ended.
MembersInv ==
  /\ open.kind = "relation" =>
       \E ms : /\ Kept(ms, document.ways, TaggedNodes, nodeIndex, document.members, waysStarted)
               /\ LiesAt(ms, relMembers, memberStart) /\ Len(relMembers) = memberStart + Len(ms)
  /\ \A i \in DOMAIN document.relations :
       RelationHas(relationIndex[i], document.relations[i], relMembers, document.ways, TaggedNodes,
                   nodeIndex, waysStarted)

\* What the search for a member yields.
FoundFor(type, ref) ==
  CASE type = "point" -> nodeRefs!Find(ref)
    [] type = "way" -> wayIds!Find(ref)
    [] type = "relation" -> relationIds!Find(ref)
IdFor(type, ref) ==
  LET found == FoundFor(type, ref) IN
  CASE type = "point" -> found.pos
    [] type = "way" -> wayFile[found.pos + 1].item
    [] type = "relation" -> relFile[found.pos + 1].item

\* What it has to yield: a place in the index of the type, and if that is the index of
\* ways or of nodes, the place of what is named.
SearchRight(type, ref) ==
  LET found == FoundFor(type, ref).found
      place == IdFor(type, ref) + 1
  IN
  /\ found \in BOOLEAN /\ (found => IdFor(type, ref) \in Nat)
  /\ type = "point" =>
       /\ found => place \in 1 .. Len(TaggedNodes) /\ TaggedNodes[place].id = ref
       /\ waysStarted /\ (\E i \in 1 .. Len(TaggedNodes) : TaggedNodes[i].id = ref) => found
  /\ type = "way" =>
       /\ found => place \in 1 .. Len(document.ways) /\ document.ways[place].id = ref
       /\ (\E i \in 1 .. Len(document.ways) : document.ways[i].id = ref) => found
  /\ type = "relation" => (found => place \in 1 .. Len(document.relations))

\* What a member writes.
LEMMA MemberWrites ==
  ASSUME NEW type \in MemberTypes, NEW ref, Member(type, ref)
  PROVE  /\ relMembers' = IF FoundFor(type, ref).found
                          THEN Append(relMembers, [type |-> type, id |-> IdFor(type, ref), named |-> ref])
                          ELSE relMembers
         /\ open.kind = "relation"
         /\ UNCHANGED <<nodeIndex, wayIndex, relationIndex, memberStart, waysStarted, relsStarted, open>>
<1>1. relMembers' = IF FoundFor(type, ref).found
                    THEN Append(relMembers, [type |-> type, id |-> IdFor(type, ref), named |-> ref])
                    ELSE relMembers
  BY Zenon DEF Member, FoundFor, IdFor
<1>2. /\ open.kind = "relation"
      /\ UNCHANGED <<nodeIndex, wayIndex, relationIndex, memberStart, waysStarted, relsStarted, open>>
  BY DEF Member, recordVars
<1> QED BY <1>1, <1>2

\* One more element.
LEMMA AppendIs ==
  ASSUME NEW R, NEW s \in Seq(R), NEW e \in R
  PROVE  Append(s, e) = [i \in 1 .. Len(s) + 1 |-> IF i \in 1 .. Len(s) THEN s[i] ELSE e]
<1>1. PICK n, t : n = Len(s) /\ t = Append(s, e)
  OBVIOUS
<1>2. /\ n \in Nat /\ t \in Seq(R) /\ Len(t) = n + 1 /\ t[n + 1] = e
      /\ \A i \in 1 .. n : t[i] = s[i]
  BY <1>1, AppendProperties, LenProperties
<1>3. t = [i \in 1 .. n + 1 |-> t[i]]
  BY <1>2
<1>4. \A i \in 1 .. n + 1 : t[i] = IF i \in 1 .. n THEN s[i] ELSE e
  BY <1>2
<1> QED BY <1>1, <1>3, <1>4

\* The names of one more member.
LEMMA NamesAppend ==
  ASSUME NEW ms \in Seq(KeptMembers), NEW m \in KeptMembers
  PROVE  /\ NamesOf(ms) \in Seq(Named)
         /\ [type |-> m.type, named |-> m.named] \in Named
         /\ NamesOf(Append(ms, m)) = Append(NamesOf(ms), [type |-> m.type, named |-> m.named])
<1>1. PICK n, t, e, ns : /\ n = Len(ms) /\ t = Append(ms, m)
                         /\ e = [type |-> m.type, named |-> m.named] /\ ns = NamesOf(ms)
  OBVIOUS
<1>2. /\ n \in Nat /\ DOMAIN ms = 1 .. n /\ DOMAIN t = 1 .. n + 1 /\ t[n + 1] = m
      /\ \A i \in 1 .. n : t[i] = ms[i]
  BY <1>1, AppendProperties, LenProperties
<1>3. e \in Named /\ \A i \in 1 .. n : [type |-> ms[i].type, named |-> ms[i].named] \in Named
  <2>1. \A x \in KeptMembers : [type |-> x.type, named |-> x.named] \in Named
    BY DEF KeptMembers, Named, MemberTypes
  <2>2. \A i \in 1 .. n : ms[i] \in KeptMembers
    BY <1>1, ElementOfSeq
  <2> QED BY <1>1, <2>1, <2>2
<1>4. ns = [i \in 1 .. n |-> [type |-> ms[i].type, named |-> ms[i].named]]
  BY <1>1, <1>2 DEF NamesOf
<1>5. ns \in [1 .. n -> Named]
  BY <1>3, <1>4
<1>6. ns \in Seq(Named) /\ Len(ns) = n
  BY <1>2, <1>5
<1>7. Append(ns, e) = [i \in 1 .. n + 1 |-> IF i \in 1 .. n THEN ns[i] ELSE e]
  <2>1. Append(ns, e) = [i \in 1 .. Len(ns) + 1 |-> IF i \in 1 .. Len(ns) THEN ns[i] ELSE e]
    BY <1>3, <1>6, AppendIs
  <2> QED BY <1>6, <2>1
<1>8. NamesOf(t) = [i \in 1 .. n + 1 |-> [type |-> t[i].type, named |-> t[i].named]]
  BY <1>2 DEF NamesOf
<1>9. \A i \in 1 .. n + 1 : [type |-> t[i].type, named |-> t[i].named]
                              = IF i \in 1 .. n THEN ns[i] ELSE e
  <2> TAKE i \in 1 .. n + 1
  <2>1. CASE i \in 1 .. n
    BY <1>2, <1>4, <2>1
  <2>2. CASE i \notin 1 .. n
    <3>1. i = n + 1
      BY <1>2, <2>2
    <3> QED BY <1>1, <1>2, <2>2, <3>1
  <2> QED BY <2>1, <2>2
<1>10. NamesOf(t) = Append(ns, e)
  BY <1>7, <1>8, <1>9
<1> QED BY <1>1, <1>3, <1>6, <1>10

\* A longer index of nodes leaves what is kept.
LEMMA KeptMore ==
  ASSUME NEW ms, NEW ways, NEW tagged, NEW index, NEW more, Extends(index, more), NEW named,
         NEW complete, Kept(ms, ways, tagged, index, named, complete)
  PROVE  Kept(ms, ways, tagged, more, named, complete)
<1>1. ASSUME NEW m, MemberRight(m, ways, tagged, index) PROVE MemberRight(m, ways, tagged, more)
  BY <1>1 DEF MemberRight, Extends
<1> QED BY <1>1 DEF Kept

\* A longer raw file leaves what lies in it.
LEMMA LiesMore ==
  ASSUME NEW ms, IsList(ms), NEW members, IsList(members), NEW more, IsList(more),
         Extends(members, more), NEW start, LiesAt(ms, members, start)
  PROVE  LiesAt(ms, more, start)
<1>1. PICK n, k, l : n = Len(ms) /\ k = Len(members) /\ l = Len(more)
  OBVIOUS
<1>2. /\ n \in Nat /\ k \in Nat /\ l \in Nat /\ DOMAIN members = 1 .. k /\ DOMAIN more = 1 .. l
      /\ start \in Nat /\ start + n <= k /\ \A j \in 1 .. n : members[start + j] = ms[j]
  BY <1>1, ListIs DEF LiesAt
<1>3. k <= l
  <2>1. CASE k = 0
    BY <1>2, <2>1
  <2>2. CASE k # 0
    <3>1. k \in DOMAIN members
      BY <1>2, <2>2
    <3>2. k \in DOMAIN more
      BY <3>1 DEF Extends
    <3> QED BY <1>2, <3>2
  <2> QED BY <2>1, <2>2
<1>4. start + n <= l
  BY <1>2, <1>3
<1>5. \A j \in 1 .. n : start + j \in DOMAIN members
  BY <1>2
<1>6. \A j \in 1 .. n : more[start + j] = ms[j]
  BY <1>2, <1>5 DEF Extends
<1> QED BY <1>1, <1>2, <1>4, <1>6 DEF LiesAt

\* Neither takes anything from a relation.
LEMMA RelationHasMore ==
  ASSUME NEW r, NEW relation, NEW members, IsList(members), NEW more, IsList(more),
         Extends(members, more), NEW ways, NEW tagged, NEW index, NEW longer, Extends(index, longer),
         NEW complete, RelationHas(r, relation, members, ways, tagged, index, complete)
  PROVE  RelationHas(r, relation, more, ways, tagged, longer, complete)
<1>1. PICK ms : /\ Kept(ms, ways, tagged, index, relation.members, complete)
                /\ LiesAt(ms, members, r.mstart) /\ r.msize = Lesser(Len(ms), CountLimit)
  BY DEF RelationHas
<1>2. IsList(ms)
  BY <1>1 DEF Kept, IsList
<1>3. Kept(ms, ways, tagged, longer, relation.members, complete)
  BY <1>1, KeptMore
<1>4. LiesAt(ms, more, r.mstart)
  BY <1>1, <1>2, LiesMore
<1> QED BY <1>1, <1>3, <1>4 DEF RelationHas
-----------------------------------------------------------------------------
(* The steps that change the members. *)

\* Once a relation has come, nothing is written that members stand for.
LEMMA RelationsHold ==
  ASSUME CompilerAssumption, DocumentInv, TagsInv, RecordsInv, [Next]_vars, relsStarted
  PROVE  /\ document'.nodes = document.nodes /\ document'.ways = document.ways
         /\ TaggedNodes' = TaggedNodes /\ waysStarted' = waysStarted
         /\ Extends(nodeIndex, nodeIndex') /\ Extends(relMembers, relMembers')
<1>1. ~StartNode /\ ~StartWay /\ ~EndNode /\ ~EndWay
  BY DEF StartNode, StartWay, EndNode, EndWay, WayRead, DocumentInv, OpenInv
<1>2. CASE ShapePoint \/ ShapeLines \/ ShapeOther
  <2>1. /\ Extends(nodeIndex, nodeIndex') /\ Extends(relMembers, relMembers')
        /\ TaggedNodes' = TaggedNodes /\ document'.ways = document.ways
    BY <1>2, ShapesExtend
  <2>2. document'.nodes = document.nodes /\ waysStarted' = waysStarted
    <3>1. PICK shape \in ShapeRecords, n \in {0, 1} : ShapeRead(shape, n)
      BY <1>2, ShapesReadAre
    <3>2. document'.nodes = document.nodes
      BY <3>1, ShapeReads
    <3>3. waysStarted' = waysStarted
      BY <3>1 DEF ShapeRead
    <3> QED BY <3>2, <3>3
  <2> QED BY <2>1, <2>2
<1>3. ASSUME document'.nodes = document.nodes, document'.ways = document.ways,
             waysStarted' = waysStarted, UNCHANGED nodeIndex, Extends(relMembers, relMembers')
      PROVE  /\ document'.nodes = document.nodes /\ document'.ways = document.ways
             /\ TaggedNodes' = TaggedNodes /\ waysStarted' = waysStarted
             /\ Extends(nodeIndex, nodeIndex') /\ Extends(relMembers, relMembers')
  <2>1. TaggedNodes' = TaggedNodes
    BY <1>3, TaggedStay
  <2> QED BY <1>3, <2>1, ExtendsSame
<1>4. CASE StartRelation
  <2>1. UNCHANGED <<waysStarted, nodeIndex, relMembers>>
    BY <1>4 DEF StartRelation, StartElement, recordVars
  <2>2. document'.nodes = document.nodes /\ document'.ways = document.ways
    BY <1>4, StartRelationReads
  <2> QED BY <1>3, <2>1, <2>2, ExtendsSame
<1>5. CASE EndRelation
  <2>1. UNCHANGED <<waysStarted, nodeIndex, relMembers>>
    BY <1>5 DEF EndRelation, memberVars
  <2>2. document'.nodes = document.nodes /\ document'.ways = document.ways
    BY <1>5, EndRelationReads
  <2> QED BY <1>3, <2>1, <2>2, ExtendsSame
<1>6. CASE StartMember
  <2>1. PICK type \in MemberTypes, ref \in References : Member(type, ref)
    BY <1>6 DEF StartMember, MemberTypes
  <2>2. /\ UNCHANGED <<nodeIndex, waysStarted>>
        /\ relMembers' = IF FoundFor(type, ref).found
                         THEN Append(relMembers, [type |-> type, id |-> IdFor(type, ref), named |-> ref])
                         ELSE relMembers
    BY <2>1, MemberWrites
  <2>3. Extends(relMembers, relMembers')
    <3>1. IsList(relMembers)
      BY DEF RecordsInv
    <3>2. PICK e, s, t : /\ s = relMembers /\ t = relMembers' /\ (t = Append(s, e) \/ t = s)
      BY <2>2
    <3>3. Extends(s, Append(s, e))
      BY <3>1, <3>2, ListAppend
    <3> QED BY <3>2, <3>3, ExtendsSame
  <2>4. document'.nodes = document.nodes /\ document'.ways = document.ways
    BY <2>1, MemberReads DEF MemberTypes
  <2> QED BY <1>3, <2>2, <2>3, <2>4
<1>7. CASE StartTag \/ Nd \/ Close \/ UNCHANGED vars
  <2>1. UNCHANGED <<document, waysStarted, nodeIndex, relMembers>>
    BY <1>7 DEF StartTag, Nd, Close, recordVars, memberVars, vars
  <2> QED BY <1>3, <2>1, ExtendsSame
<1> QED BY <1>1, <1>2, <1>4, <1>5, <1>6, <1>7 DEF Next

\* A member that is found is a record of what it names.
LEMMA NewMember ==
  ASSUME CompilerAssumption, DocumentInv, RecordsInv, CountsInv, RecordsAreTheirOwn,
         NEW type \in MemberTypes, NEW ref \in References, SearchRight(type, ref),
         FoundFor(type, ref).found,
         NEW m, m = [type |-> type, id |-> IdFor(type, ref), named |-> ref]
  PROVE  m \in KeptMembers /\ MemberRight(m, document.ways, TaggedNodes, nodeIndex)
<1>1. PICK id : id = IdFor(type, ref)
  OBVIOUS
<1>2. /\ id \in Nat
      /\ type = "way" => id + 1 \in 1 .. Len(document.ways) /\ document.ways[id + 1].id = ref
      /\ type = "point" => id + 1 \in 1 .. Len(TaggedNodes) /\ TaggedNodes[id + 1].id = ref
  BY <1>1 DEF SearchRight
<1>3. m.type = type /\ m.id = id /\ m.named = ref /\ m \in KeptMembers
  BY <1>1, <1>2 DEF KeptMembers
<1>4. ASSUME type = "point"
      PROVE  /\ id + 1 \in DOMAIN TaggedNodes /\ id + 1 \in DOMAIN nodeIndex
             /\ nodeIndex[id + 1].place = Place[ref]
  <2>1. IsList(TaggedNodes) /\ IsList(nodeIndex) /\ Len(TaggedNodes) <= Len(nodeIndex)
    BY Lists, CountsAre
  <2>2. /\ DOMAIN TaggedNodes = 1 .. Len(TaggedNodes) /\ Len(TaggedNodes) \in Nat
        /\ DOMAIN nodeIndex = 1 .. Len(nodeIndex) /\ Len(nodeIndex) \in Nat
    BY <2>1, ListIs
  <2>3. id + 1 \in DOMAIN TaggedNodes /\ id + 1 \in DOMAIN nodeIndex /\ TaggedNodes[id + 1].id = ref
    BY <1>2, <1>4, <2>1, <2>2
  <2>4. nodeIndex[id + 1].place = Place[TaggedNodes[id + 1].id]
    BY <2>3, OwnRecords DEF NodeRight
  <2> QED BY <2>3, <2>4
<1> QED BY <1>2, <1>3, <1>4 DEF MemberRight

\* It is found exactly if the document has it.
LEMMA MemberKnown ==
  ASSUME CompilerAssumption, DocumentInv, waysStarted,
         NEW type \in MemberTypes, NEW ref \in References, SearchRight(type, ref),
         NEW e, e = [type |-> type, named |-> ref], NEW known,
         known = KnownMembers(document.ways, TaggedNodes)
  PROVE  /\ FoundFor(type, ref).found => (e \in Kinds <=> e \in known)
         /\ ~FoundFor(type, ref).found => e \notin known
<1>1. PICK found, place, tagged, ways :
        /\ found = FoundFor(type, ref).found /\ place = IdFor(type, ref) + 1
        /\ tagged = TaggedNodes /\ ways = document.ways
  OBVIOUS
<1>2. /\ DOMAIN ways = 1 .. Len(ways) /\ DOMAIN tagged = 1 .. Len(tagged)
  BY <1>1, TaggedNodesAre DEF DocumentInv, Documents
<1>3. /\ type = "point" => /\ found => place \in DOMAIN tagged /\ tagged[place].id = ref
                           /\ (\E i \in DOMAIN tagged : tagged[i].id = ref) => found
      /\ type = "way" => /\ found => place \in DOMAIN ways /\ ways[place].id = ref
                         /\ (\E i \in DOMAIN ways : ways[i].id = ref) => found
  BY <1>1, <1>2 DEF SearchRight
<1>4. e \in known <=> \/ type = "way" /\ \E i \in DOMAIN ways : ways[i].id = ref
                      \/ type = "point" /\ \E i \in DOMAIN tagged : tagged[i].id = ref
  <2>1. e \in [type : {"way"}, named : IdsIn(ways)] <=> type = "way" /\ ref \in IdsIn(ways)
    OBVIOUS
  <2>2. ref \in IdsIn(ways) <=> \E i \in DOMAIN ways : ways[i].id = ref
    BY DEF IdsIn
  <2>3. PICK ids : ids = {n.id : n \in ToSet(tagged)}
    OBVIOUS
  <2>4. e \in [type : {"point"}, named : ids] <=> type = "point" /\ ref \in ids
    OBVIOUS
  <2>5. ref \in ids <=> \E i \in DOMAIN tagged : tagged[i].id = ref
    BY <2>3 DEF ToSet
  <2>6. known = [type : {"way"}, named : IdsIn(ways)] \cup [type : {"point"}, named : ids]
    BY <1>1, <2>3 DEF KnownMembers
  <2> QED BY <2>1, <2>2, <2>4, <2>5, <2>6
<1>5. e \in Kinds <=> type = "way" \/ type = "point"
  BY DEF Kinds
<1> QED BY <1>1, <1>3, <1>4, <1>5 DEF MemberTypes

\* One more member that is kept.
LEMMA KeptNext ==
  ASSUME NEW ms, NEW ways, NEW tagged, NEW index, NEW named \in Seq(Named), NEW complete,
         Kept(ms, ways, tagged, index, named, complete),
         NEW m \in KeptMembers, MemberRight(m, ways, tagged, index),
         NEW e \in Named, e = [type |-> m.type, named |-> m.named],
         complete => (e \in Kinds <=> e \in KnownMembers(ways, tagged))
  PROVE  Kept(Append(ms, m), ways, tagged, index, Append(named, e), complete)
<1>1. /\ ms \in Seq(KeptMembers) /\ \A j \in 1 .. Len(ms) : MemberRight(ms[j], ways, tagged, index)
      /\ complete => Those(NamesOf(ms), Kinds) = Those(named, KnownMembers(ways, tagged))
  BY DEF Kept
<1>2. PICK t : t = Append(ms, m)
  OBVIOUS
<1>3. /\ t \in Seq(KeptMembers) /\ Len(t) = Len(ms) + 1 /\ Len(ms) \in Nat /\ t[Len(ms) + 1] = m
      /\ \A j \in 1 .. Len(ms) : t[j] = ms[j]
  BY <1>1, <1>2, AppendProperties, LenProperties
<1>4. \A j \in 1 .. Len(t) : MemberRight(t[j], ways, tagged, index)
  <2> TAKE j \in 1 .. Len(t)
  <2>1. j \in 1 .. Len(ms) \/ j = Len(ms) + 1
    BY <1>3
  <2> QED BY <1>1, <1>3, <2>1
<1>5. ASSUME complete
      PROVE  Those(NamesOf(t), Kinds) = Those(Append(named, e), KnownMembers(ways, tagged))
  <2>1. PICK ns, known : ns = NamesOf(ms) /\ known = KnownMembers(ways, tagged)
    OBVIOUS
  <2>2. ns \in Seq(Named) /\ NamesOf(t) = Append(ns, e)
    BY <1>1, <1>2, <2>1, NamesAppend
  <2>3. Those(Append(ns, e), Kinds) = Keep(Those(ns, Kinds), e, Kinds)
    BY <2>2, ThoseAppend
  <2>4. Those(Append(named, e), known) = Keep(Those(named, known), e, known)
    BY ThoseAppend
  <2>5. Those(ns, Kinds) = Those(named, known) /\ (e \in Kinds <=> e \in known)
    BY <1>1, <1>5, <2>1
  <2>6. Keep(Those(ns, Kinds), e, Kinds) = Keep(Those(named, known), e, known)
    BY <2>5 DEF Keep
  <2> QED BY <2>1, <2>2, <2>3, <2>4, <2>6
<1> QED BY <1>2, <1>3, <1>4, <1>5 DEF Kept

\* One that is not.
LEMMA KeptSkip ==
  ASSUME NEW ms, NEW ways, NEW tagged, NEW index, NEW named \in Seq(Named), NEW complete,
         Kept(ms, ways, tagged, index, named, complete),
         NEW e \in Named, complete => e \notin KnownMembers(ways, tagged)
  PROVE  Kept(ms, ways, tagged, index, Append(named, e), complete)
<1>1. PICK known : known = KnownMembers(ways, tagged)
  OBVIOUS
<1>2. Those(Append(named, e), known) = Keep(Those(named, known), e, known)
  BY ThoseAppend
<1>3. complete => Those(Append(named, e), known) = Those(named, known)
  BY <1>1, <1>2 DEF Keep
<1> QED BY <1>1, <1>3 DEF Kept

-----------------------------------------------------------------------------
(* The invariant of the members is kept. *)

\* Are the members found where they should be?
SearchesRight ==
  \A type \in MemberTypes, ref \in References : Member(type, ref) => SearchRight(type, ref)

\* The members of a relation that is open.
OpenHas(ms) ==
  /\ Kept(ms, document.ways, TaggedNodes, nodeIndex, document.members, waysStarted)
  /\ LiesAt(ms, relMembers, memberStart) /\ Len(relMembers) = memberStart + Len(ms)

\* A relation begins without any.
LEMMA RelationBegins ==
  ASSUME CompilerAssumption, DocumentInv, RecordsInv, StartRelation
  PROVE  OpenHas(<< >>)'
<1>1. memberStart' = Len(relMembers) /\ relMembers' = relMembers
  BY DEF StartRelation, StartElement
<1>2. Len(relMembers) \in Nat
  BY ListIs DEF RecordsInv
<1>3. document'.members = << >>
  BY StartRelationReads
<1>4. << >> \in Seq(KeptMembers) /\ Len(<< >>) = 0 /\ 1 .. 0 = {} /\ NamesOf(<< >>) = << >>
  BY DEF NamesOf
<1>5. ASSUME NEW ways, NEW tagged, NEW index, NEW complete
      PROVE  Kept(<< >>, ways, tagged, index, << >>, complete)
  <2>1. Those(<< >>, Kinds) = Those(<< >>, KnownMembers(ways, tagged))
    BY ThoseEmpty
  <2> QED BY <1>4, <2>1 DEF Kept
<1>6. Kept(<< >>, document'.ways, TaggedNodes', nodeIndex', document'.members, waysStarted')
  BY <1>3, <1>5
<1>7. LiesAt(<< >>, relMembers', memberStart') /\ Len(relMembers') = memberStart' + Len(<< >>)
  BY <1>1, <1>2, <1>4 DEF LiesAt
<1> QED BY <1>6, <1>7 DEF OpenHas

\* One more member lies behind the others.
LEMMA LiesAppend ==
  ASSUME NEW ms, IsList(ms), NEW members, IsList(members), NEW start,
         LiesAt(ms, members, start), Len(members) = start + Len(ms), NEW m
  PROVE  /\ LiesAt(Append(ms, m), Append(members, m), start)
         /\ Len(Append(members, m)) = start + Len(Append(ms, m))
<1>1. PICK t, more, n, k : /\ t = Append(ms, m) /\ more = Append(members, m)
                           /\ n = Len(ms) /\ k = Len(members)
  OBVIOUS
<1>2. /\ Len(t) = n + 1 /\ n \in Nat /\ t[n + 1] = m /\ \A j \in 1 .. n : t[j] = ms[j]
  BY <1>1, ListAppend
<1>3. /\ Len(more) = k + 1 /\ k \in Nat /\ more[k + 1] = m /\ \A j \in 1 .. k : more[j] = members[j]
  BY <1>1, ListAppend
<1>4. start \in Nat /\ k = start + n /\ \A j \in 1 .. n : members[start + j] = ms[j]
  BY <1>1 DEF LiesAt
<1>5. \A j \in 1 .. n + 1 : more[start + j] = t[j]
  <2> TAKE j \in 1 .. n + 1
  <2>1. CASE j \in 1 .. n
    <3>1. start + j \in 1 .. k
      BY <1>2, <1>4, <2>1
    <3> QED BY <1>2, <1>3, <1>4, <2>1, <3>1
  <2>2. CASE j = n + 1
    <3>1. start + j = k + 1
      BY <1>2, <1>4, <2>2
    <3> QED BY <1>2, <1>3, <2>2, <3>1
  <2> QED BY <1>2, <2>1, <2>2
<1>6. start + (n + 1) <= k + 1 /\ k + 1 = start + (n + 1)
  BY <1>2, <1>4
<1> QED BY <1>1, <1>2, <1>3, <1>4, <1>5, <1>6 DEF LiesAt

\* A relation that is open gets a member.
LEMMA OpenGets ==
  ASSUME CompilerAssumption, DocumentInv, TagsInv, RecordsInv, CountsInv, RecordsAreTheirOwn,
         NEW ms, OpenHas(ms), NEW type \in MemberTypes, NEW ref \in References, Member(type, ref),
         SearchRight(type, ref)
  PROVE  \E t : OpenHas(t)'
<1>1. PICK ways, tagged, named, e, m :
        /\ ways = document.ways /\ tagged = TaggedNodes /\ named = document.members
        /\ e = [type |-> type, named |-> ref]
        /\ m = [type |-> type, id |-> IdFor(type, ref), named |-> ref]
  OBVIOUS
<1>2. /\ document'.members = Append(named, e) /\ document'.ways = ways
      /\ document'.nodes = document.nodes
  BY <1>1, MemberReads DEF MemberTypes
<1>3. TaggedNodes' = tagged
  <2>1. Next
    BY DEF Next, StartMember, MemberTypes
  <2> QED BY <1>1, <1>2, <2>1, TaggedStay
<1>4. /\ relMembers' = IF FoundFor(type, ref).found THEN Append(relMembers, m) ELSE relMembers
      /\ UNCHANGED <<nodeIndex, memberStart, waysStarted>>
  BY <1>1, MemberWrites
<1>5. named \in Seq(Named) /\ e \in Named
  BY <1>1 DEF DocumentInv, Documents, Named, MemberTypes
<1>6. /\ Kept(ms, ways, tagged, nodeIndex, named, waysStarted)
      /\ LiesAt(ms, relMembers, memberStart) /\ Len(relMembers) = memberStart + Len(ms)
  BY <1>1 DEF OpenHas
<1>7. IsList(ms) /\ IsList(relMembers)
  BY <1>6 DEF Kept, IsList, RecordsInv
<1>8. waysStarted => /\ FoundFor(type, ref).found => (e \in Kinds <=> e \in KnownMembers(ways, tagged))
                     /\ ~FoundFor(type, ref).found => e \notin KnownMembers(ways, tagged)
  BY <1>1, MemberKnown
<1>9. CASE FoundFor(type, ref).found
  <2>1. m \in KeptMembers /\ MemberRight(m, ways, tagged, nodeIndex)
    BY <1>1, <1>9, NewMember
  <2>2. e = [type |-> m.type, named |-> m.named]
    BY <1>1
  <2>3. Kept(Append(ms, m), ways, tagged, nodeIndex, Append(named, e), waysStarted)
    BY <1>5, <1>6, <1>8, <1>9, <2>1, <2>2, KeptNext
  <2>4. /\ LiesAt(Append(ms, m), Append(relMembers, m), memberStart)
        /\ Len(Append(relMembers, m)) = memberStart + Len(Append(ms, m))
    BY <1>6, <1>7, LiesAppend
  <2>5. OpenHas(Append(ms, m))'
    BY <1>2, <1>3, <1>4, <1>9, <2>3, <2>4 DEF OpenHas
  <2> QED BY <2>5
<1>10. CASE ~FoundFor(type, ref).found
  <2>1. Kept(ms, ways, tagged, nodeIndex, Append(named, e), waysStarted)
    BY <1>5, <1>6, <1>8, <1>10, KeptSkip
  <2>2. OpenHas(ms)'
    BY <1>2, <1>3, <1>4, <1>6, <1>10, <2>1 DEF OpenHas
  <2> QED BY <2>2
<1> QED BY <1>9, <1>10

\* The relation that ends has the members it has got.
LEMMA RelationEnds ==
  ASSUME CompilerAssumption, DocumentInv, TagsInv, RecordsInv, NEW ms, OpenHas(ms), EndRelation
  PROVE  \E r, relation : /\ relationIndex' = Append(relationIndex, r)
                          /\ document'.relations = Append(document.relations, relation)
                          /\ RelationHas(r, relation, relMembers, document.ways, TaggedNodes,
                                         nodeIndex, waysStarted)
<1>1. PICK r : /\ relationIndex' = Append(relationIndex, r)
               /\ r.mstart = memberStart /\ r.msize = SizeFrom(memberStart, relMembers)
  BY EndRelationWrites
<1>2. PICK relation : relation = [id |-> open.id, members |-> document.members]
  OBVIOUS
<1>3. document'.relations = Append(document.relations, relation)
  BY <1>2, EndRelationReads
<1>4. /\ Kept(ms, document.ways, TaggedNodes, nodeIndex, relation.members, waysStarted)
      /\ LiesAt(ms, relMembers, r.mstart)
  BY <1>1, <1>2 DEF OpenHas
<1>5. r.msize = Lesser(Len(ms), CountLimit)
  <2>1. PICK n, a, k : n = Len(ms) /\ a = memberStart /\ k = Len(relMembers)
    OBVIOUS
  <2>2. k = a + n /\ a \in Nat
    BY <2>1 DEF OpenHas, LiesAt
  <2>3. n \in Nat
    <3>1. ms \in Seq(KeptMembers)
      BY <1>4 DEF Kept
    <3> QED BY <2>1, <3>1
  <2>4. k - a = n
    BY <2>2, <2>3
  <2> QED BY <1>1, <2>1, <2>4 DEF SizeFrom
<1>6. RelationHas(r, relation, relMembers, document.ways, TaggedNodes, nodeIndex, waysStarted)
  BY <1>4, <1>5 DEF RelationHas
<1> QED BY <1>1, <1>3, <1>6

\* Only its end adds a relation.
LEMMA RelationsStay ==
  ASSUME CompilerAssumption, DocumentInv, TagsInv, RecordsInv, [Next]_vars, ~EndRelation
  PROVE  document'.relations = document.relations /\ Extends(relationIndex, relationIndex')
<1>1. CASE EndNode
  BY <1>1, EndNodeReads, EndNodeWrites, ExtendsSame
<1>2. CASE EndWay
  <2>1. PICK keys : WayRead(keys)
    BY <1>2 DEF EndWay
  <2>2. relationIndex' = relationIndex
    BY <2>1, WayWrites
  <2> QED BY <2>1, <2>2, WayReads, ExtendsSame
<1>3. CASE ShapePoint \/ ShapeLines \/ ShapeOther
  BY <1>3, ShapesExtend
<1>4. CASE Quiet
  BY <1>4, ExtendsSame DEF Quiet
<1> QED BY <1>1, <1>2, <1>3, <1>4, QuietSteps

\* What is open has its members.
LEMMA MembersOpen ==
  ASSUME CompilerAssumption, DocumentInv, TagsInv, RecordsInv, CountsInv, RecordsAreTheirOwn,
         MembersInv, [Next]_vars, SearchesRight, open'.kind = "relation"
  PROVE  \E ms : OpenHas(ms)'
<1>1. CASE StartRelation
  BY <1>1, RelationBegins
<1>2. ASSUME open.kind = "relation" PROVE \E ms : OpenHas(ms)
  BY <1>2 DEF MembersInv, OpenHas
<1>3. CASE StartMember
  <2>1. PICK type \in MemberTypes, ref \in References : Member(type, ref)
    BY <1>3 DEF StartMember, MemberTypes
  <2>2. open.kind = "relation" /\ SearchRight(type, ref)
    BY <2>1, MemberWrites DEF SearchesRight
  <2>3. PICK ms : OpenHas(ms)
    BY <1>2, <2>2
  <2> QED BY <2>1, <2>2, <2>3, OpenGets
<1>4. CASE StartTag \/ UNCHANGED vars
  <2>1. UNCHANGED <<open, document, nodeIndex, relMembers, memberStart, waysStarted>>
    BY <1>4 DEF StartTag, recordVars, memberVars, vars
  <2>2. TaggedNodes' = TaggedNodes
    BY <2>1, TaggedStay
  <2>3. PICK ms : OpenHas(ms)
    BY <1>2, <2>1
  <2>4. OpenHas(ms)'
    BY <2>1, <2>2, <2>3 DEF OpenHas
  <2> QED BY <2>4
<1>5. ~(Nd \/ Close \/ ShapePoint \/ ShapeLines \/ ShapeOther \/ EndNode \/ EndWay \/ EndRelation
          \/ StartNode \/ StartWay)
  <2>1. Nothing.kind = "none"
    BY DEF Nothing
  <2>2. ~(StartNode \/ StartWay)
    BY DEF StartNode, StartWay, StartElement
  <2>3. ~(Nd \/ EndNode \/ EndWay \/ EndRelation)
    BY <2>1 DEF Nd, EndNode, EndWay, WayRead, EndRelation
  <2>4. ~(Close \/ ShapePoint \/ ShapeLines \/ ShapeOther)
    BY <2>1 DEF Close, ShapePoint, ShapeLines, ShapeOther, ShapeRead
  <2> QED BY <2>2, <2>3, <2>4
<1> QED BY <1>1, <1>3, <1>4, <1>5 DEF Next

\* What has ended keeps them.
LEMMA MembersEnded ==
  ASSUME CompilerAssumption, DocumentInv, TagsInv, RecordsInv, RecordsInv', CountsInv,
         MembersInv, [Next]_vars
  PROVE  \A i \in DOMAIN document'.relations :
           RelationHas(relationIndex'[i], document'.relations[i], relMembers', document'.ways,
                       TaggedNodes', nodeIndex', waysStarted')
<1>1. /\ \A i \in DOMAIN document.relations : i \in DOMAIN relationIndex
      /\ DOMAIN document.relations = 1 .. Len(document.relations)
      /\ DOMAIN relationIndex = 1 .. Len(relationIndex)
      /\ Len(document.relations) \in Nat /\ Len(relationIndex) \in Nat
  <2>1. /\ IsList(document.relations) /\ IsList(relationIndex)
        /\ Len(document.relations) <= Len(relationIndex)
    BY Lists, CountsAre
  <2>2. /\ DOMAIN document.relations = 1 .. Len(document.relations)
        /\ DOMAIN relationIndex = 1 .. Len(relationIndex)
        /\ Len(document.relations) \in Nat /\ Len(relationIndex) \in Nat
    BY <2>1, ListIs
  <2> QED BY <2>1, <2>2
<1>2. CASE ~relsStarted
  <2>1. document.relations = << >> /\ ~EndRelation
    BY <1>2 DEF DocumentInv, OpenInv, EndRelation
  <2>2. document'.relations = << >>
    BY <2>1, RelationsStay
  <2> QED BY <2>2
<1>3. ASSUME relsStarted, NEW i \in DOMAIN document.relations
      PROVE  RelationHas(relationIndex[i], document.relations[i], relMembers', document'.ways,
                         TaggedNodes', nodeIndex', waysStarted')
  <2>1. PICK members, more, index, longer :
          members = relMembers /\ more = relMembers' /\ index = nodeIndex /\ longer = nodeIndex'
    OBVIOUS
  <2>2. RelationHas(relationIndex[i], document.relations[i], members, document.ways, TaggedNodes,
                    index, waysStarted)
    BY <2>1 DEF MembersInv
  <2>3. /\ document'.ways = document.ways /\ TaggedNodes' = TaggedNodes /\ waysStarted' = waysStarted
        /\ Extends(index, longer) /\ Extends(members, more)
    BY <1>3, <2>1, RelationsHold
  <2>4. IsList(members) /\ IsList(more)
    BY <2>1 DEF RecordsInv
  <2>5. RelationHas(relationIndex[i], document.relations[i], more, document.ways, TaggedNodes,
                    longer, waysStarted)
    BY <2>2, <2>3, <2>4, RelationHasMore
  <2> QED BY <2>1, <2>3, <2>5
<1>4. CASE relsStarted /\ ~EndRelation
  <2>1. document'.relations = document.relations /\ Extends(relationIndex, relationIndex')
    BY <1>4, RelationsStay
  <2>2. \A i \in DOMAIN document.relations : relationIndex'[i] = relationIndex[i]
    BY <1>1, <2>1 DEF Extends
  <2> QED BY <1>3, <1>4, <2>1, <2>2
<1>5. CASE relsStarted /\ EndRelation
  <2>1. PICK ms : OpenHas(ms)
    BY <1>5 DEF MembersInv, OpenHas, EndRelation
  <2>2. PICK r, relation : /\ relationIndex' = Append(relationIndex, r)
                           /\ document'.relations = Append(document.relations, relation)
                           /\ RelationHas(r, relation, relMembers, document.ways, TaggedNodes,
                                          nodeIndex, waysStarted)
    BY <1>5, <2>1, RelationEnds
  <2>3. PICK x, y, s, t, n : /\ x = relationIndex /\ y = relationIndex'
                             /\ s = document.relations /\ t = document'.relations /\ n = Len(s)
    OBVIOUS
  <2>4. Len(x) = n
    <3>1. document.shapes = << >>
      BY <1>5 DEF DocumentInv, OpenInv, EndRelation, Nothing
    <3> QED BY <2>3, <3>1, CountsAre
  <2>5. /\ DOMAIN t = 1 .. n + 1 /\ n \in Nat /\ t[n + 1] = relation /\ \A i \in 1 .. n : t[i] = s[i]
    <3>1. IsList(s)
      BY <2>3, Lists
    <3> QED BY <2>2, <2>3, <3>1, ListAppend
  <2>6. y[n + 1] = r /\ \A i \in 1 .. n : y[i] = x[i]
    <3>1. IsList(x)
      BY <2>3, Lists
    <3> QED BY <2>2, <2>3, <2>4, <3>1, ListAppend
  <2>7. RelationHas(r, relation, relMembers', document'.ways, TaggedNodes', nodeIndex', waysStarted')
    <3>1. /\ document'.ways = document.ways /\ TaggedNodes' = TaggedNodes /\ waysStarted' = waysStarted
      BY <1>5, RelationsHold
    <3>2. relMembers' = relMembers /\ nodeIndex' = nodeIndex
      BY <1>5, EndRelationWrites
    <3> QED BY <2>2, <3>1, <3>2
  <2>8. ASSUME NEW i \in 1 .. n + 1
        PROVE  RelationHas(y[i], t[i], relMembers', document'.ways, TaggedNodes', nodeIndex', waysStarted')
    <3>1. CASE i = n + 1
      BY <2>5, <2>6, <2>7, <3>1
    <3>2. CASE i \in 1 .. n
      <4>1. i \in DOMAIN document.relations
        BY <1>1, <2>3, <3>2
      <4>2. RelationHas(x[i], s[i], relMembers', document'.ways, TaggedNodes', nodeIndex', waysStarted')
        BY <1>3, <1>5, <2>3, <4>1
      <4> QED BY <2>5, <2>6, <3>2, <4>2
    <3> QED BY <2>5, <3>1, <3>2
  <2> QED BY <2>3, <2>5, <2>8
<1> QED BY <1>2, <1>4, <1>5

\* Both together.
LEMMA MembersStep ==
  ASSUME CompilerAssumption, DocumentInv, TagsInv, RecordsInv, RecordsInv', CountsInv,
         RecordsAreTheirOwn, MembersInv, [Next]_vars, SearchesRight
  PROVE  MembersInv'
<1>1. open'.kind = "relation" => \E ms : OpenHas(ms)'
  BY MembersOpen
<1>2. \A i \in DOMAIN document'.relations :
        RelationHas(relationIndex'[i], document'.relations[i], relMembers', document'.ways,
                    TaggedNodes', nodeIndex', waysStarted')
  BY MembersEnded
<1> QED BY <1>1, <1>2 DEF MembersInv, OpenHas

\* What MembersAreTheirs says of a relation.
MembersMatch(members, names, size, named, known) ==
  /\ \A m \in ToSet(members) :
       /\ m.type = "way" => document.ways[m.id + 1].id = m.named
       /\ m.type = "point" =>
            m.id < Len(TaggedNodes) /\ nodeIndex[m.id + 1].place = Place[m.named]
  /\ waysStarted /\ size < CountLimit =>
       Those(names, [type : {"point", "way"}, named : References]) = Those(named, known)

\* Is the invariant enough?
LEMMA MembersAreRight ==
  ASSUME CompilerAssumption, DocumentInv, RecordsInv, MembersInv
  PROVE  MembersAreTheirs
<1>1. ASSUME NEW i \in DOMAIN document.relations,
             NEW tagged, tagged = {n.id : n \in ToSet(TaggedNodes)},
             NEW known, known = [type : {"way"}, named : Ended("ways")] \cup [type : {"point"}, named : tagged],
             NEW members, members = MembersOf(relationIndex[i]),
             NEW names, names = [j \in DOMAIN members |-> [type |-> members[j].type, named |-> members[j].named]]
      PROVE  MembersMatch(members, names, relationIndex[i].msize, document.relations[i].members, known)
  <2>1. PICK r, relation, ms :
          /\ r = relationIndex[i] /\ relation = document.relations[i]
          /\ Kept(ms, document.ways, TaggedNodes, nodeIndex, relation.members, waysStarted)
          /\ LiesAt(ms, relMembers, r.mstart) /\ r.msize = Lesser(Len(ms), CountLimit)
    BY DEF MembersInv, RelationHas
  <2>2. PICK l, n, a, k : l = relMembers /\ n = Len(ms) /\ a = r.mstart /\ k = r.msize
    OBVIOUS
  <2>3. /\ ms \in Seq(KeptMembers) /\ n \in Nat /\ DOMAIN ms = 1 .. n
        /\ \A j \in 1 .. n : ms[j] \in KeptMembers
        /\ \A j \in 1 .. n : MemberRight(ms[j], document.ways, TaggedNodes, nodeIndex)
    BY <2>1, <2>2, LenProperties, ElementOfSeq DEF Kept
  <2>4. /\ a \in Nat /\ a + n <= Len(l) /\ \A j \in 1 .. n : l[a + j] = ms[j]
    BY <2>1, <2>2 DEF LiesAt
  <2>5. k \in Nat /\ k <= n /\ (k < CountLimit => k = n)
    BY <2>1, <2>2, <2>3 DEF Lesser, CompilerAssumption
  <2>6. IsList(l) /\ Len(l) \in Nat
    BY <2>2, ListIs DEF RecordsInv
  <2>7. SliceOf(members, l, a, k)
    <3>1. a + k <= Len(l)
      BY <2>3, <2>4, <2>5, <2>6
    <3>2. members = SubSeq(l, a + 1, a + k)
      BY <1>1, <2>1, <2>2 DEF MembersOf
    <3> QED BY <2>4, <2>5, <2>6, <3>1, <3>2, SubSeqIs
  <2>8. DOMAIN members = 1 .. k /\ Len(members) = k /\ \A j \in 1 .. k : members[j] = ms[j]
    <3>1. DOMAIN members = 1 .. k /\ Len(members) = k /\ \A j \in 1 .. k : members[j] = l[a + j]
      BY <2>7 DEF SliceOf
    <3>2. \A j \in 1 .. k : j \in 1 .. n
      BY <2>3, <2>5
    <3> QED BY <2>4, <3>1, <3>2
  <2>9. ASSUME NEW m \in ToSet(members)
        PROVE  /\ m.type = "way" => document.ways[m.id + 1].id = m.named
               /\ m.type = "point" =>
                    m.id < Len(TaggedNodes) /\ nodeIndex[m.id + 1].place = Place[m.named]
    <3>1. PICK j \in 1 .. k : m = ms[j]
      BY <2>8 DEF ToSet
    <3>2. j \in 1 .. n
      BY <2>3, <2>5
    <3>3. MemberRight(m, document.ways, TaggedNodes, nodeIndex) /\ m.id \in Nat
      BY <2>3, <3>1, <3>2 DEF KeptMembers
    <3>4. DOMAIN TaggedNodes = 1 .. Len(TaggedNodes) /\ Len(TaggedNodes) \in Nat
      BY TaggedNodesAre
    <3> QED BY <3>3, <3>4 DEF MemberRight
  <2>10. ASSUME waysStarted, k < CountLimit
         PROVE  Those(names, [type : {"point", "way"}, named : References])
                  = Those(relation.members, known)
    <3>1. names = NamesOf(ms)
      <4>1. k = n
        BY <2>5, <2>10
      <4>2. names = [j \in 1 .. n |-> [type |-> members[j].type, named |-> members[j].named]]
        BY <1>1, <2>8, <4>1
      <4>3. NamesOf(ms) = [j \in 1 .. n |-> [type |-> ms[j].type, named |-> ms[j].named]]
        BY <2>3 DEF NamesOf
      <4>4. \A j \in 1 .. n : members[j] = ms[j]
        BY <2>8, <4>1
      <4> QED BY <4>2, <4>3, <4>4
    <3>2. known = KnownMembers(document.ways, TaggedNodes)
      <4>1. Ended("ways") = IdsIn(document.ways)
        <5>1. document["ways"] = document.ways
          OBVIOUS
        <5> QED BY <5>1, Zenon DEF Ended, IdsIn
      <4> QED BY <1>1, <4>1, Zenon DEF KnownMembers
    <3>3. Those(NamesOf(ms), Kinds) = Those(relation.members, KnownMembers(document.ways, TaggedNodes))
      BY <2>1, <2>10 DEF Kept
    <3>4. Kinds = [type : {"point", "way"}, named : References]
      BY DEF Kinds
    <3> QED BY <3>1, <3>2, <3>3, <3>4
  <2> QED BY <2>1, <2>2, <2>9, <2>10 DEF MembersMatch
<1>2. ASSUME NEW i \in DOMAIN document.relations
      PROVE  LET tagged == {n.id : n \in ToSet(TaggedNodes)}
                 known == [type : {"way"}, named : Ended("ways")] \cup [type : {"point"}, named : tagged]
                 members == MembersOf(relationIndex[i])
                 names == [j \in DOMAIN members |-> [type |-> members[j].type, named |-> members[j].named]]
             IN MembersMatch(members, names, relationIndex[i].msize, document.relations[i].members, known)
  <2>1. PICK tagged, known, members, names :
          /\ tagged = {n.id : n \in ToSet(TaggedNodes)}
          /\ known = [type : {"way"}, named : Ended("ways")] \cup [type : {"point"}, named : tagged]
          /\ members = MembersOf(relationIndex[i])
          /\ names = [j \in DOMAIN members |-> [type |-> members[j].type, named |-> members[j].named]]
    OBVIOUS
  <2>2. MembersMatch(members, names, relationIndex[i].msize, document.relations[i].members, known)
    BY <1>1, <2>1
  <2> QED BY <2>1, <2>2, Zenon
<1> QED BY <1>2, Zenon DEF MembersAreTheirs, MembersMatch

-----------------------------------------------------------------------------
(* Where the members point. *)

\* Every member is a record of an index with n nodes, w ways and r relations.
MemberWithin(m, n, w, r) ==
  /\ m.type \in MemberTypes /\ m.id \in Nat
  /\ m.type = "point" => m.id < n
  /\ m.type = "way" => m.id < w
  /\ m.type = "relation" => m.id < r
AllMembersWithin(members, n, w, r) == \A j \in DOMAIN members : MemberWithin(members[j], n, w, r)
MembersBounded ==
  AllMembersWithin(relMembers, Len(nodeIndex), Len(wayIndex), Len(relationIndex))

\* A list that goes on is not shorter.
LEMMA ExtendsLonger ==
  ASSUME NEW s, IsList(s), NEW t, IsList(t), Extends(s, t)
  PROVE  Len(s) <= Len(t) /\ Len(s) \in Nat /\ Len(t) \in Nat
<1>1. PICK n, k : n = Len(s) /\ k = Len(t)
  OBVIOUS
<1>2. n \in Nat /\ k \in Nat /\ DOMAIN s = 1 .. n /\ DOMAIN t = 1 .. k
  BY <1>1, ListIs
<1>3. ASSUME n # 0 PROVE n \in 1 .. k
  <2>1. n \in DOMAIN s
    BY <1>2, <1>3
  <2>2. n \in DOMAIN t
    BY <2>1 DEF Extends
  <2> QED BY <1>2, <2>2
<1> QED BY <1>1, <1>2, <1>3

\* No record is ever taken away.
LEMMA IndexesExtend ==
  ASSUME CompilerAssumption, DocumentInv, TagsInv, RecordsInv, [Next]_vars
  PROVE  /\ Extends(nodeIndex, nodeIndex') /\ Extends(wayIndex, wayIndex')
         /\ Extends(relationIndex, relationIndex')
<1>1. PICK x, v, y : x = nodeIndex /\ v = wayIndex /\ y = relationIndex
  OBVIOUS
<1>2. IsList(x) /\ IsList(v) /\ IsList(y)
  BY <1>1, Lists
<1>3. CASE EndNode
  <2>1. wayIndex' = v /\ relationIndex' = y /\ \E n, r : NodeWritten(n, r)
    BY <1>1, <1>3, EndNodeWrites
  <2>2. PICK r : nodeIndex' = x \/ nodeIndex' = Append(x, r)
    BY <1>1, <2>1 DEF NodeWritten
  <2>3. Extends(x, Append(x, r))
    BY <1>2, ListAppend
  <2> QED BY <1>1, <2>1, <2>2, <2>3, ExtendsSame
<1>4. CASE EndWay
  <2>1. PICK keys : WayRead(keys)
    BY <1>4 DEF EndWay
  <2>2. nodeIndex' = x /\ relationIndex' = y /\ \E w : wayIndex' = Append(v, w)
    BY <1>1, <2>1, WayWrites
  <2>3. \A w : Extends(v, Append(v, w))
    BY <1>2, ListAppend
  <2> QED BY <1>1, <2>2, <2>3, ExtendsSame
<1>5. CASE EndRelation
  <2>1. nodeIndex' = x /\ wayIndex' = v /\ \E r : relationIndex' = Append(y, r)
    BY <1>1, <1>5, EndRelationWrites
  <2>2. \A r : Extends(y, Append(y, r))
    BY <1>2, ListAppend
  <2> QED BY <1>1, <2>1, <2>2, ExtendsSame
<1>6. CASE ShapePoint \/ ShapeLines \/ ShapeOther
  BY <1>6, ShapesExtend
<1>7. CASE Quiet
  BY <1>7, ExtendsSame DEF Quiet
<1> QED BY <1>3, <1>4, <1>5, <1>6, <1>7, QuietSteps

\* Members are within indexes that have become longer.
LEMMA MembersWithinMore ==
  ASSUME NEW members, NEW a, IsList(a), NEW b, IsList(b), NEW c, IsList(c),
         NEW d, IsList(d), NEW e, IsList(e), NEW f, IsList(f),
         Extends(a, d), Extends(b, e), Extends(c, f),
         AllMembersWithin(members, Len(a), Len(b), Len(c))
  PROVE  AllMembersWithin(members, Len(d), Len(e), Len(f))
<1>1. PICK i, j, k, l, m, n : /\ i = Len(a) /\ j = Len(b) /\ k = Len(c)
                              /\ l = Len(d) /\ m = Len(e) /\ n = Len(f)
  OBVIOUS
<1>2. /\ i \in Nat /\ j \in Nat /\ k \in Nat /\ l \in Nat /\ m \in Nat /\ n \in Nat
      /\ i <= l /\ j <= m /\ k <= n
  BY <1>1, ExtendsLonger
<1>3. \A x : MemberWithin(x, i, j, k) => MemberWithin(x, l, m, n)
  BY <1>2 DEF MemberWithin
<1> QED BY <1>1, <1>3 DEF AllMembersWithin

\* Only a member and a shape of lines write members.
LEMMA MembersStay ==
  ASSUME CompilerAssumption, DocumentInv, TagsInv, [Next]_vars, ~StartMember, ~ShapeLines
  PROVE  relMembers' = relMembers
<1>1. CASE StartNode \/ StartWay \/ StartRelation
  BY <1>1 DEF StartNode, StartWay, StartRelation, StartElement
<1>2. CASE EndNode \/ StartTag \/ Nd \/ Close \/ UNCHANGED vars
  BY <1>2 DEF EndNode, StartTag, Nd, Close, memberVars, vars
<1>3. CASE EndWay
  <2>1. PICK keys : WayRead(keys)
    BY <1>3 DEF EndWay
  <2> QED BY <2>1, WayWrites
<1>4. CASE EndRelation
  BY <1>4, EndRelationWrites
<1>5. CASE ShapePoint
  BY <1>5, PointWrites
<1>6. CASE ShapeOther
  BY <1>6, OtherWrites
<1> QED BY <1>1, <1>2, <1>3, <1>4, <1>5, <1>6 DEF Next

\* A member that is found is within the indexes.
LEMMA MemberBounded ==
  ASSUME CompilerAssumption, DocumentInv, RecordsInv, CountsInv, MembersBounded,
         NEW type \in MemberTypes, NEW ref \in References, Member(type, ref), SearchRight(type, ref)
  PROVE  MembersBounded'
<1>1. PICK l, m, n, w, r : /\ l = relMembers
                           /\ m = [type |-> type, id |-> IdFor(type, ref), named |-> ref]
                           /\ n = Len(nodeIndex) /\ w = Len(wayIndex) /\ r = Len(relationIndex)
  OBVIOUS
<1>2. /\ relMembers' = IF FoundFor(type, ref).found THEN Append(l, m) ELSE l
      /\ UNCHANGED <<nodeIndex, wayIndex, relationIndex>>
  BY <1>1, MemberWrites
<1>3. IsList(l) /\ \A j \in DOMAIN l : MemberWithin(l[j], n, w, r)
  BY <1>1 DEF RecordsInv, MembersBounded, AllMembersWithin
<1>4. CASE FoundFor(type, ref).found
  <2>1. PICK id, a, b, c : /\ id = IdFor(type, ref) /\ a = Len(TaggedNodes)
                           /\ b = Len(document.ways) /\ c = Len(document.relations)
    OBVIOUS
  <2>2. /\ id \in Nat
        /\ type = "point" => id + 1 \in 1 .. a
        /\ type = "way" => id + 1 \in 1 .. b
        /\ type = "relation" => id + 1 \in 1 .. c
    BY <1>4, <2>1 DEF SearchRight
  <2>3. a <= n /\ b <= w /\ c <= r
    BY <1>1, <2>1, CountsAre
  <2>4. a \in Nat /\ b \in Nat /\ c \in Nat /\ n \in Nat /\ w \in Nat /\ r \in Nat
    BY <1>1, <2>1, Lists, ListIs
  <2>5. MemberWithin(m, n, w, r)
    <3>1. m.type = type /\ m.id = id
      BY <1>1, <2>1
    <3>2. /\ type = "point" => id < n
          /\ type = "way" => id < w
          /\ type = "relation" => id < r
      BY <2>2, <2>3, <2>4
    <3> QED BY <2>2, <3>1, <3>2 DEF MemberWithin
  <2>6. PICK t, k : t = Append(l, m) /\ k = Len(l)
    OBVIOUS
  <2>7. /\ DOMAIN t = 1 .. k + 1 /\ k \in Nat /\ DOMAIN l = 1 .. k /\ t[k + 1] = m
        /\ \A j \in 1 .. k : t[j] = l[j]
    BY <1>3, <2>6, ListAppend
  <2>8. \A j \in DOMAIN t : MemberWithin(t[j], n, w, r)
    <3> TAKE j \in DOMAIN t
    <3>1. j \in 1 .. k \/ j = k + 1
      BY <2>7
    <3> QED BY <1>3, <2>5, <2>7, <3>1
  <2> QED BY <1>1, <1>2, <1>4, <2>6, <2>8 DEF MembersBounded, AllMembersWithin
<1>5. CASE ~FoundFor(type, ref).found
  BY <1>1, <1>2, <1>3, <1>5 DEF MembersBounded, AllMembersWithin
<1> QED BY <1>4, <1>5

\* What two lists one after the other hold.
LEMMA ListsJoined ==
  ASSUME NEW s, IsList(s), NEW u, IsList(u), NEW t, t = s \o u
  PROVE  /\ IsList(t) /\ Len(t) = Len(s) + Len(u)
         /\ \A i \in 1 .. Len(s) : t[i] = s[i]
         /\ \A i \in 1 .. Len(u) : t[Len(s) + i] = u[i]
<1>1. IsList(s \o u) /\ Len(s \o u) = Len(s) + Len(u)
  BY ListConcat
<1>2. \A i \in 1 .. Len(s) : (s \o u)[i] = s[i]
  BY ListConcat
<1>3. \A i \in 1 .. Len(u) : (s \o u)[Len(s) + i] = u[i]
  BY ListConcat
<1> QED BY <1>1, <1>2, <1>3

\* So are the ways of a shape.
LEMMA WaysBounded ==
  ASSUME CompilerAssumption, DocumentInv, TagsInv, RecordsInv, RecordsInv', MembersBounded, ShapeLines
  PROVE  MembersBounded'
<1>1. PICK s, u, parts, added, more :
        /\ ShapeWalked(s, parts, u) /\ wayIndex' = u.ways /\ added = Len(u.ways) - Len(wayIndex)
        /\ relMembers' = relMembers \o more
        /\ more = [i \in 1 .. added |-> [type |-> "way", id |-> Len(wayIndex) + i - 1, named |-> 0]]
  BY LinesWrite
<1>2. PICK l, n, w, r, K : /\ l = relMembers /\ K = Len(wayIndex)
                           /\ n = Len(nodeIndex') /\ w = Len(wayIndex') /\ r = Len(relationIndex')
  OBVIOUS
<1>3. IsList(l) /\ K \in Nat
  BY <1>2, Lists, ListIs DEF RecordsInv
<1>4. added \in Nat
  <2>1. PICK c : c = Len(baliseTags)
    OBVIOUS
  <2>2. c \in Nat /\ WaysWithin(wayIndex, c, Len(wayPoints))
    BY <2>1, RawLengths DEF RecordsInv
  <2> QED BY <1>1, <2>2, WalkWithin
<1>5. w = K + added
  <2>1. IsList(wayIndex')
    BY DEF RecordsInv, WaysWithin
  <2>2. w \in Nat /\ added = w - K
    BY <1>1, <1>2, <2>1, ListIs
  <2> QED BY <1>3, <1>4, <2>2
<1>6. AllMembersWithin(l, n, w, r)
  <2>1. PICK a, b, c, d, e, f : /\ a = nodeIndex /\ b = wayIndex /\ c = relationIndex
                                /\ d = nodeIndex' /\ e = wayIndex' /\ f = relationIndex'
    OBVIOUS
  <2>2. Extends(a, d) /\ Extends(b, e) /\ Extends(c, f)
    BY <2>1, ShapesExtend
  <2>3. /\ IsList(a) /\ IsList(b) /\ IsList(c) /\ IsList(d) /\ IsList(e) /\ IsList(f)
    BY <2>1 DEF RecordsInv, NodesWithin, WaysWithin, RelationsWithin
  <2>4. AllMembersWithin(l, Len(a), Len(b), Len(c))
    BY <1>2, <2>1 DEF MembersBounded
  <2>5. AllMembersWithin(l, Len(d), Len(e), Len(f))
    BY <2>2, <2>3, <2>4, MembersWithinMore
  <2> QED BY <1>2, <2>1, <2>5
<1>7. DOMAIN more = 1 .. added /\ \A i \in 1 .. added : MemberWithin(more[i], n, w, r)
  <2>1. DOMAIN more = 1 .. added
    BY <1>1
  <2>2. ASSUME NEW i \in 1 .. added PROVE MemberWithin(more[i], n, w, r)
    <3>1. more[i] = [type |-> "way", id |-> K + i - 1, named |-> 0]
      BY <1>1, <1>2, <2>2
    <3>2. PICK m, id : m = more[i] /\ id = K + i - 1
      OBVIOUS
    <3>3. m.type = "way" /\ m.id = id
      BY <3>1, <3>2
    <3>4. id \in Nat /\ id < w
      BY <1>3, <1>4, <1>5, <3>2
    <3> QED BY <3>2, <3>3, <3>4 DEF MemberWithin, MemberTypes
  <2> QED BY <2>1, <2>2
<1>8. IsList(more) /\ Len(more) = added
  <2>1. more = [i \in 1 .. added |-> more[i]]
    BY <1>1
  <2> QED BY <1>4, <2>1, ListOf
<1>9. PICK t, k : t = l \o more /\ k = Len(l)
  OBVIOUS
<1>10. /\ DOMAIN t = 1 .. k + added /\ k \in Nat /\ DOMAIN l = 1 .. k
       /\ \A i \in 1 .. k : t[i] = l[i]
       /\ \A i \in 1 .. added : t[k + i] = more[i]
  <2>1. /\ IsList(t) /\ Len(t) = k + added
        /\ \A i \in 1 .. k : t[i] = l[i]
        /\ \A i \in 1 .. added : t[k + i] = more[i]
    <3>1. IsList(l)
      BY <1>3
    <3>2. IsList(more)
      BY <1>8
    <3>3. t = l \o more
      BY <1>9
    <3>4. IsList(t)
      BY <3>1, <3>2, <3>3, ListsJoined
    <3>5. Len(t) = Len(l) + Len(more)
      BY <3>1, <3>2, <3>3, ListsJoined
    <3>6. \A i \in 1 .. Len(l) : t[i] = l[i]
      BY <3>1, <3>2, <3>3, ListsJoined
    <3>7. \A i \in 1 .. Len(more) : t[Len(l) + i] = more[i]
      BY <3>1, <3>2, <3>3, ListsJoined
    <3> QED BY <1>8, <1>9, <3>4, <3>5, <3>6, <3>7
  <2> QED BY <1>3, <1>9, <2>1, ListIs
<1>11. \A j \in DOMAIN t : MemberWithin(t[j], n, w, r)
  <2> TAKE j \in DOMAIN t
  <2>1. CASE j \in 1 .. k
    BY <1>6, <1>10, <2>1 DEF AllMembersWithin
  <2>2. CASE j \notin 1 .. k
    <3>1. PICK i : i = j - k
      OBVIOUS
    <3>2. i \in 1 .. added /\ j = k + i
      BY <1>4, <1>10, <2>2, <3>1
    <3> QED BY <1>7, <1>10, <3>2
  <2> QED BY <2>1, <2>2
<1> QED BY <1>1, <1>2, <1>9, <1>11 DEF MembersBounded, AllMembersWithin

\* The bounds are kept.
LEMMA MembersBoundedStep ==
  ASSUME CompilerAssumption, DocumentInv, TagsInv, RecordsInv, RecordsInv', CountsInv,
         MembersBounded, [Next]_vars, SearchesRight
  PROVE  MembersBounded'
<1>1. CASE StartMember
  <2>1. PICK type \in MemberTypes, ref \in References : Member(type, ref)
    BY <1>1 DEF StartMember, MemberTypes
  <2> QED BY <2>1, MemberBounded DEF SearchesRight
<1>2. CASE ShapeLines
  BY <1>2, WaysBounded
<1>3. CASE ~StartMember /\ ~ShapeLines
  <2>1. PICK a, b, c, d, e, f, l :
          /\ a = nodeIndex /\ b = wayIndex /\ c = relationIndex
          /\ d = nodeIndex' /\ e = wayIndex' /\ f = relationIndex' /\ l = relMembers
    OBVIOUS
  <2>2. Extends(a, d) /\ Extends(b, e) /\ Extends(c, f)
    BY <2>1, IndexesExtend
  <2>3. /\ IsList(a) /\ IsList(b) /\ IsList(c) /\ IsList(d) /\ IsList(e) /\ IsList(f)
    BY <2>1 DEF RecordsInv, NodesWithin, WaysWithin, RelationsWithin
  <2>4. AllMembersWithin(l, Len(a), Len(b), Len(c))
    BY <2>1 DEF MembersBounded
  <2>5. AllMembersWithin(l, Len(d), Len(e), Len(f))
    BY <2>2, <2>3, <2>4, MembersWithinMore
  <2>6. relMembers' = l
    BY <1>3, <2>1, MembersStay
  <2> QED BY <2>1, <2>5, <2>6 DEF MembersBounded
<1> QED BY <1>1, <1>2, <1>3

-----------------------------------------------------------------------------
(* The index of the ids of nodes.  Its theorems are those of IndexFile_proofs, *)
(* which speak of the same operators under other names.                        *)

aboutNodeIds == INSTANCE IndexFile_proofs WITH
  file <- nodeFile, buffer <- nodeBuffer, sorted <- nodeSorted, last_inserted <- nodeLast,
  cacheKey <- nodeCells, searching <- waysStarted, Keys <- NodeIds, Queries <- References,
  Window <- 1, Block <- 1, MaxItems <- Cardinality(NodeIds), MaxQuery <- MaxRefs

\* The index of the nodes.
LEMMA NodeIdsSame ==
  /\ nodeIds!Init <=> aboutNodeIds!Init
  /\ \A k : nodeIds!AppendKey(k) <=> aboutNodeIds!AppendKey(k)
  /\ nodeIds!FlushAndSort <=> aboutNodeIds!FlushAndSort
  /\ \A read : nodeIds!Fill(read) <=> aboutNodeIds!Fill(read)
  /\ nodeIds!TypeOK <=> aboutNodeIds!TypeOK
  /\ \A ks : nodeIds!FindKeys(ks) = aboutNodeIds!FindKeys(ks)
<1>1. nodeIds!Init <=> aboutNodeIds!Init
  BY Zenon DEF nodeIds!Init, aboutNodeIds!Init, nodeIds!Cells, aboutNodeIds!Cells
<1>2. \A k : nodeIds!AppendKey(k) <=> aboutNodeIds!AppendKey(k)
  BY Zenon DEF nodeIds!AppendKey, aboutNodeIds!AppendKey
<1>3. nodeIds!FlushAndSort <=> aboutNodeIds!FlushAndSort
  BY Zenon DEF nodeIds!FlushAndSort, aboutNodeIds!FlushAndSort, nodeIds!Sorted, aboutNodeIds!Sorted,
         nodeIds!InOrder, aboutNodeIds!InOrder, nodeIds!IsInjective, aboutNodeIds!IsInjective
<1>4. \A read : nodeIds!Fill(read) <=> aboutNodeIds!Fill(read)
  BY Zenon DEF nodeIds!Fill, aboutNodeIds!Fill, nodeIds!FileKey, aboutNodeIds!FileKey, nodeIds!Size,
         aboutNodeIds!Size, nodeIds!Cells, aboutNodeIds!Cells
<1>5. nodeIds!TypeOK <=> aboutNodeIds!TypeOK
  BY Zenon DEF nodeIds!TypeOK, aboutNodeIds!TypeOK, nodeIds!Record, aboutNodeIds!Record,
         nodeIds!Cells, aboutNodeIds!Cells
<1>6. ASSUME NEW ks PROVE nodeIds!FindKeys(ks) = aboutNodeIds!FindKeys(ks)
  BY Zenon DEF nodeIds!FindKeys, aboutNodeIds!FindKeys, nodeIds!KeysBisection,
         aboutNodeIds!KeysBisection, nodeIds!IdxNotFound, aboutNodeIds!IdxNotFound,
         nodeIds!Cardinality, aboutNodeIds!Cardinality, nodeIds!KeyAt, aboutNodeIds!KeyAt,
         nodeIds!FileKey, aboutNodeIds!FileKey, nodeIds!PivotKey, aboutNodeIds!PivotKey,
         nodeIds!PivotRead, aboutNodeIds!PivotRead, nodeIds!Pivot, aboutNodeIds!Pivot,
         nodeIds!PivotCell, aboutNodeIds!PivotCell, nodeIds!Cached, aboutNodeIds!Cached,
         nodeIds!LowerHalf, aboutNodeIds!LowerHalf, nodeIds!UpperHalf, aboutNodeIds!UpperHalf,
         nodeIds!NotFound, aboutNodeIds!NotFound, nodeIds!Cells, aboutNodeIds!Cells, nodeIds!Size,
         aboutNodeIds!Size, nodeIds!Ranges, aboutNodeIds!Ranges, nodeIds!FirstKey,
         aboutNodeIds!FirstKey, nodeIds!LastKey, aboutNodeIds!LastKey, nodeIds!FirstRead,
         aboutNodeIds!FirstRead, nodeIds!LastRead, aboutNodeIds!LastRead, nodeIds!Whole,
         aboutNodeIds!Whole
<1> QED BY <1>1, <1>2, <1>3, <1>4, <1>5, <1>6

\* What it assumes of its constants.
LEMMA NodeIdsAssume ==
  ASSUME CompilerAssumption
  PROVE  aboutNodeIds!IndexAssumption
<1>1. Cardinality(NodeIds) \in Nat
  BY FS_CardinalityType DEF CompilerAssumption
<1> QED BY <1>1 DEF CompilerAssumption, aboutNodeIds!IndexAssumption

\* Its inductive invariant: what it has been given, that its cells stand for the keys of
\* its file, and that none is filled before the file is complete.
NodeIdsInv ==
  \E ids : /\ ids = NodeList /\ aboutNodeIds!Carries(ids)
           /\ waysStarted \/ aboutNodeIds!Unfilled

\* It is filled, frozen and searched.
LEMMA NodeIdsStep ==
  ASSUME CompilerAssumption, NodeIdsInv, NodeIdsMove, waysStarted \in BOOLEAN
  PROVE  NodeIdsInv'
<1>0. aboutNodeIds!IndexAssumption
  BY NodeIdsAssume
<1>1. PICK ids : /\ ids = NodeList /\ aboutNodeIds!Carries(ids)
                 /\ waysStarted \/ aboutNodeIds!Unfilled
  BY DEF NodeIdsInv
<1>2. CASE UNCHANGED <<nodeVars, waysStarted>> /\ NodeList' = NodeList
  <2>1. aboutNodeIds!Carries(ids)' /\ (aboutNodeIds!Unfilled => aboutNodeIds!Unfilled')
    <3>1. /\ UNCHANGED <<nodeFile, nodeBuffer, nodeSorted, nodeLast, nodeCells>>
          /\ waysStarted' \in BOOLEAN /\ waysStarted' = waysStarted
      BY <1>2 DEF nodeVars
    <3> QED BY <1>0, <1>1, <3>1, aboutNodeIds!CarriesOn DEF aboutNodeIds!IndexAssumption
  <2> QED BY <1>1, <1>2, <2>1 DEF NodeIdsInv
<1>3. ASSUME waysStarted = FALSE, waysStarted' = FALSE,
             NEW k \in NodeIds, Beyond(k, NodeList), nodeIds!AppendKey(k),
             NodeList' = Append(NodeList, k)
      PROVE  NodeIdsInv'
  <2>1. aboutNodeIds!AppendKey(k)
    BY <1>3, NodeIdsSame
  <2>2. \A i \in 1 .. Len(ids) : ids[i] < k
    BY <1>1, <1>3 DEF Beyond
  <2>3. UNCHANGED waysStarted /\ waysStarted = FALSE
    BY <1>3
  <2>4. aboutNodeIds!Carries(Append(ids, k))' /\ aboutNodeIds!Unfilled'
    BY <1>0, <1>1, <1>3, <2>1, <2>2, <2>3, aboutNodeIds!CarriesOneMore
       DEF aboutNodeIds!IndexAssumption
  <2> QED BY <1>1, <1>3, <2>4 DEF NodeIdsInv
<1>4. CASE /\ waysStarted = FALSE /\ waysStarted' = TRUE
           /\ nodeIds!FlushAndSort /\ NodeList' = NodeList
  <2>1. aboutNodeIds!FlushAndSort
    BY <1>4, NodeIdsSame
  <2>2. aboutNodeIds!Unfilled /\ waysStarted' \in BOOLEAN
    BY <1>1, <1>4
  <2>3. aboutNodeIds!Carries(ids)'
    BY <1>0, <1>1, <2>1, <2>2, aboutNodeIds!CarriesFreeze DEF aboutNodeIds!IndexAssumption
  <2> QED BY <1>1, <1>4, <2>3 DEF NodeIdsInv
<1>5. ASSUME waysStarted = TRUE, waysStarted' = TRUE, NodeList' = NodeList, NodeList # << >>,
             NEW keys, Rising(keys), DOMAIN keys = 1 .. Len(keys),
             nodeIds!Fill(nodeIds!FindKeys(keys).read)
      PROVE  NodeIdsInv'
  <2>1. aboutNodeIds!IsKeyList(keys) /\ DOMAIN keys = 1 .. Len(keys)
    BY <1>5 DEF Rising, aboutNodeIds!IsKeyList
  <2>2. aboutNodeIds!Fill(aboutNodeIds!FindKeys(keys).read)
    <3>1. nodeIds!FindKeys(keys) = aboutNodeIds!FindKeys(keys)
      BY NodeIdsSame
    <3>2. nodeIds!Fill(aboutNodeIds!FindKeys(keys).read)
      BY <1>5, <3>1
    <3> QED BY <3>2, NodeIdsSame
  <2>3. UNCHANGED waysStarted /\ waysStarted /\ ids # << >>
    BY <1>1, <1>5
  <2>4. aboutNodeIds!Carries(ids)'
    BY <1>0, <1>1, <2>1, <2>2, <2>3, aboutNodeIds!CarriesFindKeys DEF aboutNodeIds!IndexAssumption
  <2> QED BY <1>1, <1>5, <2>4 DEF NodeIdsInv
<1> QED BY <1>2, <1>3, <1>4, <1>5 DEF NodeIdsMove

\* It is kept.
LEMMA NodeIdsInvariance ==
  ASSUME CompilerAssumption
  PROVE  Spec => []NodeIdsInv
<1>1. Init => NodeIdsInv
  <2> SUFFICES ASSUME Init PROVE NodeIdsInv
    OBVIOUS
  <2>1. aboutNodeIds!IndexAssumption
    BY NodeIdsAssume
  <2>2. aboutNodeIds!Init
    BY NodeIdsSame DEF Init
  <2>3. NodeList = << >>
    <3>1. document.nodes = << >>
      BY DEF Init
    <3> QED BY <3>1 DEF NodeList, IdsOf
  <2>4. aboutNodeIds!Carries(<< >>) /\ aboutNodeIds!Unfilled
    BY <2>1, <2>2, aboutNodeIds!CarriesNone DEF aboutNodeIds!IndexAssumption
  <2> QED BY <2>3, <2>4 DEF NodeIdsInv
<1>2. DocumentInv /\ TagsInv /\ NodeIdsInv /\ [Next]_vars => NodeIdsInv'
  <2> SUFFICES ASSUME DocumentInv, TagsInv, NodeIdsInv, [Next]_vars PROVE NodeIdsInv'
    OBVIOUS
  <2>1. NodeIdsMove
    BY AllMove DEF IndexesMove
  <2>2. waysStarted \in BOOLEAN
    BY DEF DocumentInv
  <2> QED BY <2>1, <2>2, NodeIdsStep
<1> QED BY <1>1, <1>2, DocumentInvariance, TagsInvariance, PTL DEF Spec

\* findKeys is right about the references of a way.
LEMMA RanksAreRight ==
  ASSUME CompilerAssumption, DocumentInv, NodeIdsInv, waysStarted, NEW keys \in SortedRefs,
         NEW i \in 1 .. Len(refs)
  PROVE  RankRight(refs[i], nodeIds!FindKeys(keys).result[CHOOSE j \in DOMAIN keys : keys[j] = refs[i]])
<1>0. aboutNodeIds!IndexAssumption
  BY NodeIdsAssume
<1>1. /\ DOMAIN keys = 1 .. Len(keys) /\ aboutNodeIds!IsKeyList(keys)
      /\ \E j \in 1 .. Len(keys) : keys[j] = refs[i]
  BY SortedRefsAre DEF Rising, aboutNodeIds!IsKeyList
<1>2. PICK ref, j, r : /\ ref = refs[i] /\ j = CHOOSE k \in DOMAIN keys : keys[k] = ref
                       /\ r = nodeIds!FindKeys(keys).result[j]
  OBVIOUS
<1>3. j \in 1 .. Len(keys) /\ keys[j] = ref
  BY <1>1, <1>2
<1>4. PICK ids : ids = IdsOf(document.nodes) /\ aboutNodeIds!Carries(ids)
  BY DEF NodeIdsInv, NodeList
<1>5. document.nodes \in Seq(Nodes) /\ document.nodes # << >>
  BY DEF DocumentInv, Documents
<1>6. /\ Len(ids) = Len(document.nodes) /\ Len(ids) \in Nat
      /\ \A k \in 1 .. Len(ids) : ids[k] = document.nodes[k].id
  BY <1>4, <1>5, IdsOfAre
<1>7. ids # << >> /\ 1 \in 1 .. Len(ids) /\ Len(ids) \in 1 .. Len(ids)
  <2>1. Len(ids) # 0
    BY <1>5, <1>6, EmptySeq
  <2> QED BY <1>6, <2>1
<1>8. aboutNodeIds!GivenAnswers(ids, keys)
  <2>1. /\ aboutNodeIds!Given(ids) /\ aboutNodeIds!CacheInv /\ waysStarted \in BOOLEAN
        /\ nodeBuffer = << >>
    BY <1>4 DEF aboutNodeIds!Carries
  <2> QED BY <1>0, <1>1, <1>7, <2>1, aboutNodeIds!GivenFindKeys DEF aboutNodeIds!IndexAssumption
<1>9. r = aboutNodeIds!FindKeys(keys).result[j]
  BY <1>2, NodeIdsSame
<1>10. /\ r \in Int
       /\ r # -1 => r + 1 \in 1 .. Len(ids) /\ nodeFile[r + 1].item = r
       /\ (\E k \in 1 .. Len(ids) : ids[k] = ref) => r # -1 /\ ids[r + 1] = ref
       /\ ids[1] <= ref /\ ref <= ids[Len(ids)] /\ ~(\E k \in 1 .. Len(ids) : ids[k] = ref) =>
            r = -1
  BY <1>3, <1>8, <1>9 DEF aboutNodeIds!GivenAnswers, aboutNodeIds!IdxNotFound
<1>11. KnownNode(ref) <=> \E k \in 1 .. Len(ids) : ids[k] = ref
  BY <1>6 DEF KnownNode
<1>12. WithinNodes(ref) <=> ids[1] <= ref /\ ref <= ids[Len(ids)]
  BY <1>6, <1>7 DEF WithinNodes
<1>13. RankRight(ref, r)
  BY <1>6, <1>10, <1>11, <1>12 DEF RankRight
<1> QED BY <1>2, <1>13

\* So the nodes of the way that ends are known.
LEMMA EndWayKnows ==
  ASSUME CompilerAssumption, DocumentInv, NodeIdsInv, EndWay
  PROVE  RanksKnown
<1>1. waysStarted
  BY DEF EndWay, WayRead, DocumentInv, OpenInv
<1>2. ASSUME NEW keys \in SortedRefs, NEW i \in 1 .. Len(refs)
      PROVE  RankRight(refs[i], RanksFor(keys)[i])
  <2>1. refs \in Seq(References)
    BY DEF DocumentInv
  <2>2. i \in DOMAIN refs
    BY <2>1
  <2>3. RanksFor(keys)[i] = nodeIds!FindKeys(keys).result[CHOOSE j \in DOMAIN keys : keys[j] = refs[i]]
    BY <2>2, Zenon DEF RanksFor
  <2> QED BY <1>1, <2>3, RanksAreRight
<1> QED BY <1>2 DEF RanksKnown

\* Every way whose references lie between the first and the last node has the points of
\* those of its nodes that the document has, in its order, and their rectangle: for an
\* index of any size, whatever cells the searches have filled, with nodes missing from
\* the document between, and with more points than a record can count.
THEOREM WaysHavePoints ==
  ASSUME CompilerAssumption
  PROVE  Spec => []WaysHaveTheirPoints
<1>1. Init => WayPointsInv
  BY DEF Init, WayPointsInv, Nothing
<1>2. DocumentInv /\ TagsInv /\ RecordsInv /\ RecordsInv' /\ CountsInv /\ NodeIdsInv /\ WayPointsInv
        /\ [Next]_vars => WayPointsInv'
  BY EndWayKnows, WayPointsStep
<1>3. DocumentInv /\ RecordsInv /\ WayPointsInv => WaysHaveTheirPoints
  BY WayPointsAreRight
<1> QED BY <1>1, <1>2, <1>3, DocumentInvariance, TagsInvariance, RecordsInvariance, CountsInvariance,
           NodeIdsInvariance, PTL DEF Spec

-----------------------------------------------------------------------------
(* The index of the ids of the nodes with tags. *)

aboutNodeRefs == INSTANCE IndexFile_proofs WITH
  file <- refFile, buffer <- refBuffer, sorted <- refSorted, last_inserted <- refLast,
  cacheKey <- refCells, searching <- waysStarted, Keys <- NodeIds, Queries <- References,
  Window <- 1, Block <- 1, MaxItems <- Cardinality(NodeIds), MaxQuery <- 1

\* The index of the nodes with tags.
LEMMA NodeRefsSame ==
  /\ nodeRefs!Init <=> aboutNodeRefs!Init
  /\ \A k : nodeRefs!AppendKey(k) <=> aboutNodeRefs!AppendKey(k)
  /\ nodeRefs!FlushAndSort <=> aboutNodeRefs!FlushAndSort
  /\ \A read : nodeRefs!Fill(read) <=> aboutNodeRefs!Fill(read)
  /\ nodeRefs!TypeOK <=> aboutNodeRefs!TypeOK
  /\ \A key : nodeRefs!Find(key) = aboutNodeRefs!Find(key)
<1>1. nodeRefs!Init <=> aboutNodeRefs!Init
  BY Zenon DEF nodeRefs!Init, aboutNodeRefs!Init, nodeRefs!Cells, aboutNodeRefs!Cells
<1>2. \A k : nodeRefs!AppendKey(k) <=> aboutNodeRefs!AppendKey(k)
  BY Zenon DEF nodeRefs!AppendKey, aboutNodeRefs!AppendKey
<1>3. nodeRefs!FlushAndSort <=> aboutNodeRefs!FlushAndSort
  BY Zenon DEF nodeRefs!FlushAndSort, aboutNodeRefs!FlushAndSort, nodeRefs!Sorted,
         aboutNodeRefs!Sorted, nodeRefs!InOrder, aboutNodeRefs!InOrder, nodeRefs!IsInjective,
         aboutNodeRefs!IsInjective
<1>4. \A read : nodeRefs!Fill(read) <=> aboutNodeRefs!Fill(read)
  BY Zenon DEF nodeRefs!Fill, aboutNodeRefs!Fill, nodeRefs!FileKey, aboutNodeRefs!FileKey,
         nodeRefs!Size, aboutNodeRefs!Size, nodeRefs!Cells, aboutNodeRefs!Cells
<1>5. nodeRefs!TypeOK <=> aboutNodeRefs!TypeOK
  BY Zenon DEF nodeRefs!TypeOK, aboutNodeRefs!TypeOK, nodeRefs!Record, aboutNodeRefs!Record,
         nodeRefs!Cells, aboutNodeRefs!Cells
<1>6. \A key : nodeRefs!Find(key) = aboutNodeRefs!Find(key)
  BY Zenon DEF nodeRefs!Find, aboutNodeRefs!Find, nodeRefs!Bisection, aboutNodeRefs!Bisection,
         nodeRefs!KeyAt, aboutNodeRefs!KeyAt, nodeRefs!FileKey, aboutNodeRefs!FileKey,
         nodeRefs!PivotKey, aboutNodeRefs!PivotKey, nodeRefs!PivotRead, aboutNodeRefs!PivotRead,
         nodeRefs!Pivot, aboutNodeRefs!Pivot, nodeRefs!PivotCell, aboutNodeRefs!PivotCell,
         nodeRefs!Cached, aboutNodeRefs!Cached, nodeRefs!LowerHalf, aboutNodeRefs!LowerHalf,
         nodeRefs!UpperHalf, aboutNodeRefs!UpperHalf, nodeRefs!NotFound, aboutNodeRefs!NotFound,
         nodeRefs!Cells, aboutNodeRefs!Cells, nodeRefs!Size, aboutNodeRefs!Size, nodeRefs!Ranges,
         aboutNodeRefs!Ranges, nodeRefs!FirstKey, aboutNodeRefs!FirstKey, nodeRefs!LastKey,
         aboutNodeRefs!LastKey, nodeRefs!FirstRead, aboutNodeRefs!FirstRead, nodeRefs!LastRead,
         aboutNodeRefs!LastRead, nodeRefs!Whole, aboutNodeRefs!Whole
<1> QED BY <1>1, <1>2, <1>3, <1>4, <1>5, <1>6

\* What it assumes of its constants.
LEMMA NodeRefsAssume ==
  ASSUME CompilerAssumption
  PROVE  aboutNodeRefs!IndexAssumption
<1>1. Cardinality(NodeIds) \in Nat
  BY FS_CardinalityType DEF CompilerAssumption
<1> QED BY <1>1 DEF CompilerAssumption, aboutNodeRefs!IndexAssumption

\* Its inductive invariant.
NodeRefsInv ==
  \E ids : /\ ids = TaggedList /\ aboutNodeRefs!Carries(ids)
           /\ waysStarted \/ relsStarted \/ aboutNodeRefs!Unfilled

\* It is filled, frozen and searched.
LEMMA NodeRefsStep ==
  ASSUME CompilerAssumption, NodeRefsInv, NodeRefsMove, waysStarted \in BOOLEAN, relsStarted \in BOOLEAN
  PROVE  NodeRefsInv'
<1>0. aboutNodeRefs!IndexAssumption
  BY NodeRefsAssume
<1>1. PICK ids : /\ ids = TaggedList /\ aboutNodeRefs!Carries(ids)
                 /\ waysStarted \/ relsStarted \/ aboutNodeRefs!Unfilled
  BY DEF NodeRefsInv
<1>2. CASE UNCHANGED <<refVars, waysStarted>> /\ (relsStarted => relsStarted') /\ TaggedList' = TaggedList
  <2>1. aboutNodeRefs!Carries(ids)' /\ (aboutNodeRefs!Unfilled => aboutNodeRefs!Unfilled')
    <3>1. /\ UNCHANGED <<refFile, refBuffer, refSorted, refLast, refCells>>
          /\ waysStarted' \in BOOLEAN /\ waysStarted' = waysStarted
      BY <1>2 DEF refVars
    <3> QED BY <1>0, <1>1, <3>1, aboutNodeRefs!CarriesOn DEF aboutNodeRefs!IndexAssumption
  <2> QED BY <1>1, <1>2, <2>1 DEF NodeRefsInv
<1>3. ASSUME waysStarted = FALSE, waysStarted' = FALSE, relsStarted = FALSE,
             NEW k \in NodeIds, Beyond(k, TaggedList), nodeRefs!AppendKey(k),
             TaggedList' = Append(TaggedList, k)
      PROVE  NodeRefsInv'
  <2>1. aboutNodeRefs!AppendKey(k)
    BY <1>3, NodeRefsSame
  <2>2. \A i \in 1 .. Len(ids) : ids[i] < k
    BY <1>1, <1>3 DEF Beyond
  <2>3. UNCHANGED waysStarted /\ waysStarted = FALSE
    BY <1>3
  <2>4. aboutNodeRefs!Carries(Append(ids, k))' /\ aboutNodeRefs!Unfilled'
    BY <1>0, <1>1, <1>3, <2>1, <2>2, <2>3, aboutNodeRefs!CarriesOneMore DEF aboutNodeRefs!IndexAssumption
  <2> QED BY <1>1, <1>3, <2>4 DEF NodeRefsInv
<1>4. CASE /\ waysStarted = FALSE /\ waysStarted' = TRUE /\ relsStarted = FALSE
           /\ nodeRefs!FlushAndSort /\ TaggedList' = TaggedList
  <2>1. aboutNodeRefs!FlushAndSort
    BY <1>4, NodeRefsSame
  <2>2. aboutNodeRefs!Unfilled /\ waysStarted' \in BOOLEAN
    BY <1>1, <1>4
  <2>3. aboutNodeRefs!Carries(ids)'
    BY <1>0, <1>1, <2>1, <2>2, aboutNodeRefs!CarriesFreeze DEF aboutNodeRefs!IndexAssumption
  <2> QED BY <1>1, <1>4, <2>3 DEF NodeRefsInv
<1>5. ASSUME waysStarted' = waysStarted, relsStarted' = TRUE, TaggedList' = TaggedList,
             NEW ref \in References, nodeRefs!Fill(nodeRefs!Find(ref).read)
      PROVE  NodeRefsInv'
  <2>1. aboutNodeRefs!Fill(aboutNodeRefs!Find(ref).read)
    <3>1. nodeRefs!Find(ref) = aboutNodeRefs!Find(ref)
      BY NodeRefsSame
    <3>2. nodeRefs!Fill(aboutNodeRefs!Find(ref).read)
      BY <1>5, <3>1
    <3> QED BY <3>2, NodeRefsSame
  <2>2. UNCHANGED waysStarted /\ ref \in Int
    BY <1>5, IdsAreNumbers
  <2>3. aboutNodeRefs!Carries(ids)'
    BY <1>0, <1>1, <2>1, <2>2, aboutNodeRefs!CarriesFind DEF aboutNodeRefs!IndexAssumption
  <2> QED BY <1>1, <1>5, <2>3 DEF NodeRefsInv
<1> QED BY <1>2, <1>3, <1>4, <1>5 DEF NodeRefsMove

\* It is kept.
LEMMA NodeRefsInvariance ==
  ASSUME CompilerAssumption
  PROVE  Spec => []NodeRefsInv
<1>1. Init => NodeRefsInv
  <2> SUFFICES ASSUME Init PROVE NodeRefsInv
    OBVIOUS
  <2>1. aboutNodeRefs!IndexAssumption
    BY NodeRefsAssume
  <2>2. aboutNodeRefs!Init
    BY NodeRefsSame DEF Init
  <2>3. TaggedList = << >>
    <3>1. TaggedNodes = << >>
      BY ThoseEmpty DEF TaggedNodes, Init
    <3> QED BY <3>1 DEF TaggedList, IdsOf
  <2>4. aboutNodeRefs!Carries(<< >>) /\ aboutNodeRefs!Unfilled
    BY <2>1, <2>2, aboutNodeRefs!CarriesNone DEF aboutNodeRefs!IndexAssumption
  <2> QED BY <2>3, <2>4 DEF NodeRefsInv
<1>2. DocumentInv /\ TagsInv /\ NodeRefsInv /\ [Next]_vars => NodeRefsInv'
  <2> SUFFICES ASSUME DocumentInv, TagsInv, NodeRefsInv, [Next]_vars PROVE NodeRefsInv'
    OBVIOUS
  <2>1. NodeRefsMove
    BY AllMove DEF IndexesMove
  <2>2. waysStarted \in BOOLEAN /\ relsStarted \in BOOLEAN
    BY DEF DocumentInv
  <2> QED BY <2>1, <2>2, NodeRefsStep
<1> QED BY <1>1, <1>2, DocumentInvariance, TagsInvariance, PTL DEF Spec

\* What find says of a node.
LEMMA PointSearched ==
  ASSUME CompilerAssumption, DocumentInv, NodeRefsInv, NEW ref \in References, NEW f, f = nodeRefs!Find(ref),
         NEW s, s = TaggedNodes
  PROVE  /\ f.found \in BOOLEAN
         /\ f.found => /\ f.pos \in Nat /\ f.pos + 1 \in 1 .. Len(s) /\ s[f.pos + 1].id = ref
                       /\ refFile[f.pos + 1].item = f.pos
         /\ waysStarted /\ (\E j \in 1 .. Len(s) : s[j].id = ref) => f.found
<1>0. aboutNodeRefs!IndexAssumption
  BY NodeRefsAssume
<1>1. PICK ids : ids = IdsOf(s) /\ aboutNodeRefs!Carries(ids)
  BY DEF NodeRefsInv, TaggedList
<1>2. s \in Seq(Nodes)
  BY TaggedNodesAre
<1>3. Len(ids) = Len(s) /\ Len(s) \in Nat /\ \A j \in 1 .. Len(s) : ids[j] = s[j].id
  BY <1>1, <1>2, IdsOfAre
<1>4. /\ aboutNodeRefs!Given(ids) /\ aboutNodeRefs!CacheInv /\ waysStarted \in BOOLEAN
      /\ waysStarted => refBuffer = << >>
  BY <1>1 DEF aboutNodeRefs!Carries
<1>5. ref \in Int
  BY IdsAreNumbers
<1>6. aboutNodeRefs!GivenAnswer(ids, ref)
  BY <1>0, <1>4, <1>5, aboutNodeRefs!GivenFind DEF aboutNodeRefs!IndexAssumption
<1>7. f = aboutNodeRefs!Find(ref)
  BY NodeRefsSame
<1>8. /\ f.found \in BOOLEAN
      /\ f.found => /\ f.pos + 1 \in 1 .. Len(ids) /\ ids[f.pos + 1] = ref /\ f.pos \in Int
                    /\ refFile[f.pos + 1].item = f.pos
      /\ waysStarted /\ (\E j \in 1 .. Len(ids) : ids[j] = ref) => f.found
  BY <1>4, <1>6, <1>7 DEF aboutNodeRefs!GivenAnswer
<1>9. f.found => f.pos \in Nat
  BY <1>3, <1>8
<1> QED BY <1>3, <1>8, <1>9

-----------------------------------------------------------------------------
(* The index of the ids of ways. *)

aboutWayIds == INSTANCE IndexFile_proofs WITH
  file <- wayFile, buffer <- wayBuffer, sorted <- waySorted, last_inserted <- wayLast,
  cacheKey <- wayCells, searching <- relsStarted, Keys <- WayIds, Queries <- References,
  Window <- 1, Block <- 1, MaxItems <- Cardinality(WayIds), MaxQuery <- 1

\* The index of the ways.
LEMMA WayIdsSame ==
  /\ wayIds!Init <=> aboutWayIds!Init
  /\ \A k : wayIds!AppendKey(k) <=> aboutWayIds!AppendKey(k)
  /\ wayIds!FlushAndSort <=> aboutWayIds!FlushAndSort
  /\ \A read : wayIds!Fill(read) <=> aboutWayIds!Fill(read)
  /\ wayIds!TypeOK <=> aboutWayIds!TypeOK
  /\ \A key : wayIds!Find(key) = aboutWayIds!Find(key)
<1>1. wayIds!Init <=> aboutWayIds!Init
  BY Zenon DEF wayIds!Init, aboutWayIds!Init, wayIds!Cells, aboutWayIds!Cells
<1>2. \A k : wayIds!AppendKey(k) <=> aboutWayIds!AppendKey(k)
  BY Zenon DEF wayIds!AppendKey, aboutWayIds!AppendKey
<1>3. wayIds!FlushAndSort <=> aboutWayIds!FlushAndSort
  BY Zenon DEF wayIds!FlushAndSort, aboutWayIds!FlushAndSort, wayIds!Sorted, aboutWayIds!Sorted,
         wayIds!InOrder, aboutWayIds!InOrder, wayIds!IsInjective, aboutWayIds!IsInjective
<1>4. \A read : wayIds!Fill(read) <=> aboutWayIds!Fill(read)
  BY Zenon DEF wayIds!Fill, aboutWayIds!Fill, wayIds!FileKey, aboutWayIds!FileKey, wayIds!Size,
         aboutWayIds!Size, wayIds!Cells, aboutWayIds!Cells
<1>5. wayIds!TypeOK <=> aboutWayIds!TypeOK
  BY Zenon DEF wayIds!TypeOK, aboutWayIds!TypeOK, wayIds!Record, aboutWayIds!Record, wayIds!Cells,
         aboutWayIds!Cells
<1>6. \A key : wayIds!Find(key) = aboutWayIds!Find(key)
  BY Zenon DEF wayIds!Find, aboutWayIds!Find, wayIds!Bisection, aboutWayIds!Bisection, wayIds!KeyAt,
         aboutWayIds!KeyAt, wayIds!FileKey, aboutWayIds!FileKey, wayIds!PivotKey,
         aboutWayIds!PivotKey, wayIds!PivotRead, aboutWayIds!PivotRead, wayIds!Pivot,
         aboutWayIds!Pivot, wayIds!PivotCell, aboutWayIds!PivotCell, wayIds!Cached,
         aboutWayIds!Cached, wayIds!LowerHalf, aboutWayIds!LowerHalf, wayIds!UpperHalf,
         aboutWayIds!UpperHalf, wayIds!NotFound, aboutWayIds!NotFound, wayIds!Cells,
         aboutWayIds!Cells, wayIds!Size, aboutWayIds!Size, wayIds!Ranges, aboutWayIds!Ranges,
         wayIds!FirstKey, aboutWayIds!FirstKey, wayIds!LastKey, aboutWayIds!LastKey,
         wayIds!FirstRead, aboutWayIds!FirstRead, wayIds!LastRead, aboutWayIds!LastRead,
         wayIds!Whole, aboutWayIds!Whole
<1> QED BY <1>1, <1>2, <1>3, <1>4, <1>5, <1>6

\* What it assumes of its constants.
LEMMA WayIdsAssume ==
  ASSUME CompilerAssumption
  PROVE  aboutWayIds!IndexAssumption
<1>1. Cardinality(WayIds) \in Nat
  BY FS_CardinalityType DEF CompilerAssumption
<1> QED BY <1>1 DEF CompilerAssumption, aboutWayIds!IndexAssumption

\* Its inductive invariant.
WayIdsInv ==
  \E ids : /\ ids = WayList /\ aboutWayIds!Carries(ids)
           /\ relsStarted \/ aboutWayIds!Unfilled

\* It is filled, frozen and searched.
LEMMA WayIdsStep ==
  ASSUME CompilerAssumption, WayIdsInv, WayIdsMove, waysStarted \in BOOLEAN, relsStarted \in BOOLEAN
  PROVE  WayIdsInv'
<1>0. aboutWayIds!IndexAssumption
  BY WayIdsAssume
<1>1. PICK ids : /\ ids = WayList /\ aboutWayIds!Carries(ids)
                 /\ relsStarted \/ aboutWayIds!Unfilled
  BY DEF WayIdsInv
<1>2. CASE UNCHANGED <<wayVars, relsStarted>> /\ WayList' = WayList
  <2>1. aboutWayIds!Carries(ids)' /\ (aboutWayIds!Unfilled => aboutWayIds!Unfilled')
    <3>1. /\ UNCHANGED <<wayFile, wayBuffer, waySorted, wayLast, wayCells>>
          /\ relsStarted' \in BOOLEAN /\ relsStarted' = relsStarted
      BY <1>2 DEF wayVars
    <3> QED BY <1>0, <1>1, <3>1, aboutWayIds!CarriesOn DEF aboutWayIds!IndexAssumption
  <2> QED BY <1>1, <1>2, <2>1 DEF WayIdsInv
<1>3. ASSUME relsStarted = FALSE, relsStarted' = FALSE,
             NEW k \in WayIds, Beyond(k, WayList), wayIds!AppendKey(k),
             WayList' = Append(WayList, k)
      PROVE  WayIdsInv'
  <2>1. aboutWayIds!AppendKey(k)
    BY <1>3, WayIdsSame
  <2>2. \A i \in 1 .. Len(ids) : ids[i] < k
    BY <1>1, <1>3 DEF Beyond
  <2>3. UNCHANGED relsStarted /\ relsStarted = FALSE
    BY <1>3
  <2>4. aboutWayIds!Carries(Append(ids, k))' /\ aboutWayIds!Unfilled'
    BY <1>0, <1>1, <1>3, <2>1, <2>2, <2>3, aboutWayIds!CarriesOneMore DEF aboutWayIds!IndexAssumption
  <2> QED BY <1>1, <1>3, <2>4 DEF WayIdsInv
<1>4. CASE /\ relsStarted = FALSE /\ relsStarted' = TRUE
           /\ wayIds!FlushAndSort /\ WayList' = WayList
  <2>1. aboutWayIds!FlushAndSort
    BY <1>4, WayIdsSame
  <2>2. aboutWayIds!Unfilled /\ relsStarted' \in BOOLEAN
    BY <1>1, <1>4
  <2>3. aboutWayIds!Carries(ids)'
    BY <1>0, <1>1, <2>1, <2>2, aboutWayIds!CarriesFreeze DEF aboutWayIds!IndexAssumption
  <2> QED BY <1>1, <1>4, <2>3 DEF WayIdsInv
<1>5. ASSUME relsStarted = TRUE, relsStarted' = TRUE, WayList' = WayList,
             NEW ref \in References, wayIds!Fill(wayIds!Find(ref).read)
      PROVE  WayIdsInv'
  <2>1. aboutWayIds!Fill(aboutWayIds!Find(ref).read)
    <3>1. wayIds!Find(ref) = aboutWayIds!Find(ref)
      BY WayIdsSame
    <3>2. wayIds!Fill(aboutWayIds!Find(ref).read)
      BY <1>5, <3>1
    <3> QED BY <3>2, WayIdsSame
  <2>2. UNCHANGED relsStarted /\ ref \in Int
    BY <1>5, IdsAreNumbers
  <2>3. aboutWayIds!Carries(ids)'
    BY <1>0, <1>1, <2>1, <2>2, aboutWayIds!CarriesFind DEF aboutWayIds!IndexAssumption
  <2> QED BY <1>1, <1>5, <2>3 DEF WayIdsInv
<1> QED BY <1>2, <1>3, <1>4, <1>5 DEF WayIdsMove

\* It is kept.
LEMMA WayIdsInvariance ==
  ASSUME CompilerAssumption
  PROVE  Spec => []WayIdsInv
<1>1. Init => WayIdsInv
  <2> SUFFICES ASSUME Init PROVE WayIdsInv
    OBVIOUS
  <2>1. aboutWayIds!IndexAssumption
    BY WayIdsAssume
  <2>2. aboutWayIds!Init
    BY WayIdsSame DEF Init
  <2>3. WayList = << >>
    <3>1. document.ways = << >>
      BY DEF Init
    <3> QED BY <3>1 DEF WayList, IdsOf
  <2>4. aboutWayIds!Carries(<< >>) /\ aboutWayIds!Unfilled
    BY <2>1, <2>2, aboutWayIds!CarriesNone DEF aboutWayIds!IndexAssumption
  <2> QED BY <2>3, <2>4 DEF WayIdsInv
<1>2. DocumentInv /\ TagsInv /\ WayIdsInv /\ [Next]_vars => WayIdsInv'
  <2> SUFFICES ASSUME DocumentInv, TagsInv, WayIdsInv, [Next]_vars PROVE WayIdsInv'
    OBVIOUS
  <2>1. WayIdsMove
    BY AllMove DEF IndexesMove
  <2>2. waysStarted \in BOOLEAN /\ relsStarted \in BOOLEAN
    BY DEF DocumentInv
  <2> QED BY <2>1, <2>2, WayIdsStep
<1> QED BY <1>1, <1>2, DocumentInvariance, TagsInvariance, PTL DEF Spec

\* What find says of a way.
LEMMA WaySearched ==
  ASSUME CompilerAssumption, DocumentInv, WayIdsInv, NEW ref \in References, NEW f, f = wayIds!Find(ref),
         NEW s, s = document.ways
  PROVE  /\ f.found \in BOOLEAN
         /\ f.found => /\ f.pos \in Nat /\ f.pos + 1 \in 1 .. Len(s) /\ s[f.pos + 1].id = ref
                       /\ wayFile[f.pos + 1].item = f.pos
         /\ relsStarted /\ (\E j \in 1 .. Len(s) : s[j].id = ref) => f.found
<1>0. aboutWayIds!IndexAssumption
  BY WayIdsAssume
<1>1. PICK ids : ids = IdsOf(s) /\ aboutWayIds!Carries(ids)
  BY DEF WayIdsInv, WayList
<1>2. s \in Seq(Ways)
  BY DEF DocumentInv, Documents
<1>3. Len(ids) = Len(s) /\ Len(s) \in Nat /\ \A j \in 1 .. Len(s) : ids[j] = s[j].id
  BY <1>1, <1>2, IdsOfAre
<1>4. /\ aboutWayIds!Given(ids) /\ aboutWayIds!CacheInv /\ relsStarted \in BOOLEAN
      /\ relsStarted => wayBuffer = << >>
  BY <1>1 DEF aboutWayIds!Carries
<1>5. ref \in Int
  BY IdsAreNumbers
<1>6. aboutWayIds!GivenAnswer(ids, ref)
  BY <1>0, <1>4, <1>5, aboutWayIds!GivenFind DEF aboutWayIds!IndexAssumption
<1>7. f = aboutWayIds!Find(ref)
  BY WayIdsSame
<1>8. /\ f.found \in BOOLEAN
      /\ f.found => /\ f.pos + 1 \in 1 .. Len(ids) /\ ids[f.pos + 1] = ref /\ f.pos \in Int
                    /\ wayFile[f.pos + 1].item = f.pos
      /\ relsStarted /\ (\E j \in 1 .. Len(ids) : ids[j] = ref) => f.found
  BY <1>4, <1>6, <1>7 DEF aboutWayIds!GivenAnswer
<1>9. f.found => f.pos \in Nat
  BY <1>3, <1>8
<1> QED BY <1>3, <1>8, <1>9

-----------------------------------------------------------------------------
(* The index of the ids of relations, which is searched while it grows. *)

aboutRelationIds == INSTANCE IndexFile_proofs WITH
  file <- relFile, buffer <- relBuffer, sorted <- relSorted, last_inserted <- relLast,
  cacheKey <- relCells, searching <- closed, Keys <- RelationIds, Queries <- References,
  Window <- 1, Block <- 1, MaxItems <- Cardinality(RelationIds), MaxQuery <- 1

\* The index of the relations.
LEMMA RelationIdsSame ==
  /\ relationIds!Init <=> aboutRelationIds!Init
  /\ \A k : relationIds!AppendKey(k) <=> aboutRelationIds!AppendKey(k)
  /\ relationIds!FlushAndSort <=> aboutRelationIds!FlushAndSort
  /\ \A read : relationIds!Fill(read) <=> aboutRelationIds!Fill(read)
  /\ relationIds!TypeOK <=> aboutRelationIds!TypeOK
  /\ \A key : relationIds!Find(key) = aboutRelationIds!Find(key)
<1>1. relationIds!Init <=> aboutRelationIds!Init
  BY Zenon DEF relationIds!Init, aboutRelationIds!Init, relationIds!Cells, aboutRelationIds!Cells
<1>2. \A k : relationIds!AppendKey(k) <=> aboutRelationIds!AppendKey(k)
  BY Zenon DEF relationIds!AppendKey, aboutRelationIds!AppendKey
<1>3. relationIds!FlushAndSort <=> aboutRelationIds!FlushAndSort
  BY Zenon DEF relationIds!FlushAndSort, aboutRelationIds!FlushAndSort, relationIds!Sorted,
         aboutRelationIds!Sorted, relationIds!InOrder, aboutRelationIds!InOrder,
         relationIds!IsInjective, aboutRelationIds!IsInjective
<1>4. \A read : relationIds!Fill(read) <=> aboutRelationIds!Fill(read)
  BY Zenon DEF relationIds!Fill, aboutRelationIds!Fill, relationIds!FileKey,
         aboutRelationIds!FileKey, relationIds!Size, aboutRelationIds!Size, relationIds!Cells,
         aboutRelationIds!Cells
<1>5. relationIds!TypeOK <=> aboutRelationIds!TypeOK
  BY Zenon DEF relationIds!TypeOK, aboutRelationIds!TypeOK, relationIds!Record,
         aboutRelationIds!Record, relationIds!Cells, aboutRelationIds!Cells
<1>6. \A key : relationIds!Find(key) = aboutRelationIds!Find(key)
  BY Zenon DEF relationIds!Find, aboutRelationIds!Find, relationIds!Bisection,
         aboutRelationIds!Bisection, relationIds!KeyAt, aboutRelationIds!KeyAt, relationIds!FileKey,
         aboutRelationIds!FileKey, relationIds!PivotKey, aboutRelationIds!PivotKey,
         relationIds!PivotRead, aboutRelationIds!PivotRead, relationIds!Pivot,
         aboutRelationIds!Pivot, relationIds!PivotCell, aboutRelationIds!PivotCell,
         relationIds!Cached, aboutRelationIds!Cached, relationIds!LowerHalf,
         aboutRelationIds!LowerHalf, relationIds!UpperHalf, aboutRelationIds!UpperHalf,
         relationIds!NotFound, aboutRelationIds!NotFound, relationIds!Cells, aboutRelationIds!Cells,
         relationIds!Size, aboutRelationIds!Size, relationIds!Ranges, aboutRelationIds!Ranges,
         relationIds!FirstKey, aboutRelationIds!FirstKey, relationIds!LastKey,
         aboutRelationIds!LastKey, relationIds!FirstRead, aboutRelationIds!FirstRead,
         relationIds!LastRead, aboutRelationIds!LastRead, relationIds!Whole, aboutRelationIds!Whole
<1> QED BY <1>1, <1>2, <1>3, <1>4, <1>5, <1>6

\* What it assumes of its constants.
LEMMA RelationIdsAssume ==
  ASSUME CompilerAssumption
  PROVE  aboutRelationIds!IndexAssumption
<1>1. Cardinality(RelationIds) \in Nat
  BY FS_CardinalityType DEF CompilerAssumption
<1> QED BY <1>1 DEF CompilerAssumption, aboutRelationIds!IndexAssumption

\* Its inductive invariant; its cells may stand for positions that they no longer hold.
RelationIdsInv ==
  \E ids : /\ ids = RelationList /\ aboutRelationIds!Given(ids)
           /\ relCells \in [aboutRelationIds!Cells -> RelationIds \cup {NoKey}]

\* It is filled, searched and frozen.
LEMMA RelationIdsStep ==
  ASSUME CompilerAssumption, RelationIdsInv, RelationIdsMove
  PROVE  RelationIdsInv'
<1>0. aboutRelationIds!IndexAssumption
  BY RelationIdsAssume
<1>1. PICK ids : /\ ids = RelationList /\ aboutRelationIds!Given(ids)
                 /\ relCells \in [aboutRelationIds!Cells -> RelationIds \cup {NoKey}]
  BY DEF RelationIdsInv
<1>2. CASE UNCHANGED <<relVars, closed>> /\ RelationList' = RelationList
  <2>1. UNCHANGED <<relFile, relBuffer, relSorted, relLast, relCells>>
    BY <1>2 DEF relVars
  <2>2. aboutRelationIds!Given(ids)'
    BY <1>0, <1>1, <2>1, aboutRelationIds!GivenKept DEF aboutRelationIds!IndexAssumption
  <2> QED BY <1>1, <1>2, <2>1, <2>2 DEF RelationIdsInv, aboutRelationIds!Cells
<1>3. ASSUME closed = FALSE, NEW k \in RelationIds, Beyond(k, RelationList),
             relationIds!AppendKey(k), RelationList' = Append(RelationList, k)
      PROVE  RelationIdsInv'
  <2>1. aboutRelationIds!AppendKey(k)
    BY <1>3, RelationIdsSame
  <2>2. \A i \in 1 .. Len(ids) : ids[i] < k
    BY <1>1, <1>3 DEF Beyond
  <2>3. aboutRelationIds!Given(Append(ids, k))'
    BY <1>0, <1>1, <1>3, <2>1, <2>2, aboutRelationIds!GivenOneMore
       DEF aboutRelationIds!IndexAssumption
  <2>4. relCells' = relCells
    BY <2>1 DEF aboutRelationIds!AppendKey
  <2> QED BY <1>1, <1>3, <2>3, <2>4 DEF RelationIdsInv, aboutRelationIds!Cells
<1>4. CASE closed = FALSE /\ relationIds!FlushAndSort /\ RelationList' = RelationList /\ closed' = TRUE
  <2>1. aboutRelationIds!FlushAndSort
    BY <1>4, RelationIdsSame
  <2>2. aboutRelationIds!Given(ids)'
    BY <1>0, <1>1, <2>1, aboutRelationIds!GivenFreeze DEF aboutRelationIds!IndexAssumption
  <2>3. relCells' = relCells
    BY <2>1 DEF aboutRelationIds!FlushAndSort
  <2> QED BY <1>1, <1>4, <2>2, <2>3 DEF RelationIdsInv, aboutRelationIds!Cells
<1>5. ASSUME closed = FALSE, RelationList' = RelationList, NEW ref \in References,
             relationIds!Fill(relationIds!Find(ref).read)
      PROVE  RelationIdsInv'
  <2>1. aboutRelationIds!Fill(aboutRelationIds!Find(ref).read)
    <3>1. relationIds!Find(ref) = aboutRelationIds!Find(ref)
      BY RelationIdsSame
    <3>2. relationIds!Fill(aboutRelationIds!Find(ref).read)
      BY <1>5, <3>1
    <3> QED BY <3>2, RelationIdsSame
  <2>2. /\ aboutRelationIds!Given(ids)'
        /\ relCells' \in [aboutRelationIds!Cells -> RelationIds \cup {NoKey}]
    BY <1>0, <1>1, <1>5, <2>1, aboutRelationIds!GivenFindStale DEF aboutRelationIds!IndexAssumption
  <2> QED BY <1>1, <1>5, <2>2 DEF RelationIdsInv, aboutRelationIds!Cells
<1> QED BY <1>2, <1>3, <1>4, <1>5 DEF RelationIdsMove

\* It is kept.
LEMMA RelationIdsInvariance ==
  ASSUME CompilerAssumption
  PROVE  Spec => []RelationIdsInv
<1>1. Init => RelationIdsInv
  <2> SUFFICES ASSUME Init PROVE RelationIdsInv
    OBVIOUS
  <2>1. aboutRelationIds!IndexAssumption
    BY RelationIdsAssume
  <2>2. aboutRelationIds!Init
    BY RelationIdsSame DEF Init
  <2>3. RelationList = << >>
    <3>1. document.relations = << >>
      BY DEF Init
    <3> QED BY <3>1 DEF RelationList, IdsOf
  <2>4. aboutRelationIds!Given(<< >>) /\ aboutRelationIds!CacheInv
    BY <2>1, <2>2, aboutRelationIds!GivenNone DEF aboutRelationIds!IndexAssumption
  <2>5. relCells \in [aboutRelationIds!Cells -> RelationIds \cup {NoKey}]
    BY <2>4 DEF aboutRelationIds!CacheInv
  <2> QED BY <2>3, <2>4, <2>5 DEF RelationIdsInv
<1>2. DocumentInv /\ TagsInv /\ RelationIdsInv /\ [Next]_vars => RelationIdsInv'
  <2> SUFFICES ASSUME DocumentInv, TagsInv, RelationIdsInv, [Next]_vars PROVE RelationIdsInv'
    OBVIOUS
  <2>1. RelationIdsMove
    BY AllMove DEF IndexesMove
  <2> QED BY <2>1, RelationIdsStep
<1> QED BY <1>1, <1>2, DocumentInvariance, TagsInvariance, PTL DEF Spec

\* What find says of a relation: some relation, not always the one.
LEMMA RelationSearched ==
  ASSUME CompilerAssumption, DocumentInv, RelationIdsInv, closed = FALSE, NEW ref \in References,
         NEW f, f = relationIds!Find(ref), NEW s, s = document.relations
  PROVE  /\ f.found \in BOOLEAN
         /\ f.found => /\ f.pos \in Nat /\ f.pos + 1 \in 1 .. Len(s)
                       /\ relFile[f.pos + 1].item = f.pos
<1>0. aboutRelationIds!IndexAssumption
  BY RelationIdsAssume
<1>1. PICK ids : /\ ids = IdsOf(s) /\ aboutRelationIds!Given(ids)
                 /\ relCells \in [aboutRelationIds!Cells -> RelationIds \cup {NoKey}]
  BY DEF RelationIdsInv, RelationList
<1>2. s \in Seq(Relations)
  BY DEF DocumentInv, Documents
<1>3. Len(ids) = Len(s) /\ Len(s) \in Nat
  BY <1>1, <1>2, IdsOfAre
<1>4. f = aboutRelationIds!Find(ref)
  BY RelationIdsSame
<1>5. LET g == aboutRelationIds!Find(ref) IN
      /\ g.found \in BOOLEAN
      /\ g.found => /\ g.pos \in 0 .. aboutRelationIds!Size - 1 /\ g.pos + 1 \in 1 .. Len(ids)
                    /\ relFile[g.pos + 1].item = g.pos
  BY <1>0, <1>1, aboutRelationIds!GivenFindStale DEF aboutRelationIds!IndexAssumption
<1>6. /\ f.found \in BOOLEAN
      /\ f.found => /\ f.pos \in Int /\ f.pos + 1 \in 1 .. Len(ids)
                    /\ relFile[f.pos + 1].item = f.pos
  BY <1>4, <1>5
<1>7. f.found => f.pos \in Nat
  BY <1>3, <1>6
<1> QED BY <1>3, <1>6, <1>7

\* So the members are found where they should be.
LEMMA MembersFound ==
  ASSUME CompilerAssumption, DocumentInv, NodeRefsInv, WayIdsInv, RelationIdsInv,
         NEW type \in MemberTypes, NEW ref \in References, Member(type, ref)
  PROVE  SearchRight(type, ref)
<1>1. relsStarted /\ closed = FALSE
  <2>1. open.kind = "relation"
    BY MemberWrites
  <2>2. open # Nothing
    BY <2>1 DEF Nothing
  <2> QED BY <2>1, <2>2 DEF DocumentInv, OpenInv
<1>2. PICK f, id : f = FoundFor(type, ref) /\ id = IdFor(type, ref)
  OBVIOUS
<1>3. CASE type = "point"
  <2>1. f = nodeRefs!Find(ref) /\ id = f.pos
    BY <1>2, <1>3 DEF FoundFor, IdFor
  <2>2. PICK s : s = TaggedNodes
    OBVIOUS
  <2>3. /\ f.found \in BOOLEAN
        /\ f.found => f.pos \in Nat /\ f.pos + 1 \in 1 .. Len(s) /\ s[f.pos + 1].id = ref
        /\ waysStarted /\ (\E j \in 1 .. Len(s) : s[j].id = ref) => f.found
    BY <2>1, <2>2, PointSearched
  <2> QED BY <1>2, <1>3, <2>1, <2>2, <2>3 DEF SearchRight
<1>4. CASE type = "way"
  <2>1. f = wayIds!Find(ref) /\ id = wayFile[f.pos + 1].item
    BY <1>2, <1>4 DEF FoundFor, IdFor
  <2>2. PICK s : s = document.ways
    OBVIOUS
  <2>3. /\ f.found \in BOOLEAN
        /\ f.found => /\ f.pos \in Nat /\ f.pos + 1 \in 1 .. Len(s) /\ s[f.pos + 1].id = ref
                      /\ wayFile[f.pos + 1].item = f.pos
        /\ (\E j \in 1 .. Len(s) : s[j].id = ref) => f.found
    BY <1>1, <2>1, <2>2, WaySearched
  <2> QED BY <1>2, <1>4, <2>1, <2>2, <2>3 DEF SearchRight
<1>5. CASE type = "relation"
  <2>1. f = relationIds!Find(ref) /\ id = relFile[f.pos + 1].item
    BY <1>2, <1>5 DEF FoundFor, IdFor
  <2>2. PICK s : s = document.relations
    OBVIOUS
  <2>3. /\ f.found \in BOOLEAN
        /\ f.found => f.pos \in Nat /\ f.pos + 1 \in 1 .. Len(s) /\ relFile[f.pos + 1].item = f.pos
    BY <1>1, <2>1, <2>2, RelationSearched
  <2> QED BY <1>2, <1>5, <2>1, <2>2, <2>3 DEF SearchRight
<1> QED BY <1>3, <1>4, <1>5 DEF MemberTypes

\* Every member of a relation is the record of the node or the way that it names.  If the
\* document has ways and the members are fewer than a record can count, they are all that
\* the relation names and the document has, in the order of the relation: in documents
\* and indexes of any size, whatever the searches before have cached.
THEOREM MembersTheirs ==
  ASSUME CompilerAssumption
  PROVE  Spec => []MembersAreTheirs
<1>1. Init => MembersInv
  BY DEF Init, MembersInv, Nothing
<1>2. DocumentInv /\ NodeRefsInv /\ WayIdsInv /\ RelationIdsInv => SearchesRight
  BY MembersFound DEF SearchesRight
<1>3. DocumentInv /\ TagsInv /\ RecordsInv /\ RecordsInv' /\ CountsInv /\ RecordsAreTheirOwn
        /\ MembersInv /\ SearchesRight /\ [Next]_vars => MembersInv'
  BY MembersStep
<1>4. DocumentInv /\ RecordsInv /\ MembersInv => MembersAreTheirs
  BY MembersAreRight
<1>5. DocumentInv /\ TagsInv /\ RecordsInv /\ RecordsInv' /\ CountsInv /\ RecordsAreTheirOwn
        /\ NodeRefsInv /\ WayIdsInv /\ RelationIdsInv /\ MembersInv /\ [Next]_vars => MembersInv'
  BY <1>2, <1>3
<1> QED BY <1>1, <1>4, <1>5, DocumentInvariance, TagsInvariance, RecordsInvariance, CountsInvariance,
           RecordsOwn, NodeRefsInvariance, WayIdsInvariance, RelationIdsInvariance, PTL DEF Spec

-----------------------------------------------------------------------------
(* The types. *)

\* The types of the indexes of ids.
LEMMA IndexTypes ==
  ASSUME CompilerAssumption, DocumentInv, NodeIdsInv, NodeRefsInv, WayIdsInv, RelationIdsInv
  PROVE  nodeIds!TypeOK /\ nodeRefs!TypeOK /\ wayIds!TypeOK /\ relationIds!TypeOK
<1>1. aboutNodeIds!TypeOK
  BY NodeIdsAssume, aboutNodeIds!CarriesTypes DEF NodeIdsInv, aboutNodeIds!IndexAssumption
<1>2. aboutNodeRefs!TypeOK
  BY NodeRefsAssume, aboutNodeRefs!CarriesTypes DEF NodeRefsInv, aboutNodeRefs!IndexAssumption
<1>3. aboutWayIds!TypeOK
  BY WayIdsAssume, aboutWayIds!CarriesTypes DEF WayIdsInv, aboutWayIds!IndexAssumption
<1>4. aboutRelationIds!TypeOK
  <2>1. closed \in BOOLEAN
    BY DEF DocumentInv
  <2> QED BY <2>1, RelationIdsAssume, aboutRelationIds!GivenTypes
          DEF RelationIdsInv, aboutRelationIds!IndexAssumption
<1> QED BY <1>1, <1>2, <1>3, <1>4, NodeIdsSame, NodeRefsSame, WayIdsSame, RelationIdsSame

\* And those of the records.
LEMMA RecordTypes ==
  ASSUME CompilerAssumption, DocumentInv, NodeIdsInv, NodeRefsInv, WayIdsInv, RelationIdsInv,
         RecordsInv, MembersBounded
  PROVE  TypeOK
<1>1. nodeIds!TypeOK /\ nodeRefs!TypeOK /\ wayIds!TypeOK /\ relationIds!TypeOK
  BY IndexTypes
<1>2. PICK b, p, k, x, v, y, l :
        /\ b = Len(baliseTags) /\ p = Len(wayPoints) /\ k = Len(relMembers)
        /\ x = nodeIndex /\ v = wayIndex /\ y = relationIndex /\ l = relMembers
  OBVIOUS
<1>3. /\ \A i \in DOMAIN x : TagsWithin(x[i], b)
      /\ \A i \in DOMAIN v : TagsWithin(v[i], b) /\ PointsWithin(v[i], p)
      /\ \A i \in DOMAIN y : TagsWithin(y[i], b) /\ MembersWithin(y[i], k)
  BY <1>2 DEF RecordsInv, NodesWithin, WaysWithin, RelationsWithin
<1>4. \A r \in ToSet(x) \cup ToSet(v) \cup ToSet(y) : TagsWithin(r, b)
  BY <1>3 DEF ToSet
<1>5. \A r \in ToSet(v) : PointsWithin(r, p)
  BY <1>3 DEF ToSet
<1>6. \A r \in ToSet(y) : MembersWithin(r, k)
  BY <1>3 DEF ToSet
<1>7. ASSUME NEW m \in ToSet(l)
      PROVE  m.id \in 0 .. Len(CASE m.type = "point" -> nodeIndex [] m.type = "way" -> wayIndex
                                 [] m.type = "relation" -> relationIndex) - 1
  <2>1. MemberWithin(m, Len(nodeIndex), Len(wayIndex), Len(relationIndex))
    BY <1>2 DEF MembersBounded, AllMembersWithin, ToSet
  <2>2. /\ Len(nodeIndex) \in Nat /\ Len(wayIndex) \in Nat /\ Len(relationIndex) \in Nat
    BY Lists, ListIs
  <2>3. CASE m.type = "point"
    BY <2>1, <2>2, <2>3 DEF MemberWithin
  <2>4. CASE m.type = "way"
    BY <2>1, <2>2, <2>4 DEF MemberWithin
  <2>5. CASE m.type = "relation"
    BY <2>1, <2>2, <2>5 DEF MemberWithin
  <2> QED BY <2>1, <2>3, <2>4, <2>5 DEF MemberWithin, MemberTypes
<1>8. \A r \in ToSet(nodeIndex) \cup ToSet(wayIndex) \cup ToSet(relationIndex) :
        r.tsize \in 0 .. CountLimit /\ r.tstart + r.tsize <= Len(baliseTags)
  BY <1>2, <1>4 DEF TagsWithin
<1>9. \A r \in ToSet(wayIndex) :
        r.psize \in 0 .. CountLimit /\ r.pstart + r.psize <= Len(wayPoints)
  BY <1>2, <1>5 DEF PointsWithin
<1>10. \A r \in ToSet(relationIndex) :
         r.msize \in 0 .. CountLimit /\ r.mstart + r.msize <= Len(relMembers)
  BY <1>2, <1>6 DEF MembersWithin
<1> QED BY <1>1, <1>2, <1>7, <1>8, <1>9, <1>10 DEF TypeOK

\* The indexes of ids are well-formed, a record stands for a part of the raw files that
\* has been written, and a member for a record of its index: none is beyond the end,
\* whatever the sizes and the references.
THEOREM CompilerTypes ==
  ASSUME CompilerAssumption
  PROVE  Spec => []TypeOK
<1>1. Init => MembersBounded
  BY DEF Init, MembersBounded, AllMembersWithin
<1>2. DocumentInv /\ NodeRefsInv /\ WayIdsInv /\ RelationIdsInv => SearchesRight
  BY MembersFound DEF SearchesRight
<1>3. DocumentInv /\ TagsInv /\ RecordsInv /\ RecordsInv' /\ CountsInv /\ MembersBounded
        /\ SearchesRight /\ [Next]_vars => MembersBounded'
  BY MembersBoundedStep
<1>4. DocumentInv /\ TagsInv /\ RecordsInv /\ RecordsInv' /\ CountsInv /\ NodeRefsInv /\ WayIdsInv
        /\ RelationIdsInv /\ MembersBounded /\ [Next]_vars => MembersBounded'
  BY <1>2, <1>3
<1>5. DocumentInv /\ NodeIdsInv /\ NodeRefsInv /\ WayIdsInv /\ RelationIdsInv /\ RecordsInv
        /\ MembersBounded => TypeOK
  BY RecordTypes
<1> QED BY <1>1, <1>4, <1>5, DocumentInvariance, TagsInvariance, RecordsInvariance, CountsInvariance,
           NodeIdsInvariance, NodeRefsInvariance, WayIdsInvariance, RelationIdsInvariance, PTL DEF Spec
=============================================================================
