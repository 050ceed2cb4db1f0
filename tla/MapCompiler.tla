---------------------------- MODULE MapCompiler ----------------------------
(***************************************************************************)
(* compile.cpp: one pass over an OSM document, then over the shapes of      *)
(* config.xml, that writes the index files of the map.  The XML parser      *)
(* calls the visitor at the start and at the end of every element; a record *)
(* of an index says where the part of the raw files begins that has been    *)
(* written since the element started, and how long it is.                   *)
(*                                                                          *)
(* Four indexes translate the ids of OSM to positions and are only used by  *)
(* this program; each is an instance of IndexFile.  The raw files are       *)
(* sequences here: their buffers are flushed before anything reads them.    *)
(* The document is what osmium writes of a sorted file: nodes, ways and     *)
(* relations in this order and each by ascending ids, nodes that are not    *)
(* closed later, and tags after the other children of an element.           *)
(***************************************************************************)
EXTENDS Integers, Sequences, FiniteSets, SequencesExt

CONSTANTS NodeIds, WayIds, RelationIds,  \* the ids of the document, numbers
          Place,         \* the position of each node
          References,    \* the ids that ways and members refer to
          Strings,       \* lengths of a GeoString in baliseTags, in bytes
          ShapeParts,    \* the records of a shape file, each a sequence of parts that
                         \* have points
          ShapePlaces,   \* the points of a shape file
          ShapeTags,     \* the bytes that the tags of a shape take
          CountLimit,    \* 0xFFFF, the largest size of a record
          FlushSize,     \* FILEINDEX_RAWFLUSHSIZE
          CacheSize,     \* cells of the key cache of an index
          MaxRefs,       \* bound: references of all the ways to nodes
          MaxMembers,    \* bound: members of all the relations
          MaxBytes,      \* bound: bytes of all the tags
          MaxShapes,     \* bound: records of a shape file
          NoKey

ASSUME CompilerAssumption ==
  /\ NodeIds \subseteq Nat /\ WayIds \subseteq Nat /\ RelationIds \subseteq Nat
  /\ IsFiniteSet(NodeIds) /\ IsFiniteSet(WayIds) /\ IsFiniteSet(RelationIds)
  /\ NoKey \notin NodeIds \cup WayIds \cup RelationIds
  /\ References \subseteq Nat
  /\ ShapePlaces \subseteq Int \X Int /\ \A n \in NodeIds : Place[n] \in Int \X Int
  /\ \A parts \in ShapeParts : parts \in Seq(Seq(Int \X Int) \ {<<>>})
  /\ \A s \in Strings \cup {ShapeTags} : s \in Nat \ {0}
  /\ CountLimit \in Nat \ {0, 1, 2} /\ MaxRefs \in Nat
  /\ FlushSize \in Nat \ {0} /\ CacheSize \in Nat \ {0, 1}

VARIABLES
  nodeFile, nodeBuffer, nodeSorted, nodeLast, nodeCells,       \* nodeIdIndex
  refFile, refBuffer, refSorted, refLast, refCells,            \* nodeRefIndex
  wayFile, wayBuffer, waySorted, wayLast, wayCells,            \* wayIdIndex
  relFile, relBuffer, relSorted, relLast, relCells,            \* relationIdIndex
  nodeIndex, wayIndex, relationIndex,  \* the records
  wayPoints, pointStart,               \* a raw file and its startCount
  relMembers, memberStart,
  baliseTags, tagStart,                \* per byte, the owner of the tag
  rect, isFirstNd,
  open,           \* the element that isNod, isWay or isRel stands for, or Nothing
  refs,           \* way_points_ids
  waysStarted, relsStarted,
  shapesRead, attributesRead,          \* positions in the shp and the dbf file
  closed,         \* has the visitor been deleted?
  document        \* what has been read: the elements that have ended, the members
                  \* of the relation that is open, and the records of the shape file

nodeVars == <<nodeFile, nodeBuffer, nodeSorted, nodeLast, nodeCells>>
refVars == <<refFile, refBuffer, refSorted, refLast, refCells>>
wayVars == <<wayFile, wayBuffer, waySorted, wayLast, wayCells>>
relVars == <<relFile, relBuffer, relSorted, relLast, relCells>>
pointVars == <<wayPoints, pointStart>>
memberVars == <<relMembers, memberStart>>
tagVars == <<baliseTags, tagStart>>
shapeVars == <<shapesRead, attributesRead>>
recordVars == <<nodeIndex, wayIndex, relationIndex>>
vars == <<nodeVars, refVars, wayVars, relVars, recordVars, pointVars, memberVars, tagVars,
          rect, isFirstNd, open, refs, waysStarted, relsStarted, shapeVars, closed, document>>

nodeIds == INSTANCE IndexFile WITH
  file <- nodeFile, buffer <- nodeBuffer, sorted <- nodeSorted, last_inserted <- nodeLast,
  cacheKey <- nodeCells, searching <- waysStarted, Keys <- NodeIds, Queries <- References,
  Window <- 1, Block <- 1, MaxItems <- Cardinality(NodeIds), MaxQuery <- MaxRefs
nodeRefs == INSTANCE IndexFile WITH
  file <- refFile, buffer <- refBuffer, sorted <- refSorted, last_inserted <- refLast,
  cacheKey <- refCells, searching <- waysStarted, Keys <- NodeIds, Queries <- References,
  Window <- 1, Block <- 1, MaxItems <- Cardinality(NodeIds), MaxQuery <- 1
wayIds == INSTANCE IndexFile WITH
  file <- wayFile, buffer <- wayBuffer, sorted <- waySorted, last_inserted <- wayLast,
  cacheKey <- wayCells, searching <- relsStarted, Keys <- WayIds, Queries <- References,
  Window <- 1, Block <- 1, MaxItems <- Cardinality(WayIds), MaxQuery <- 1
relationIds == INSTANCE IndexFile WITH
  file <- relFile, buffer <- relBuffer, sorted <- relSorted, last_inserted <- relLast,
  cacheKey <- relCells, searching <- closed, Keys <- RelationIds, Queries <- References,
  Window <- 1, Block <- 1, MaxItems <- Cardinality(RelationIds), MaxQuery <- 1

NoRect == <<>>   \* not initialised, and never read before a point has been put in it
Nothing == [kind |-> "none", id |-> 0]

Init ==
  /\ nodeIds!Init /\ nodeRefs!Init /\ wayIds!Init /\ relationIds!Init
  /\ nodeIndex = <<>> /\ wayIndex = <<>> /\ relationIndex = <<>>
  /\ wayPoints = <<>> /\ pointStart = 0
  /\ relMembers = <<>> /\ memberStart = 0
  /\ baliseTags = <<>> /\ tagStart = 0
  /\ rect = NoRect
  /\ isFirstNd = TRUE
  /\ open = Nothing
  /\ refs = <<>>
  /\ shapesRead = 0 /\ attributesRead = 0
  /\ document = [nodes |-> <<>>, ways |-> <<>>, relations |-> <<>>,
                 members |-> <<>>, shapes |-> <<>>]

Lesser(a, b) == IF a < b THEN a ELSE b

\* The elements of s that are in S, in their order.
Those(s, S) == FoldLeft(LAMBDA kept, e : IF e \in S THEN Append(kept, e) ELSE kept, <<>>, s)

Bytes(n, owner) == [i \in 1 .. n |-> owner]
BytesOf(owner) == {b \in DOMAIN baliseTags : baliseTags[b] = owner}
InDocument == ~closed /\ shapesRead = 0
Ended(kind) == {document[kind][i].id : i \in DOMAIN document[kind]}
NextId(kind, ids) == {i \in ids : \A j \in Ended(kind) : j < i}

\* (Variant of SizeFrom that forgets the width of the field.)
SizeFromUncut(start, raw) == Len(raw) - start

\* The size of what has been written since startBatch, as a record can hold it.
SizeFrom(start, raw) == Lesser(Len(raw) - start, CountLimit)

\* The rectangle of a point, and a rectangle grown by one (Rectangle::addPoint, which
\* starts anew if a coordinate is 0xFFFFFFFF: those of points are 2^31 at most).
Box(p) == [x0 |-> p[1], y0 |-> p[2], x1 |-> p[1], y1 |-> p[2]]
AddPoint(r, p) ==
  [x0 |-> Lesser(r.x0, p[1]), y0 |-> Lesser(r.y0, p[2]),
   x1 |-> -Lesser(-r.x1, -p[1]), y1 |-> -Lesser(-r.y1, -p[2])]
-----------------------------------------------------------------------------
(* The visitor of the OSM document. *)

StartElement(kind, id) ==
  /\ InDocument /\ open = Nothing
  /\ open' = [kind |-> kind, id |-> id]
  /\ tagStart' = Len(baliseTags)
  /\ UNCHANGED <<recordVars, wayPoints, relMembers, baliseTags, shapeVars, closed>>

StartNode ==
  /\ ~waysStarted /\ ~relsStarted
  /\ \E id \in NextId("nodes", NodeIds) : StartElement("node", id)
  /\ UNCHANGED <<nodeVars, refVars, wayVars, relVars, pointStart, memberStart, rect, isFirstNd,
                 refs, waysStarted, relsStarted, document>>

\* A key and its value; nothing outside the elements is read.
StartTag ==
  /\ open # Nothing
  /\ \E k, v \in Strings :
       /\ Len(baliseTags) + k + v <= MaxBytes
       /\ baliseTags' = baliseTags \o Bytes(k + v, open)
  /\ UNCHANGED <<nodeVars, refVars, wayVars, relVars, recordVars, pointVars, memberVars, tagStart,
                 rect, isFirstNd, open, refs, waysStarted, relsStarted, shapeVars, closed, document>>

\* (Variant of EndNode that enters every node into nodeRefIndex.)
EndNodeReferred ==
  LET tsize == SizeFrom(tagStart, baliseTags) IN
  /\ open.kind = "node"
  /\ open' = Nothing
  /\ nodeIds!AppendKey(open.id)
  /\ nodeRefs!AppendKey(open.id)
  /\ nodeIndex' = IF tsize = 0 THEN nodeIndex
       ELSE Append(nodeIndex, [place |-> Place[open.id], tstart |-> tagStart, tsize |-> tsize])
  /\ document' = [document EXCEPT !.nodes = Append(@, [id |-> open.id])]
  /\ UNCHANGED <<wayVars, relVars, wayIndex, relationIndex, pointVars, memberVars, tagVars,
                 rect, isFirstNd, refs, waysStarted, relsStarted, shapeVars, closed>>

\* Only a node with tags gets a record, and a place in nodeRefIndex.
EndNode ==
  LET tsize == SizeFrom(tagStart, baliseTags) IN
  /\ open.kind = "node"
  /\ open' = Nothing
  /\ nodeIds!AppendKey(open.id)
  /\ IF tsize = 0 THEN UNCHANGED <<refVars, nodeIndex>>
     ELSE /\ nodeRefs!AppendKey(open.id)
          /\ nodeIndex' = Append(nodeIndex,
               [place |-> Place[open.id], tstart |-> tagStart, tsize |-> tsize])
  /\ document' = [document EXCEPT !.nodes = Append(@, [id |-> open.id])]
  /\ UNCHANGED <<wayVars, relVars, wayIndex, relationIndex, pointVars, memberVars, tagVars,
                 rect, isFirstNd, refs, waysStarted, relsStarted, shapeVars, closed>>

\* The first way freezes the indexes of the nodes.
FreezeNodes ==
  IF waysStarted THEN UNCHANGED <<nodeVars, refVars>>
  ELSE nodeIds!FlushAndSort /\ nodeRefs!FlushAndSort

\* (Variants of StartWay: one goes on with the rectangle of the way before, one
\* does not start a batch of tags.)
StartWayInRectangle ==
  /\ ~relsStarted /\ document.nodes # <<>>
  /\ \E id \in NextId("ways", WayIds) : StartElement("way", id)
  /\ waysStarted' = TRUE
  /\ FreezeNodes
  /\ refs' = <<>>
  /\ pointStart' = Len(wayPoints)
  /\ UNCHANGED <<wayVars, relVars, memberStart, rect, isFirstNd, relsStarted, document>>
StartWayInBatch ==
  /\ ~relsStarted /\ document.nodes # <<>> /\ InDocument /\ open = Nothing
  /\ \E id \in NextId("ways", WayIds) : open' = [kind |-> "way", id |-> id]
  /\ waysStarted' = TRUE
  /\ FreezeNodes
  /\ refs' = <<>>
  /\ pointStart' = Len(wayPoints)
  /\ isFirstNd' = TRUE
  /\ UNCHANGED <<wayVars, relVars, recordVars, wayPoints, memberVars, tagVars, rect, relsStarted,
                 shapeVars, closed, document>>

\* (findKeys on an index without nodes reads what it never wrote: a document has
\* nodes if it has ways.)
StartWay ==
  /\ ~relsStarted /\ document.nodes # <<>>
  /\ \E id \in NextId("ways", WayIds) : StartElement("way", id)
  /\ waysStarted' = TRUE
  /\ FreezeNodes
  /\ refs' = <<>>
  /\ pointStart' = Len(wayPoints)
  /\ isFirstNd' = TRUE
  /\ UNCHANGED <<wayVars, relVars, memberStart, rect, relsStarted, document>>

Nd ==
  /\ open.kind = "way" /\ BytesOf(open) = {}
  /\ FoldLeft(LAMBDA n, way : n + Len(way.refs), Len(refs), document.ways) < MaxRefs
  /\ \E ref \in References : refs' = Append(refs, ref)
  /\ UNCHANGED <<nodeVars, refVars, wayVars, relVars, recordVars, pointVars, memberVars, tagVars,
                 rect, isFirstNd, open, waysStarted, relsStarted, shapeVars, closed, document>>

\* The points of the nodes that findKeys yields for the references, in the order of
\* the references.
PlacesFound(ranks) ==
  [i \in DOMAIN ranks |-> Place[document.nodes[nodeFile[ranks[i] + 1].item + 1].id]]

\* What findKeys makes of the references before it searches: std::sort.
SortedRefs ==
  {keys \in {[i \in DOMAIN refs |-> refs[p[i]]] : p \in Bijection(DOMAIN refs, DOMAIN refs)} :
     \A i \in 1 .. Len(refs) - 1 : keys[i] <= keys[i + 1]}

\* (findKeys without keys is undefined as well: a way has a node.)
WayRead(keys) ==
  LET found == nodeIds!FindKeys(keys)
      RankOf(ref) == found.result[CHOOSE i \in DOMAIN keys : keys[i] = ref]
      ranks == Those([i \in DOMAIN refs |-> RankOf(refs[i])], Int \ {nodeIds!IdxNotFound})
      points == PlacesFound(ranks)
      first == IF isFirstNd THEN Box(points[1]) ELSE AddPoint(rect, points[1])
  IN
  /\ open.kind = "way" /\ refs # <<>>
  /\ open' = Nothing
  /\ nodeIds!Fill(found.read)
  /\ wayPoints' = wayPoints \o points
  /\ rect' = IF points = <<>> THEN rect ELSE FoldLeft(AddPoint, first, Tail(points))
  /\ isFirstNd' = (isFirstNd /\ points = <<>>)
  /\ wayIndex' = Append(wayIndex,
       [rect |-> rect', pstart |-> pointStart, psize |-> SizeFrom(pointStart, wayPoints'),
        tstart |-> tagStart, tsize |-> SizeFrom(tagStart, baliseTags)])
  /\ wayIds!AppendKey(open.id)
  /\ document' = [document EXCEPT !.ways = Append(@, [id |-> open.id, refs |-> refs])]
  /\ UNCHANGED <<refVars, relVars, nodeIndex, relationIndex, pointStart, memberVars, tagVars,
                 refs, waysStarted, relsStarted, shapeVars, closed>>
EndWay == \E keys \in SortedRefs : WayRead(keys)

\* The first relation freezes the index of the ways.
StartRelation ==
  /\ \E id \in NextId("relations", RelationIds) : StartElement("relation", id)
  /\ relsStarted' = TRUE
  /\ IF relsStarted THEN UNCHANGED wayVars ELSE wayIds!FlushAndSort
  /\ memberStart' = Len(relMembers)
  /\ document' = [document EXCEPT !.members = <<>>]
  /\ UNCHANGED <<nodeVars, refVars, relVars, pointStart, rect, isFirstNd, refs, waysStarted>>

\* A member is kept if its reference is found.  The id of a node is its place in
\* nodeRefIndex, those of the others are the items of their indexes; that of the
\* relations is searched while it grows.
Member(type, ref) ==
  LET found == CASE type = "point" -> nodeRefs!Find(ref)
                 [] type = "way" -> wayIds!Find(ref)
                 [] type = "relation" -> relationIds!Find(ref)
      id == CASE type = "point" -> found.pos
              [] type = "way" -> wayFile[found.pos + 1].item
              [] type = "relation" -> relFile[found.pos + 1].item
  IN
  /\ open.kind = "relation" /\ BytesOf(open) = {}
  /\ FoldLeft(LAMBDA n, relation : n + Len(relation.members),
              Len(document.members), document.relations) < MaxMembers
  /\ IF type = "point" THEN nodeRefs!Fill(found.read) ELSE UNCHANGED refVars
  /\ IF type = "way" THEN wayIds!Fill(found.read) ELSE UNCHANGED wayVars
  /\ IF type = "relation" THEN relationIds!Fill(found.read) ELSE UNCHANGED relVars
  /\ relMembers' = IF found.found
       THEN Append(relMembers, [type |-> type, id |-> id, named |-> ref]) ELSE relMembers
  /\ document' = [document EXCEPT !.members = Append(@, [type |-> type, named |-> ref])]
  /\ UNCHANGED <<nodeVars, recordVars, pointVars, memberStart, tagVars, rect, isFirstNd, open,
                 refs, waysStarted, relsStarted, shapeVars, closed>>

EndRelation ==
  /\ open.kind = "relation"
  /\ open' = Nothing
  /\ relationIndex' = Append(relationIndex,
       [tstart |-> tagStart, tsize |-> SizeFrom(tagStart, baliseTags),
        mstart |-> memberStart, msize |-> SizeFrom(memberStart, relMembers)])
  /\ relationIds!AppendKey(open.id)
  /\ document' = [document EXCEPT
       !.relations = Append(@, [id |-> open.id, members |-> document.members])]
  /\ UNCHANGED <<nodeVars, refVars, wayVars, nodeIndex, wayIndex, pointVars, memberVars, tagVars,
                 rect, isFirstNd, refs, waysStarted, relsStarted, shapeVars, closed>>
-----------------------------------------------------------------------------
(* The shapes, after the document. *)

\* (Variant of GluePoint that begins the next way with the next point.)
GluePointNot(p) == <<>>

\* The next way begins with the point that ended the one before.
GluePoint(p) == <<p>>

\* A point of a part; a way that is as long as a record allows is ended.
AddShapePoint(s, p) ==
  LET points == Append(s.points, p)
      box == IF s.isFirstNd THEN Box(p) ELSE AddPoint(s.rect, p)
      way == [rect |-> box, pstart |-> s.start, psize |-> Len(points) - s.start,
              tstart |-> 0, tsize |-> 0]
  IN IF way.psize <= CountLimit - 2
     THEN [s EXCEPT !.points = points, !.rect = box, !.isFirstNd = FALSE]
     ELSE [s EXCEPT !.points = points \o GluePoint(p), !.rect = Box(p), !.isFirstNd = FALSE,
                    !.start = Len(points), !.ways = Append(@, way)]

\* A part: the ways that are ended in it and the rest.
AddPart(s, part) ==
  LET t == FoldLeft(AddShapePoint,
                    [s EXCEPT !.start = Len(s.points), !.isFirstNd = TRUE], part)
  IN [t EXCEPT !.ways = Append(@,
        [rect |-> t.rect, pstart |-> t.start, psize |-> Len(t.points) - t.start,
         tstart |-> 0, tsize |-> 0])]

\* The next record of the dbf file (read_record) becomes the tags of a shape; their
\* size is cut to 16 bits.
ShapeRead(shape, attributes) ==
  /\ ~closed /\ open = Nothing
  /\ shapesRead < MaxShapes /\ Len(baliseTags) + ShapeTags <= MaxBytes
  /\ shapesRead' = shapesRead + 1
  /\ attributesRead' = attributesRead + attributes
  /\ baliseTags' = IF attributes = 0 THEN baliseTags
       ELSE baliseTags \o Bytes(ShapeTags, [kind |-> "shape", id |-> attributesRead'])
  /\ tagStart' = IF attributes = 0 THEN tagStart ELSE Len(baliseTags)
  /\ document' = [document EXCEPT !.shapes = Append(@, shape)]
  /\ UNCHANGED <<nodeVars, refVars, wayVars, relVars, rect, isFirstNd, open, refs, waysStarted,
                 relsStarted, closed>>

\* (Variant of ShapePoint that leaves the dbf file where it is.)
ShapePointAlone ==
  \E p \in ShapePlaces :
    /\ ShapeRead([type |-> "point", parts |-> << <<p>> >>], 0)
    /\ nodeIndex' = Append(nodeIndex,
         [place |-> p, tstart |-> tagStart', tsize |-> Len(baliseTags') - tagStart'])
    /\ UNCHANGED <<wayIndex, relationIndex, pointVars, memberVars>>

\* Shape type 1.
ShapePoint ==
  \E p \in ShapePlaces :
    /\ ShapeRead([type |-> "point", parts |-> << <<p>> >>], 1)
    /\ nodeIndex' = Append(nodeIndex,
         [place |-> p, tstart |-> tagStart',
          tsize |-> (Len(baliseTags') - tagStart') % (CountLimit + 1)])
    /\ UNCHANGED <<wayIndex, relationIndex, pointVars, memberVars>>

\* Shape types 3 and 5: a relation whose members are the ways.
ShapeLines ==
  \E parts \in ShapeParts :
    LET s == FoldLeft(AddPart, [points |-> wayPoints, start |-> pointStart, rect |-> NoRect,
                                isFirstNd |-> TRUE, ways |-> wayIndex], parts)
        added == Len(s.ways) - Len(wayIndex)
    IN
    /\ ShapeRead([type |-> "lines", parts |-> parts], 1)
    /\ wayPoints' = s.points /\ pointStart' = s.start
    /\ wayIndex' = s.ways
    /\ memberStart' = Len(relMembers)
    /\ relMembers' = relMembers \o
         [i \in 1 .. added |-> [type |-> "way", id |-> Len(wayIndex) + i - 1, named |-> 0]]
    /\ relationIndex' = Append(relationIndex,
         [tstart |-> tagStart', tsize |-> (Len(baliseTags') - tagStart') % (CountLimit + 1),
          mstart |-> memberStart', msize |-> added % (CountLimit + 1)])
    /\ UNCHANGED nodeIndex

\* Any other type: its record in the dbf file is not read.
ShapeOther ==
  /\ ShapeRead([type |-> "other", parts |-> <<>>], 0)
  /\ UNCHANGED <<recordVars, pointVars, memberVars>>

\* The destructor; of the indexes of ids only that of the relations is written.
Close ==
  /\ ~closed /\ open = Nothing
  /\ closed' = TRUE
  /\ relationIds!FlushAndSort
  /\ UNCHANGED <<nodeVars, refVars, wayVars, recordVars, pointVars, memberVars, tagVars, rect,
                 isFirstNd, open, refs, waysStarted, relsStarted, shapeVars, document>>

StartMember ==
  \E type \in {"point", "way", "relation"}, ref \in References : Member(type, ref)

Next ==
  \/ StartNode \/ StartTag \/ EndNode
  \/ StartWay \/ Nd \/ EndWay
  \/ StartRelation \/ StartMember \/ EndRelation
  \/ ShapePoint \/ ShapeLines \/ ShapeOther \/ Close

Spec == Init /\ [][Next]_vars
-----------------------------------------------------------------------------
TypeOK ==
  /\ nodeIds!TypeOK /\ nodeRefs!TypeOK /\ wayIds!TypeOK /\ relationIds!TypeOK
  /\ \A r \in ToSet(nodeIndex) \cup ToSet(wayIndex) \cup ToSet(relationIndex) :
       r.tsize \in 0 .. CountLimit /\ r.tstart + r.tsize <= Len(baliseTags)
  /\ \A r \in ToSet(wayIndex) :
       r.psize \in 0 .. CountLimit /\ r.pstart + r.psize <= Len(wayPoints)
  /\ \A r \in ToSet(relationIndex) :
       r.msize \in 0 .. CountLimit /\ r.mstart + r.msize <= Len(relMembers)
  /\ \A m \in ToSet(relMembers) :
       m.id \in 0 .. Len(CASE m.type = "point" -> nodeIndex [] m.type = "way" -> wayIndex
                           [] m.type = "relation" -> relationIndex) - 1

\* A record holds the tags of its own element: the bytes it delimits are all those
\* written for it, or as many of the first ones as a record can count.
HasTagsOf(r, owner) ==
  LET own == BytesOf(owner) IN
  /\ r.tsize = Lesser(Cardinality(own), CountLimit)
  /\ r.tstart + 1 .. r.tstart + r.tsize \subseteq own
  /\ r.tsize > 0 => r.tstart + 1 = Min(own)

\* The nodes of the document that have tags, in its order.
TaggedNodes ==
  Those(document.nodes,
        {n \in ToSet(document.nodes) : BytesOf([kind |-> "node", id |-> n.id]) # {}})

\* Elements that follow each other, with and without tags, never share tags: the
\* records of nodes, ways and relations stand for the elements one by one, and each
\* has exactly the tags of its own.
RecordsAreTheirOwn ==
  /\ \A i \in DOMAIN TaggedNodes :
       /\ nodeIndex[i].place = Place[TaggedNodes[i].id]
       /\ HasTagsOf(nodeIndex[i], [kind |-> "node", id |-> TaggedNodes[i].id])
  /\ \A i \in DOMAIN document.ways :
       HasTagsOf(wayIndex[i], [kind |-> "way", id |-> document.ways[i].id])
  /\ \A i \in DOMAIN document.relations :
       HasTagsOf(relationIndex[i], [kind |-> "relation", id |-> document.relations[i].id])

PointsOf(way) == SubSeq(wayPoints, way.pstart + 1, way.pstart + way.psize)
Hull(points) ==
  LET xs == {p[1] : p \in points}  ys == {p[2] : p \in points} IN
  [x0 |-> Min(xs), y0 |-> Min(ys), x1 |-> Max(xs), y1 |-> Max(ys)]
FirstOf(s) == SubSeq(s, 1, Lesser(Len(s), CountLimit))

\* A way has the points of those of its nodes that the document has, in the order in
\* which it names them, and the rectangle of these and no other points; if none of
\* its references lies before the first or after the last node (findKeys finds
\* those at the first node).
WaysHaveTheirPoints ==
  \A i \in DOMAIN document.ways :
    LET nodes == Ended("nodes")
        named == document.ways[i].refs
        known == Those(named, nodes)
        points == [j \in DOMAIN known |-> Place[known[j]]]
    IN (\A j \in DOMAIN named : Min(nodes) <= named[j] /\ named[j] <= Max(nodes)) =>
         /\ PointsOf(wayIndex[i]) = FirstOf(points)
         /\ known # <<>> => wayIndex[i].rect = Hull(ToSet(points))

MembersOf(r) == SubSeq(relMembers, r.mstart + 1, r.mstart + r.msize)

\* The nodes and the ways of a relation: each member is the record of the element it
\* names, and the members are the ways and the nodes with tags that the document has
\* and the relation names, in its order; nodes only if a way has come before, for
\* without ways nodeRefIndex is never written.
MembersAreTheirs ==
  \A i \in DOMAIN document.relations :
    LET tagged == {n.id : n \in ToSet(TaggedNodes)}
        known == [type : {"way"}, named : Ended("ways")] \cup [type : {"point"}, named : tagged]
        members == MembersOf(relationIndex[i])
        names == [j \in DOMAIN members |-> [type |-> members[j].type, named |-> members[j].named]]
    IN
    /\ \A m \in ToSet(members) :
         /\ m.type = "way" => document.ways[m.id + 1].id = m.named
         /\ m.type = "point" =>
              m.id < Len(TaggedNodes) /\ nodeIndex[m.id + 1].place = Place[m.named]
    /\ waysStarted /\ relationIndex[i].msize < CountLimit =>
         Those(names, [type : {"point", "way"}, named : References])
           = Those(document.relations[i].members, known)

\* The relations of a relation: the member that is kept for a reference is the
\* relation it names.  (FileIndex.hpp says of find that it will "search key in index".)
RelationMembersAreTheirs ==
  \A m \in ToSet(relMembers) :
    m.type = "relation" => document.relations[m.id + 1].id = m.named

\* The shapes of a type, by their numbers in the file, the records of the points and
\* of the others, and the number of ways that such a shape has become.
ShapesOf(type) ==
  Those([i \in DOMAIN document.shapes |-> i],
        {i \in DOMAIN document.shapes : document.shapes[i].type = type})
PointOfShape(n) == nodeIndex[Len(TaggedNodes) + n]
RelationOfShape(n) == relationIndex[Len(document.relations) + n]
WaysOfShape(n) ==
  (IF n < Len(ShapesOf("lines")) THEN RelationOfShape(n + 1).mstart ELSE Len(relMembers))
    - RelationOfShape(n).mstart

\* The ways of a shape, laid one after the other with the first point of each left
\* out where it is glued, are its parts: no segment is lost where a part is longer
\* than a way may be, and none is drawn from one part to the next; as long as the
\* shape has become no more ways than a record can count.
ShapesAreWhole ==
  \A n \in DOMAIN ShapesOf("lines") :
    LET parts == document.shapes[ShapesOf("lines")[n]].parts
        ways == MembersOf(RelationOfShape(n))
        Segments(points) == {<<points[i], points[i + 1]>> : i \in 1 .. Len(points) - 1}
    IN WaysOfShape(n) <= CountLimit =>
         /\ UNION {Segments(PointsOf(wayIndex[m.id + 1])) : m \in ToSet(ways)}
              = UNION {Segments(part) : part \in ToSet(parts)}
         /\ \A m \in ToSet(ways) :
              wayIndex[m.id + 1].rect = Hull(ToSet(PointsOf(wayIndex[m.id + 1])))

\* A shape has the attributes of its own record of the dbf file, as long as the shape
\* file holds nothing but points, lines and polygons.
AttributesAreTheirs ==
  ShapesOf("other") = <<>> /\ ShapeTags <= CountLimit =>
    /\ \A n \in DOMAIN ShapesOf("lines") :
         HasTagsOf(RelationOfShape(n), [kind |-> "shape", id |-> ShapesOf("lines")[n]])
    /\ \A n \in DOMAIN ShapesOf("point") :
         HasTagsOf(PointOfShape(n), [kind |-> "shape", id |-> ShapesOf("point")[n]])
=============================================================================
