--------------------------- MODULE RelationShapes ---------------------------
(***************************************************************************)
(* CompiledDataManager: the loading of a relation with what it links to,    *)
(* and the assembly of its shape: ways are joined at common ends to lines,  *)
(* and a line whose ends meet is closed.  A line is known by its number in  *)
(* `line', as the code knows it by its address, because the map of open     *)
(* ends `ep' keeps pointing at it while its points change.                  *)
(*                                                                          *)
(* One step is one turn of the loop of fillLinkedItems.  A point of a line  *)
(* is [x, y]; a member is [type |-> "point", point], [type |-> "way",       *)
(* points, rect] or [type |-> "relation", tags, members].  `limit' is the   *)
(* rectangle that loadWay is given, as a set of at most one.                *)
(***************************************************************************)
EXTENDS GeoBoxes, SequencesExt

CONSTANTS Members,     \* what relations may link to
          MaxMembers   \* bound: members of a relation

\* A way has a sequence of points, and a relation one of members.
ASSUME MemberAssumption ==
  \A m \in Members :
    /\ m.type = "way" => m.points \in Seq(ToSet(m.points))
    /\ m.type = "relation" => m.members \in Seq(ToSet(m.members))

VARIABLES relation,    \* what has been loaded of the relation
          loading      \* the arguments of loadRelation, and how many members so far

shapeVars == <<relation, loading>>

NoShape == [line |-> << >>, opened |-> << >>, closed |-> << >>, ep |-> {}]
EmptyRelation == [points |-> << >>, ways |-> << >>, relations |-> << >>,
                  tags |-> << >>, rect |-> Unset, shape |-> NoShape]
NoLoad == [recurs |-> 0, computeShape |-> FALSE, limit |-> {}, count |-> 0]
-----------------------------------------------------------------------------
(* Lines and shapes. *)

\* (Variant of MergedLine that joins without turning the new points.)
MergedUnturned(l, pts) == l \o Tail(pts)

\* Line::mergePoints: the points of another line after or before, turned so that
\* the common end comes once in the middle.
MergedLine(l, pts) ==
  CASE l[1] = pts[1] -> Reverse(l) \o Tail(pts)
    [] l[1] # pts[1] /\ Last(l) = pts[1] -> l \o Tail(pts)
    [] pts[1] \notin {l[1], Last(l)} /\ Last(l) = Last(pts) -> l \o Tail(Reverse(pts))
    [] pts[1] \notin {l[1], Last(l)} /\ Last(l) # Last(pts) /\ l[1] = Last(pts) -> pts \o Tail(l)
    [] OTHER -> l

\* The open line that has one of its ends at p, if any.
EpFind(shape, p) ==
  LET found == {e \in shape.ep : e[1] = p}
  IN IF found = {} THEN {} ELSE {(CHOOSE e \in found : TRUE)[2]}

EpRemove(shape, id) ==
  [shape EXCEPT !.ep = @ \ {<<shape.line[id][1], id>>, <<Last(shape.line[id]), id>>}]
EpAdd(shape, id) ==
  [shape EXCEPT !.ep = @ \cup {<<shape.line[id][1], id>>, <<Last(shape.line[id]), id>>}]

\* The line at either of two ends, the first one first.
EpFindEither(shape, first, last) ==
  IF EpFind(shape, first) # {} THEN EpFind(shape, first) ELSE EpFind(shape, last)

Without(ids, id) == RemoveAt(ids, CHOOSE i \in DOMAIN ids : ids[i] = id)
Meets(pts) == pts[1] = Last(pts)

\* A new line with these points, closed or with open ends.
NewLine(shape, pts, closed) ==
  LET id == Len(shape.line) + 1
      s == [shape EXCEPT !.line = Append(@, pts)]
  IN IF closed THEN [s EXCEPT !.closed = Append(@, id)]
     ELSE EpAdd([s EXCEPT !.opened = Append(@, id)], id)

\* A line whose ends have been taken from the map, after it has changed.
Settled(shape, id) ==
  IF Meets(shape.line[id])
  THEN [shape EXCEPT !.closed = Append(@, id), !.opened = Without(@, id)]
  ELSE EpAdd(shape, id)

\* Line l joined to line m, which stays.
Joined(shape, m, l) ==
  LET s == EpRemove(shape, m)
      t == [s EXCEPT !.line[m] = MergedLine(@, shape.line[l]),
                     !.line[l] = << >>, !.opened = Without(@, l)]
  IN Settled(t, m)

\* (Variant of ShapeMerged that does not look for a second line.)
ShapeMergedOnce(shape, pts, closed) ==
  LET L == EpFindEither(shape, pts[1], Last(pts))
      l == CHOOSE id \in L : TRUE
      s == [EpRemove(shape, l) EXCEPT !.line[l] = MergedLine(@, pts)]
  IN IF closed \/ L = {} THEN NewLine(shape, pts, closed) ELSE Settled(s, l)

\* Shape::mergePoints: a closed way is a line of its own; an open one is joined to
\* the open line at one of its ends, and the result to the line at its other end.
ShapeMerged(shape, pts, closed) ==
  LET L == EpFindEither(shape, pts[1], Last(pts))
      l == CHOOSE id \in L : TRUE
      s == [EpRemove(shape, l) EXCEPT !.line[l] = MergedLine(@, pts)]
      M == EpFindEither(s, s.line[l][1], Last(s.line[l]))
      m == CHOOSE id \in M : TRUE
  IN IF closed \/ L = {} THEN NewLine(shape, pts, closed)
     ELSE IF Meets(s.line[l]) \/ M = {} THEN Settled(s, l)
     ELSE Joined(s, m, l)
-----------------------------------------------------------------------------
(* Cropping. *)

\* The points at one side of a border, and those where the line crosses it; a
\* ring that lost its first point is closed again.
Clipped(pts, closed, Inside(_), Crossing(_, _)) ==
  LET Across(i) == IF i > 1 /\ Inside(pts[i - 1]) # Inside(pts[i])
                   THEN <<Crossing(pts[i - 1], pts[i])>> ELSE << >>
      At(i) == IF Inside(pts[i]) THEN <<pts[i]>> ELSE << >>
      kept == FlattenSeq([i \in DOMAIN pts |-> Across(i) \o At(i)])
  IN IF closed /\ kept # << >> /\ ~Meets(kept) THEN Append(kept, kept[1]) ELSE kept

\* Where the line from (a, u) to (b, v) is when its first coordinate is c.
Between(a, u, b, v, c) ==
  LET n == (b - c) * u + (c - a) * v
  IN IF b > a THEN n \div (b - a) ELSE (0 - n) \div (a - b)

\* do_crop: against the four sides in turn.  Lines of fewer than three points are
\* left as they are.
Crop(pts, r) ==
  LET ring == Meets(pts)
      left == Clipped(pts, ring, LAMBDA p : p.x >= r.x0,
                LAMBDA p, q : [x |-> r.x0, y |-> Between(p.x, p.y, q.x, q.y, r.x0)])
      right == Clipped(left, ring, LAMBDA p : p.x <= r.x1,
                LAMBDA p, q : [x |-> r.x1, y |-> Between(p.x, p.y, q.x, q.y, r.x1)])
      low == Clipped(right, ring, LAMBDA p : p.y >= r.y0,
                LAMBDA p, q : [x |-> Between(p.y, p.x, q.y, q.x, r.y0), y |-> r.y0])
      high == Clipped(low, ring, LAMBDA p : p.y <= r.y1,
                LAMBDA p, q : [x |-> Between(p.y, p.x, q.y, q.x, r.y1), y |-> r.y1])
  IN IF Len(pts) < 3 THEN pts
     ELSE IF Len(high) = 2 /\ high[1] = high[2] THEN << >> ELSE high
-----------------------------------------------------------------------------
(* Loading. *)

\* loadWay: nothing of a way outside the limit or without points.
LoadWay(w, limit) ==
  IF w.points = << >> \/ \E r \in limit : ~Overlaps(r, w.rect) THEN {} ELSE {w}

WithPoint(r, p) == [r EXCEPT !.points = Append(@, p)]

WithWay(r, w, computeShape) ==
  [r EXCEPT !.ways = Append(@, w), !.rect = Join(@, w.rect),
            !.shape = IF computeShape THEN ShapeMerged(@, w.points, Meets(w.points)) ELSE @]

\* One turn of the loop, for a member that is no relation.
WithSimple(r, m, computeShape, limit) ==
  CASE m.type = "point" -> WithPoint(r, m.point)
    [] m.type = "way" /\ LoadWay(m, limit) # {} -> WithWay(r, m, computeShape)
    [] OTHER -> r

\* A relation within a relation: what it links to is loaded without a limit, with
\* its shape exactly if there was one, and no relations, for the depth is used up.
SubRelation(m, limit) ==
  FoldLeft(LAMBDA r, n : WithSimple(r, n, limit # {}, {}),
           [EmptyRelation EXCEPT !.tags = m.tags], m.members)

\* The lines of a relation are joined to those of the one it is a member of.
WithLines(shape, sub) ==
  LET closed == FoldLeft(LAMBDA s, id : ShapeMerged(s, sub.line[id], TRUE), shape, sub.closed)
  IN FoldLeft(LAMBDA s, id : ShapeMerged(s, sub.line[id], FALSE), closed, sub.opened)

WithRelation(r, sub, computeShape) ==
  [r EXCEPT !.relations = Append(@, sub), !.rect = Join(@, sub.rect),
            !.shape = IF computeShape THEN WithLines(@, sub.shape) ELSE @]

\* One turn of the loop of fillLinkedItems, for a call of loadRelation with
\* `recurs', which is counted down before the loop and again by the inner call.
WithMember(r, m, recurs, computeShape, limit) ==
  IF m.type # "relation" THEN WithSimple(r, m, computeShape, limit)
  ELSE IF recurs - 2 < 1 THEN r
  ELSE WithRelation(r, SubRelation(m, limit), computeShape)

IsClosed(r) == r.shape.opened = << >>

\* load<Relation>: the whole relation at once.
LoadRelation(o) ==
  FoldLeft(LAMBDA r, m : WithMember(r, m, 3, TRUE, {}),
           [EmptyRelation EXCEPT !.tags = o.tags], o.members)
-----------------------------------------------------------------------------
ShapeInit == relation = EmptyRelation /\ loading = NoLoad

StartLoading(call) ==
  /\ loading.recurs = 0
  /\ loading' = call
  /\ relation' = EmptyRelation

\* One more member; which members a relation has is the choice of the mapper.
LinkMember(m) ==
  /\ loading.recurs > 0 /\ loading.count < MaxMembers
  /\ relation' = WithMember(relation, m, loading.recurs, loading.computeShape, loading.limit)
  /\ loading' = [loading EXCEPT !.count = @ + 1]

ReturnRelation ==
  /\ loading.recurs > 0
  /\ relation' = EmptyRelation /\ loading' = NoLoad
-----------------------------------------------------------------------------
(* Properties. *)

SegmentsOf(pts) == [i \in 1 .. Len(pts) - 1 |-> {pts[i], pts[i + 1]}]
Segments(lines) == FlattenSeq([i \in DOMAIN lines |-> SegmentsOf(lines[i])])
Lines(shape) == [i \in DOMAIN (shape.opened \o shape.closed) |->
                   shape.line[(shape.opened \o shape.closed)[i]]]
Times(x, s) == Cardinality({i \in DOMAIN s : s[i] = x})

\* How many open ways of a relation end at a point.
Degree(r, p) ==
  LET Open(w) == ~Meets(w.points)
  IN Cardinality({i \in DOMAIN r.ways : Open(r.ways[i]) /\ r.ways[i].points[1] = p})
       + Cardinality({i \in DOMAIN r.ways : Open(r.ways[i]) /\ Last(r.ways[i].points) = p})

\* The lines of a shape are exactly the ways of the relation: every segment of a
\* way is in them as often as in the ways, however the ways were joined and turned.
SegmentsAreKept ==
  LET ways == Segments([i \in DOMAIN relation.ways |-> relation.ways[i].points])
      lines == Segments(Lines(relation.shape))
  IN loading.computeShape =>
       \A x \in ToSet(ways \o lines) : Times(x, ways) = Times(x, lines)

\* As few lines stay open as can be: a point is the end of an open line exactly if
\* an odd number of open ways end there, and then of one line only.  So a relation
\* is closed exactly if its open ways form rings; and `ep' has the open ends.
OpenEndsAreOdd ==
  LET shape == relation.shape
      Ends(id) == {shape.line[id][1], Last(shape.line[id])}
      met == UNION {ToSet(relation.ways[i].points) : i \in DOMAIN relation.ways}
  IN loading.computeShape =>
       /\ \A p \in met :
            Cardinality({id \in ToSet(shape.opened) : p \in Ends(id)}) = Degree(relation, p) % 2
       /\ \A id \in ToSet(shape.closed) : Meets(shape.line[id])
       /\ shape.ep = UNION {Ends(id) \X {id} : id \in ToSet(shape.opened)}
=============================================================================
