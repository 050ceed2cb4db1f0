------------------------------ MODULE GeoBoxes ------------------------------
(***************************************************************************)
(* GeoBox.cpp and helpers/Rectangle.cpp: rectangles of the map, and the     *)
(* squares of a quadtree that the area indexes are sorted by.               *)
(*                                                                          *)
(* A position is the bits of x and y in turn, x at the even places; the     *)
(* DropBits low bits of either coordinate are not kept, and in their place  *)
(* the mask length of the box is stored, so that position and mask share    *)
(* one word.  The numbers are those of the code with CoordBits = 32 and     *)
(* DropBits = 3; what matters is that 2 ^ (2 * DropBits) = 2 * CoordBits:   *)
(* the longest mask does not fit its field and runs over into the position. *)
(***************************************************************************)
EXTENDS Integers, Sequences, FiniteSets

CONSTANTS CoordBits, DropBits

ASSUME BoxAssumption ==
  /\ CoordBits \in Nat /\ DropBits \in Nat /\ 0 < DropBits /\ DropBits < CoordBits
  /\ 2 ^ (2 * DropBits) = 2 * CoordBits

Coords == 0 .. 2 ^ CoordBits - 1
MaxCoord == 2 ^ CoordBits - 1
PosBits == 2 * CoordBits
MaskRange == 2 ^ (2 * DropBits)

LowerOf(a, b) == IF a < b THEN a ELSE b
HigherOf(a, b) == IF a < b THEN b ELSE a
-----------------------------------------------------------------------------
(* Rectangles. *)

\* The all-ones coordinate stands for "not set", so the rectangle of the whole
\* number range is not valid.
IsValid(r) ==
  /\ r.x0 <= r.x1 /\ r.y0 <= r.y1
  /\ MaxCoord \notin {r.x0, r.y0, r.x1, r.y1}

Unset == [x0 |-> MaxCoord, y0 |-> MaxCoord, x1 |-> MaxCoord, y1 |-> MaxCoord]

\* rect * 2: twice as wide and high around the same middle, cut at the ends of
\* the numbers.
Doubled(r) ==
  LET dx == (r.x1 - r.x0) % 2 ^ CoordBits
      dy == (r.y1 - r.y0) % 2 ^ CoordBits
      mx == (r.x0 + dx \div 2) % 2 ^ CoordBits
      my == (r.y0 + dy \div 2) % 2 ^ CoordBits
  IN [x0 |-> HigherOf(mx - dx, 0), y0 |-> HigherOf(my - dy, 0),
      x1 |-> LowerOf(mx + dx, MaxCoord), y1 |-> LowerOf(my + dy, MaxCoord)]

\* a * b and a + b
Meet(a, b) ==
  IF ~IsValid(a) \/ ~IsValid(b) THEN Unset
  ELSE [x0 |-> HigherOf(a.x0, b.x0), y0 |-> HigherOf(a.y0, b.y0),
        x1 |-> LowerOf(a.x1, b.x1), y1 |-> LowerOf(a.y1, b.y1)]

Join(a, b) ==
  IF ~IsValid(a) THEN b
  ELSE IF ~IsValid(b) THEN a
  ELSE [x0 |-> LowerOf(a.x0, b.x0), y0 |-> LowerOf(a.y0, b.y0),
        x1 |-> HigherOf(a.x1, b.x1), y1 |-> HigherOf(a.y1, b.y1)]

Overlaps(a, b) ==
  a.x0 <= b.x1 /\ b.x0 <= a.x1 /\ a.y0 <= b.y1 /\ b.y0 <= a.y1

\* The product of two 32 bit numbers, which keeps 32 bits of it.
Area(r) == ((r.x1 - r.x0) * (r.y1 - r.y0)) % 2 ^ CoordBits
-----------------------------------------------------------------------------
(* Positions. *)

\* The bits of c, spread to every second place.
Spread[c \in Coords] == IF c = 0 THEN 0 ELSE (c % 2) + 4 * Spread[c \div 2]

Kept(c) == c - (c % 2 ^ DropBits)
MergeBits(x, y) == Spread[Kept(x)] + 2 * Spread[Kept(y)]

\* One more than the highest bit in which a and b differ, at least `least'.
MaskLength(a, b, least) ==
  LET Same(n) == a \div 2 ^ n = b \div 2 ^ n
  IN CHOOSE n \in least .. PosBits :
       Same(n) /\ \A m \in least .. n - 1 : ~Same(m)
-----------------------------------------------------------------------------
(* Boxes: a position and a mask length, added together in one word. *)

SetPos(g, pos) == [g EXCEPT !.pos = pos - (pos % MaskRange)]
SetMaskLength(g, m) ==
  [pos |-> (g.pos + m - (m % MaskRange)) % 2 ^ PosBits, mask |-> m % MaskRange]

\* pos without its n low bits.  A shift by all of its bits is undefined; the
\* x86 instruction shifts by none.
Shifted(pos, n) == IF n = PosBits THEN pos ELSE pos - (pos % 2 ^ n)

GeoBoxContains(a, b) ==
  a.mask >= b.mask /\ a.pos \div 2 ^ a.mask = b.pos \div 2 ^ a.mask

\* The order of boxes, by position and then the larger mask first, as a number.
BoxKey(g) == g.pos + MaskRange - 1 - g.mask

\* The box of the least square of the quadtree that holds a rectangle.
MakeGeoBox(r) ==
  LET minpos == MergeBits(LowerOf(r.x0, r.x1), LowerOf(r.y0, r.y1))
      maxpos == MergeBits(HigherOf(r.x0, r.x1), HigherOf(r.y0, r.y1))
      length == MaskLength(minpos, maxpos, DropBits)
  IN SetMaskLength(SetPos([pos |-> 0, mask |-> 0], Shifted(minpos, length)), length)

\* The box of a point.
PointGeoBox(x, y) == SetPos([pos |-> 0, mask |-> DropBits], MergeBits(x, y))

\* A side from a to b is divided where its highest different bit changes.  When
\* only dropped bits differ the pivot may be the lower end or below it, and the
\* end of the first half wraps around.
Divided(a, b) ==
  LET low == LowerOf(a, b)
      high == HigherOf(a, b)
      pivot == high - (high % 2 ^ (MaskLength(a, b, DropBits) - 1))
  IN IF a = b THEN << >>
     ELSE << <<low, (pivot - 1) % 2 ^ CoordBits>>, <<pivot, high>> >>

DivideX(r) ==
  LET d == Divided(r.x0, r.x1)
  IN [i \in DOMAIN d |-> [r EXCEPT !.x0 = d[i][1], !.x1 = d[i][2]]]
DivideY(r) ==
  LET d == Divided(r.y0, r.y1)
  IN [i \in DOMAIN d |-> [r EXCEPT !.y0 = d[i][1], !.y1 = d[i][2]]]

\* The rectangle in up to four parts: divided by x, each half divided by y.
Quarters(r) ==
  LET Undivided(s, d) == IF d = << >> THEN <<s>> ELSE d
      halves == Undivided(r, DivideX(r))
      columns == [i \in DOMAIN halves |-> Undivided(halves[i], DivideY(halves[i]))]
  IN IF Len(columns) = 1 THEN columns[1] ELSE columns[1] \o columns[2]

\* One more box: it takes the place of those it holds, and is left out if held.
WithBox(boxes, g) ==
  IF \E j \in DOMAIN boxes : GeoBoxContains(boxes[j], g) \/ GeoBoxContains(g, boxes[j])
  THEN [j \in DOMAIN boxes |->
          IF GeoBoxContains(g, boxes[j]) /\ ~GeoBoxContains(boxes[j], g) THEN g
          ELSE boxes[j]]
  ELSE Append(boxes, g)

\* The boxes of a rectangle: at most four that together hold it.
MakeGeoBoxSet(r) ==
  LET parts == Quarters(r)
      boxes[i \in 0 .. Len(parts)] ==
        IF i = 0 THEN << >> ELSE WithBox(boxes[i - 1], MakeGeoBox(parts[i]))
  IN boxes[Len(parts)]
=============================================================================
