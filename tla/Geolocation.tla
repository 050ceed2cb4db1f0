---------------------------- MODULE Geolocation ----------------------------
(***************************************************************************)
(* services/Geolocation.cpp: the search of places by name.  A query is a    *)
(* sequence of parts, the pieces between its commas: [words] or [number],   *)
(* a house number.  A place that is found is an area [r, score, found,      *)
(* relations, pin]: its rectangle, the objects it was found by, the         *)
(* relations among them, and a pin as a set of at most one point.           *)
(***************************************************************************)
EXTENDS TileContent, RelationShapes

CONSTANTS
  Searches,      \* [map, query] that are searched
  MaxMatches,    \* 100000: a word with more entries is too common
  MaxAreas,      \* 250 areas are kept
  MaxAnswers     \* 51 are answered

VARIABLE search  \* the search that goes on: [map, index, left, done, best, met, street,
                 \* answers]

NoSearch == [map |-> << >>, index |-> << >>, left |-> << >>, done |-> << >>, best |-> << >>, met |-> << >>,
             street |-> 0, answers |-> << >>]

Undefined == -1
WorstScore == -999999999
-----------------------------------------------------------------------------
(* calcMatchScore. *)

FirstOf(s, x) == CHOOSE j \in DOMAIN s : s[j] = x /\ \A k \in 1 .. j - 1 : s[k] # x

\* (Variant of EvenOut that leaves the surplus on its own side.)
EvenOutOther(m, i) ==
  LET d == Times(m.own[i], m.other) - Times(m.own[i], m.own)
      other[k \in Nat] ==
        IF k = 0 THEN m.other ELSE ReplaceAt(other[k - 1], FirstOf(other[k - 1], m.own[i]), Undefined)
  IN IF d > 0 THEN [m EXCEPT !.other = other[d], !.score = @ - 40 * d] ELSE m

\* If there are more of the i-th word on one side, as many of them are struck out
\* there, at 40 each.  On its own side the word itself may be the first of them,
\* and then only what is struck out already is struck out again.
EvenOut(m, i) ==
  LET d == Times(m.own[i], m.own) - Times(m.own[i], m.other)
      own[k \in Nat] ==
        IF k = 0 THEN m.own ELSE ReplaceAt(own[k - 1], FirstOf(own[k - 1], own[k - 1][i]), Undefined)
      other[k \in Nat] ==
        IF k = 0 THEN m.other ELSE ReplaceAt(other[k - 1], FirstOf(other[k - 1], m.own[i]), Undefined)
  IN IF d > 0 THEN [m EXCEPT !.own = own[d], !.score = @ - 40 * d]
     ELSE [m EXCEPT !.other = other[-d], !.score = @ + 40 * d]

Defined(s) == SelectSeq(s, LAMBDA w : w # Undefined)

\* One pass over the words of `own', and the struck out words are left out.
Evened(own, other, score) ==
  LET m == FoldLeft(EvenOut, [own |-> own, other |-> other, score |-> score],
                    [i \in DOMAIN own |-> i])
  IN [own |-> Defined(m.own), other |-> Defined(m.other), score |-> m.score]

\* The first word of one side is taken with the first equal one of the other; with
\* none the loop of the code does not end.
MatchWord(m, x) ==
  IF ~m.ends \/ x \notin ToSet(m.other) THEN [m EXCEPT !.ends = FALSE]
  ELSE LET j == FirstOf(m.other, x)
       IN [m EXCEPT !.other = RemoveAt(@, j), !.score = @ + IF j = 1 THEN 500 ELSE 300]

\* What the words of a query and of a name have in common: each side is evened out
\* against the other, and then the words are matched one by one.
MatchScore(a, b) ==
  LET first == Evened(a, b, 0)
      second == Evened(first.other, first.own, first.score)
  IN FoldLeft(MatchWord, [other |-> second.own, score |-> second.score, ends |-> TRUE],
              second.other)

\* The best score of the name and the names in other languages.
NameScore(o, keys) ==
  LET names == {Tag(o, "name")} \cup {Tag(o, k) : k \in {l \in LocaleNames : Tag(o, l) # << >>}}
      scores == {MatchScore(keys, WordKeys(n)).score : n \in names}
  IN CHOOSE s \in scores : \A t \in scores : t <= s

\* An admin_level other than 10 raises the score by a part, and more the nearer it
\* is to 10; the product is cut to a whole number.
AdminBoost(o, score) ==
  LET level == 10 - Tag(o, "admin_level")[1]
      n == score * (10 * level + 1)
  IN IF Tag(o, "admin_level") = << >> \/ level = 0 THEN score
     ELSE IF n >= 0 THEN n \div (10 * level) ELSE -((-n) \div (10 * level))
-----------------------------------------------------------------------------
(* findExpression. *)

Kinds == {"node", "way", "relation"}

\* Where each word of a query is in the word index of each kind, as a set of at most
\* one range.
RangesFor(index, keys) ==
  [k \in ToSet(keys) |-> [kind \in Kinds |-> FindItem(index[kind].ranges, k)]]

Width(range) == IF range = {} THEN 0 ELSE LET r == CHOOSE r \in range : TRUE IN r.last - r.first
Count(range) == IF range = {} THEN 0 ELSE Width(range) + 1

\* textSearchIds: in how many objects a word is.
CountOf(r) == Count(r["node"]) + Count(r["way"]) + Count(r["relation"])

\* The words of a query that are found, and are not too common, by a count that
\* leaves out one entry of each kind.
FoundWords(ranges) ==
  {k \in DOMAIN ranges :
     /\ \E kind \in Kinds : ranges[k][kind] # {}
     /\ Width(ranges[k]["node"]) + Width(ranges[k]["way"]) + Width(ranges[k]["relation"]) < MaxMatches}

\* The first in the order of counts, and of keys among equal ones.
RarestWord(ranges) ==
  CHOOSE k \in FoundWords(ranges) : \A l \in FoundWords(ranges) :
    \/ CountOf(ranges[k]) < CountOf(ranges[l])
    \/ CountOf(ranges[k]) = CountOf(ranges[l]) /\ k <= l

\* The rectangle of an area: that of the index, and a little one around a node.
AreaRect(o) ==
  IF o.kind # "node" THEN o.rect
  ELSE [x0 |-> (o.rect.x0 - 1) % 2 ^ CoordBits, y0 |-> (o.rect.y0 - 1) % 2 ^ CoordBits,
        x1 |-> (o.rect.x1 + 1) % 2 ^ CoordBits, y1 |-> (o.rect.y1 + 1) % 2 ^ CoordBits]

\* Only relations are recorded in an area: the id of a node or a way is put into
\* the local variable after that has been copied.
AreaOf(map, id, keys) ==
  LET o == map[id]
      score == IF IsValid(AreaRect(o)) THEN NameScore(o, keys) ELSE WorstScore
  IN [r |-> AreaRect(o), score |-> AdminBoost(o, score), found |-> <<id>>,
      relations |-> IF o.kind = "relation" THEN <<id>> ELSE << >>, pin |-> {}]

\* compare_weight
Weightier(a, b) == a.score > b.score \/ (a.score = b.score /\ Area(a.r) > Area(b.r))
Sorted(areas) == SortSeq(areas, Weightier)
Cut(areas) == SubSeq(Sorted(areas), 1, LowerOf(Len(areas), MaxAreas))

\* The entries of a word: those of nodes, of relations, then of ways.
EntriesOf(index, r) ==
  LET Of(kind) == FlattenSeq([i \in 1 .. Cardinality(r[kind]) |->
                    LET at == CHOOSE at \in r[kind] : TRUE
                    IN SubSeq(index[kind].text, at.first + 1, at.last + 1)])
  IN Of("node") \o Of("relation") \o Of("way")

AreasFor(map, keys, entries) ==
  Sorted([i \in DOMAIN entries |-> AreaOf(map, entries[i].item.id, keys)])

FindRanges(map, index, keys, ranges) ==
  IF FoundWords(ranges) = {} THEN << >>
  ELSE AreasFor(map, keys, EntriesOf(index, ranges[RarestWord(ranges)]))

\* The areas of all objects with the rarest word of the query.
FindExpression(map, index, keys) == FindRanges(map, index, keys, RangesFor(index, keys))
-----------------------------------------------------------------------------
(* processRequest. *)

\* (Variant of BothAreas that takes the rectangle of both.)
EitherArea(a, b) ==
  [r |-> Join(b.r, a.r), score |-> a.score + b.score, found |-> a.found \o b.found,
   relations |-> a.relations \o b.relations, pin |-> {}]

BothAreas(a, b) ==
  [r |-> Meet(b.r, a.r), score |-> a.score + b.score, found |-> a.found \o b.found,
   relations |-> a.relations \o b.relations, pin |-> {}]

\* Every area of one part with every area so far, where they meet.
Intersections(areas, best) ==
  LET few == Cut(areas)
      pairs == FlattenSeq([i \in DOMAIN few |-> [j \in DOMAIN best |-> BothAreas(few[i], best[j])]])
  IN Cut(SelectSeq(pairs, LAMBDA c : IsValid(c.r)))

\* The areas of one more part of the query.  Areas that do not meet leave nothing,
\* and the next part is then searched as if it were the first; a part that is not
\* found is skipped.
WithPart(step, part, areas) ==
  CASE part.number # 0 -> [step EXCEPT !.street = part.number]
    [] part.number = 0 /\ step.best = << >> -> [step EXCEPT !.best = areas, !.met = <<part.words>>]
    [] part.number = 0 /\ step.best # << >> /\ areas # << >> ->
         [step EXCEPT !.best = Intersections(areas, @), !.met = Append(@, part.words)]
    [] OTHER -> step

SearchPart ==
  /\ search.left # << >>
  /\ LET part == Head(search.left)
     IN search' = WithPart([search EXCEPT !.left = Tail(@), !.done = Append(@, part)], part,
                           FindExpression(search.map, search.index, WordKeys(part.words)))

\* checkIntersect: of every relation of an area something is left when its lines are
\* cropped to the area.
CheckIntersect(map, a) ==
  \A i \in DOMAIN a.relations :
    \E pts \in ToSet(Lines(LoadRelation(map[a.relations[i]]).shape)) : Crop(pts, a.r) # << >>

At(p) == [x0 |-> p.x, y0 |-> p.y, x1 |-> p.x, y1 |-> p.y]
Within(p, r) == p.x \in r.x0 .. r.x1 /\ p.y \in r.y0 .. r.y1
HasNumber(m, street) == Tag(m, "addr:housenumber") = <<street>>

\* The last of a street's houses with the number, the relations before the ways
\* before the points, gives the area its rectangle.
HouseRect(r, rel, street) ==
  LET rects == [i \in DOMAIN rel.points |-> [m |-> rel.points[i], r |-> At(rel.points[i])]]
                 \o [i \in DOMAIN rel.ways |-> [m |-> rel.ways[i], r |-> rel.ways[i].rect]]
                 \o [i \in DOMAIN rel.relations |->
                       [m |-> rel.relations[i], r |-> rel.relations[i].rect]]
      houses == SelectSeq(rects, LAMBDA h : HasNumber(h.m, street))
  IN IF street = 0 \/ Tag(rel, "type") \notin {<<"street">>, <<"associatedStreet">>} \/ houses = << >>
     THEN r ELSE Last(houses).r

\* Where the pin of a relation is set: at the place of its name if it is closed, and
\* in the middle of a single open line.
PinOf(rel, r) ==
  LET places == SelectSeq(rel.points, LAMBDA p :
                  Tag(p, "place") # << >> /\ Tag(p, "name") = Tag(rel, "name") /\ Within(p, r))
      line == rel.shape.line[rel.shape.opened[1]]
      middle == line[Len(line) \div 2 + 1]
      pin == IF IsClosed(rel) THEN IF places = << >> THEN {} ELSE {Head(places)}
             ELSE IF Len(rel.shape.opened) = 1 THEN {middle} ELSE {}
  IN {p \in pin : p.x # 0 /\ Within(p, r)}

WithPin(a, r, pin) == [a EXCEPT !.r = r, !.pin = IF pin = {} THEN @ ELSE pin]
Pinned(a, rel, r) == WithPin(a, r, PinOf(rel, r))

\* fillPin, for every relation of an area.
FillPin(map, a, street) ==
  FoldLeft(LAMBDA b, rel : Pinned(b, rel, HouseRect(b.r, rel, street)), a,
           [i \in DOMAIN a.relations |-> LoadRelation(map[a.relations[i]])])

\* All parts are done: the first of the areas that are valid and hold something of
\* their relations are the answers.
AnswerSearch ==
  /\ search.map # << >> /\ search.left = << >> /\ search.answers = << >>
  /\ LET good == SelectSeq(Cut(search.best),
                   LAMBDA a : IsValid(a.r) /\ CheckIntersect(search.map, a))
         few == SubSeq(good, 1, LowerOf(Len(good), MaxAnswers))
     IN search' = [search EXCEPT
          !.answers = <<[i \in DOMAIN few |-> FillPin(search.map, few[i], search.street)]>>]

StartSearch(s) ==
  /\ search = NoSearch
  /\ search' = [NoSearch EXCEPT !.map = s.map, !.index = Written(s.map), !.left = s.query]

EndSearch == search.answers # << >> /\ search' = NoSearch
-----------------------------------------------------------------------------
(* Properties. *)

HasWord(o, key) ==
  \E i \in DOMAIN o.tags : IsName(o.tags[i].key) /\ key \in ToSet(WordKeys(o.tags[i].value))

\* The greatest key of the word index of a kind.
LastWord(kind) ==
  LET text == search.index[kind].text IN IF text = << >> THEN Undefined ELSE Last(text).key

\* How often a word stands in the names of the objects of a kind.
Mentions(kind, key) ==
  LET Named(o) == {i \in DOMAIN o.tags : IsName(o.tags[i].key)}
      In(o) == MapThenSumSet(LAMBDA i : Times(key, WordKeys(o.tags[i].value)), Named(o))
  IN MapThenSumSet(LAMBDA id : In(search.map[id]),
                   {id \in DOMAIN search.map : search.map[id].kind = kind})

\* A word cannot be found among the objects of a kind if it is the last one in their
\* word index; and nowhere at all if it stands too often in all the others together,
\* where the first time in each kind does not count.
Findable(kind, key) == Mentions(kind, key) > 0 /\ LastWord(kind) # key
TooCommon(key) ==
  MapThenSumSet(LAMBDA kind : Mentions(kind, key) - 1,
                {kind \in Kinds : Findable(kind, key)}) >= MaxMatches


\* The comparison of a query with a name ends, and no name has a higher score than
\* one that has the words of the query and no others, in the same order.
ScoresAreRight ==
  \A i \in DOMAIN search.done : \A id \in DOMAIN search.map :
    LET keys == WordKeys(search.done[i].words)
        name == WordKeys(Tag(search.map[id], "name"))
        m == MatchScore(keys, name)
    IN /\ m.ends /\ m.score <= 500 * Len(keys)
       /\ m.score = 500 * Len(keys) <=> keys = name

Holds(a, b) == a.x0 <= b.x0 /\ b.x1 <= a.x1 /\ a.y0 <= b.y0 /\ b.y1 <= a.y1

\* Whatever has been found lies in an object for each part of the query that counts:
\* those that found something since the areas last had nothing in common.
PartsAreMet ==
  \A a \in ToSet(search.best) :
    /\ Len(a.found) = Len(search.met)
    /\ \A i \in DOMAIN search.met : \E id \in ToSet(a.found) :
         LET o == search.map[id]
         IN /\ \E k \in ToSet(WordKeys(search.met[i])) : HasWord(o, k)
            /\ Holds(AreaRect(o), a.r)
=============================================================================
