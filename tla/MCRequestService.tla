-------------------------- MODULE MCRequestService --------------------------
EXTENDS RequestService

Cls(v, z, zi, tz) == [tagValue |-> v, mask |-> z, zIndex |-> zi, textZIndex |-> tz]
Cond(k, o, c, cls) == [tagKey |-> k, opened |-> o, closed |-> c, classes |-> cls]
Idx(t, conds, sel, ex) ==
  [type |-> t, conditions |-> conds, selectors |-> sel, excludeSelectors |-> ex]
T(k, v) == [key |-> k, value |-> v]
Sel(k, v) == [tagKey |-> k, tagValue |-> v]
R(a, b, c, d) == [x0 |-> a, y0 |-> b, x1 |-> c, y1 |-> d]
P(a, b) == [x |-> a, y |-> b, tags |-> << >>]

MCIndexes ==
  << Idx("way",
       << Cond("highway", TRUE, FALSE, <<Cls(<<"primary">>, {8, 12}, 5, 0), Cls(Default, {12}, 3, 0)>>),
          Cond("area", TRUE, TRUE, <<Cls(Default, {12}, 5, 1)>>),
          Cond("area", FALSE, TRUE, <<Cls(<<"park">>, {8}, 2, 0)>>) >>,
       {}, {Sel("tunnel", Star)}),
     Idx("relation", <<Cond("boundary", TRUE, TRUE, <<Cls(Default, {8, 12}, 1, 0)>>)>>,
       {Sel("type", <<"land_area">>)}, {}),
     Idx("node", <<Cond("place", FALSE, FALSE, <<Cls(<<"town">>, {8, 12}, 7, 0)>>)>>,
       {Sel("name", Star)}, {}) >>
MCLocaleNames == {"name:fr"}
\* Two words have the same key.
MCLexicalKey == [w \in {"a", "A", "b", "z"} |->
                   CASE w \in {"a", "A"} -> 1 [] w = "b" -> 2 [] w = "z" -> 3]

(* Tiles. *)
\* All sides that rectangles of the map have, and the rectangles, 441 of them.
Ends2 == <<0, 3, 4, 60, 64, 127>>
Sides == FlattenSeq([a \in 1 .. 6 |-> [b \in 1 .. 7 - a |-> <<Ends2[a], Ends2[a + b - 1]>>]])
Rect(i) == LET x == Sides[(i % 21) + 1]
               y == Sides[(i \div 21) + 1]
           IN R(x[1], y[1], x[2], y[2])
WindowSides == {<<0, 0>>, <<0, 127>>, <<3, 4>>, <<60, 60>>, <<60, 64>>, <<64, 127>>}
Windows == {R(x[1], y[1], x[2], y[2]) : x \in WindowSides, y \in WindowSides}
Road == <<T("highway", <<"primary">>)>>
Object(kind, rect, closed, tags) ==
  [kind |-> kind, rect |-> rect, closed |-> closed, tags |-> tags, members |-> << >>]
TagSets == { Road, <<T("highway", <<"track">>), T("area", <<"park">>)>>,
             <<T("area", <<"park">>), T("tunnel", <<"yes">>)>>, <<T("area", <<"park">>)>>,
             <<T("boundary", <<"x">>), T("type", <<"land_area">>)>>, <<T("boundary", <<"x">>)>>,
             <<T("place", <<"town">>), T("name", <<"a">>)>>, <<T("place", <<"town">>)>> }
MCTiles ==
  {[map |-> [j \in 1 .. 55 |-> Object("way", Rect(8 * (j - 1) + k), FALSE, Road)],
    rect |-> q, zoom |-> 8] : k \in 0 .. 7, q \in Windows}
  \cup
  {[map |-> <<Object(k, R(60, 60, 60, 60), k # "node" /\ c, t), Object("way", R(0, 0, 64, 64), c, u),
              Object("relation", Unset, FALSE, <<T("boundary", <<"x">>), T("type", <<"land_area">>)>>)>>,
    rect |-> q, zoom |-> z] :
     k \in {"node", "way", "relation"}, c \in BOOLEAN, t \in TagSets, u \in TagSets,
     z \in {8, 12}, q \in {R(60, 60, 64, 64), R(100, 100, 127, 127)}}

(* Searches. *)
Words(s) == [words |-> s, number |-> 0]
Number(n) == [words |-> << >>, number |-> n]
Names == UNION {[1 .. n -> {"a", "A", "b"}] : n \in 1 .. 3}
Way(pts, r, tags) == [type |-> "way", points |-> pts, rect |-> r, tags |-> tags]
Square == << Way(<<P(10, 10), P(50, 10), P(50, 50)>>, R(10, 10, 50, 50), << >>),
             Way(<<P(50, 50), P(10, 50), P(10, 10)>>, R(10, 10, 50, 50), << >>),
             [type |-> "point", point |-> [x |-> 30, y |-> 30,
                tags |-> <<T("place", <<"town">>), T("name", <<"a">>)>>]] >>
Street == << Way(<<P(20, 20), P(24, 20), P(30, 20)>>, R(20, 20, 30, 20), << >>),
             Way(<<P(24, 22), P(26, 22), P(26, 24), P(24, 22)>>, R(24, 22, 26, 24),
                 <<T("addr:housenumber", <<7>>)>>),
             [type |-> "point", point |-> [x |-> 21, y |-> 21,
                tags |-> <<T("addr:housenumber", <<5>>)>>]] >>
Town(name) == [kind |-> "relation", rect |-> R(10, 10, 50, 50), closed |-> TRUE,
               tags |-> <<T("name", name), T("admin_level", <<8>>)>>, members |-> Square]
StreetOf(name) == [kind |-> "relation", rect |-> R(20, 20, 30, 24), closed |-> FALSE,
                   tags |-> <<T("type", <<"associatedStreet">>), T("name", name)>>,
                   members |-> Street]
Place(p, tags) == Object("node", At(p), FALSE, tags)
Last2 == Object("way", R(0, 0, 3, 3), FALSE, <<T("name", <<"z">>)>>)
Few == {<<"a">>, <<"b">>, <<"A", "b">>, <<"z">>}
MCSearches ==
  {[map |-> <<Place(P(0, 5), <<T("name", n)>>), Place(P(9, 9), <<T("name:fr", <<"z">>)>>)>>,
    query |-> <<Words(q)>>] : n \in Names, q \in Names}
  \cup
  {[map |-> <<Town(n), StreetOf(m), Place(p, <<T("name", <<"z">>), T("name:fr", k)>>), Last2>>,
    query |-> q] :
     n \in Few, m \in Few, k \in Few, p \in {P(30, 30), P(200, 200)},
     q \in {<<Words(<<"a">>), Words(<<"b">>), Words(<<"z">>)>>,
            <<Words(<<"b">>), Number(7), Words(<<"a">>)>>,
            <<Words(<<"z">>), Words(<<"b">>), Words(<<"a", "b">>)>>,
            <<Number(5), Words(<<"A", "b">>)>>}}

(* Relations. *)
A == P(10, 10)
B == P(20, 10)
C == P(20, 20)
D == P(10, 20)
Box(p, q) == [x0 |-> LowerOf(p.x, q.x), y0 |-> LowerOf(p.y, q.y),
              x1 |-> HigherOf(p.x, q.x), y1 |-> HigherOf(p.y, q.y)]
Simple(p, q) == Way(<<p, q>>, Box(p, q), << >>)
MCMembers ==
  {Simple(A, B), Simple(B, C), Simple(D, C), Simple(D, A), Simple(A, C),
   Way(<<B, A, C>>, Box(A, C), << >>), Way(<<A, B, C, A>>, Box(A, C), << >>),
   [type |-> "point", point |-> A],
   [type |-> "relation", tags |-> << >>, members |-> <<Simple(A, B), Simple(C, B)>>]}
Call(n, shape, limit) == [recurs |-> n, computeShape |-> shape, limit |-> limit, count |-> 0]
MCCalls == {Call(2, FALSE, {R(0, 0, 12, 12)}), Call(2, TRUE, {}), Call(3, TRUE, {})}

MCPointOf == <<"p1", "p2", "p3">>

(* The connection. *)
Url2(path) == [path |-> path]
SvgUrl(z, x, y) == [path |-> ".svg", z |-> z, x |-> x, y |-> y]
Request(url, content, header, fields) ==
  [url |-> url, content |-> content, header |-> header, fields |-> fields]
Pings == {Request(Url2("/ping"), c, h, f) : c \in 0 .. 3, h \in Headers, f \in {0, 3}}
MCScripts ==
  {[requests |-> <<r, Request(Url2("/ping"), 1, "exact", 0)>>, pipelined |-> p] : r \in Pings, p \in BOOLEAN}
  \cup
  {[requests |-> <<Request(u, 0, "none", 0)>>, pipelined |-> FALSE] :
     u \in {SvgUrl(1, 1, 0), SvgUrl(1, 2, 0), Url2("/geoloc"), Url2("/relation/get"), Url2("/other"),
            [path |-> ".png", z |-> 1, x |-> 5, y |-> 0]}}
  \cup
  {[requests |-> <<r>>, pipelined |-> FALSE] :
     r \in {Request(Url2("/geoloc"), 1, "exact", 0), Request(Url2("/ping"), 12, "tight", 0)}}
MCEnabled == {"/ping", "/geoloc", "/relation/get", ".svg", ".png"}

(* What is printed. *)
N(type, n) == [type |-> type, number |-> n]
Text(n) == [type |-> "text", text |-> [i \in 1 .. n |-> Letter + i]]
Numbers ==
  {N("uint8", n) : n \in 0 .. 255} \cup {N("int8", n) : n \in -128 .. 127}
  \cup {N("uint16", n) : n \in {0, 9, 10, 99, 100, 9999, 10000, 65535}}
  \cup {N("int16", n) : n \in {-32768, -32767, -10000, -9999, -10, -1, 0, 99, 1000, 32767}}
  \cup {N(t, n) : t \in {"uint32", "uint64"}, n \in {0, 9, 10, 99, 100, 999, 1000, 1023}}
  \cup {N(t, n) : t \in {"int32", "int64"}, n \in {-512, -511, -100, -99, -1, 0, 7, 100, 511}}
Texts == {Text(1), Text(3), Text(5), N("int32", -20)}
MCPages == {<<n>> : n \in Numbers} \cup UNION {[1 .. n -> Texts] : n \in 2 .. 4}
=============================================================================
