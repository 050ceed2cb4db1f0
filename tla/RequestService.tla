--------------------------- MODULE RequestService ---------------------------
(***************************************************************************)
(* A request from its first byte to the last byte of its answer: it is read *)
(* and routed (HttpExchange), served from the compiled map (TileContent for *)
(* a tile, Geolocation for a search, RelationShapes for a relation), what   *)
(* is drawn is printed (StringBuffer), and the answer is written.  What a   *)
(* service keeps while it serves is gone when it returns.                   *)
(*                                                                          *)
(* The queues between the threads that do this are those of ServerPipeline. *)
(* Of all that one connection's requests share with those of others there   *)
(* is only the cache of points (PointCache), whose loads belong to the      *)
(* requests of other connections; BOUND: they come while this connection    *)
(* has no client, and a client comes only before the first of them.         *)
(***************************************************************************)
EXTENDS Geolocation, PointCache, HttpExchange, StringBuffer

CONSTANTS
  Tiles,       \* [map, rect, zoom] that are drawn
  Calls,       \* the calls of loadRelation
  Pages        \* bound: sequences of pieces that are printed on a page

\* Whoever wants the shape of a relation loads it without a limit (load<Relation> and
\* SvgRenderer).
ASSUME CallAssumption ==
  \A c \in Calls :
    /\ DOMAIN c = {"recurs", "computeShape", "limit", "count"}
    /\ c.recurs \in {2, 3} /\ c.computeShape \in BOOLEAN /\ c.count = 0
    /\ c.computeShape => c.limit = {}

\* What is printed are pieces that there is an operator<< for.
ASSUME PageAssumption ==
  \A pieces \in Pages :
    pieces \in Seq(ToSet(pieces)) /\ \A p \in ToSet(pieces) : IsPiece(p)

VARIABLES tile,   \* the tile that is drawn: [map, rect, zoom, shown]
          ink     \* the page that is printed: [path, page, pieces, drawn, left]

vars == <<shapeVars, search, cacheVars, httpVars, tile, ink>>

serving == <<shapeVars, search, tile, ink>>

NoTile == [map |-> << >>]
NoInk == [page |-> << >>]
BlankPage == [path |-> EmptyBuffer, page |-> EmptyBuffer, pieces |-> << >>, drawn |-> << >>,
              left |-> << >>]

Init ==
  /\ ShapeInit /\ search = NoSearch /\ CacheInit /\ HttpInit
  /\ tile = NoTile /\ ink = NoInk

Idle == loading = NoLoad /\ search = NoSearch /\ tile = NoTile /\ ink = NoInk
Serves(service) == at = "framed" /\ GetService(Url(message)) = service
-----------------------------------------------------------------------------
(* A tile: what it shows is found, and then printed. *)

DrawTile ==
  /\ Serves("Tile") /\ Idle
  /\ \E t \in Tiles :
       tile' = [map |-> t.map, rect |-> t.rect, zoom |-> t.zoom,
                shown |-> RenderItems(t.map, Written(t.map), t.rect, t.zoom)]
  /\ UNCHANGED <<shapeVars, search, cacheVars, httpVars, ink>>

StartPage ==
  /\ tile # NoTile
  /\ ink' = BlankPage /\ tile' = NoTile
  /\ UNCHANGED <<shapeVars, search, cacheVars, httpVars>>

\* What is printed for the objects of a tile is abstracted to some pieces.
FillPage ==
  /\ ink = BlankPage
  /\ \E pieces \in Pages : ink' = [ink EXCEPT !.left = pieces]
  /\ UNCHANGED <<shapeVars, search, tile, cacheVars, httpVars>>

\* A path of a line is printed into a buffer of its own, which is cleared before.
PrintPiece ==
  /\ ink # NoInk /\ ink.left # << >>
  /\ LET p == Head(ink.left)
     IN ink' = [ink EXCEPT !.path = Streamed(@, p), !.pieces = Append(@, p), !.left = Tail(@)]
  /\ UNCHANGED <<shapeVars, search, tile, cacheVars, httpVars>>

\* A path that is no point is put on the page, and one that is one is left out.
EndPath(good) ==
  /\ ink # NoInk /\ ink.pieces # << >>
  /\ LET path == [ink EXCEPT !.path = Clear(@), !.pieces = << >>]
     IN ink' = IF good THEN [path EXCEPT !.page = Concat(@, Flush(ink.path).out),
                                         !.drawn = @ \o ink.pieces]
               ELSE path
  /\ UNCHANGED <<shapeVars, search, tile, cacheVars, httpVars>>

\* The page is the answer (BOUND: of one of AnswerLengths, whatever was printed).
EndPage(length) ==
  /\ ink # NoInk /\ ink.pieces = << >> /\ ink.left = << >>
  /\ ink' = NoInk /\ StartAnswer(length)
  /\ UNCHANGED <<shapeVars, search, tile, cacheVars>>
-----------------------------------------------------------------------------
(* A search, whose parameters are in the content of the request. *)

Search ==
  /\ Serves("/geoloc") /\ Idle /\ Body(message) # << >>
  /\ \E s \in Searches : StartSearch(s)
  /\ UNCHANGED <<shapeVars, tile, ink, cacheVars, httpVars>>

SearchForNothing(length) ==
  /\ Serves("/geoloc") /\ Idle /\ Body(message) = << >>
  /\ StartAnswer(length)
  /\ UNCHANGED <<serving, cacheVars>>

SearchOn ==
  /\ SearchPart \/ AnswerSearch
  /\ UNCHANGED <<shapeVars, tile, ink, cacheVars, httpVars>>

ReturnSearch(length) ==
  /\ EndSearch /\ StartAnswer(length)
  /\ UNCHANGED <<shapeVars, tile, ink, cacheVars>>
-----------------------------------------------------------------------------
(* A relation. *)

ShowRelation ==
  /\ Serves("/relation/get") /\ Idle
  /\ \E call \in Calls : StartLoading(call)
  /\ UNCHANGED <<search, tile, ink, cacheVars, httpVars>>

LoadMember ==
  /\ loading # NoLoad
  /\ \E m \in Members : LinkMember(m)
  /\ UNCHANGED <<search, tile, ink, cacheVars, httpVars>>

EndRelation(length) ==
  /\ ReturnRelation /\ StartAnswer(length)
  /\ UNCHANGED <<search, tile, ink, cacheVars>>
-----------------------------------------------------------------------------
(* The connection, and the loads of points by others. *)

Exchange ==
  /\ \/ AcceptClient /\ order = << >> /\ \A t \in Loaders : loader[t] = NotLoading
     \/ SendRequest \/ ReceiveNothing \/ SendFails \/ ReuseConnection
     \/ \E n \in 1 .. Len(inbox) : Receive(n)
     \/ \E n \in 1 .. Len(answer) - written : Send(n)
     \/ \E length \in AnswerLengths : AnswerAtOnce(length)
  /\ UNCHANGED <<serving, cacheVars>>

LoadPoints == at = "closed" /\ CacheNext /\ UNCHANGED <<serving, httpVars>>

Next ==
  \/ Exchange
  \/ DrawTile \/ StartPage \/ FillPage \/ PrintPiece \/ \E good \in BOOLEAN : EndPath(good)
  \/ Search \/ SearchOn
  \/ ShowRelation \/ LoadMember
  \/ \E length \in AnswerLengths :
       EndPage(length) \/ SearchForNothing(length) \/ ReturnSearch(length) \/ EndRelation(length)
  \/ LoadPoints

Spec == Init /\ [][Next]_vars
-----------------------------------------------------------------------------
(* Properties. *)

\* A tile shows exactly those objects of each index that the index is for, that
\* reach into the window twice as wide around it, and that some class of the index
\* fits at this zoom level and for this form; each once, in the uppermost of these.
TileIsComplete ==
  tile # NoTile =>
    \A i \in DOMAIN Indexes :
      LET d == Indexes[i]
          FittingClasses(o) == ToSet(Fitting(d, o, tile.zoom, o.closed))
          Wanted(id) ==
            LET o == tile.map[id]
            IN /\ o.kind = d.type /\ Accepted(d, o) /\ FittingClasses(o) # {}
               /\ Overlaps(o.rect, Doubled(tile.rect))
      IN /\ {s.id : s \in tile.shown[i]} = {id \in DOMAIN tile.map : Wanted(id)}
         /\ \A s \in tile.shown[i] : \A t \in tile.shown[i] : s.id = t.id => s = t
         /\ \A s \in tile.shown[i] :
              /\ s.class \in FittingClasses(tile.map[s.id])
              /\ \A cl \in FittingClasses(tile.map[s.id]) : ~Above(cl, s.class)

TextOf(p) == LET b == Streamed(EmptyBuffer, p) IN b.out \o b.held
TextOfAll(pieces) == FlattenSeq([i \in DOMAIN pieces |-> TextOf(pieces[i])])

\* Every piece is printed as it reads, and the path and the page are the pieces that
\* were printed to them, in their order, however they fall on the ends of the
\* buffers.
TextIsWhole ==
  ink # NoInk =>
    /\ \A p \in ToSet(ink.drawn \o ink.pieces) : Reads(TextOf(p), p)
    /\ ink.path.out \o ink.path.held = TextOfAll(ink.pieces)
    /\ ink.page.out \o ink.page.held = TextOfAll(ink.drawn)
=============================================================================
