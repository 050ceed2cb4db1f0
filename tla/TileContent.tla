----------------------------- MODULE TileContent -----------------------------
(***************************************************************************)
(* services/renderers/SvgRenderer.cpp: which objects of the map a tile      *)
(* shows, and in what style.  The area indexes are searched as IndexFile    *)
(* searches them; the key cache is taken empty, which makes no difference   *)
(* (IndexFile!FindIsRight).  What is drawn for an object is left out.       *)
(***************************************************************************)
EXTENDS MapIndexes

CONSTANTS CacheSize, Window, Block, NoKey   \* of IndexFile

Searched(entries) ==
  INSTANCE IndexFile WITH
    Keys <- 0 .. 2 ^ PosBits, Queries <- {}, FlushSize <- 1, MaxItems <- 0, MaxQuery <- 0,
    file <- entries, buffer <- << >>, sorted <- TRUE, last_inserted <- NoKey,
    cacheKey <- [c \in 0 .. CacheSize - 1 |-> NoKey], searching <- TRUE

\* The items that get_range returns for two boxes.
GetRange(entries, gMin, gMax) ==
  IF entries = << >> THEN {}
  ELSE {entries[p + 1].item :
          p \in Searched(entries)!RangePositions(BoxKey(gMin), BoxKey(gMax))}

\* The item that find returns for a key, or nothing.
FindItem(entries, key) ==
  LET r == Searched(entries)!Find(key)
  IN IF r.found THEN {entries[r.pos + 1].item} ELSE {}
-----------------------------------------------------------------------------
\* (Variant of RangeEnd that ends with the box itself.)
RangeEndAtBox(g) == g

\* Where the boxes inside a box end.
RangeEnd(g) ==
  SetPos(g, IF g.mask < PosBits - 1 THEN (g.pos + 2 ^ g.mask) % 2 ^ PosBits
            ELSE 2 ^ PosBits - 1)

\* The boxes that hold a box, up to the whole range of numbers.
Parents(g) ==
  {LET p == SetMaskLength(g, m) IN SetPos(p, Shifted(p.pos, m)) : m \in g.mask + 1 .. PosBits}

\* The entries that iterate looks at for a window: those in the boxes of the
\* window and those of the boxes around them.
Looked(entries, window) ==
  LET boxes == ToSet(MakeGeoBoxSet(window))
  IN UNION {GetRange(entries, g, RangeEnd(g)) : g \in boxes}
       \cup UNION {GetRange(entries, p, p) : p \in UNION {Parents(g) : g \in boxes}}

InView(e, rect, zoom) == zoom \in e.zmMask /\ Overlaps(e.r, Doubled(rect))
-----------------------------------------------------------------------------
\* The classes that fit an object at a zoom level, in the order of config.xml.
Fitting(d, o, zoom, closed) ==
  LET Fits(cd, cl) ==
        /\ Tag(o, cd.tagKey) # << >>
        /\ o.kind = "node" \/ (closed /\ cd.closed) \/ (~closed /\ cd.opened)
        /\ zoom \in cl.mask /\ cl.tagValue \in {Default, Tag(o, cd.tagKey)}
  IN FlattenSeq([c \in DOMAIN d.conditions |->
       SelectSeq(d.conditions[c].classes, LAMBDA cl : Fits(d.conditions[c], cl))])

Above(cl, other) ==
  \/ other.zIndex < cl.zIndex
  \/ other.zIndex = cl.zIndex /\ other.textZIndex < cl.textZIndex

\* getCssClass: the uppermost of the classes that fit, the first of equal ones.
GetCssClass(d, o, zoom, closed) ==
  LET fitting == Fitting(d, o, zoom, closed)
      upper[n \in 0 .. Len(fitting)] ==
        IF n = 0 THEN {}
        ELSE IF \A cl \in upper[n - 1] : Above(fitting[n], cl) THEN {fitting[n]}
        ELSE upper[n - 1]
  IN upper[Len(fitting)]

\* iterate: the objects of one index that a tile shows, each with its class.
Iterate(map, entries, d, rect, zoom) ==
  UNION {{[id |-> e.id, class |-> cl] :
            cl \in GetCssClass(d, map[e.id], zoom, ClosedBit \in e.zmMask)} :
           e \in {f \in Looked(entries, Doubled(rect)) : InView(f, rect, zoom)}}

\* All zoom levels that the classes of an index are for.
IndexMask(d) == UNION {UNION {cl.mask : cl \in ToSet(cd.classes)} : cd \in ToSet(d.conditions)}

\* renderItems: for every index that has something at this zoom level, what of it
\* the tile shows.  written holds what index.cpp wrote for each kind of objects.
RenderItems(map, written, rect, zoom) ==
  [i \in DOMAIN Indexes |->
     IF zoom \in IndexMask(Indexes[i])
     THEN Iterate(map, written[Indexes[i].type].areas[i], Indexes[i], rect, zoom)
     ELSE {}]
=============================================================================
