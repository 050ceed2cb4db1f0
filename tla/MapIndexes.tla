----------------------------- MODULE MapIndexes -----------------------------
(***************************************************************************)
(* index.cpp: the pass over the compiled map that fills the area indexes    *)
(* that tiles are drawn from and the word indexes that places are searched  *)
(* in.  Everything here is a function of the map: a sequence of objects     *)
(* [kind, rect, closed, tags], the number of an object in it being its id.  *)
(*                                                                          *)
(* A value of a tag is the sequence of its words, as the program cuts it at *)
(* spaces and dashes; <<>> is the value of a tag that is absent or empty.   *)
(* A mask is the set of the numbers of its bits: zoom levels, and bit 20    *)
(* for a closed object.                                                     *)
(***************************************************************************)
EXTENDS GeoBoxes, SequencesExt

CONSTANTS
  Indexes,      \* the <index> elements of config.xml, a sequence of IndexDesc
  LocaleNames,  \* the keys "name:xx" of the languages in config.xml
  LexicalKey    \* word -> number: makeLexicalKey, which different words may share

ClosedBit == 20
Star == <<"*">>
Default == <<"default">>

ASSUME IndexesAssumption ==
  /\ \A i \in DOMAIN Indexes : Indexes[i].type \in {"relation", "way", "node"}
  /\ \A w \in DOMAIN LexicalKey : LexicalKey[w] \in Nat

\* Tags::operator[]: the value of the first tag with this key.
Tag(o, key) ==
  LET at == {i \in DOMAIN o.tags : o.tags[i].key = key}
  IN IF at = {} THEN << >>
     ELSE o.tags[CHOOSE i \in at : \A j \in at : i <= j].value

IsName(key) == key = "name" \/ key \in LocaleNames

\* The words of a value as keys of the word indexes.
WordKeys(value) == FoldLeft(LAMBDA keys, w : Append(keys, LexicalKey[w]), << >>, value)
-----------------------------------------------------------------------------
(* One tag of an object against one index. *)

Selected(o, sel) ==
  IF sel.tagValue = Star THEN Tag(o, sel.tagKey) # << >>
  ELSE Tag(o, sel.tagKey) = sel.tagValue

\* Some <select> if there are any, and no <exclude>.
Accepted(d, o) ==
  /\ d.selectors = {} \/ \E sel \in d.selectors : Selected(o, sel)
  /\ \A sel \in d.excludeSelectors : ~Selected(o, sel)

\* Nodes have no form; ways and relations are wanted closed, open, or both.
OfForm(o, cd) ==
  o.kind = "node" \/ (o.closed /\ cd.closed) \/ (~o.closed /\ cd.opened)

\* The classes of the index that a tag of the object belongs to.
ClassesOf(d, o, tag) ==
  UNION {{cd.classes[i] : i \in {j \in DOMAIN cd.classes :
                                   cd.classes[j].tagValue \in {tag.value, Default}}} :
           cd \in {c \in ToSet(d.conditions) : c.tagKey = tag.key /\ OfForm(o, c)}}

\* The index entry of an object for one of its tags, without its box.
Masked(map, id, d, tag) ==
  LET o == map[id]
      zooms == UNION {cl.mask : cl \in ClassesOf(d, o, tag)}
      closed == IF o.closed /\ o.kind # "node" THEN {ClosedBit} ELSE {}
  IN [id |-> id, r |-> o.rect, zmMask |-> zooms \cup closed]

Boxes(o) ==
  IF o.kind = "node" THEN <<PointGeoBox(o.rect.x0, o.rect.y0)>> ELSE MakeGeoBoxSet(o.rect)

Entries(boxes, item) == [b \in DOMAIN boxes |-> [key |-> BoxKey(boxes[b]), item |-> item]]

\* What the tags of an object append to an index, one entry for each box.
AreasOf(map, id, d) ==
  LET o == map[id]
      ForTag(tag) ==
        IF d.type = o.kind /\ ClassesOf(d, o, tag) # {} /\ Accepted(d, o)
        THEN Entries(Boxes(o), Masked(map, id, d, tag))
        ELSE << >>
  IN FlattenSeq([t \in DOMAIN o.tags |-> ForTag(o.tags[t])])

\* What the names of an object append to the word index of its kind.
WordsOf(map, id) ==
  LET o == map[id]
      ForTag(tag) ==
        IF IsName(tag.key)
        THEN [w \in DOMAIN tag.value |->
                [key |-> LexicalKey[tag.value[w]], item |-> [id |-> id, r |-> o.rect]]]
        ELSE << >>
  IN FlattenSeq([t \in DOMAIN o.tags |-> ForTag(o.tags[t])])

\* flush and sort.
SortedIndex(entries) == SortSeq(entries, LAMBDA e, f : e.key < f.key)

\* The pass over the objects of one kind: its area indexes and its word index.
Pass(map, kind) ==
  LET ids == {id \in DOMAIN map : map[id].kind = kind}
      Over(Op(_)) == SortedIndex(FlattenSeq([id \in DOMAIN map |->
                                    IF id \in ids THEN Op(id) ELSE << >>]))
  IN [areas |-> [i \in DOMAIN Indexes |-> Over(LAMBDA id : AreasOf(map, id, Indexes[i]))],
      text |-> Over(LAMBDA id : WordsOf(map, id))]

RelationPass(map) == Pass(map, "relation")
WayPass(map) == Pass(map, "way")
NodePass(map) == Pass(map, "node")

\* Where a word ends in a word index and another one follows.
Ends(text) ==
  SetToSortSeq({i \in 1 .. Len(text) - 1 : text[i].key # text[i + 1].key}, <)


\* The index of ranges: where in the word index, counted from 0, the entries of
\* each word are.  A range is written when the next word starts, and the last
\* word of the index has none.
RangesOf(text) ==
  LET e == Ends(text)
  IN [i \in DOMAIN e |->
        [key |-> text[e[i]].key,
         item |-> [first |-> IF i = 1 THEN 0 ELSE e[i - 1], last |-> e[i] - 1]]]

\* The files of one kind of objects.
WithRanges(pass) == [areas |-> pass.areas, text |-> pass.text, ranges |-> RangesOf(pass.text)]
NodeFiles(map) == WithRanges(NodePass(map))
WayFiles(map) == WithRanges(WayPass(map))
RelationFiles(map) == WithRanges(RelationPass(map))

\* All that index.cpp writes for a map.
Written(map) ==
  [node |-> NodeFiles(map), way |-> WayFiles(map), relation |-> RelationFiles(map)]
=============================================================================
