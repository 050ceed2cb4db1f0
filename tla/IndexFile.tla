------------------------------ MODULE IndexFile ------------------------------
(***************************************************************************)
(* helpers/FileIndex.hpp: an index file, a sequence of items each under a   *)
(* key.  It is filled through a buffer, then flushed and, if it believes it *)
(* has to be, sorted, and from then on it is searched by bisection; that is *)
(* how compile.cpp uses nodeIdIndex and wayIdIndex, and how index.cpp and   *)
(* the server use the others.  The first levels of the bisection read their *)
(* keys through a cache that is never emptied: a cell stands for one place  *)
(* in the tree of bisections, not for a position in the file.               *)
(*                                                                          *)
(* An item is the number of its append, the key file and the item file are  *)
(* one sequence of records here (IndexSort keeps them apart), and positions *)
(* are counted from 0 as in the code.  KeyIndex is the same without items.  *)
(***************************************************************************)
EXTENDS Integers, Sequences, FiniteSets, Functions

CONSTANTS Keys,        \* the keys that are appended, numbers
          Queries,     \* the keys that are searched for, numbers
          FlushSize,   \* FILEINDEX_RAWFLUSHSIZE
          CacheSize,   \* cacheSize, the number of cells
          Window,      \* below 2048 keys the rest of a search reads them all at once
          Block,       \* get_range reads 100 keys at a time
          MaxItems,    \* bound: items in a file
          MaxQuery,    \* bound: keys that findKeys is asked for at once
          NoKey        \* a cell that is not filled

ASSUME IndexAssumption ==
  /\ Keys \subseteq Int /\ Queries \subseteq Int
  /\ FlushSize \in Nat \ {0} /\ CacheSize \in Nat \ {0, 1}
  /\ Window \in Nat \ {0} /\ Block \in Nat \ {0}
  /\ MaxItems \in Nat /\ MaxQuery \in Nat
  /\ NoKey \notin Keys

VARIABLES
  file,           \* the records on disk
  buffer,         \* the records appended and not yet flushed
  sorted,
  last_inserted,  \* NoKey before the first append
  cacheKey,       \* per cell, the key it has been filled with
  searching       \* has the index been frozen, and is searched from now on?

vars == <<file, buffer, sorted, last_inserted, cacheKey, searching>>

Cells == 0 .. CacheSize - 1

Init ==
  /\ file = <<>>
  /\ buffer = <<>>
  /\ sorted = TRUE
  /\ last_inserted = NoKey
  /\ cacheKey = [c \in Cells |-> NoKey]
  /\ searching = FALSE

Size == Len(file)
FileKey(pos) == file[pos + 1].key
Lesser(a, b) == IF a < b THEN a ELSE b
-----------------------------------------------------------------------------
(* Filling. *)

\* (Variant of AppendKey that compares before it flushes.)
AppendKeyUncompared(k) ==
  LET b == Append(buffer, [key |-> k, item |-> Len(file) + Len(buffer)])
      full == Len(b) = FlushSize
  IN
  /\ Len(file) + Len(b) <= MaxItems
  /\ file' = IF full THEN file \o b ELSE file
  /\ buffer' = IF full THEN <<>> ELSE b
  /\ sorted' = (sorted /\ ~(Len(file) > 0 /\ k < last_inserted))
  /\ last_inserted' = k
  /\ UNCHANGED cacheKey

\* (Variant of AppendKey whose flush leaves bufferCount as it is.)
AppendKeyAgain(k) ==
  LET b == Append(buffer, [key |-> k, item |-> Len(file) + Len(buffer)]) IN
  /\ Len(file) + Len(b) <= MaxItems
  /\ file' = IF Len(b) = FlushSize THEN file \o b ELSE file
  /\ buffer' = b
  /\ sorted' = sorted
  /\ last_inserted' = k
  /\ UNCHANGED cacheKey

\* append: a full buffer is flushed first, and only an index that has something
\* in its file compares the key with the one before.
AppendKey(k) ==
  LET b == Append(buffer, [key |-> k, item |-> Len(file) + Len(buffer)])
      full == Len(b) = FlushSize
  IN
  /\ Len(file) + Len(b) <= MaxItems
  /\ file' = IF full THEN file \o b ELSE file
  /\ buffer' = IF full THEN <<>> ELSE b
  /\ sorted' = (sorted /\ ~(Len(file') > 0 /\ last_inserted # NoKey /\ k < last_inserted))
  /\ last_inserted' = k
  /\ UNCHANGED cacheKey

InOrder(records) ==
  \A i \in 1 .. Len(records) - 1 : records[i].key <= records[i + 1].key

\* What a sort may leave: the same records, in the order of their keys.
Sorted(records) ==
  {s \in {[i \in DOMAIN records |-> records[p[i]]] :
            p \in {q \in [DOMAIN records -> DOMAIN records] : IsInjective(q)}} : InOrder(s)}

\* flush, and sort if the index is not known to be sorted.
FlushAndSort ==
  /\ buffer' = <<>>
  /\ IF sorted THEN file' = file \o buffer ELSE file' \in Sorted(file \o buffer)
  /\ sorted' = TRUE
  /\ UNCHANGED <<last_inserted, cacheKey>>
-----------------------------------------------------------------------------
(* Searching.  A search yields what it finds, and the cells it has read with *)
(* the positions it has read them for.                                       *)

\* getAndCacheKey
KeyAt(cell, pos) == IF cacheKey[cell] # NoKey THEN cacheKey[cell] ELSE FileKey(pos)

\* What a bisection has left: the positions between two ends, and the cells for them.
Ranges == [lo : 0 .. Size, hi : 0 .. Size, cLo : Cells, cHi : Cells]
Whole == [lo |-> 0, hi |-> Size - 1, cLo |-> 0, cHi |-> CacheSize - 1]
Pivot(r) == (r.lo + r.hi) \div 2
PivotCell(r) == (r.cLo + r.cHi) \div 2
LowerHalf(r) == [r EXCEPT !.hi = Pivot(r), !.cHi = PivotCell(r)]
UpperHalf(r) == [r EXCEPT !.lo = Pivot(r), !.cLo = PivotCell(r)]

\* (Variant of Cached that goes on when there is no cell left in between.)
CachedDeeper(r) == r.hi - r.lo >= Window /\ r.cHi - r.cLo > 0

\* The key at the middle of a range, by the cache or from the file.
Cached(r) == r.hi - r.lo >= Window /\ r.cHi - r.cLo > 1
PivotKey(r) == IF Cached(r) THEN KeyAt(PivotCell(r), Pivot(r)) ELSE FileKey(Pivot(r))
PivotRead(r) == IF Cached(r) THEN {<<PivotCell(r), Pivot(r)>>} ELSE {}

FirstKey == KeyAt(0, 0)
\* (Variant of LastKey in the last cell but one.)
LastKeyOneLower == KeyAt(CacheSize - 2, Size - 1)

LastKey == KeyAt(CacheSize - 1, Size - 1)
FirstRead == {<<0, 0>>}
LastRead == {<<CacheSize - 1, Size - 1>>}

NotFound == [found |-> FALSE, pos |-> 0, read |-> {}]

\* The bisection of find.
Bisection(key) ==
  LET bisect[r \in Ranges] ==
        IF r.hi - r.lo <= 1 THEN NotFound
        ELSE LET half == IF PivotKey(r) > key THEN bisect[LowerHalf(r)]
                         ELSE IF PivotKey(r) = key
                           THEN [found |-> TRUE, pos |-> Pivot(r), read |-> {}]
                         ELSE bisect[UpperHalf(r)]
             IN [half EXCEPT !.read = @ \cup PivotRead(r)]
  IN bisect

\* find: the first, the last, and then the bisection between them.
Find(key) ==
  IF Size = 0 THEN NotFound
  ELSE IF FirstKey >= key THEN [found |-> FirstKey = key, pos |-> 0, read |-> FirstRead]
  ELSE IF LastKey <= key
    THEN [found |-> LastKey = key, pos |-> Size - 1, read |-> FirstRead \cup LastRead]
  ELSE [Bisection(key)[Whole] EXCEPT !.read = @ \cup FirstRead \cup LastRead]

\* The bisection of findLastLesser.
LesserBisection(key) ==
  LET bisect[r \in Ranges] ==
        IF r.hi - r.lo <= 1 THEN [pos |-> r.lo, read |-> {}]
        ELSE LET half == IF PivotKey(r) >= key THEN bisect[LowerHalf(r)]
                         ELSE bisect[UpperHalf(r)]
             IN [half EXCEPT !.read = @ \cup PivotRead(r)]
  IN bisect

\* findLastLesser: the position before the first key that is not less, or 0.
FindLastLesser(key) ==
  IF FirstKey >= key THEN [pos |-> 0, read |-> FirstRead]
  ELSE IF LastKey < key THEN [pos |-> Size - 1, read |-> FirstRead \cup LastRead]
  ELSE [LesserBisection(key)[Whole] EXCEPT !.read = @ \cup FirstRead \cup LastRead]

\* (Variant of BlockEnd that counts the block from 1.)
BlockEndLong(from) == Lesser(from + Block, Size - 1)

\* The last position that get_range reads in the block that starts at from.
BlockEnd(from) == Lesser(from + Block - 1, Size - 1)

\* The first position in a block whose key is beyond the range, or the end of the block.
Stop(from, kMax) ==
  LET beyond == {p \in from .. BlockEnd(from) : FileKey(p) > kMax}
  IN IF beyond = {} THEN BlockEnd(from) + 1 ELSE CHOOSE p \in beyond : \A q \in beyond : p <= q

\* The blocks that get_range reads, up to the first key beyond the range; iMin counts
\* the keys in front of it.
Scan(kMin, kMax) ==
  LET scan[x \in [from : 0 .. Size, iMin : Nat]] ==
        LET stop == Stop(x.from, kMax)
            below == {p \in x.from .. Lesser(stop, BlockEnd(x.from)) : FileKey(p) < kMin}
            iMin == x.iMin + Cardinality(below)
        IN IF stop - x.from = Block THEN scan[[from |-> x.from + Block, iMin |-> iMin]]
           ELSE iMin .. Lesser(stop, Size - 1)
  IN scan

\* get_range: from the last lesser key on, keys are read block by block up to the
\* first one beyond the range; the items from the first key in the range to that
\* one, or to the end of the file, are returned.  (No caller excludes a bound.)
RangePositions(kMin, kMax) ==
  LET start == FindLastLesser(kMin).pos
  IN Scan(kMin, kMax)[[from |-> start, iMin |-> start]]

\* The positions findKeysIterate gives to the keys kd .. kf of ks, for those it
\* finds in a range, and the cells it reads.  ks is sorted, and the keys kd .. kf
\* lie strictly between the keys at the ends of the range.
KeysBisection(ks) ==
  LET none == [at |-> {}, read |-> {}]
      Both(a, b) == [at |-> a.at \cup b.at, read |-> a.read \cup b.read]
      it[x \in [kd : 1 .. Len(ks) + 1, kf : 0 .. Len(ks), r : Ranges]] ==
        LET r == x.r
            key == PivotKey(r)
            Here(keys) == [at |-> {i \in keys : ks[i] = key} \X {Pivot(r)}, read |-> PivotRead(r)]
            Count(keys) == Cardinality({i \in keys : ks[i] = key})
            lesser == Cardinality({i \in x.kd .. x.kf : ks[i] < key})
            after == x.kd + lesser + Count(x.kd .. Len(ks))
        IN IF r.hi < r.lo + 2 \/ x.kd > x.kf THEN none
           ELSE IF key = ks[x.kd]
             THEN Both(Here(x.kd .. Len(ks)), it[[x EXCEPT !.kd = @ + Count(x.kd .. Len(ks))]])
           ELSE IF key = ks[x.kf]
             THEN Both(Here(1 .. x.kf), it[[x EXCEPT !.kf = @ - Count(1 .. x.kf)]])
           ELSE IF key < ks[x.kd] THEN Both(Here({}), it[[x EXCEPT !.r = UpperHalf(r)]])
           ELSE IF key > ks[x.kf] THEN Both(Here({}), it[[x EXCEPT !.r = LowerHalf(r)]])
           ELSE Both(Here(x.kd .. Len(ks)),
                     Both(it[[x EXCEPT !.kf = x.kd + lesser - 1, !.r = LowerHalf(r)]],
                          it[[x EXCEPT !.kd = after, !.r = UpperHalf(r)]]))
  IN it

IdxNotFound == -1

\* findKeys for a sorted sequence of keys: the results start as 0; the keys that
\* are the first or the last of the file, or between them, are looked for.
FindKeys(ks) ==
  LET kd == 1 + Cardinality({i \in DOMAIN ks : ks[i] <= FirstKey})
      kf == Len(ks) - Cardinality({i \in DOMAIN ks : ks[i] >= LastKey})
      between == KeysBisection(ks)[[kd |-> kd, kf |-> kf, r |-> Whole]]
      Result(i) ==
        IF ks[i] = LastKey /\ kd <= Len(ks) THEN Size - 1
        ELSE IF i \in kd .. kf
          THEN IF \E p \in 0 .. Size : <<i, p>> \in between.at
               THEN CHOOSE p \in 0 .. Size : <<i, p>> \in between.at
               ELSE IdxNotFound
        ELSE 0
  IN [result |-> [i \in DOMAIN ks |-> Result(i)],
      read |-> FirstRead \cup (IF kd <= Len(ks) THEN LastRead ELSE {})
                 \cup (IF kd <= kf THEN between.read ELSE {})]

\* The cells that a search has read are filled, unless they were already.
Fill(read) ==
  /\ cacheKey' = [c \in Cells |->
                    IF cacheKey[c] = NoKey /\ \E p \in 0 .. Size : <<c, p>> \in read
                    THEN FileKey(CHOOSE p \in 0 .. Size : <<c, p>> \in read)
                    ELSE cacheKey[c]]
  /\ UNCHANGED <<file, buffer, sorted, last_inserted>>

\* The sorted sequences of one to MaxQuery keys, with repetitions: a closed way
\* names its first node twice.
KeyLists ==
  UNION {{ks \in [1 .. n -> Queries] : \A i \in 1 .. n - 1 : ks[i] <= ks[i + 1]} :
           n \in 1 .. MaxQuery}

(* The programs first fill an index, then freeze it, then search it. *)
Insert == ~searching /\ (\E k \in Keys : AppendKey(k)) /\ UNCHANGED searching

Freeze == ~searching /\ FlushAndSort /\ searching' = TRUE

SearchOne == searching /\ (\E k \in Queries : Fill(Find(k).read)) /\ UNCHANGED searching

SearchRange ==
  /\ searching /\ Size > 0
  /\ \E k \in Queries : Fill(FindLastLesser(k).read)
  /\ UNCHANGED searching

\* (findKeys on an empty index reads a key that was never set; it fills no cell.)
SearchKeys ==
  /\ searching /\ Size > 0
  /\ \E ks \in KeyLists : Fill(FindKeys(ks).read)
  /\ UNCHANGED searching

Next == Insert \/ Freeze \/ SearchOne \/ SearchRange \/ SearchKeys

Spec == Init /\ [][Next]_vars
-----------------------------------------------------------------------------
Record == [key : Keys, item : 0 .. MaxItems - 1]

TypeOK ==
  /\ file \in Seq(Record) /\ Len(file) <= MaxItems
  /\ buffer \in Seq(Record) /\ Len(buffer) < FlushSize
  /\ sorted \in BOOLEAN /\ searching \in BOOLEAN
  /\ last_inserted \in Keys \cup {NoKey}
  /\ cacheKey \in [Cells -> Keys \cup {NoKey}]

Held == {FileKey(p) : p \in 0 .. Size - 1}

\* Nothing is lost or doubled between buffer, file and sort: every append is in the
\* file or the buffer exactly once, and in the file when searches begin.
ItemsAreKept ==
  LET all == file \o buffer IN
  /\ {all[i].item : i \in DOMAIN all} = 0 .. Len(all) - 1
  /\ searching => buffer = <<>>

\* A frozen index is sorted, unless keys came out of order before the very first
\* flush: from the last item of the first buffer on they are always in order, and
\* an index that never filled a buffer is as it was given.
DisorderIsEarly ==
  searching => \A i \in 1 .. Size - 1 : i + 1 >= FlushSize => FileKey(i - 1) <= FileKey(i)

Usable == searching /\ Size > 0 /\ InOrder(file)

\* Every search of a sorted index, after any other searches have filled any cells,
\* finds a key exactly if it is there, at a position that holds it: the cells that
\* find, findLastLesser and findKeys fill stand for the same positions.
FindIsRight ==
  Usable =>
    \A k \in Queries :
      LET r == Find(k) IN r.found = (k \in Held) /\ (r.found => FileKey(r.pos) = k)

\* get_range returns all the items of its range, and at most one that follows it.
RangeIsCovered ==
  Usable =>
    \A k, l \in Queries :
      LET inside == {p \in 0 .. Size - 1 : k <= FileKey(p) /\ FileKey(p) <= l}
          got == RangePositions(k, l)
      IN k <= l => /\ inside \subseteq got
                   /\ Cardinality(got \ inside) <= 1
                   /\ \A p \in got \ inside : FileKey(p) > l

\* findKeys gives a held key a position that holds it, a key that is not there
\* IDX_NOT_FOUND if it lies between the first and the last of the file; one that
\* does not keeps its result at 0, the position of the first item.
FindKeysIsRight ==
  Usable =>
    \A ks \in KeyLists :
      LET r == FindKeys(ks).result IN
      \A i \in DOMAIN ks :
        IF ks[i] \in Held THEN r[i] \in 0 .. Size - 1 /\ FileKey(r[i]) = ks[i]
        ELSE r[i] = IF FileKey(0) < ks[i] /\ ks[i] < FileKey(Size - 1) THEN IdxNotFound ELSE 0

\* compile.cpp appends the points of a way for the nodes that are found, "if (res)"
\* in its comment, and takes any result but IDX_NOT_FOUND for found: every key that
\* is not in the file has to get it.
AbsentIsNotFound ==
  Usable =>
    \A ks \in KeyLists :
      \A i \in DOMAIN ks : ks[i] \notin Held => FindKeys(ks).result[i] = IdxNotFound
=============================================================================
