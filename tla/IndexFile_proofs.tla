-------------------------- MODULE IndexFile_proofs --------------------------
(***************************************************************************)
(* Theorems about an index file, for every set of keys, every size of its   *)
(* buffer, of its cache, of the last window of a search and of a block:     *)
(*                                                                          *)
(*   NothingIsLost, LateKeysAreInOrder   about filling and freezing         *)
(*   FindsAreRight, RangesAreCovered,                                       *)
(*   KeysAreFound                        about searching, after any others  *)
(*                                                                          *)
(* A cell of the cache stands for a position in the file, which PosOf       *)
(* gives: CacheInv says that a filled cell holds the key that is there, and *)
(* every search is shown to read cells only for the positions they stand    *)
(* for.  The searches recur over ranges: RankRecursion, RankInduction.      *)
(***************************************************************************)
EXTENDS IndexFile, WellFoundedInduction, FiniteSetTheorems, SequenceTheorems, TLAPS

(* Recursion and induction over a rank.  The theorems of the library take   *)
(* predicates, that is operators, as parameters; here they are stated for   *)
(* sets and for functions, so that they can be used for the recursive       *)
(* functions that search.                                                  *)

\* A set that holds a point whenever it holds all points of lower rank.
Inductive(X, rank, S) ==
  \A x \in X : (\A y \in X : rank[y] < rank[x] => y \in S) => x \in S

\* H defines a value at each point from values at points of lower rank.
Definable(X, V, N, rank, H) ==
  /\ V # {} /\ N \in Nat /\ rank \in [X -> 0 .. N] /\ H \in [X \X [X -> V] -> V]
  /\ \A x \in X : \A g, h \in [X -> V] :
       (\A y \in X : rank[y] < rank[x] => g[y] = h[y]) => H[<<x, g>>] = H[<<x, h>>]

\* There is a function that is, at each point, what H makes of it.
Defined(X, V, H) == \E f \in [X -> V] : \A x \in X : f[x] = H[<<x, f>>]

\* The least element of a set of natural numbers.
LEMMA LeastElement ==
  ASSUME NEW T \in SUBSET Nat, T # {}
  PROVE  \E n \in T : \A m \in T : n <= m
<1>1. PICK n \in T : \A m \in T : ~(<<m, n>> \in OpToRel(<, Nat))
  BY NatLessThanWellFounded, WFMin
<1>2. ASSUME NEW m \in T PROVE n <= m
  <2>1. m < n => <<m, n>> \in OpToRel(<, Nat)
    BY DEF OpToRel
  <2>2. ~(m < n)
    BY <1>1, <2>1, Zenon
  <2> QED BY <2>2
<1> QED BY <1>2

\* Induction over a rank, for a set in place of a predicate.
LEMMA RankInduction ==
  ASSUME NEW X, NEW rank \in [X -> Nat], NEW S \in SUBSET X, Inductive(X, rank, S)
  PROVE  S = X
<1> SUFFICES ASSUME X \ S # {} PROVE FALSE
  OBVIOUS
<1>1. PICK T : T = {rank[x] : x \in X \ S}
  OBVIOUS
<1>0. T \in SUBSET Nat
  BY <1>1
<1>2. PICK n \in T : \A m \in T : n <= m
  <2>1. T # {}
    BY <1>1
  <2> QED BY <1>0, <2>1, LeastElement
<1>3. PICK x \in X \ S : rank[x] = n
  BY <1>1
<1>4. ASSUME NEW y \in X, rank[y] < rank[x] PROVE y \in S
  <2> SUFFICES ASSUME y \notin S PROVE FALSE
    OBVIOUS
  <2>1. rank[y] \in T /\ rank[y] \in Nat /\ rank[x] \in Nat
    BY <1>1
  <2> QED BY <1>2, <1>3, <1>4, <2>1
<1>5. (\A y \in X : rank[y] < rank[x] => y \in S) => x \in S
  BY <1>3 DEF Inductive
<1> QED BY <1>3, <1>4, <1>5

\* What is defined at each point from its values at points of lower rank exists, so a
\* recursive function of the model is equal to its definition.
LEMMA RankRecursion ==
  ASSUME NEW X, NEW V, NEW N, NEW rank, NEW H, Definable(X, V, N, rank, H)
  PROVE  Defined(X, V, H)
<1>0. /\ N \in Nat /\ rank \in [X -> 0 .. N] /\ H \in [X \X [X -> V] -> V]
      /\ \A x \in X : \A g, h \in [X -> V] :
           (\A y \in X : rank[y] < rank[x] => g[y] = h[y]) => H[<<x, g>>] = H[<<x, h>>]
  BY DEF Definable
<1>6. PICK v : v \in V
  BY DEF Definable
<1> DEFINE Upto(n) == \E f \in [X -> V] : \A x \in X : rank[x] < n => f[x] = H[<<x, f>>]
<1> DEFINE S == {n \in Nat : Upto(n)}
<1>1. 0 \in S
  <2>1. [x \in X |-> v] \in [X -> V]
    BY <1>6
  <2>2. \A x \in X : ~(rank[x] < 0)
    BY <1>0
  <2> QED BY <2>1, <2>2
<1>2. ASSUME NEW n \in S PROVE n + 1 \in S
  <2>1. PICK f \in [X -> V] : \A x \in X : rank[x] < n => f[x] = H[<<x, f>>]
    OBVIOUS
  <2>2. PICK g : g = [x \in X |-> H[<<x, f>>]]
    OBVIOUS
  <2>3. g \in [X -> V]
    <3>1. \A x \in X : H[<<x, f>>] \in V
      BY <1>0
    <3> QED BY <2>2, <3>1
  <2>4. ASSUME NEW x \in X, rank[x] < n + 1 PROVE g[x] = H[<<x, g>>]
    <3>1. \A y \in X : rank[y] < rank[x] => f[y] = g[y]
      <4> TAKE y \in X
      <4> HAVE rank[y] < rank[x]
      <4>1. rank[y] < n
        BY <1>0, <2>4
      <4> QED BY <2>1, <2>2, <4>1
    <3>2. H[<<x, f>>] = H[<<x, g>>]
      BY <1>0, <2>3, <3>1
    <3> QED BY <2>2, <3>2
  <2>5. Upto(n + 1)
    BY <2>3, <2>4
  <2> QED BY <2>5
<1> HIDE DEF S
<1>3. S = Nat
  <2> SUFFICES ASSUME Nat \ S # {} PROVE FALSE
    BY DEF S
  <2>1. PICK n \in Nat \ S : \A m \in Nat \ S : n <= m
    BY LeastElement
  <2>2. n # 0 /\ n - 1 \in Nat /\ ~(n <= n - 1)
    BY <1>1, <2>1
  <2>3. n - 1 \in S
    BY <2>1, <2>2
  <2>4. (n - 1) + 1 \in S
    BY <1>2, <2>3
  <2> QED BY <2>1, <2>4
<1>4. Upto(N + 1)
  <2> HIDE DEF Upto
  <2>1. N + 1 \in S
    BY <1>0, <1>3
  <2> QED BY <2>1 DEF S
<1>5. \A x \in X : rank[x] < N + 1
  BY <1>0
<1> QED BY <1>4, <1>5 DEF Defined

\* What rises from each place to the next rises from each to any later one.
LEMMA RisesThroughout ==
  ASSUME NEW n \in Nat, NEW ks, \A i \in 1 .. n : ks[i] \in Int,
         \A i \in 1 .. n - 1 : ks[i] <= ks[i + 1]
  PROVE  \A i, j \in 1 .. n : i <= j => ks[i] <= ks[j]
<1>1. ASSUME NEW i \in 1 .. n, NEW j \in i .. n PROVE ks[i] <= ks[j]
  <2>1. PICK T : T = {k \in i .. n : ~(ks[i] <= ks[k])}
    OBVIOUS
  <2> SUFFICES ASSUME T # {} PROVE FALSE
    BY <2>1
  <2>2. T \in SUBSET Nat
    BY <2>1
  <2>3. PICK k \in T : \A m \in T : k <= m
    BY <2>2, LeastElement
  <2>4. k \in 1 .. n /\ i <= k /\ k # i
    BY <2>1
  <2>5. k - 1 \in i .. n /\ k - 1 \in 1 .. n - 1 /\ k - 1 \notin T /\ (k - 1) + 1 = k
    BY <2>1, <2>3, <2>4
  <2>6. ks[i] <= ks[k - 1] /\ ks[k - 1] <= ks[k]
    BY <2>1, <2>5
  <2>7. ks[i] <= ks[k]
    BY <2>4, <2>5, <2>6
  <2> QED BY <2>1, <2>7
<1> QED BY <1>1
-----------------------------------------------------------------------------
(* Filling. *)

\* Everything that has been appended, in the order of the appends or sorted.
Appended == file \o buffer

\* A sequence of records, each with the number of one append.
Numbered(all) ==
  /\ all \in Seq(Record)
  /\ {all[i].item : i \in DOMAIN all} = 0 .. Len(all) - 1

\* From the last item of the first buffer on, keys are in order.
OrderedLate(all) ==
  \A i \in 1 .. Len(all) - 1 : i + 1 >= FlushSize => all[i].key <= all[i + 1].key

\* The inductive invariant of filling.  While an index is filled, last_inserted is the
\* key of the last append, and sorted vouches for the keys after the first buffer.
FillInv ==
  /\ file \in Seq(Record) /\ buffer \in Seq(Record)
  /\ Len(file) + Len(buffer) <= MaxItems /\ Len(buffer) < FlushSize
  /\ sorted \in BOOLEAN /\ searching \in BOOLEAN
  /\ last_inserted \in Keys \cup {NoKey}
  /\ Numbered(Appended)
  /\ searching => buffer = << >> /\ OrderedLate(file)
  /\ ~searching =>
       /\ Len(Appended) > 0 => last_inserted = Appended[Len(Appended)].key
       /\ sorted => OrderedLate(Appended)
-----------------------------------------------------------------------------
(* Sequences of records. *)

\* The file and the buffer, as one sequence.
LEMMA AppendedShape ==
  ASSUME FillInv
  PROVE  /\ Appended \in Seq(Record) /\ Len(Appended) = Len(file) + Len(buffer)
         /\ Len(file) \in Nat /\ Len(buffer) \in Nat /\ Len(Appended) \in Nat
<1>1. file \in Seq(Record) /\ buffer \in Seq(Record)
  BY DEF FillInv
<1>2. Len(file) \in Nat /\ Len(buffer) \in Nat
  BY <1>1, LenProperties
<1>3. file \o buffer \in Seq(Record) /\ Len(file \o buffer) = Len(file) + Len(buffer)
  BY <1>1, ConcatProperties
<1> QED BY <1>2, <1>3 DEF Appended

\* One record more.
LEMMA OneMore ==
  ASSUME NEW all, Numbered(all), NEW r \in Record, r.item = Len(all)
  PROVE  /\ Numbered(Append(all, r)) /\ Len(Append(all, r)) = Len(all) + 1
         /\ Append(all, r)[Len(all) + 1] = r
         /\ \A i \in 1 .. Len(all) : Append(all, r)[i] = all[i]
<1>1. all \in Seq(Record) /\ Len(all) \in Nat /\ DOMAIN all = 1 .. Len(all)
  BY LenProperties DEF Numbered
<1> DEFINE more == Append(all, r)
<1>2. /\ more \in Seq(Record) /\ Len(more) = Len(all) + 1
      /\ more[Len(all) + 1] = r
      /\ \A i \in 1 .. Len(all) : more[i] = all[i]
  BY <1>1, AppendProperties
<1>3. DOMAIN more = 1 .. Len(all) + 1
  BY <1>1, <1>2, LenProperties
<1> HIDE DEF more
<1>4. \A n \in 0 .. Len(all) : \E i \in DOMAIN more : more[i].item = n
  <2>1. ASSUME NEW n \in 0 .. Len(all) - 1 PROVE \E i \in DOMAIN more : more[i].item = n
    <3>1. PICK i \in DOMAIN all : all[i].item = n
      BY DEF Numbered
    <3> QED BY <1>1, <1>2, <1>3, <3>1
  <2>2. more[Len(all) + 1].item = Len(all) /\ Len(all) + 1 \in DOMAIN more
    BY <1>1, <1>2, <1>3
  <2> QED BY <1>1, <2>1, <2>2
<1>5. \A i \in DOMAIN more : more[i].item \in 0 .. Len(all)
  <2> SUFFICES ASSUME NEW i \in 1 .. Len(all) + 1 PROVE more[i].item \in 0 .. Len(all)
    BY <1>3
  <2>1. CASE i = Len(all) + 1
    BY <1>1, <1>2, <2>1
  <2>2. CASE i \in 1 .. Len(all)
    <3>1. all[i].item \in 0 .. Len(all) - 1
      BY <1>1, <2>2 DEF Numbered
    <3> QED BY <1>1, <1>2, <2>2, <3>1
  <2> QED BY <1>1, <2>1, <2>2
<1>6. {more[i].item : i \in DOMAIN more} = 0 .. (Len(all) + 1) - 1
  <2>1. (Len(all) + 1) - 1 = Len(all)
    BY <1>1
  <2> QED BY <1>4, <1>5, <2>1
<1> QED BY <1>2, <1>6 DEF Numbered, more

\* Sorting keeps the records and their numbers, and leaves their keys in order.
LEMMA SortKeeps ==
  ASSUME NEW all, Numbered(all), NEW s \in Sorted(all)
  PROVE  Numbered(s) /\ Len(s) = Len(all) /\ InOrder(s)
<1>1. all \in Seq(Record) /\ Len(all) \in Nat /\ DOMAIN all = 1 .. Len(all)
  BY LenProperties DEF Numbered
<1>2. PICK q \in [1 .. Len(all) -> 1 .. Len(all)] :
        IsInjective(q) /\ s = [i \in 1 .. Len(all) |-> all[q[i]]]
  BY <1>1 DEF Sorted
<1>3. s \in Seq(Record) /\ Len(s) = Len(all) /\ DOMAIN s = 1 .. Len(all)
  <2>1. s \in [1 .. Len(all) -> Record]
    BY <1>1, <1>2
  <2> QED BY <1>1, <2>1
<1>4. \A j \in 1 .. Len(all) : \E i \in 1 .. Len(all) : q[i] = j
  <2>1. q \in Injection(1 .. Len(all), 1 .. Len(all))
    BY <1>2 DEF Injection, IsInjective
  <2>2. IsFiniteSet(1 .. Len(all))
    BY <1>1, FS_Interval
  <2>3. q \in Surjection(1 .. Len(all), 1 .. Len(all))
    BY <2>1, <2>2, FS_Injection
  <2> QED BY <2>3 DEF Surjection
<1>5. {s[i].item : i \in DOMAIN s} = {all[i].item : i \in DOMAIN all}
  <2>1. \A i \in 1 .. Len(all) : s[i] = all[q[i]] /\ q[i] \in 1 .. Len(all)
    BY <1>2
  <2>2. \A i \in DOMAIN s : \E j \in DOMAIN all : s[i].item = all[j].item
    BY <1>1, <1>3, <2>1
  <2>3. \A j \in DOMAIN all : \E i \in DOMAIN s : s[i].item = all[j].item
    <3> TAKE j \in DOMAIN all
    <3>1. PICK i \in 1 .. Len(all) : q[i] = j
      BY <1>1, <1>4
    <3>2. s[i] = all[j]
      BY <2>1, <3>1
    <3> QED BY <1>3, <3>1, <3>2
  <2> QED BY <2>2, <2>3
<1>6. InOrder(s)
  BY DEF Sorted
<1> QED BY <1>3, <1>5, <1>6 DEF Numbered
-----------------------------------------------------------------------------
(* The steps. *)

\* An append puts its record behind the others, whether it flushes the buffer or not.
LEMMA AppendAppends ==
  ASSUME IndexAssumption, FillInv, NEW k \in Keys, AppendKey(k)
  PROVE  LET r == [key |-> k, item |-> Len(Appended)] IN
         /\ r \in Record
         /\ file' \in Seq(Record) /\ buffer' \in Seq(Record)
         /\ Appended' = Append(Appended, r)
         /\ Len(file') + Len(buffer') <= MaxItems /\ Len(buffer') < FlushSize
         /\ Len(Appended) + 1 >= FlushSize => Len(file') > 0
<1>1. /\ file \in Seq(Record) /\ buffer \in Seq(Record) /\ Len(file) \in Nat /\ Len(buffer) \in Nat
      /\ Len(Appended) = Len(file) + Len(buffer) /\ Len(buffer) < FlushSize
      /\ FlushSize \in Nat /\ MaxItems \in Nat
  BY AppendedShape DEF FillInv, IndexAssumption
<1>2. PICK r : r = [key |-> k, item |-> Len(Appended)]
  OBVIOUS
<1>3. PICK b : b = Append(buffer, r)
  OBVIOUS
<1>4. /\ Len(file) + Len(b) <= MaxItems
      /\ file' = IF Len(b) = FlushSize THEN file \o b ELSE file
      /\ buffer' = IF Len(b) = FlushSize THEN << >> ELSE b
  BY <1>1, <1>2, <1>3 DEF AppendKey
<1>5. r \in Record
  <2>1. Len(buffer) + 1 = Len(b)
    <3>1. \A e : Len(Append(buffer, e)) = Len(buffer) + 1
      BY <1>1
    <3> QED BY <1>3, <3>1
  <2>2. Len(Appended) \in 0 .. MaxItems - 1
    BY <1>1, <1>4, <2>1
  <2> QED BY <1>2, <2>2 DEF Record
<1>6. b \in Seq(Record) /\ Len(b) = Len(buffer) + 1
  BY <1>1, <1>3, <1>5, AppendProperties
<1>7. file \o b \in Seq(Record) /\ Len(file \o b) = Len(file) + Len(b)
  BY <1>1, <1>6, ConcatProperties
<1>8. file \o b = Append(Appended, r)
  <2>1. b = buffer \o <<r>>
    BY <1>1, <1>3, <1>5, AppendIsConcat
  <2>2. <<r>> \in Seq(Record)
    BY <1>5
  <2>3. (file \o buffer) \o <<r>> = file \o (buffer \o <<r>>)
    <3>1. file \in Seq(Record) /\ buffer \in Seq(Record)
      BY <1>1
    <3> QED BY <2>2, <3>1, ConcatAssociative
  <2>4. Append(file \o buffer, r) = (file \o buffer) \o <<r>>
    <3>1. file \o buffer \in Seq(Record)
      BY <1>1, ConcatProperties
    <3> QED BY <1>5, <3>1, AppendIsConcat
  <2> QED BY <2>1, <2>3, <2>4 DEF Appended
<1>9. << >> \in Seq(Record) /\ Len(<< >>) = 0
  OBVIOUS
<1>10. file' \o buffer' = file \o b
  <2>1. CASE Len(b) = FlushSize
    <3>1. (file \o b) \o << >> = file \o b
      BY <1>7, ConcatEmptySeq
    <3> QED BY <1>4, <2>1, <3>1
  <2>2. CASE Len(b) # FlushSize
    BY <1>4, <2>2
  <2> QED BY <2>1, <2>2
<1>11. file' \in Seq(Record) /\ buffer' \in Seq(Record)
  BY <1>1, <1>4, <1>6, <1>7, <1>9
<1>12. Len(file') + Len(buffer') = Len(file) + Len(b) /\ Len(buffer') < FlushSize
  <2>1. CASE Len(b) = FlushSize
    BY <1>1, <1>4, <1>6, <1>7, <1>9, <2>1 DEF IndexAssumption
  <2>2. CASE Len(b) # FlushSize
    BY <1>1, <1>4, <1>6, <1>7, <1>9, <2>2 DEF IndexAssumption
  <2> QED BY <2>1, <2>2
<1>13. Len(Appended) + 1 >= FlushSize => Len(file') > 0
  <2> SUFFICES ASSUME Len(Appended) + 1 >= FlushSize, Len(file) = 0 PROVE Len(file') > 0
    BY <1>1, <1>4, <1>6, <1>7
  <2>1. Len(b) = FlushSize
    BY <1>1, <1>6
  <2> QED BY <1>1, <1>4, <1>6, <1>7, <2>1
<1> QED BY <1>2, <1>4, <1>5, <1>8, <1>10, <1>11, <1>12, <1>13 DEF Appended

\* An append keeps the invariant.
LEMMA AppendFill ==
  ASSUME IndexAssumption, FillInv, Insert
  PROVE  FillInv'
<1>1. PICK k \in Keys : AppendKey(k)
  BY DEF Insert
<1>2. PICK r : r = [key |-> k, item |-> Len(Appended)]
  OBVIOUS
<1>3. /\ r \in Record /\ file' \in Seq(Record) /\ buffer' \in Seq(Record)
      /\ Appended' = Append(Appended, r)
      /\ Len(file') + Len(buffer') <= MaxItems /\ Len(buffer') < FlushSize
      /\ Len(Appended) + 1 >= FlushSize => Len(file') > 0
  BY <1>1, <1>2, AppendAppends
<1>4. r.key = k /\ r.item = Len(Appended) /\ Numbered(Appended) /\ Len(Appended) \in Nat
  BY <1>2, AppendedShape DEF FillInv
<1>5. /\ Numbered(Appended') /\ Len(Appended') = Len(Appended) + 1
      /\ Appended'[Len(Appended) + 1] = r
      /\ \A i \in 1 .. Len(Appended) : Appended'[i] = Appended[i]
  BY <1>3, <1>4, OneMore
<1>6. /\ ~searching /\ searching' = searching /\ last_inserted' = k
      /\ sorted' = (sorted /\ ~(Len(file') > 0 /\ last_inserted # NoKey /\ k < last_inserted))
  BY <1>1 DEF Insert, AppendKey
<1>7. sorted' => OrderedLate(Appended')
  <2> SUFFICES ASSUME sorted', NEW i \in 1 .. Len(Appended') - 1, i + 1 >= FlushSize
               PROVE  Appended'[i].key <= Appended'[i + 1].key
    BY DEF OrderedLate
  <2>1. CASE i < Len(Appended)
    <3>1. i \in 1 .. Len(Appended) - 1 /\ i \in 1 .. Len(Appended) /\ i + 1 \in 1 .. Len(Appended)
      BY <1>4, <2>1
    <3>2. Appended[i].key <= Appended[i + 1].key
      BY <1>6, <3>1 DEF FillInv, OrderedLate
    <3> QED BY <1>5, <3>1, <3>2
  <2>2. CASE i = Len(Appended)
    <3>1. Len(Appended) > 0 /\ Appended'[i + 1].key = k /\ Appended'[i] = Appended[i]
      BY <1>4, <1>5, <2>2
    <3>2. last_inserted = Appended[i].key /\ Appended[i] \in Record
      BY <1>4, <1>6, <2>2, <3>1, ElementOfSeq DEF FillInv, Numbered
    <3>3. last_inserted \in Keys /\ last_inserted # NoKey /\ last_inserted \in Int /\ k \in Int
      BY <3>2 DEF Record, IndexAssumption
    <3>4. Len(file') > 0
      BY <1>3, <2>2
    <3>5. ~(k < last_inserted)
      BY <1>6, <3>3, <3>4, Zenon
    <3> QED BY <3>1, <3>2, <3>3, <3>5
  <2> QED BY <1>4, <1>5, <2>1, <2>2
<1>8. Appended'[Len(Appended')].key = k
  BY <1>4, <1>5
<1>9. sorted' \in BOOLEAN
  BY <1>6
<1> QED BY <1>1, <1>3, <1>5, <1>6, <1>7, <1>8, <1>9 DEF FillInv

\* Freezing keeps the invariant.
LEMMA FreezeFill ==
  ASSUME IndexAssumption, FillInv, Freeze
  PROVE  FillInv'
<1>1. /\ Appended \in Seq(Record) /\ Len(Appended) \in Nat
      /\ Len(Appended) = Len(file) + Len(buffer) /\ Numbered(Appended)
  BY AppendedShape DEF FillInv
<1>2. buffer' = << >> /\ sorted' = TRUE /\ searching' = TRUE /\ last_inserted' = last_inserted
  BY DEF Freeze, FlushAndSort
<1>3. Numbered(file') /\ Len(file') = Len(Appended) /\ OrderedLate(file')
  <2>1. CASE sorted
    <3>1. file' = Appended
      BY <2>1 DEF Freeze, FlushAndSort, Appended
    <3> QED BY <1>1, <2>1, <3>1 DEF FillInv, Freeze
  <2>2. CASE ~sorted
    <3>1. file' \in Sorted(Appended)
      BY <2>2 DEF Freeze, FlushAndSort, Appended
    <3>2. Numbered(file') /\ Len(file') = Len(Appended) /\ InOrder(file')
      BY <1>1, <3>1, SortKeeps
    <3> QED BY <3>2 DEF InOrder, OrderedLate
  <2> QED BY <2>1, <2>2
<1>4. Appended' = file'
  <2>1. file' \in Seq(Record)
    BY <1>3 DEF Numbered
  <2>2. file' \o << >> = file'
    BY <2>1, ConcatEmptySeq
  <2> QED BY <1>2, <2>2 DEF Appended
<1>5. Len(<< >>) = 0 /\ << >> \in Seq(Record)
  OBVIOUS
<1>6. Len(file') + Len(buffer') <= MaxItems /\ Len(buffer') < FlushSize
  BY <1>1, <1>2, <1>3, <1>5 DEF FillInv, IndexAssumption
<1>7. /\ file' \in Seq(Record) /\ buffer' \in Seq(Record)
      /\ sorted' \in BOOLEAN /\ searching' \in BOOLEAN
      /\ last_inserted' \in Keys \cup {NoKey}
  BY <1>2, <1>3, <1>5 DEF FillInv, Numbered
<1> QED BY <1>2, <1>3, <1>4, <1>6, <1>7, Zenon DEF FillInv

\* Every step keeps the invariant: a search writes neither file nor buffer.
LEMMA FillInvariance ==
  ASSUME IndexAssumption
  PROVE  Spec => []FillInv
<1>1. Init => FillInv
  <2> SUFFICES ASSUME Init PROVE FillInv
    OBVIOUS
  <2>1. file = << >> /\ buffer = << >> /\ Appended = << >>
    <3>1. << >> \o << >> = << >>
      OBVIOUS
    <3> QED BY <3>1 DEF Init, Appended
  <2>2. << >> \in Seq(Record) /\ Len(<< >>) = 0 /\ DOMAIN << >> = {}
    OBVIOUS
  <2>3. Numbered(<< >>) /\ OrderedLate(<< >>)
    BY <2>2 DEF Numbered, OrderedLate
  <2>4. /\ Len(file) + Len(buffer) <= MaxItems /\ Len(buffer) < FlushSize
        /\ file \in Seq(Record) /\ buffer \in Seq(Record)
    BY <2>1, <2>2 DEF IndexAssumption
  <2>5. /\ sorted \in BOOLEAN /\ searching \in BOOLEAN /\ ~searching
        /\ last_inserted \in Keys \cup {NoKey}
    BY Zenon DEF Init
  <2>6. ~(Len(Appended) > 0)
    BY <2>1, <2>2
  <2> QED BY <2>1, <2>3, <2>4, <2>5, <2>6, Zenon DEF FillInv
<1>2. FillInv /\ [Next]_vars => FillInv'
  <2> SUFFICES ASSUME FillInv, [Next]_vars PROVE FillInv'
    OBVIOUS
  <2>1. CASE Insert
    BY <2>1, AppendFill
  <2>2. CASE Freeze
    BY <2>2, FreezeFill
  <2>3. CASE UNCHANGED <<file, buffer, sorted, last_inserted, searching>>
    BY <2>3 DEF FillInv, Appended
  <2>4. CASE SearchOne \/ SearchRange \/ SearchKeys
    BY <2>3, <2>4 DEF SearchOne, SearchRange, SearchKeys, Fill
  <2>5. CASE UNCHANGED vars
    BY <2>3, <2>5 DEF vars
  <2> QED BY <2>1, <2>2, <2>4, <2>5 DEF Next
<1> QED BY <1>1, <1>2, PTL DEF Spec

\* Whatever the size of the buffer, and whether or not an index has been sorted: every
\* append is in the file or the buffer exactly once, and in the file once it is searched.
THEOREM NothingIsLost ==
  ASSUME IndexAssumption
  PROVE  Spec => []ItemsAreKept
<1>1. FillInv => ItemsAreKept
  BY DEF FillInv, ItemsAreKept, Numbered, Appended
<1> QED BY <1>1, FillInvariance, PTL

\* A frozen index is in order from the last item of the first buffer on.
THEOREM LateKeysAreInOrder ==
  ASSUME IndexAssumption
  PROVE  Spec => []DisorderIsEarly
<1>1. FillInv => DisorderIsEarly
  <2> SUFFICES ASSUME FillInv, searching, NEW i \in 1 .. Size - 1, i + 1 >= FlushSize
               PROVE  FileKey(i - 1) <= FileKey(i)
    BY DEF DisorderIsEarly
  <2>1. file[i].key <= file[i + 1].key
    BY DEF FillInv, OrderedLate, Size
  <2>2. (i - 1) + 1 = i
    BY DEF Size
  <2> QED BY <2>1, <2>2 DEF FileKey
<1> QED BY <1>1, FillInvariance, PTL
-----------------------------------------------------------------------------
(* Ranges. *)

\* The ranges in a file of n items, and the first one.
RangesIn(n) == [lo : 0 .. n, hi : 0 .. n, cLo : Cells, cHi : Cells]
WholeOf(n) == [lo |-> 0, hi |-> n - 1, cLo |-> 0, cHi |-> CacheSize - 1]

\* Both halves of a range lie in it, and are shorter unless nothing is in between.
LEMMA Halves ==
  ASSUME IndexAssumption, NEW n \in Nat, NEW r \in RangesIn(n)
  PROVE  /\ r.lo \in 0 .. n /\ r.hi \in 0 .. n /\ r.cLo \in Cells /\ r.cHi \in Cells
         /\ Pivot(r) \in 0 .. n /\ PivotCell(r) \in Cells
         /\ LowerHalf(r) \in RangesIn(n) /\ UpperHalf(r) \in RangesIn(n)
         /\ LowerHalf(r).lo = r.lo /\ LowerHalf(r).hi = Pivot(r)
         /\ LowerHalf(r).cLo = r.cLo /\ LowerHalf(r).cHi = PivotCell(r)
         /\ UpperHalf(r).lo = Pivot(r) /\ UpperHalf(r).hi = r.hi
         /\ UpperHalf(r).cLo = PivotCell(r) /\ UpperHalf(r).cHi = r.cHi
         /\ r.hi - r.lo > 1 => r.lo < Pivot(r) /\ Pivot(r) < r.hi
         /\ r.cHi - r.cLo > 1 => r.cLo < PivotCell(r) /\ PivotCell(r) < r.cHi
         /\ r.cHi - r.cLo <= 1 => PivotCell(r) - r.cLo <= 1 /\ r.cHi - PivotCell(r) <= 1
<1>1. r.lo \in 0 .. n /\ r.hi \in 0 .. n /\ r.cLo \in Cells /\ r.cHi \in Cells
  BY DEF RangesIn
<1>2. CacheSize \in Nat
  BY DEF IndexAssumption
<1>3. /\ Pivot(r) \in 0 .. n
      /\ r.hi - r.lo > 1 => r.lo < Pivot(r) /\ Pivot(r) < r.hi
  BY <1>1 DEF Pivot
<1>4. /\ PivotCell(r) \in Cells
      /\ r.cHi - r.cLo > 1 => r.cLo < PivotCell(r) /\ PivotCell(r) < r.cHi
      /\ r.cHi - r.cLo <= 1 => PivotCell(r) - r.cLo <= 1 /\ r.cHi - PivotCell(r) <= 1
  BY <1>1, <1>2 DEF PivotCell, Cells
<1>5. /\ LowerHalf(r) \in RangesIn(n)
      /\ LowerHalf(r).lo = r.lo /\ LowerHalf(r).hi = Pivot(r)
      /\ LowerHalf(r).cLo = r.cLo /\ LowerHalf(r).cHi = PivotCell(r)
  BY <1>3, <1>4 DEF LowerHalf, RangesIn
<1>6. /\ UpperHalf(r) \in RangesIn(n)
      /\ UpperHalf(r).lo = Pivot(r) /\ UpperHalf(r).hi = r.hi
      /\ UpperHalf(r).cLo = PivotCell(r) /\ UpperHalf(r).cHi = r.cHi
  BY <1>3, <1>4 DEF UpperHalf, RangesIn
<1> QED BY <1>1, <1>3, <1>4, <1>5, <1>6
-----------------------------------------------------------------------------
(* The positions that the cells stand for. *)

\* The positions of the cells below a range, from those below its halves.
PosBelow(g, r) ==
  [c \in Cells |-> IF ~Cached(r) \/ c = PivotCell(r) THEN Pivot(r)
                   ELSE IF c < PivotCell(r) THEN g[LowerHalf(r)][c]
                   ELSE g[UpperHalf(r)][c]]

\* Below a range, the cell in the middle stands for the pivot, the others for what they
\* stand for below the halves.
IsPosAt(g, n) ==
  /\ g \in [RangesIn(n) -> [Cells -> 0 .. n]]
  /\ \A r \in RangesIn(n) : g[r] = PosBelow(g, r)
PosAt(n) == CHOOSE g : IsPosAt(g, n)

\* There is such a function, by recursion over the cells between the ends of a range.
LEMMA PosAtExists ==
  ASSUME IndexAssumption, NEW n \in Nat
  PROVE  IsPosAt(PosAt(n), n)
<1>1. PICK V : V = [Cells -> 0 .. n]
  OBVIOUS
<1>2. PICK rank : rank = [r \in RangesIn(n) |-> IF r.cHi > r.cLo THEN r.cHi - r.cLo ELSE 0]
  OBVIOUS
<1>3. PICK H : H = [z \in RangesIn(n) \X [RangesIn(n) -> V] |-> PosBelow(z[2], z[1])]
  OBVIOUS
<1>4. V # {}
  <2>1. [c \in Cells |-> 0] \in V
    BY <1>1
  <2> QED BY <2>1
<1>5. rank \in [RangesIn(n) -> 0 .. CacheSize]
  <2>1. ASSUME NEW r \in RangesIn(n)
        PROVE  (IF r.cHi > r.cLo THEN r.cHi - r.cLo ELSE 0) \in 0 .. CacheSize
    BY Halves DEF Cells, IndexAssumption
  <2> QED BY <1>2, <2>1
<1>6. ASSUME NEW g \in [RangesIn(n) -> V], NEW r \in RangesIn(n)
      PROVE  PosBelow(g, r) \in V
  <2>1. LowerHalf(r) \in RangesIn(n) /\ UpperHalf(r) \in RangesIn(n) /\ Pivot(r) \in 0 .. n
    BY Halves
  <2>2. g[LowerHalf(r)] \in [Cells -> 0 .. n] /\ g[UpperHalf(r)] \in [Cells -> 0 .. n]
    BY <1>1, <2>1
  <2> QED BY <1>1, <2>1, <2>2 DEF PosBelow
<1>7. H \in [RangesIn(n) \X [RangesIn(n) -> V] -> V]
  BY <1>3, <1>6
<1>8. ASSUME NEW r \in RangesIn(n), NEW g \in [RangesIn(n) -> V], NEW h \in [RangesIn(n) -> V],
             \A y \in RangesIn(n) : rank[y] < rank[r] => g[y] = h[y]
      PROVE  H[<<r, g>>] = H[<<r, h>>]
  <2>1. H[<<r, g>>] = PosBelow(g, r) /\ H[<<r, h>>] = PosBelow(h, r)
    BY <1>3
  <2>2. ASSUME Cached(r)
        PROVE  g[LowerHalf(r)] = h[LowerHalf(r)] /\ g[UpperHalf(r)] = h[UpperHalf(r)]
    <3>1. r.cHi - r.cLo > 1
      BY <2>2 DEF Cached
    <3>2. /\ LowerHalf(r) \in RangesIn(n) /\ UpperHalf(r) \in RangesIn(n)
          /\ rank[LowerHalf(r)] < rank[r] /\ rank[UpperHalf(r)] < rank[r]
      BY <1>2, <3>1, Halves DEF Cells
    <3> QED BY <1>8, <3>2
  <2>3. PosBelow(g, r) = PosBelow(h, r)
    BY <2>2 DEF PosBelow
  <2> QED BY <2>1, <2>3
<1>9. Definable(RangesIn(n), V, CacheSize, rank, H)
  BY <1>4, <1>5, <1>7, <1>8 DEF Definable, IndexAssumption
<1>10. Defined(RangesIn(n), V, H)
  BY <1>9, RankRecursion
<1>11. PICK f \in [RangesIn(n) -> V] : \A r \in RangesIn(n) : f[r] = H[<<r, f>>]
  BY <1>10 DEF Defined
<1>12. IsPosAt(f, n)
  BY <1>1, <1>3, <1>11 DEF IsPosAt
<1> QED BY <1>12 DEF PosAt

\* The position that a cell stands for.
PosOf(n, c) ==
  IF c = 0 THEN 0 ELSE IF c = CacheSize - 1 THEN n - 1 ELSE PosAt(n)[WholeOf(n)][c]

\* A range that a search comes to: the cells in it stand for what they do in the whole.
Placed(n, r) ==
  Cached(r) => \A c \in Cells : r.cLo < c /\ c < r.cHi => PosOf(n, c) = PosAt(n)[r][c]

\* All searches start at the whole file.
LEMMA WholePlaced ==
  ASSUME IndexAssumption, NEW n \in Nat, n > 0
  PROVE  WholeOf(n) \in RangesIn(n) /\ Placed(n, WholeOf(n))
BY DEF WholeOf, RangesIn, Placed, PosOf, Cells, IndexAssumption

\* A search that goes on in a half finds the same positions behind the cells there.
LEMMA HalvesPlaced ==
  ASSUME IndexAssumption, NEW n \in Nat, NEW r \in RangesIn(n), r.hi - r.lo > 1, Placed(n, r)
  PROVE  /\ Placed(n, LowerHalf(r)) /\ Placed(n, UpperHalf(r))
         /\ Cached(r) => PosOf(n, PivotCell(r)) = Pivot(r)
<1>1. \A q \in RangesIn(n) : PosAt(n)[q] = PosBelow(PosAt(n), q)
  BY PosAtExists DEF IsPosAt
<1>2. ASSUME Cached(r), NEW c \in Cells, r.cLo < c, c < r.cHi
      PROVE  PosOf(n, c) = IF c = PivotCell(r) THEN Pivot(r)
                           ELSE IF c < PivotCell(r) THEN PosAt(n)[LowerHalf(r)][c]
                           ELSE PosAt(n)[UpperHalf(r)][c]
  <2>1. PosOf(n, c) = PosAt(n)[r][c]
    BY <1>2 DEF Placed
  <2>2. PosAt(n)[r] = PosBelow(PosAt(n), r)
    BY <1>1
  <2> QED BY <1>2, <2>1, <2>2 DEF PosBelow
<1>3. Cached(r) => r.cLo < PivotCell(r) /\ PivotCell(r) < r.cHi /\ PivotCell(r) \in Cells
  BY Halves DEF Cached
<1>4. Cached(LowerHalf(r)) \/ Cached(UpperHalf(r)) => Cached(r)
  <2>1. \A c \in Cells : c \in Int
    BY DEF Cells, IndexAssumption
  <2>2. /\ r.lo \in Int /\ r.hi \in Int /\ Pivot(r) \in Int /\ Window \in Int
        /\ r.cLo \in Int /\ r.cHi \in Int /\ PivotCell(r) \in Int
    BY <2>1, Halves DEF IndexAssumption
  <2>3. /\ LowerHalf(r).lo = r.lo /\ LowerHalf(r).hi = Pivot(r)
        /\ LowerHalf(r).cLo = r.cLo /\ LowerHalf(r).cHi = PivotCell(r)
        /\ UpperHalf(r).lo = Pivot(r) /\ UpperHalf(r).hi = r.hi
        /\ UpperHalf(r).cLo = PivotCell(r) /\ UpperHalf(r).cHi = r.cHi
        /\ r.hi - r.lo > 1 => r.lo < Pivot(r) /\ Pivot(r) < r.hi
        /\ r.cHi - r.cLo <= 1 => PivotCell(r) - r.cLo <= 1 /\ r.cHi - PivotCell(r) <= 1
    BY Halves
  <2> QED BY <2>2, <2>3 DEF Cached
<1>5. Placed(n, LowerHalf(r))
  <2> SUFFICES ASSUME Cached(LowerHalf(r)), NEW c \in Cells,
                      LowerHalf(r).cLo < c, c < LowerHalf(r).cHi
               PROVE  PosOf(n, c) = PosAt(n)[LowerHalf(r)][c]
    BY DEF Placed
  <2>1. Cached(r) /\ r.cLo < c /\ c < PivotCell(r) /\ c < r.cHi /\ c # PivotCell(r)
    BY <1>3, <1>4, Halves DEF Cells, IndexAssumption
  <2> QED BY <1>2, <2>1
<1>6. Placed(n, UpperHalf(r))
  <2> SUFFICES ASSUME Cached(UpperHalf(r)), NEW c \in Cells,
                      UpperHalf(r).cLo < c, c < UpperHalf(r).cHi
               PROVE  PosOf(n, c) = PosAt(n)[UpperHalf(r)][c]
    BY DEF Placed
  <2>1. /\ Cached(r) /\ r.cLo < c /\ c < r.cHi /\ c # PivotCell(r)
        /\ ~(c < PivotCell(r))
    BY <1>3, <1>4, Halves DEF Cells, IndexAssumption
  <2> QED BY <1>2, <2>1
<1> QED BY <1>2, <1>3, <1>5, <1>6

\* What a search may read: the cells, each with the position that it stands for.
Reads(n) == {z \in Cells \X (0 .. n - 1) : z[2] = PosOf(n, z[1])}

\* The inductive invariant of searching: a cell that is filled holds the key at the
\* position it stands for.
CacheInv ==
  /\ cacheKey \in [Cells -> Keys \cup {NoKey}]
  /\ \A c \in Cells : cacheKey[c] # NoKey =>
       Size > 0 /\ cacheKey[c] = FileKey(PosOf(Size, c))

\* The file does not change any more once a cell is filled.
Unfilled == \A c \in Cells : cacheKey[c] = NoKey

\* An index that is searched, and what it holds.
LEMMA Searchable ==
  ASSUME FillInv
  PROVE  Size \in Nat /\ \A p \in 0 .. Size - 1 : FileKey(p) \in Keys
<1>1. file \in Seq(Record) /\ Len(file) \in Nat
  BY LenProperties DEF FillInv
<1>2. ASSUME NEW p \in 0 .. Size - 1 PROVE FileKey(p) \in Keys
  <2>1. p + 1 \in 1 .. Len(file)
    BY <1>1 DEF Size
  <2>2. file[p + 1] \in Record
    BY <1>1, <2>1, ElementOfSeq
  <2> QED BY <2>2 DEF FileKey, Record
<1> QED BY <1>1, <1>2 DEF Size

\* A search leaves the cells it has read filled with the keys at their positions.
LEMMA FillCaches ==
  ASSUME IndexAssumption, FillInv, CacheInv, Size > 0,
         NEW read \in SUBSET Reads(Size), Fill(read)
  PROVE  CacheInv'
<1>1. file' = file
  BY DEF Fill
<1>2. Size' = Size /\ \A p : FileKey(p)' = FileKey(p)
  BY <1>1 DEF Size, FileKey
<1>3. Size \in Nat /\ \A p \in 0 .. Size - 1 : FileKey(p) \in Keys
  BY Searchable
<1>4. ASSUME NEW c \in Cells
      PROVE  /\ cacheKey'[c] \in Keys \cup {NoKey}
             /\ cacheKey'[c] # NoKey => cacheKey'[c] = FileKey(PosOf(Size, c))
  <2>1. CASE cacheKey[c] = NoKey /\ \E p \in 0 .. Size : <<c, p>> \in read
    <3>1. PICK p : p = CHOOSE q \in 0 .. Size : <<c, q>> \in read
      OBVIOUS
    <3>2. p \in 0 .. Size /\ <<c, p>> \in read
      BY <2>1, <3>1, Zenon
    <3>3. cacheKey'[c] = FileKey(p)
      BY <2>1, <3>1 DEF Fill
    <3>4. p \in 0 .. Size - 1 /\ p = PosOf(Size, c)
      BY <3>2 DEF Reads
    <3> QED BY <1>3, <3>3, <3>4
  <2>2. CASE ~(cacheKey[c] = NoKey /\ \E p \in 0 .. Size : <<c, p>> \in read)
    <3>1. cacheKey'[c] = cacheKey[c]
      BY <2>2 DEF Fill
    <3> QED BY <3>1 DEF CacheInv
  <2> QED BY <2>1, <2>2
<1>5. cacheKey' \in [Cells -> Keys \cup {NoKey}]
  <2>1. cacheKey' = [c \in Cells |-> cacheKey'[c]]
    BY DEF Fill
  <2> QED BY <1>4, <2>1
<1>6. ASSUME NEW c \in Cells, cacheKey'[c] # NoKey
      PROVE  Size' > 0 /\ cacheKey'[c] = FileKey(PosOf(Size, c))'
  <2>1. FileKey(PosOf(Size, c))' = FileKey(PosOf(Size, c))
    BY <1>1, <1>2 DEF FileKey
  <2> QED BY <1>1, <1>2, <1>4, <1>6, <2>1
<1> QED BY <1>5, <1>6 DEF CacheInv

\* A cell gives the key at the position it stands for, filled or not.
LEMMA CellGivesKey ==
  ASSUME CacheInv, NEW c \in Cells
  PROVE  KeyAt(c, PosOf(Size, c)) = FileKey(PosOf(Size, c))
BY DEF CacheInv, KeyAt

\* A bisection compares with the key in the middle.
LEMMA PivotRight ==
  ASSUME IndexAssumption, FillInv, CacheInv,
         NEW r \in RangesIn(Size), r.hi - r.lo > 1, Placed(Size, r)
  PROVE  /\ Pivot(r) \in 0 .. Size - 1
         /\ PivotKey(r) = FileKey(Pivot(r)) /\ PivotKey(r) \in Keys
         /\ PivotRead(r) \in SUBSET Reads(Size)
<1>1. Size \in Nat /\ \A p \in 0 .. Size - 1 : FileKey(p) \in Keys
  BY Searchable
<1>2. Pivot(r) \in 0 .. Size - 1 /\ PivotCell(r) \in Cells
  BY <1>1, Halves
<1>3. Cached(r) => PosOf(Size, PivotCell(r)) = Pivot(r)
  BY <1>1, HalvesPlaced
<1>4. PivotKey(r) = FileKey(Pivot(r))
  BY <1>2, <1>3, CellGivesKey DEF PivotKey
<1>5. PivotRead(r) \in SUBSET Reads(Size)
  BY <1>2, <1>3 DEF PivotRead, Reads
<1> QED BY <1>1, <1>2, <1>4, <1>5

\* The keys at the ends of the file.
LEMMA EndsRight ==
  ASSUME IndexAssumption, FillInv, CacheInv, Size > 0
  PROVE  /\ FirstKey = FileKey(0) /\ LastKey = FileKey(Size - 1)
         /\ FirstRead \in SUBSET Reads(Size) /\ LastRead \in SUBSET Reads(Size)
<1>1. Size \in Nat
  BY Searchable
<1>2. 0 \in Cells /\ CacheSize - 1 \in Cells /\ CacheSize - 1 # 0
  BY DEF Cells, IndexAssumption
<1>3. PosOf(Size, 0) = 0 /\ PosOf(Size, CacheSize - 1) = Size - 1
  BY <1>2 DEF PosOf
<1>4. FirstKey = FileKey(0) /\ LastKey = FileKey(Size - 1)
  BY <1>2, <1>3, CellGivesKey DEF FirstKey, LastKey
<1>5. <<0, 0>> \in Reads(Size) /\ <<CacheSize - 1, Size - 1>> \in Reads(Size)
  BY <1>1, <1>2, <1>3 DEF Reads
<1> QED BY <1>4, <1>5 DEF FirstRead, LastRead
-----------------------------------------------------------------------------
(* Functions on ranges that are defined from their values on the halves. *)

\* H defines a value for a range from the values for its halves.
Halving(n, V, H) ==
  /\ V # {} /\ H \in [RangesIn(n) \X [RangesIn(n) -> V] -> V]
  /\ \A r \in RangesIn(n) : \A g, h \in [RangesIn(n) -> V] :
       (r.hi - r.lo > 1 => /\ g[LowerHalf(r)] = h[LowerHalf(r)]
                           /\ g[UpperHalf(r)] = h[UpperHalf(r)])
          => H[<<r, g>>] = H[<<r, h>>]

\* The positions between the ends of a range.
Width(n) == [r \in RangesIn(n) |-> IF r.hi > r.lo THEN r.hi - r.lo ELSE 0]

\* The halves of a range are narrower than it.
LEMMA WidthShrinks ==
  ASSUME IndexAssumption, NEW n \in Nat
  PROVE  /\ Width(n) \in [RangesIn(n) -> 0 .. n] /\ Width(n) \in [RangesIn(n) -> Nat]
         /\ \A r \in RangesIn(n) : r.hi - r.lo > 1 =>
              /\ Width(n)[LowerHalf(r)] < Width(n)[r]
              /\ Width(n)[UpperHalf(r)] < Width(n)[r]
<1>1. ASSUME NEW r \in RangesIn(n)
      PROVE  (IF r.hi > r.lo THEN r.hi - r.lo ELSE 0) \in 0 .. n
  BY Halves
<1>2. ASSUME NEW r \in RangesIn(n), r.hi - r.lo > 1
      PROVE  /\ Width(n)[LowerHalf(r)] < Width(n)[r]
             /\ Width(n)[UpperHalf(r)] < Width(n)[r]
  <2>1. LowerHalf(r) \in RangesIn(n) /\ UpperHalf(r) \in RangesIn(n)
    BY Halves
  <2> QED BY <1>2, <2>1, Halves DEF Width
<1>3. Width(n) \in [RangesIn(n) -> 0 .. n]
  BY <1>1 DEF Width
<1>4. \A m \in 0 .. n : m \in Nat
  OBVIOUS
<1> QED BY <1>2, <1>3, <1>4

\* What is defined from its values on the halves exists.
LEMMA RangeRecursion ==
  ASSUME IndexAssumption, NEW n \in Nat, NEW V, NEW H, Halving(n, V, H)
  PROVE  Defined(RangesIn(n), V, H)
<1>1. ASSUME NEW r \in RangesIn(n), NEW g \in [RangesIn(n) -> V], NEW h \in [RangesIn(n) -> V],
             \A y \in RangesIn(n) : Width(n)[y] < Width(n)[r] => g[y] = h[y]
      PROVE  H[<<r, g>>] = H[<<r, h>>]
  <2>1. r.hi - r.lo > 1 => /\ g[LowerHalf(r)] = h[LowerHalf(r)]
                           /\ g[UpperHalf(r)] = h[UpperHalf(r)]
    <3> HAVE r.hi - r.lo > 1
    <3>1. LowerHalf(r) \in RangesIn(n) /\ UpperHalf(r) \in RangesIn(n)
      BY Halves
    <3> QED BY <1>1, <3>1, WidthShrinks
  <2> QED BY <2>1 DEF Halving
<1>2. Definable(RangesIn(n), V, n, Width(n), H)
  BY <1>1, WidthShrinks DEF Definable, Halving
<1> QED BY <1>2, RankRecursion
\* A set that holds a range whenever it holds its halves.
FromHalves(n, S) ==
  \A r \in RangesIn(n) :
    (r.hi - r.lo > 1 => LowerHalf(r) \in S /\ UpperHalf(r) \in S) => r \in S

\* A set that holds a range whenever it holds its halves holds all of them.
LEMMA RangeInduction ==
  ASSUME IndexAssumption, NEW n \in Nat, NEW S \in SUBSET RangesIn(n), FromHalves(n, S)
  PROVE  S = RangesIn(n)
<1>1. ASSUME NEW r \in RangesIn(n),
             \A y \in RangesIn(n) : Width(n)[y] < Width(n)[r] => y \in S
      PROVE  r \in S
  <2>1. LowerHalf(r) \in RangesIn(n) /\ UpperHalf(r) \in RangesIn(n)
    BY Halves
  <2>2. r.hi - r.lo > 1 => LowerHalf(r) \in S /\ UpperHalf(r) \in S
    BY <1>1, <2>1, WidthShrinks
  <2> QED BY <2>2 DEF FromHalves
<1>2. Inductive(RangesIn(n), Width(n), S)
  BY <1>1 DEF Inductive
<1> QED BY <1>2, WidthShrinks, RankInduction
-----------------------------------------------------------------------------
(* The bisection of find. *)

\* What the bisection of find makes of a range.
BisectStep(bisect, key, r) ==
  IF r.hi - r.lo <= 1 THEN NotFound
  ELSE LET half == IF PivotKey(r) > key THEN bisect[LowerHalf(r)]
                   ELSE IF PivotKey(r) = key
                     THEN [found |-> TRUE, pos |-> Pivot(r), read |-> {}]
                   ELSE bisect[UpperHalf(r)]
       IN [half EXCEPT !.read = @ \cup PivotRead(r)]

\* The bisection of find is what its definition says.
LEMMA BisectionDefined ==
  ASSUME IndexAssumption, Size \in Nat, NEW key
  PROVE  \A r \in RangesIn(Size) : Bisection(key)[r] = BisectStep(Bisection(key), key, r)
<1>1. PICK V : V = [found : BOOLEAN, pos : Int, read : SUBSET (Cells \X Int)]
  OBVIOUS
<1>2. PICK X : X = RangesIn(Size)
  OBVIOUS
<1>3. PICK H : H = [z \in X \X [X -> V] |-> BisectStep(z[2], key, z[1])]
  OBVIOUS
<1>4. NotFound \in V
  BY <1>1 DEF NotFound
<1>5. ASSUME NEW g \in [X -> V], NEW r \in X
      PROVE  BisectStep(g, key, r) \in V
  <2>1. /\ LowerHalf(r) \in X /\ UpperHalf(r) \in X
        /\ Pivot(r) \in Int /\ PivotCell(r) \in Cells
    BY <1>2, Halves
  <2>2. g[LowerHalf(r)] \in V /\ g[UpperHalf(r)] \in V
        /\ [found |-> TRUE, pos |-> Pivot(r), read |-> {}] \in V
    BY <1>1, <2>1
  <2>3. PivotRead(r) \in SUBSET (Cells \X Int)
    BY <2>1 DEF PivotRead
  <2>4. \A v \in V : [v EXCEPT !.read = @ \cup PivotRead(r)] \in V
    BY <1>1, <2>3
  <2> QED BY <1>4, <2>2, <2>4 DEF BisectStep
<1>6. H \in [X \X [X -> V] -> V]
  BY <1>3, <1>5
<1>7. ASSUME NEW r \in X, NEW g \in [X -> V], NEW h \in [X -> V],
             r.hi - r.lo > 1 => /\ g[LowerHalf(r)] = h[LowerHalf(r)]
                                /\ g[UpperHalf(r)] = h[UpperHalf(r)]
      PROVE  H[<<r, g>>] = H[<<r, h>>]
  <2>1. H[<<r, g>>] = BisectStep(g, key, r) /\ H[<<r, h>>] = BisectStep(h, key, r)
    BY <1>3
  <2>2. ~(r.hi - r.lo <= 1) => r.hi - r.lo > 1
    BY <1>2, Halves
  <2>3. BisectStep(g, key, r) = BisectStep(h, key, r)
    BY <1>7, <2>2 DEF BisectStep
  <2> QED BY <2>1, <2>3
<1>8. Halving(Size, V, H)
  BY <1>2, <1>4, <1>6, <1>7 DEF Halving
<1>9. PICK f \in [X -> V] : \A r \in X : f[r] = H[<<r, f>>]
  BY <1>2, <1>8, RangeRecursion DEF Defined
<1>10. f = [r \in Ranges |-> BisectStep(f, key, r)]
  <2>1. \A r \in X : f[r] = BisectStep(f, key, r)
    BY <1>3, <1>9
  <2>2. Ranges = X
    BY <1>2 DEF Ranges, RangesIn
  <2> QED BY <2>1, <2>2
<1>11. Bisection(key) = CHOOSE b : b = [r \in Ranges |-> BisectStep(b, key, r)]
  BY DEF Bisection, BisectStep
<1>12. Bisection(key) = [r \in Ranges |-> BisectStep(Bisection(key), key, r)]
  BY <1>10, <1>11
<1>13. Ranges = RangesIn(Size)
  BY DEF Ranges, RangesIn
<1> QED BY <1>12, <1>13

\* In a sorted file keys do not fall from one position to a later one.
LEMMA KeysRise ==
  ASSUME IndexAssumption, FillInv, InOrder(file), NEW p \in 0 .. Size - 1, NEW q \in p .. Size - 1
  PROVE  FileKey(p) <= FileKey(q)
<1>1. Size \in Nat /\ \A i \in 0 .. Size - 1 : FileKey(i) \in Int
  BY Searchable DEF IndexAssumption
<1>2. PICK T : T = {i \in p .. Size - 1 : ~(FileKey(p) <= FileKey(i))}
  OBVIOUS
<1> SUFFICES ASSUME T # {} PROVE FALSE
  BY <1>2
<1>3. T \in SUBSET Nat
  BY <1>2
<1>4. PICK i \in T : \A j \in T : i <= j
  BY <1>3, LeastElement
<1>5. i # p /\ i \in 0 .. Size - 1 /\ p < i
  BY <1>1, <1>2
<1>6. i - 1 \in p .. Size - 1 /\ i - 1 \notin T /\ i - 1 \in 0 .. Size - 1
  BY <1>1, <1>2, <1>4, <1>5
<1>7. FileKey(p) <= FileKey(i - 1)
  BY <1>2, <1>6
<1>8. FileKey(i - 1) <= FileKey(i)
  <2>1. i \in 1 .. Len(file) - 1 /\ (i - 1) + 1 = i
    BY <1>1, <1>5 DEF Size
  <2> QED BY <2>1 DEF InOrder, FileKey
<1>9. FileKey(p) <= FileKey(i)
  BY <1>1, <1>5, <1>6, <1>7, <1>8
<1> QED BY <1>2, <1>9

\* What the bisection of a range yields.
BisectRight(key, r) ==
  LET b == Bisection(key)[r] IN
  /\ b \in [found : BOOLEAN, pos : 0 .. Size - 1, read : SUBSET Reads(Size)]
  /\ b.found => FileKey(b.pos) = key
  /\ InOrder(file) /\ r.lo < r.hi /\ r.hi <= Size - 1
     /\ FileKey(r.lo) < key /\ key < FileKey(r.hi) => (key \in Held => b.found)

\* The bisection of find reads cells for their positions, finds only what is there, and
\* in a sorted file finds what lies between the ends of its range.
LEMMA BisectionRight ==
  ASSUME IndexAssumption, FillInv, CacheInv, Size > 0, NEW key \in Int
  PROVE  \A r \in RangesIn(Size) : Placed(Size, r) => BisectRight(key, r)
<1>1. Size \in Nat /\ \A i \in 0 .. Size - 1 : FileKey(i) \in Int
  BY Searchable DEF IndexAssumption
<1>2. PICK S : S = {r \in RangesIn(Size) : Placed(Size, r) => BisectRight(key, r)}
  OBVIOUS
<1>3. ASSUME NEW r \in RangesIn(Size), Placed(Size, r),
             r.hi - r.lo > 1 => LowerHalf(r) \in S /\ UpperHalf(r) \in S
      PROVE  BisectRight(key, r)
  <2>1. PICK b : b = Bisection(key)[r]
    OBVIOUS
  <2>2. b = BisectStep(Bisection(key), key, r)
    BY <1>1, <2>1, BisectionDefined
  <2>3. r.lo \in 0 .. Size /\ r.hi \in 0 .. Size
    BY <1>1, Halves
  <2>4. CASE r.hi - r.lo <= 1
    <3>1. b = NotFound
      BY <2>2, <2>4 DEF BisectStep
    <3>2. ASSUME InOrder(file), r.lo < r.hi, r.hi <= Size - 1,
                 FileKey(r.lo) < key, key < FileKey(r.hi), key \in Held
          PROVE  FALSE
      <4>1. PICK p \in 0 .. Size - 1 : FileKey(p) = key
        BY <3>2 DEF Held
      <4>2. CASE p <= r.lo
        <5>1. r.lo \in p .. Size - 1
          BY <1>1, <2>3, <3>2, <4>2
        <5>2. FileKey(p) <= FileKey(r.lo) /\ FileKey(r.lo) \in Int
          BY <1>1, <2>3, <3>2, <5>1, KeysRise
        <5> QED BY <1>1, <3>2, <4>1, <5>2
      <4>3. CASE p > r.lo
        <5>1. r.hi \in 0 .. Size - 1 /\ p \in r.hi .. Size - 1
          BY <1>1, <2>3, <2>4, <3>2, <4>3
        <5>2. FileKey(r.hi) <= FileKey(p) /\ FileKey(r.hi) \in Int
          BY <1>1, <3>2, <5>1, KeysRise
        <5> QED BY <1>1, <3>2, <4>1, <5>2
      <4> QED BY <1>1, <2>3, <4>2, <4>3
    <3> QED BY <1>1, <2>1, <3>1, <3>2 DEF BisectRight, NotFound
  <2>5. CASE r.hi - r.lo > 1
    <3>1. /\ Pivot(r) \in 0 .. Size - 1
          /\ PivotKey(r) = FileKey(Pivot(r)) /\ PivotKey(r) \in Int
          /\ PivotRead(r) \in SUBSET Reads(Size)
      BY <1>3, <2>5, PivotRight DEF IndexAssumption
    <3>2. BisectRight(key, LowerHalf(r)) /\ BisectRight(key, UpperHalf(r))
      <4>1. /\ LowerHalf(r) \in RangesIn(Size) /\ UpperHalf(r) \in RangesIn(Size)
            /\ Placed(Size, LowerHalf(r)) /\ Placed(Size, UpperHalf(r))
        BY <1>1, <1>3, <2>5, Halves, HalvesPlaced
      <4>2. LowerHalf(r) \in S /\ UpperHalf(r) \in S
        BY <1>3, <2>5
      <4> QED BY <1>2, <4>1, <4>2
    <3>3. /\ LowerHalf(r).lo = r.lo /\ LowerHalf(r).hi = Pivot(r)
          /\ UpperHalf(r).lo = Pivot(r) /\ UpperHalf(r).hi = r.hi
      BY <1>1, Halves
    <3>4. r.lo < Pivot(r) /\ Pivot(r) < r.hi
      BY <1>1, <2>5, Halves
    <3>5. PICK half \in [found : BOOLEAN, pos : 0 .. Size - 1, read : SUBSET Reads(Size)] :
            /\ b = [half EXCEPT !.read = @ \cup PivotRead(r)]
            /\ half.found => FileKey(half.pos) = key
            /\ InOrder(file) /\ r.lo < r.hi /\ r.hi <= Size - 1
               /\ FileKey(r.lo) < key /\ key < FileKey(r.hi) => (key \in Held => half.found)
      <4>0. ~(r.hi - r.lo <= 1)
        BY <2>3, <2>5
      <4>1. CASE PivotKey(r) > key
        <5>1. b = [Bisection(key)[LowerHalf(r)] EXCEPT !.read = @ \cup PivotRead(r)]
          BY <2>2, <4>0, <4>1 DEF BisectStep
        <5>2. key < FileKey(Pivot(r)) /\ Pivot(r) <= Size - 1
          BY <1>1, <3>1, <4>1
        <5>3. PICK half : half = Bisection(key)[LowerHalf(r)]
          OBVIOUS
        <5>4. /\ half \in [found : BOOLEAN, pos : 0 .. Size - 1, read : SUBSET Reads(Size)]
              /\ half.found => FileKey(half.pos) = key
              /\ InOrder(file) /\ FileKey(r.lo) < key /\ key \in Held => half.found
          BY <3>2, <3>3, <3>4, <5>2, <5>3 DEF BisectRight
        <5> QED BY <5>1, <5>3, <5>4
      <4>2. CASE PivotKey(r) = key
        <5>1. ~(PivotKey(r) > key)
          BY <3>1, <4>2
        <5>2. b = [[found |-> TRUE, pos |-> Pivot(r), read |-> {}] EXCEPT !.read = @ \cup PivotRead(r)]
          BY <2>2, <4>0, <4>2, <5>1 DEF BisectStep
        <5>3. [found |-> TRUE, pos |-> Pivot(r), read |-> {}] \in
                [found : BOOLEAN, pos : 0 .. Size - 1, read : SUBSET Reads(Size)]
          BY <3>1
        <5> QED BY <3>1, <4>2, <5>2, <5>3
      <4>3. CASE PivotKey(r) < key
        <5>1. ~(PivotKey(r) > key) /\ PivotKey(r) # key
          BY <3>1, <4>3
        <5>2. b = [Bisection(key)[UpperHalf(r)] EXCEPT !.read = @ \cup PivotRead(r)]
          BY <2>2, <4>0, <5>1 DEF BisectStep
        <5>3. PICK half : half = Bisection(key)[UpperHalf(r)]
          OBVIOUS
        <5>4. /\ half \in [found : BOOLEAN, pos : 0 .. Size - 1, read : SUBSET Reads(Size)]
              /\ half.found => FileKey(half.pos) = key
              /\ InOrder(file) /\ r.hi <= Size - 1 /\ key < FileKey(r.hi) /\ key \in Held => half.found
          BY <3>1, <3>2, <3>3, <3>4, <4>3, <5>3 DEF BisectRight
        <5> QED BY <5>2, <5>3, <5>4
      <4> QED BY <3>1, <4>1, <4>2, <4>3
    <3>6. /\ b \in [found : BOOLEAN, pos : 0 .. Size - 1, read : SUBSET Reads(Size)]
          /\ b.found = half.found /\ b.pos = half.pos
      BY <3>1, <3>5
    <3> QED BY <2>1, <3>5, <3>6 DEF BisectRight
  <2> QED BY <2>3, <2>4, <2>5
<1>4. FromHalves(Size, S) /\ S \in SUBSET RangesIn(Size)
  BY <1>2, <1>3 DEF FromHalves
<1>5. S = RangesIn(Size)
  BY <1>1, <1>4, RangeInduction
<1> QED BY <1>2, <1>5

\* find, in a file that may or may not be sorted: a key is found only where it is, and
\* in a sorted file it is found if it is anywhere.
FindAnswers(key) ==
  /\ Find(key).read \in SUBSET Reads(Size)
  /\ Find(key).found \in BOOLEAN
  /\ Find(key).found => Find(key).pos \in 0 .. Size - 1 /\ FileKey(Find(key).pos) = key
  /\ InOrder(file) /\ key \in Held => Find(key).found

\* find is right about every key, whatever cells have been filled.
LEMMA FindRight ==
  ASSUME IndexAssumption, FillInv, CacheInv, Size > 0, NEW key \in Int
  PROVE  FindAnswers(key)
<1>1. Size \in Nat /\ \A i \in 0 .. Size - 1 : FileKey(i) \in Int
  BY Searchable DEF IndexAssumption
<1>2. 0 \in 0 .. Size - 1 /\ Size - 1 \in 0 .. Size - 1 /\ Size # 0
  BY <1>1
<1>3. /\ FirstKey = FileKey(0) /\ LastKey = FileKey(Size - 1)
      /\ FirstKey \in Int /\ LastKey \in Int
      /\ FirstRead \in SUBSET Reads(Size) /\ LastRead \in SUBSET Reads(Size)
  BY <1>1, <1>2, EndsRight
<1>4. PICK f : f = Find(key)
  OBVIOUS
<1>5. CASE FirstKey >= key
  <2>1. f = [found |-> FirstKey = key, pos |-> 0, read |-> FirstRead]
    BY <1>2, <1>4, <1>5 DEF Find
  <2>2. InOrder(file) /\ key \in Held => FirstKey = key
    <3> SUFFICES ASSUME InOrder(file), NEW p \in 0 .. Size - 1, FileKey(p) = key PROVE FirstKey = key
      BY DEF Held
    <3>1. FileKey(0) <= FileKey(p)
      BY <1>2, KeysRise
    <3> QED BY <1>3, <1>5, <3>1
  <2>3. f.found <=> FirstKey = key
    BY <2>1
  <2>4. f.pos = 0 /\ f.read = FirstRead /\ f.found \in BOOLEAN
    BY <2>1
  <2> QED BY <1>2, <1>3, <1>4, <2>2, <2>3, <2>4 DEF FindAnswers
<1>6. CASE ~(FirstKey >= key) /\ LastKey <= key
  <2>1. f = [found |-> LastKey = key, pos |-> Size - 1, read |-> FirstRead \cup LastRead]
    BY <1>2, <1>4, <1>6 DEF Find
  <2>2. InOrder(file) /\ key \in Held => LastKey = key
    <3> SUFFICES ASSUME InOrder(file), NEW p \in 0 .. Size - 1, FileKey(p) = key PROVE LastKey = key
      BY DEF Held
    <3>1. Size - 1 \in p .. Size - 1
      BY <1>1
    <3>2. FileKey(p) <= FileKey(Size - 1)
      BY <3>1, KeysRise
    <3> QED BY <1>3, <1>6, <3>2
  <2>3. f.found <=> LastKey = key
    BY <2>1
  <2>4. f.pos = Size - 1 /\ f.read = FirstRead \cup LastRead /\ f.found \in BOOLEAN
    BY <2>1
  <2> QED BY <1>2, <1>3, <1>4, <2>2, <2>3, <2>4 DEF FindAnswers
<1>7. CASE ~(FirstKey >= key) /\ ~(LastKey <= key)
  <2>1. PICK b : b = Bisection(key)[Whole]
    OBVIOUS
  <2>2. f = [b EXCEPT !.read = @ \cup FirstRead \cup LastRead]
    BY <1>2, <1>4, <1>7, <2>1 DEF Find
  <2>3. Whole = WholeOf(Size) /\ Whole \in RangesIn(Size) /\ Placed(Size, Whole)
    BY <1>1, WholePlaced DEF Whole, WholeOf
  <2>4. BisectRight(key, Whole)
    BY <2>3, BisectionRight
  <2>5. Whole.lo = 0 /\ Whole.hi = Size - 1 /\ Whole.lo < Whole.hi
    <3>1. Whole.lo = 0 /\ Whole.hi = Size - 1
      BY DEF Whole
    <3>2. Size - 1 # 0
      BY <1>3, <1>7
    <3> QED BY <1>1, <3>1, <3>2
  <2>6. /\ b \in [found : BOOLEAN, pos : 0 .. Size - 1, read : SUBSET Reads(Size)]
        /\ b.found => FileKey(b.pos) = key
        /\ InOrder(file) /\ key \in Held => b.found
    <3>1. FileKey(0) < key /\ key < FileKey(Size - 1) /\ Whole.hi <= Size - 1
      BY <1>1, <1>3, <1>7, <2>5
    <3> QED BY <2>1, <2>4, <2>5, <3>1 DEF BisectRight
  <2>7. f.found = b.found /\ f.pos = b.pos /\ f.read = b.read \cup FirstRead \cup LastRead
    BY <2>2, <2>6
  <2> QED BY <1>3, <1>4, <2>6, <2>7 DEF FindAnswers
<1> QED BY <1>5, <1>6, <1>7
-----------------------------------------------------------------------------
(* The bisection of findLastLesser. *)

\* What the bisection of findLastLesser makes of a range.
LesserStep(bisect, key, r) ==
  IF r.hi - r.lo <= 1 THEN [pos |-> r.lo, read |-> {}]
  ELSE LET half == IF PivotKey(r) >= key THEN bisect[LowerHalf(r)]
                   ELSE bisect[UpperHalf(r)]
       IN [half EXCEPT !.read = @ \cup PivotRead(r)]

\* The bisection of findLastLesser is what its definition says.
LEMMA LesserDefined ==
  ASSUME IndexAssumption, Size \in Nat, NEW key
  PROVE  \A r \in RangesIn(Size) :
           LesserBisection(key)[r] = LesserStep(LesserBisection(key), key, r)
<1>1. PICK V : V = [pos : Int, read : SUBSET (Cells \X Int)]
  OBVIOUS
<1>2. PICK X : X = RangesIn(Size)
  OBVIOUS
<1>3. PICK H : H = [z \in X \X [X -> V] |-> LesserStep(z[2], key, z[1])]
  OBVIOUS
<1>4. ASSUME NEW g \in [X -> V], NEW r \in X
      PROVE  LesserStep(g, key, r) \in V
  <2>1. /\ LowerHalf(r) \in X /\ UpperHalf(r) \in X
        /\ Pivot(r) \in Int /\ PivotCell(r) \in Cells /\ r.lo \in Int
    BY <1>2, Halves
  <2>2. g[LowerHalf(r)] \in V /\ g[UpperHalf(r)] \in V /\ [pos |-> r.lo, read |-> {}] \in V
    BY <1>1, <2>1
  <2>3. PivotRead(r) \in SUBSET (Cells \X Int)
    BY <2>1 DEF PivotRead
  <2>4. \A v \in V : [v EXCEPT !.read = @ \cup PivotRead(r)] \in V
    BY <1>1, <2>3
  <2> QED BY <2>2, <2>4 DEF LesserStep
<1>5. H \in [X \X [X -> V] -> V]
  BY <1>3, <1>4
<1>6. V # {}
  <2>1. [pos |-> 0, read |-> {}] \in V
    BY <1>1
  <2> QED BY <2>1
<1>7. ASSUME NEW r \in X, NEW g \in [X -> V], NEW h \in [X -> V],
             r.hi - r.lo > 1 => /\ g[LowerHalf(r)] = h[LowerHalf(r)]
                                /\ g[UpperHalf(r)] = h[UpperHalf(r)]
      PROVE  H[<<r, g>>] = H[<<r, h>>]
  <2>1. H[<<r, g>>] = LesserStep(g, key, r) /\ H[<<r, h>>] = LesserStep(h, key, r)
    BY <1>3
  <2>2. ~(r.hi - r.lo <= 1) => r.hi - r.lo > 1
    BY <1>2, Halves
  <2>3. LesserStep(g, key, r) = LesserStep(h, key, r)
    BY <1>7, <2>2 DEF LesserStep
  <2> QED BY <2>1, <2>3
<1>8. Halving(Size, V, H)
  BY <1>2, <1>5, <1>6, <1>7 DEF Halving
<1>9. PICK f \in [X -> V] : \A r \in X : f[r] = H[<<r, f>>]
  BY <1>2, <1>8, RangeRecursion DEF Defined
<1>10. f = [r \in Ranges |-> LesserStep(f, key, r)]
  <2>1. \A r \in X : f[r] = LesserStep(f, key, r)
    BY <1>3, <1>9
  <2>2. Ranges = X
    BY <1>2 DEF Ranges, RangesIn
  <2> QED BY <2>1, <2>2
<1>11. LesserBisection(key) = CHOOSE b : b = [r \in Ranges |-> LesserStep(b, key, r)]
  BY DEF LesserBisection, LesserStep
<1>12. LesserBisection(key) = [r \in Ranges |-> LesserStep(LesserBisection(key), key, r)]
  BY <1>10, <1>11
<1>13. Ranges = RangesIn(Size)
  BY DEF Ranges, RangesIn
<1> QED BY <1>12, <1>13

\* What it yields for a range with a lesser key at its beginning and none at its end.
LesserRight(key, r) ==
  LET b == LesserBisection(key)[r] IN
  /\ b \in [pos : 0 .. Size, read : SUBSET Reads(Size)]
  /\ r.lo < r.hi /\ r.hi <= Size - 1 /\ FileKey(r.lo) < key /\ key <= FileKey(r.hi) =>
       /\ b.pos < Size - 1 /\ FileKey(b.pos) < key /\ key <= FileKey(b.pos + 1)

\* It ends at a key that is less, next to one that is not.
LEMMA LesserBisectionRight ==
  ASSUME IndexAssumption, FillInv, CacheInv, Size > 0, NEW key \in Int
  PROVE  \A r \in RangesIn(Size) : Placed(Size, r) => LesserRight(key, r)
<1>1. Size \in Nat /\ \A i \in 0 .. Size - 1 : FileKey(i) \in Int
  BY Searchable DEF IndexAssumption
<1>2. PICK S : S = {r \in RangesIn(Size) : Placed(Size, r) => LesserRight(key, r)}
  OBVIOUS
<1>3. ASSUME NEW r \in RangesIn(Size), Placed(Size, r),
             r.hi - r.lo > 1 => LowerHalf(r) \in S /\ UpperHalf(r) \in S
      PROVE  LesserRight(key, r)
  <2>1. PICK b : b = LesserBisection(key)[r]
    OBVIOUS
  <2>2. b = LesserStep(LesserBisection(key), key, r)
    BY <1>1, <2>1, LesserDefined
  <2>3. r.lo \in 0 .. Size /\ r.hi \in 0 .. Size
    BY <1>1, Halves
  <2>4. CASE r.hi - r.lo <= 1
    <3>1. b = [pos |-> r.lo, read |-> {}]
      BY <2>2, <2>4 DEF LesserStep
    <3>2. r.lo < r.hi /\ r.hi <= Size - 1 => r.hi = r.lo + 1 /\ r.lo < Size - 1
      BY <1>1, <2>3, <2>4
    <3> QED BY <1>1, <2>1, <2>3, <3>1, <3>2 DEF LesserRight
  <2>5. CASE r.hi - r.lo > 1
    <3>1. /\ Pivot(r) \in 0 .. Size - 1
          /\ PivotKey(r) = FileKey(Pivot(r)) /\ PivotKey(r) \in Int
          /\ PivotRead(r) \in SUBSET Reads(Size)
      BY <1>3, <2>5, PivotRight DEF IndexAssumption
    <3>2. LesserRight(key, LowerHalf(r)) /\ LesserRight(key, UpperHalf(r))
      <4>1. /\ LowerHalf(r) \in RangesIn(Size) /\ UpperHalf(r) \in RangesIn(Size)
            /\ Placed(Size, LowerHalf(r)) /\ Placed(Size, UpperHalf(r))
        BY <1>1, <1>3, <2>5, Halves, HalvesPlaced
      <4>2. LowerHalf(r) \in S /\ UpperHalf(r) \in S
        BY <1>3, <2>5
      <4> QED BY <1>2, <4>1, <4>2
    <3>3. /\ LowerHalf(r).lo = r.lo /\ LowerHalf(r).hi = Pivot(r)
          /\ UpperHalf(r).lo = Pivot(r) /\ UpperHalf(r).hi = r.hi
          /\ r.lo < Pivot(r) /\ Pivot(r) < r.hi
      BY <1>1, <2>5, Halves
    <3>4. PICK half \in [pos : 0 .. Size, read : SUBSET Reads(Size)] :
            /\ b = [half EXCEPT !.read = @ \cup PivotRead(r)]
            /\ r.hi <= Size - 1 /\ FileKey(r.lo) < key /\ key <= FileKey(r.hi) =>
                 half.pos < Size - 1 /\ FileKey(half.pos) < key /\ key <= FileKey(half.pos + 1)
      <4>1. ~(r.hi - r.lo <= 1)
        BY <2>3, <2>5
      <4>2. CASE PivotKey(r) >= key
        <5>1. PICK half : half = LesserBisection(key)[LowerHalf(r)]
          OBVIOUS
        <5>2. b = [half EXCEPT !.read = @ \cup PivotRead(r)]
          BY <2>2, <4>1, <4>2, <5>1 DEF LesserStep
        <5>3. key <= FileKey(Pivot(r)) /\ Pivot(r) <= Size - 1
          BY <1>1, <3>1, <4>2
        <5>4. /\ half \in [pos : 0 .. Size, read : SUBSET Reads(Size)]
              /\ FileKey(r.lo) < key =>
                   half.pos < Size - 1 /\ FileKey(half.pos) < key /\ key <= FileKey(half.pos + 1)
          BY <3>2, <3>3, <5>1, <5>3 DEF LesserRight
        <5> QED BY <5>2, <5>4
      <4>3. CASE ~(PivotKey(r) >= key)
        <5>1. PICK half : half = LesserBisection(key)[UpperHalf(r)]
          OBVIOUS
        <5>2. b = [half EXCEPT !.read = @ \cup PivotRead(r)]
          BY <2>2, <4>1, <4>3, <5>1 DEF LesserStep
        <5>3. FileKey(Pivot(r)) < key
          BY <3>1, <4>3
        <5>4. /\ half \in [pos : 0 .. Size, read : SUBSET Reads(Size)]
              /\ r.hi <= Size - 1 /\ key <= FileKey(r.hi) =>
                   half.pos < Size - 1 /\ FileKey(half.pos) < key /\ key <= FileKey(half.pos + 1)
          BY <3>2, <3>3, <5>1, <5>3 DEF LesserRight
        <5> QED BY <5>2, <5>4
      <4> QED BY <4>2, <4>3
    <3>5. b \in [pos : 0 .. Size, read : SUBSET Reads(Size)] /\ b.pos = half.pos
      BY <3>1, <3>4
    <3> QED BY <2>1, <3>4, <3>5 DEF LesserRight
  <2> QED BY <2>3, <2>4, <2>5
<1>4. FromHalves(Size, S) /\ S \in SUBSET RangesIn(Size)
  BY <1>2, <1>3 DEF FromHalves
<1>5. S = RangesIn(Size)
  BY <1>1, <1>4, RangeInduction
<1> QED BY <1>2, <1>5

\* findLastLesser: the position before the first key that is not less, or the first one.
LesserAnswers(key) ==
  LET p == FindLastLesser(key).pos IN
  /\ FindLastLesser(key).read \in SUBSET Reads(Size)
  /\ p \in 0 .. Size - 1
  /\ \/ p = 0 /\ key <= FileKey(p)
     \/ FileKey(p) < key /\ (p < Size - 1 => key <= FileKey(p + 1))

\* findLastLesser ends at the first position, or at a key that is less and not followed
\* by another that is.
LEMMA FindLastLesserRight ==
  ASSUME IndexAssumption, FillInv, CacheInv, Size > 0, NEW key \in Int
  PROVE  LesserAnswers(key)
<1>1. Size \in Nat /\ \A i \in 0 .. Size - 1 : FileKey(i) \in Int
  BY Searchable DEF IndexAssumption
<1>2. 0 \in 0 .. Size - 1 /\ Size - 1 \in 0 .. Size - 1 /\ ~(Size - 1 < Size - 1)
  BY <1>1
<1>3. /\ FirstKey = FileKey(0) /\ LastKey = FileKey(Size - 1)
      /\ FirstKey \in Int /\ LastKey \in Int
      /\ FirstRead \in SUBSET Reads(Size) /\ LastRead \in SUBSET Reads(Size)
  BY <1>1, <1>2, EndsRight
<1>4. PICK f : f = FindLastLesser(key)
  OBVIOUS
<1>5. CASE FirstKey >= key
  <2>1. f = [pos |-> 0, read |-> FirstRead]
    BY <1>4, <1>5 DEF FindLastLesser
  <2>2. f.pos = 0 /\ f.read = FirstRead /\ key <= FileKey(0)
    BY <1>3, <1>5, <2>1
  <2>3. f.pos \in 0 .. Size - 1 /\ f.pos = 0 /\ key <= FileKey(f.pos)
    BY <1>2, <2>2
  <2>4. f.read \in SUBSET Reads(Size)
    BY <1>3, <2>2
  <2> QED BY <1>4, <2>3, <2>4 DEF LesserAnswers
<1>6. CASE ~(FirstKey >= key) /\ LastKey < key
  <2>1. f = [pos |-> Size - 1, read |-> FirstRead \cup LastRead]
    BY <1>4, <1>6 DEF FindLastLesser
  <2>2. f.pos = Size - 1 /\ f.read = FirstRead \cup LastRead
    BY <2>1
  <2> QED BY <1>2, <1>3, <1>4, <1>6, <2>2 DEF LesserAnswers
<1>7. CASE ~(FirstKey >= key) /\ ~(LastKey < key)
  <2>1. PICK b : b = LesserBisection(key)[Whole]
    OBVIOUS
  <2>2. f = [b EXCEPT !.read = @ \cup FirstRead \cup LastRead]
    BY <1>4, <1>7, <2>1 DEF FindLastLesser
  <2>3. Whole = WholeOf(Size) /\ Whole \in RangesIn(Size) /\ Placed(Size, Whole)
    BY <1>1, WholePlaced DEF Whole, WholeOf
  <2>4. LesserRight(key, Whole)
    BY <2>3, LesserBisectionRight
  <2>5. FileKey(0) < key /\ key <= FileKey(Size - 1)
    BY <1>3, <1>7
  <2>6. Whole.lo = 0 /\ Whole.hi = Size - 1 /\ Whole.lo < Whole.hi /\ Whole.hi <= Size - 1
    <3>1. Whole.lo = 0 /\ Whole.hi = Size - 1
      BY DEF Whole
    <3>2. Size - 1 # 0
      BY <1>3, <2>5
    <3> QED BY <1>1, <3>1, <3>2
  <2>7. /\ b \in [pos : 0 .. Size, read : SUBSET Reads(Size)]
        /\ b.pos < Size - 1 /\ FileKey(b.pos) < key /\ key <= FileKey(b.pos + 1)
    BY <2>1, <2>4, <2>5, <2>6 DEF LesserRight
  <2>8. f.pos = b.pos /\ f.read = b.read \cup FirstRead \cup LastRead /\ b.pos \in 0 .. Size - 1
    BY <1>1, <2>2, <2>7
  <2> QED BY <1>3, <1>4, <2>7, <2>8 DEF LesserAnswers
<1> QED BY <1>5, <1>6, <1>7
-----------------------------------------------------------------------------
(* Counting. *)

\* Part of an interval, from its beginning on.
LEMMA InitialSegment ==
  ASSUME NEW a \in Int, NEW b \in Int, NEW D \in SUBSET (a .. b),
         \A i \in D : \A j \in a .. i : j \in D
  PROVE  /\ Cardinality(D) \in Nat /\ D = a .. a + Cardinality(D) - 1
         /\ a <= b + 1 => a + Cardinality(D) - 1 <= b
<1>1. CASE D = {}
  <2>1. Cardinality(D) = 0
    BY <1>1, FS_EmptySet
  <2>2. a .. a + 0 - 1 = {} /\ (a <= b + 1 => a + 0 - 1 <= b)
    OBVIOUS
  <2> QED BY <1>1, <2>1, <2>2
<1>2. CASE D # {}
  <2>0. \A i \in D : i \in Int /\ a <= i /\ i <= b
    OBVIOUS
  <2>1. PICK T : T = {b - i : i \in D}
    OBVIOUS
  <2>2. T \in SUBSET Nat /\ T # {}
    <3>1. \A t \in T : t \in Nat
      BY <2>0, <2>1
    <3> QED BY <1>2, <2>1, <3>1
  <2>3. PICK t \in T : \A u \in T : t <= u
    BY <2>2, LeastElement
  <2>4. PICK m \in D : t = b - m
    BY <2>1, <2>3
  <2>5. \A i \in D : i <= m
    <3> SUFFICES ASSUME NEW i \in D PROVE i <= m
      OBVIOUS
    <3>1. b - i \in T
      BY <2>1
    <3> QED BY <2>3, <2>4, <3>1
  <2>6. D = a .. m /\ m \in Int /\ a <= m /\ m <= b
    <3>1. \A j \in a .. m : j \in D
      OBVIOUS
    <3>2. \A i \in D : i \in a .. m
      BY <2>0, <2>5
    <3>3. D = a .. m
      BY <3>1, <3>2
    <3> QED BY <2>0, <3>3
  <2>7. Cardinality(a .. m) = m - a + 1
    BY <2>6, FS_Interval
  <2> QED BY <2>6, <2>7
<1> QED BY <1>1, <1>2

\* Part of an interval, up to its end.
LEMMA FinalSegment ==
  ASSUME NEW a \in Int, NEW b \in Int, NEW D \in SUBSET (a .. b),
         \A i \in D : \A j \in i .. b : j \in D
  PROVE  /\ Cardinality(D) \in Nat /\ D = b - Cardinality(D) + 1 .. b
         /\ a <= b + 1 => a <= b - Cardinality(D) + 1
<1>1. CASE D = {}
  <2>1. Cardinality(D) = 0
    BY <1>1, FS_EmptySet
  <2>2. b - 0 + 1 .. b = {} /\ (a <= b + 1 => a <= b - 0 + 1)
    OBVIOUS
  <2> QED BY <1>1, <2>1, <2>2
<1>2. CASE D # {}
  <2>0. \A i \in D : i \in Int /\ a <= i /\ i <= b
    OBVIOUS
  <2>1. PICK T : T = {i - a : i \in D}
    OBVIOUS
  <2>2. T \in SUBSET Nat /\ T # {}
    <3>1. \A t \in T : t \in Nat
      BY <2>0, <2>1
    <3> QED BY <1>2, <2>1, <3>1
  <2>3. PICK t \in T : \A u \in T : t <= u
    BY <2>2, LeastElement
  <2>4. PICK m \in D : t = m - a
    BY <2>1, <2>3
  <2>5. \A i \in D : m <= i
    <3> SUFFICES ASSUME NEW i \in D PROVE m <= i
      OBVIOUS
    <3>1. i - a \in T
      BY <2>1
    <3> QED BY <2>3, <2>4, <3>1
  <2>6. D = m .. b /\ m \in Int /\ a <= m /\ m <= b
    <3>1. \A j \in m .. b : j \in D
      OBVIOUS
    <3>2. \A i \in D : i \in m .. b
      BY <2>0, <2>5
    <3>3. D = m .. b
      BY <3>1, <3>2
    <3> QED BY <2>0, <3>3
  <2>7. Cardinality(m .. b) = b - m + 1
    BY <2>6, FS_Interval
  <2> QED BY <2>6, <2>7
<1> QED BY <1>1, <1>2

\* Any part of an interval.
LEMMA Segment ==
  ASSUME NEW a \in Int, NEW b \in Int, NEW D \in SUBSET (a .. b)
  PROVE  /\ Cardinality(D) \in Nat
         /\ a <= b + 1 => Cardinality(D) <= b - a + 1
         /\ D # {} => Cardinality(D) > 0
<1>1. IsFiniteSet(a .. b) /\ Cardinality(a .. b) = IF a > b THEN 0 ELSE b - a + 1
  BY FS_Interval
<1>2. IsFiniteSet(D) /\ Cardinality(D) <= Cardinality(a .. b)
  BY <1>1, FS_Subset
<1>3. Cardinality(D) \in Nat
  BY <1>2, FS_CardinalityType
<1>4. D # {} => Cardinality(D) # 0
  BY <1>2, FS_EmptySet
<1> QED BY <1>1, <1>2, <1>3, <1>4
-----------------------------------------------------------------------------
(* The blocks that get_range reads. *)

\* The calls of the scan: where a block starts, and how many keys are before the range.
Scans(n) == [from : 0 .. n, iMin : Nat]

\* The first key beyond the range, in a block.
LEMMA StopRight ==
  ASSUME IndexAssumption, FillInv, NEW from \in 0 .. Size, NEW kMax \in Int
  PROVE  LET stop == Stop(from, kMax)
             last == BlockEnd(from) IN
         /\ last \in Int /\ from <= last + 1 /\ last <= Size - 1
         /\ last + 1 - from = Block \/ (last + 1 - from < Block /\ last = Size - 1)
         /\ stop \in from .. last + 1
         /\ \A p \in from .. stop - 1 : FileKey(p) <= kMax
         /\ stop <= last => FileKey(stop) > kMax
<1>1. Size \in Nat /\ \A i \in 0 .. Size - 1 : FileKey(i) \in Int
  BY Searchable DEF IndexAssumption
<1>2. PICK last : last = BlockEnd(from)
  OBVIOUS
<1>3. /\ last \in Int /\ from <= last + 1 /\ last <= Size - 1
      /\ last + 1 - from = Block \/ (last + 1 - from < Block /\ last = Size - 1)
  BY <1>1, <1>2 DEF BlockEnd, Lesser, IndexAssumption
<1>4. PICK beyond : beyond = {p \in from .. last : FileKey(p) > kMax}
  OBVIOUS
<1>5. CASE beyond = {}
  <2>1. Stop(from, kMax) = last + 1
    BY <1>2, <1>4, <1>5 DEF Stop
  <2>2. ASSUME NEW p \in from .. last PROVE FileKey(p) <= kMax
    <3>1. ~(FileKey(p) > kMax) /\ FileKey(p) \in Int
      BY <1>1, <1>3, <1>4, <1>5
    <3> QED BY <3>1
  <2> QED BY <1>2, <1>3, <2>1, <2>2
<1>6. CASE beyond # {}
  <2>1. PICK stop : stop = CHOOSE p \in beyond : \A q \in beyond : p <= q
    OBVIOUS
  <2>2. Stop(from, kMax) = stop
    BY <1>2, <1>4, <1>6, <2>1 DEF Stop
  <2>3. beyond \in SUBSET Nat
    BY <1>4
  <2>4. \E p \in beyond : \A q \in beyond : p <= q
    BY <1>6, <2>3, LeastElement
  <2>5. stop \in beyond /\ \A q \in beyond : stop <= q
    BY <2>1, <2>4, Zenon
  <2>6. stop \in from .. last /\ FileKey(stop) > kMax
    BY <1>4, <2>5
  <2>7. ASSUME NEW p \in from .. stop - 1 PROVE FileKey(p) <= kMax
    <3>1. p \in from .. last /\ p \notin beyond /\ p \in 0 .. Size - 1
      BY <1>1, <1>3, <2>3, <2>5, <2>6
    <3> QED BY <1>1, <1>4, <3>1
  <2> QED BY <1>2, <1>3, <2>2, <2>6, <2>7
<1> QED BY <1>5, <1>6

\* One block.
Below(x, kMin, kMax) ==
  {p \in x.from .. Lesser(Stop(x.from, kMax), BlockEnd(x.from)) : FileKey(p) < kMin}

\* What the scan makes of a block.
ScanStep(scan, kMin, kMax, x) ==
  LET stop == Stop(x.from, kMax)
      iMin == x.iMin + Cardinality(Below(x, kMin, kMax))
  IN IF stop - x.from = Block THEN scan[[from |-> x.from + Block, iMin |-> iMin]]
     ELSE iMin .. Lesser(stop, Size - 1)

\* The block after one that has been read whole.
LEMMA NextBlock ==
  ASSUME IndexAssumption, FillInv, NEW x \in Scans(Size), NEW kMin \in Int, NEW kMax \in Int
  PROVE  /\ Cardinality(Below(x, kMin, kMax)) \in Nat
         /\ Stop(x.from, kMax) - x.from = Block =>
              [from |-> x.from + Block, iMin |-> x.iMin + Cardinality(Below(x, kMin, kMax))]
                \in Scans(Size)
<1>1. Size \in Nat /\ x.from \in 0 .. Size /\ x.iMin \in Nat /\ Block \in Nat
  BY Searchable DEF Scans, IndexAssumption
<1>2. PICK stop, last : stop = Stop(x.from, kMax) /\ last = BlockEnd(x.from)
  OBVIOUS
<1>3. last \in Int /\ last <= Size - 1 /\ stop \in x.from .. last + 1
  BY <1>1, <1>2, StopRight
<1>4. Cardinality(Below(x, kMin, kMax)) \in Nat
  <2>1. Below(x, kMin, kMax) \in SUBSET (x.from .. Lesser(stop, last))
    BY <1>2 DEF Below
  <2>2. Lesser(stop, last) \in Int
    BY <1>1, <1>3 DEF Lesser
  <2>3. x.from \in Int
    BY <1>1
  <2> QED BY <2>1, <2>2, <2>3, Segment
<1>5. stop - x.from = Block => x.from + Block \in 0 .. Size
  BY <1>1, <1>3
<1> QED BY <1>1, <1>2, <1>4, <1>5 DEF Scans

\* The scan is what its definition says.
LEMMA ScanDefined ==
  ASSUME IndexAssumption, FillInv, NEW kMin \in Int, NEW kMax \in Int
  PROVE  \A x \in Scans(Size) :
           Scan(kMin, kMax)[x] = ScanStep(Scan(kMin, kMax), kMin, kMax, x)
<1>0. Size \in Nat /\ Block \in Nat /\ Block > 0
  BY Searchable DEF IndexAssumption
<1>1. PICK V : V = SUBSET Int
  OBVIOUS
<1>2. PICK X : X = Scans(Size)
  OBVIOUS
<1>3. PICK rank : rank = [x \in X |-> Size - x.from]
  OBVIOUS
<1>4. PICK H : H = [z \in X \X [X -> V] |-> ScanStep(z[2], kMin, kMax, z[1])]
  OBVIOUS
<1>5. rank \in [X -> 0 .. Size]
  BY <1>0, <1>2, <1>3 DEF Scans
<1>6. ASSUME NEW g \in [X -> V], NEW x \in X PROVE ScanStep(g, kMin, kMax, x) \in V
  <2>1. Stop(x.from, kMax) - x.from = Block =>
          g[[from |-> x.from + Block, iMin |-> x.iMin + Cardinality(Below(x, kMin, kMax))]] \in V
    BY <1>2, NextBlock
  <2>2. \A i, j : i .. j \in SUBSET Int
    OBVIOUS
  <2> QED BY <1>1, <2>1, <2>2 DEF ScanStep
<1>7. H \in [X \X [X -> V] -> V]
  BY <1>4, <1>6
<1>8. ASSUME NEW x \in X, NEW g \in [X -> V], NEW h \in [X -> V],
             \A y \in X : rank[y] < rank[x] => g[y] = h[y]
      PROVE  H[<<x, g>>] = H[<<x, h>>]
  <2>1. H[<<x, g>>] = ScanStep(g, kMin, kMax, x) /\ H[<<x, h>>] = ScanStep(h, kMin, kMax, x)
    BY <1>4
  <2>2. PICK y : y = [from |-> x.from + Block, iMin |-> x.iMin + Cardinality(Below(x, kMin, kMax))]
    OBVIOUS
  <2>3. Stop(x.from, kMax) - x.from = Block => g[y] = h[y]
    <3> HAVE Stop(x.from, kMax) - x.from = Block
    <3>1. y \in X
      BY <1>2, <2>2, NextBlock
    <3>2. rank[y] < rank[x]
      <4>1. y.from = x.from + Block /\ x.from \in 0 .. Size /\ y.from \in 0 .. Size
        BY <1>2, <2>2, <3>1 DEF Scans
      <4> QED BY <1>0, <1>3, <3>1, <4>1
    <3> QED BY <1>8, <3>1, <3>2
  <2>4. ScanStep(g, kMin, kMax, x) = ScanStep(h, kMin, kMax, x)
    BY <2>2, <2>3 DEF ScanStep
  <2> QED BY <2>1, <2>4
<1>9. V # {}
  BY <1>1
<1>10. Definable(X, V, Size, rank, H)
  BY <1>0, <1>5, <1>7, <1>8, <1>9 DEF Definable
<1>11. PICK f \in [X -> V] : \A x \in X : f[x] = H[<<x, f>>]
  BY <1>10, RankRecursion DEF Defined
<1>12. f = [x \in [from : 0 .. Size, iMin : Nat] |-> ScanStep(f, kMin, kMax, x)]
  <2>1. \A x \in X : f[x] = ScanStep(f, kMin, kMax, x)
    BY <1>4, <1>11
  <2> QED BY <1>2, <2>1 DEF Scans
<1>13. Scan(kMin, kMax) =
         CHOOSE s : s = [x \in [from : 0 .. Size, iMin : Nat] |-> ScanStep(s, kMin, kMax, x)]
  BY DEF Scan, ScanStep, Below
<1>14. Scan(kMin, kMax) =
         [x \in [from : 0 .. Size, iMin : Nat] |-> ScanStep(Scan(kMin, kMax), kMin, kMax, x)]
  BY <1>12, <1>13
<1> QED BY <1>14 DEF Scans

\* What the blocks from x on yield in a sorted file: from m, the first key in the range, to
\* e, the first one beyond it, if nothing in front of x is beyond it and iMin has come to m
\* or as far as x.
ScanRight(kMin, kMax, m, x) ==
  (\A p \in 0 .. x.from - 1 : FileKey(p) <= kMax) /\ x.iMin = Lesser(x.from, m) =>
    \E e \in 0 .. Size :
      /\ Scan(kMin, kMax)[x] = m .. Lesser(e, Size - 1)
      /\ \A p \in 0 .. e - 1 : FileKey(p) <= kMax
      /\ e < Size => FileKey(e) > kMax

\* The scan yields the positions from the first key in the range to the first one beyond it.
LEMMA ScanReads ==
  ASSUME IndexAssumption, FillInv, InOrder(file), NEW kMin \in Int, NEW kMax \in Int, kMin <= kMax,
         NEW m \in 0 .. Size, \A p \in 0 .. Size - 1 : FileKey(p) < kMin <=> p < m
  PROVE  \A x \in Scans(Size) : ScanRight(kMin, kMax, m, x)
<1>1. /\ Size \in Nat /\ Block \in Nat /\ Block > 0
      /\ \A i \in 0 .. Size - 1 : FileKey(i) \in Int
  <2>1. Size \in Nat /\ \A i \in 0 .. Size - 1 : FileKey(i) \in Keys
    BY Searchable
  <2>2. Block \in Nat /\ Block > 0 /\ \A k \in Keys : k \in Int
    BY DEF IndexAssumption
  <2> QED BY <2>1, <2>2
<1>2. PICK S : S = {x \in Scans(Size) : ScanRight(kMin, kMax, m, x)}
  OBVIOUS
<1>3. PICK rank : rank = [x \in Scans(Size) |-> Size - x.from]
  OBVIOUS
<1>4. rank \in [Scans(Size) -> Nat]
  BY <1>1, <1>3 DEF Scans
<1>5. ASSUME NEW x \in Scans(Size), \A y \in Scans(Size) : rank[y] < rank[x] => y \in S
      PROVE  x \in S
  <2> SUFFICES ASSUME \A p \in 0 .. x.from - 1 : FileKey(p) <= kMax, x.iMin = Lesser(x.from, m)
               PROVE  \E e \in 0 .. Size :
                        /\ Scan(kMin, kMax)[x] = m .. Lesser(e, Size - 1)
                        /\ \A p \in 0 .. e - 1 : FileKey(p) <= kMax
                        /\ e < Size => FileKey(e) > kMax
    BY <1>2 DEF ScanRight
  <2>1. x.from \in 0 .. Size /\ x.iMin \in Nat
    BY DEF Scans
  <2>2. PICK stop, last : stop = Stop(x.from, kMax) /\ last = BlockEnd(x.from)
    OBVIOUS
  <2>3. /\ last \in Int /\ x.from <= last + 1 /\ last <= Size - 1
        /\ last + 1 - x.from = Block \/ (last + 1 - x.from < Block /\ last = Size - 1)
        /\ stop \in x.from .. last + 1
        /\ \A p \in x.from .. stop - 1 : FileKey(p) <= kMax
        /\ stop <= last => FileKey(stop) > kMax
    BY <2>1, <2>2, StopRight
  <2>4. stop \in 0 .. Size /\ \A p \in 0 .. stop - 1 : FileKey(p) <= kMax
    <3>1. ASSUME NEW p \in 0 .. stop - 1 PROVE FileKey(p) <= kMax
      <4>1. p \in 0 .. x.from - 1 \/ p \in x.from .. stop - 1
        BY <2>1, <2>3
      <4> QED BY <2>3, <4>1
    <3> QED BY <1>1, <2>1, <2>3, <3>1
  <2>5. stop <= last => m <= stop
    <3> HAVE stop <= last
    <3>1. FileKey(stop) > kMax /\ stop \in 0 .. Size - 1
      BY <1>1, <2>1, <2>3
    <3>2. ~(FileKey(stop) < kMin)
      BY <1>1, <3>1
    <3> QED BY <3>1, <3>2
  <2>6. PICK iMin : iMin = x.iMin + Cardinality(Below(x, kMin, kMax))
    OBVIOUS
  <2>7. iMin = Lesser(last + 1, m)
    <3>1. PICK end : end = Lesser(m - 1, last)
      OBVIOUS
    <3>2. end \in Int
      BY <2>3, <3>1 DEF Lesser
    <3>3. Below(x, kMin, kMax) = x.from .. end
      <4>1. \A p \in x.from .. Lesser(stop, last) : p \in 0 .. Size - 1 /\ p <= last
        BY <1>1, <2>1, <2>3 DEF Lesser
      <4>2. Below(x, kMin, kMax) = {p \in x.from .. Lesser(stop, last) : p < m}
        BY <2>2, <4>1 DEF Below
      <4>3. \A p \in x.from .. end : p \in x.from .. Lesser(stop, last) /\ p < m
        BY <2>1, <2>3, <2>5, <3>1 DEF Lesser
      <4>4. \A p \in x.from .. Lesser(stop, last) : p < m => p \in x.from .. end
        BY <2>1, <2>3, <3>1, <4>1 DEF Lesser
      <4> QED BY <4>2, <4>3, <4>4
    <3>4. Cardinality(x.from .. end) = IF x.from > end THEN 0 ELSE end - x.from + 1
      <4>1. x.from \in Int
        BY <2>1
      <4> QED BY <3>2, <4>1, FS_Interval
    <3> QED BY <2>1, <2>3, <2>6, <3>1, <3>3, <3>4 DEF Lesser
  <2>8. Scan(kMin, kMax)[x] =
          IF stop - x.from = Block
          THEN Scan(kMin, kMax)[[from |-> x.from + Block, iMin |-> iMin]]
          ELSE iMin .. Lesser(stop, Size - 1)
    <3>1. Scan(kMin, kMax)[x] = ScanStep(Scan(kMin, kMax), kMin, kMax, x)
      BY <2>2, ScanDefined
    <3> QED BY <2>2, <2>6, <3>1 DEF ScanStep
  <2>9. CASE stop - x.from = Block
    <3>1. PICK y : y = [from |-> x.from + Block, iMin |-> iMin]
      OBVIOUS
    <3>2. y \in Scans(Size) /\ y.from = x.from + Block /\ y.iMin = iMin
      BY <2>2, <2>6, <2>9, <3>1, NextBlock
    <3>3. y \in S
      <4>1. rank[y] < rank[x]
        BY <1>1, <1>3, <2>1, <2>4, <2>9, <3>2
      <4> QED BY <1>5, <3>2, <4>1
    <3>4. x.from + Block = stop /\ stop = last + 1
      BY <1>1, <2>1, <2>3, <2>9
    <3>5. ScanRight(kMin, kMax, m, y)
      BY <1>2, <3>3
    <3>6. /\ \A p \in 0 .. y.from - 1 : FileKey(p) <= kMax
          /\ y.iMin = Lesser(y.from, m)
      BY <2>4, <2>7, <3>2, <3>4
    <3> QED BY <2>8, <2>9, <3>1, <3>5, <3>6 DEF ScanRight
  <2>10. CASE stop - x.from # Block
    <3>1. stop <= last \/ stop = Size
      BY <1>1, <2>1, <2>3, <2>10
    <3>2. iMin = m
      BY <1>1, <2>1, <2>3, <2>5, <2>7, <3>1 DEF Lesser
    <3>3. stop < Size => FileKey(stop) > kMax
      BY <1>1, <2>3, <3>1
    <3> QED BY <2>4, <2>8, <2>10, <3>2, <3>3
  <2> QED BY <2>9, <2>10
<1>6. Inductive(Scans(Size), rank, S)
  BY <1>5 DEF Inductive
<1>7. S \in SUBSET Scans(Size)
  BY <1>2
<1>8. S = Scans(Size)
  BY <1>4, <1>6, <1>7, RankInduction
<1> QED BY <1>2, <1>8

\* Everything in the range, and one key beyond it at most.
Covers(kMin, kMax) ==
  LET inside == {p \in 0 .. Size - 1 : kMin <= FileKey(p) /\ FileKey(p) <= kMax}
      got == RangePositions(kMin, kMax)
  IN /\ inside \subseteq got
     /\ Cardinality(got \ inside) <= 1
     /\ \A p \in got \ inside : FileKey(p) > kMax

\* get_range covers its range.
LEMMA RangeCovers ==
  ASSUME IndexAssumption, FillInv, CacheInv, Size > 0, InOrder(file),
         NEW kMin \in Int, NEW kMax \in Int, kMin <= kMax
  PROVE  Covers(kMin, kMax)
<1>1. /\ Size \in Nat
      /\ \A i \in 0 .. Size - 1 : FileKey(i) \in Int
  BY Searchable DEF IndexAssumption
<1>2. PICK m \in 0 .. Size : \A p \in 0 .. Size - 1 : FileKey(p) < kMin <=> p < m
  <2>1. PICK D : D = {p \in 0 .. Size - 1 : FileKey(p) < kMin}
    OBVIOUS
  <2>2. ASSUME NEW i \in D, NEW j \in 0 .. i PROVE j \in D
    <3>1. j \in 0 .. Size - 1 /\ i \in j .. Size - 1 /\ FileKey(i) < kMin /\ i \in 0 .. Size - 1
      BY <1>1, <2>1
    <3>2. FileKey(j) <= FileKey(i)
      BY <3>1, KeysRise
    <3> QED BY <1>1, <2>1, <3>1, <3>2
  <2>3. PICK m : m = Cardinality(D)
    OBVIOUS
  <2>4. m \in Nat /\ D = 0 .. 0 + m - 1 /\ 0 + m - 1 <= Size - 1
    <3>1. D \in SUBSET (0 .. Size - 1) /\ 0 \in Int /\ Size - 1 \in Int /\ 0 <= (Size - 1) + 1
      BY <1>1, <2>1
    <3> QED BY <2>2, <2>3, <3>1, InitialSegment
  <2>5. m \in 0 .. Size /\ \A p \in 0 .. Size - 1 : p \in D <=> p < m
    BY <1>1, <2>4
  <2> QED BY <2>1, <2>5
<1>3. PICK start : start = FindLastLesser(kMin).pos
  OBVIOUS
<1>4. /\ start \in 0 .. Size - 1
      /\ \/ start = 0 /\ kMin <= FileKey(start)
         \/ FileKey(start) < kMin
  BY <1>3, FindLastLesserRight DEF LesserAnswers
<1>5. start <= m
  BY <1>1, <1>2, <1>4
<1>6. \A p \in 0 .. start - 1 : FileKey(p) <= kMax
  <2> TAKE p \in 0 .. start - 1
  <2>1. p \in 0 .. Size - 1 /\ p < m
    BY <1>1, <1>4, <1>5
  <2>2. FileKey(p) < kMin /\ FileKey(p) \in Int
    BY <1>1, <1>2, <2>1
  <2> QED BY <2>2
<1>7. PICK x : x = [from |-> start, iMin |-> start]
  OBVIOUS
<1>8. x \in Scans(Size) /\ x.from = start /\ x.iMin = Lesser(x.from, m)
  BY <1>1, <1>4, <1>5, <1>7 DEF Scans, Lesser
<1>9. ScanRight(kMin, kMax, m, x)
  BY <1>2, <1>8, ScanReads
<1>10. PICK e \in 0 .. Size :
         /\ RangePositions(kMin, kMax) = m .. Lesser(e, Size - 1)
         /\ \A p \in 0 .. e - 1 : FileKey(p) <= kMax
         /\ e < Size => FileKey(e) > kMax
  BY <1>3, <1>6, <1>7, <1>8, <1>9 DEF ScanRight, RangePositions
<1>11. PICK inside, got :
         /\ inside = {p \in 0 .. Size - 1 : kMin <= FileKey(p) /\ FileKey(p) <= kMax}
         /\ got = RangePositions(kMin, kMax)
  OBVIOUS
<1>12. inside \subseteq got
  <2> SUFFICES ASSUME NEW p \in 0 .. Size - 1, kMin <= FileKey(p), FileKey(p) <= kMax
               PROVE  p \in m .. Lesser(e, Size - 1)
    BY <1>10, <1>11
  <2>1. m <= p
    BY <1>1, <1>2
  <2>2. p <= e
    <3> SUFFICES ASSUME e < p PROVE FALSE
      BY <1>1
    <3>1. e \in 0 .. Size - 1 /\ p \in e .. Size - 1 /\ FileKey(e) > kMax
      BY <1>1, <1>10
    <3>2. FileKey(e) <= FileKey(p)
      BY <3>1, KeysRise
    <3> QED BY <1>1, <3>1, <3>2
  <2> QED BY <1>1, <2>1, <2>2 DEF Lesser
<1>13. \A p \in got \ inside : p = e /\ e < Size
  <2> SUFFICES ASSUME NEW p \in m .. Lesser(e, Size - 1), p \notin inside PROVE p = e /\ e < Size
    BY <1>10, <1>11
  <2>1. p \in 0 .. Size - 1 /\ m <= p /\ p <= e
    BY <1>1 DEF Lesser
  <2>2. kMin <= FileKey(p)
    BY <1>1, <1>2, <2>1
  <2>3. ~(FileKey(p) <= kMax)
    BY <1>11, <2>1, <2>2
  <2> QED BY <1>1, <1>10, <2>1, <2>3
<1>14. Cardinality(got \ inside) <= 1
  <2>1. IsFiniteSet({e}) /\ Cardinality({e}) = 1
    BY FS_Singleton
  <2>2. got \ inside \in SUBSET {e}
    BY <1>13
  <2> QED BY <2>1, <2>2, FS_Subset
<1> QED BY <1>10, <1>11, <1>12, <1>13, <1>14 DEF Covers
-----------------------------------------------------------------------------
(* The bisection of findKeys. *)

\* What findKeys is asked for.
IsKeyList(ks) ==
  /\ ks \in Seq(Int)
  /\ \A i, j \in 1 .. Len(ks) : i <= j => ks[i] <= ks[j]

\* The keys of a list that are equal to one, and those that are less.
Equal(ks, key, from, to) == {i \in from .. to : ks[i] = key}
Less(ks, key, from, to) == {i \in from .. to : ks[i] < key}

\* Equal keys are next to each other.
LEMMA EqualToFirst ==
  ASSUME NEW ks, IsKeyList(ks), NEW kd \in 1 .. Len(ks)
  PROVE  LET D == Equal(ks, ks[kd], kd, Len(ks))
             c == Cardinality(D)
         IN c \in Nat /\ c > 0 /\ kd + c \in 1 .. Len(ks) + 1 /\ D = kd .. kd + c - 1
<1>1. Len(ks) \in Nat /\ \A i \in 1 .. Len(ks) : ks[i] \in Int
  BY LenProperties, ElementOfSeq DEF IsKeyList
<1>2. PICK D : D = Equal(ks, ks[kd], kd, Len(ks))
  OBVIOUS
<1>3. D \in SUBSET (kd .. Len(ks)) /\ kd \in D
  BY <1>1, <1>2 DEF Equal
<1>4. ASSUME NEW i \in D, NEW j \in kd .. i PROVE j \in D
  <2>1. i \in 1 .. Len(ks) /\ j \in 1 .. Len(ks) /\ kd <= j /\ j <= i /\ ks[i] = ks[kd]
    BY <1>1, <1>2, <1>3 DEF Equal
  <2>2. ks[kd] <= ks[j] /\ ks[j] <= ks[i]
    BY <2>1 DEF IsKeyList
  <2>3. ks[j] = ks[kd]
    BY <1>1, <2>1, <2>2
  <2> QED BY <1>1, <1>2, <2>1, <2>3 DEF Equal
<1>5. PICK c : c = Cardinality(D)
  OBVIOUS
<1>6. /\ c \in Nat /\ D = kd .. kd + c - 1 /\ kd + c - 1 <= Len(ks)
  <2>1. kd \in Int /\ Len(ks) \in Int /\ kd <= Len(ks) + 1
    BY <1>1
  <2> QED BY <1>3, <1>4, <1>5, <2>1, InitialSegment
<1>7. c > 0
  BY <1>3, <1>6
<1> QED BY <1>1, <1>2, <1>5, <1>6, <1>7

\* The same, counted from the last key.
LEMMA EqualToLast ==
  ASSUME NEW ks, IsKeyList(ks), NEW kf \in 1 .. Len(ks)
  PROVE  LET D == Equal(ks, ks[kf], 1, kf)
             c == Cardinality(D)
         IN c \in Nat /\ c > 0 /\ kf - c \in 0 .. Len(ks) /\ D = kf - c + 1 .. kf
<1>1. Len(ks) \in Nat /\ \A i \in 1 .. Len(ks) : ks[i] \in Int
  BY LenProperties, ElementOfSeq DEF IsKeyList
<1>2. PICK D : D = Equal(ks, ks[kf], 1, kf)
  OBVIOUS
<1>3. D \in SUBSET (1 .. kf) /\ kf \in D
  BY <1>1, <1>2 DEF Equal
<1>4. ASSUME NEW i \in D, NEW j \in i .. kf PROVE j \in D
  <2>1. i \in 1 .. Len(ks) /\ j \in 1 .. Len(ks) /\ j <= kf /\ i <= j /\ ks[i] = ks[kf]
    BY <1>1, <1>2, <1>3 DEF Equal
  <2>2. ks[i] <= ks[j] /\ ks[j] <= ks[kf]
    BY <2>1 DEF IsKeyList
  <2>3. ks[j] = ks[kf]
    BY <1>1, <2>1, <2>2
  <2> QED BY <1>1, <1>2, <2>1, <2>3 DEF Equal
<1>5. PICK c : c = Cardinality(D)
  OBVIOUS
<1>6. /\ c \in Nat /\ D = kf - c + 1 .. kf /\ 1 <= kf - c + 1
  <2>1. 1 \in Int /\ kf \in Int /\ 1 <= kf + 1
    BY <1>1
  <2> QED BY <1>3, <1>4, <1>5, <2>1, FinalSegment
<1>7. c > 0
  BY <1>3, <1>6
<1> QED BY <1>1, <1>2, <1>5, <1>6, <1>7

\* A key between the first and the last one parts the others.
LEMMA InBetween ==
  ASSUME NEW ks, IsKeyList(ks), NEW kd \in 1 .. Len(ks), NEW kf \in kd .. Len(ks),
         NEW key \in Int, ks[kd] < key, key < ks[kf]
  PROVE  LET D == Less(ks, key, kd, kf)
             l == Cardinality(D)
             E == Equal(ks, key, kd, Len(ks))
             c == Cardinality(E)
         IN /\ l \in Nat /\ kd + l - 1 \in 0 .. kf /\ D = kd .. kd + l - 1
            /\ c \in Nat /\ kd + l + c \in kd .. Len(ks) + 1
            /\ E = kd + l .. kd + l + c - 1
            /\ \A i \in kd + l + c .. kf : key < ks[i]
<1>1. Len(ks) \in Nat /\ \A i \in 1 .. Len(ks) : ks[i] \in Int
  BY LenProperties, ElementOfSeq DEF IsKeyList
<1>2. PICK D : D = Less(ks, key, kd, kf)
  OBVIOUS
<1>3. PICK E : E = Equal(ks, key, kd, Len(ks))
  OBVIOUS
<1>4. D \in SUBSET (kd .. kf) /\ kf \in 1 .. Len(ks) /\ kd \in Int /\ kf \in Int
  BY <1>1, <1>2 DEF Less
<1>5. ASSUME NEW i \in D, NEW j \in kd .. i PROVE j \in D
  <2>1. i \in 1 .. Len(ks) /\ j \in 1 .. Len(ks) /\ j \in kd .. kf /\ j <= i /\ ks[i] < key
    BY <1>1, <1>2, <1>4 DEF Less
  <2>2. ks[j] <= ks[i]
    BY <2>1 DEF IsKeyList
  <2>3. ks[j] < key
    BY <1>1, <2>1, <2>2
  <2> QED BY <1>2, <2>1, <2>3 DEF Less
<1>6. PICK l : l = Cardinality(D)
  OBVIOUS
<1>7. l \in Nat /\ D = kd .. kd + l - 1 /\ kd + l - 1 <= kf
  <2>1. kd <= kf + 1
    BY <1>4
  <2> QED BY <1>4, <1>5, <1>6, <2>1, InitialSegment
<1>8. ASSUME NEW j \in kd + l .. Len(ks) PROVE ks[j] \in Int /\ key <= ks[j]
  <2>1. j \in 1 .. Len(ks) /\ j \in kd .. Len(ks)
    BY <1>1, <1>4, <1>7
  <2>2. CASE j <= kf
    <3>1. j \in kd .. kf /\ j \notin D
      BY <1>1, <1>4, <1>7, <2>1, <2>2
    <3>2. ~(ks[j] < key)
      BY <1>2, <3>1 DEF Less
    <3> QED BY <1>1, <2>1, <3>2
  <2>3. CASE kf <= j
    <3>1. ks[kf] <= ks[j]
      BY <1>4, <2>1, <2>3 DEF IsKeyList
    <3> QED BY <1>1, <1>4, <2>1, <3>1
  <2> QED BY <1>4, <2>1, <2>2, <2>3
<1>9. E \in SUBSET (kd + l .. Len(ks))
  <2> SUFFICES ASSUME NEW i \in E PROVE i \in kd + l .. Len(ks)
    OBVIOUS
  <2>1. i \in kd .. Len(ks) /\ ks[i] = key
    BY <1>3 DEF Equal
  <2>2. i \notin D
    BY <1>2, <2>1 DEF Less
  <2> QED BY <1>1, <1>4, <1>7, <2>1, <2>2
<1>10. ASSUME NEW i \in E, NEW j \in kd + l .. i PROVE j \in E
  <2>1. /\ i \in 1 .. Len(ks) /\ j \in 1 .. Len(ks) /\ j \in kd + l .. Len(ks)
        /\ j \in kd .. Len(ks) /\ j <= i
    BY <1>1, <1>4, <1>7, <1>9
  <2>2. ks[j] <= ks[i] /\ ks[i] = key
    BY <1>3, <2>1 DEF IsKeyList, Equal
  <2>3. ks[j] = key
    BY <1>8, <2>1, <2>2
  <2> QED BY <1>3, <2>1, <2>3 DEF Equal
<1>11. PICK c : c = Cardinality(E)
  OBVIOUS
<1>12. c \in Nat /\ E = kd + l .. kd + l + c - 1 /\ kd + l + c - 1 <= Len(ks)
  <2>1. kd + l \in Int /\ Len(ks) \in Int /\ kd + l <= Len(ks) + 1
    BY <1>1, <1>4, <1>7
  <2> QED BY <1>9, <1>10, <1>11, <2>1, InitialSegment
<1>13. ASSUME NEW i \in kd + l + c .. kf PROVE key < ks[i]
  <2>1. i \in kd + l .. Len(ks) /\ i \notin E /\ i \in kd .. Len(ks)
    BY <1>1, <1>4, <1>7, <1>12
  <2>2. ks[i] # key
    BY <1>3, <2>1 DEF Equal
  <2> QED BY <1>8, <2>1, <2>2
<1>14. kd + l - 1 \in 0 .. kf /\ kd + l + c \in kd .. Len(ks) + 1
  BY <1>1, <1>4, <1>7, <1>12
<1> QED BY <1>2, <1>3, <1>6, <1>7, <1>11, <1>12, <1>13, <1>14

\* The keys and the positions a call of findKeysIterate is for.
Calls(n, ks) == [kd : 1 .. Len(ks) + 1, kf : 0 .. Len(ks), r : RangesIn(n)]

\* The calls it may make.
AfterFirst(ks, x) == [x EXCEPT !.kd = @ + Cardinality(Equal(ks, PivotKey(x.r), x.kd, Len(ks)))]
BeforeLast(ks, x) == [x EXCEPT !.kf = @ - Cardinality(Equal(ks, PivotKey(x.r), 1, x.kf))]
InUpper(x) == [x EXCEPT !.r = UpperHalf(x.r)]
InLower(x) == [x EXCEPT !.r = LowerHalf(x.r)]
LesserKeys(ks, x) ==
  [x EXCEPT !.kf = x.kd + Cardinality(Less(ks, PivotKey(x.r), x.kd, x.kf)) - 1,
            !.r = LowerHalf(x.r)]
GreaterKeys(ks, x) ==
  [x EXCEPT !.kd = x.kd + Cardinality(Less(ks, PivotKey(x.r), x.kd, x.kf))
                     + Cardinality(Equal(ks, PivotKey(x.r), x.kd, Len(ks))),
            !.r = UpperHalf(x.r)]

\* What a call yields is nothing, what it finds at the pivot, or what others yield.
NoKeys == [at |-> {}, read |-> {}]
Together(a, b) == [at |-> a.at \cup b.at, read |-> a.read \cup b.read]
AtPivot(keys, r) == [at |-> keys \X {Pivot(r)}, read |-> PivotRead(r)]

\* What findKeysIterate makes of its keys and its range.
KeysStep(it, ks, x) ==
  LET key == PivotKey(x.r) IN
  IF x.r.hi < x.r.lo + 2 \/ x.kd > x.kf THEN NoKeys
  ELSE IF key = ks[x.kd]
    THEN Together(AtPivot(Equal(ks, key, x.kd, Len(ks)), x.r), it[AfterFirst(ks, x)])
  ELSE IF key = ks[x.kf]
    THEN Together(AtPivot(Equal(ks, key, 1, x.kf), x.r), it[BeforeLast(ks, x)])
  ELSE IF key < ks[x.kd] THEN Together(AtPivot({}, x.r), it[InUpper(x)])
  ELSE IF key > ks[x.kf] THEN Together(AtPivot({}, x.r), it[InLower(x)])
  ELSE Together(AtPivot(Equal(ks, key, x.kd, Len(ks)), x.r),
                Together(it[LesserKeys(ks, x)], it[GreaterKeys(ks, x)]))

\* KeysBisection with its parts named.
LEMMA KeysBisectionIs ==
  ASSUME NEW ks
  PROVE  KeysBisection(ks) =
           CHOOSE it : it = [x \in [kd : 1 .. Len(ks) + 1, kf : 0 .. Len(ks), r : Ranges] |->
                               KeysStep(it, ks, x)]
BY DEF KeysBisection, KeysStep, AfterFirst, BeforeLast, InUpper, InLower, LesserKeys,
       GreaterKeys, NoKeys, Together, AtPivot, Equal, Less

\* What is left of the range and of the keys.
KeysRank(n, ks) ==
  [x \in Calls(n, ks) |-> Width(n)[x.r] + (IF x.kd <= x.kf THEN x.kf - x.kd + 1 ELSE 0)]

\* A call that looks at the pivot.
Goes(x) == ~(x.r.hi < x.r.lo + 2 \/ x.kd > x.kf)

\* A call for less.
Smaller(n, ks, y, x) ==
  y \in Calls(n, ks) /\ KeysRank(n, ks)[y] < KeysRank(n, ks)[x]

\* The parts of a call.
LEMMA CallTypes ==
  ASSUME IndexAssumption, FillInv, CacheInv, NEW ks, IsKeyList(ks), NEW x \in Calls(Size, ks)
  PROVE  /\ Size \in Nat /\ Len(ks) \in Nat
         /\ x.kd \in 1 .. Len(ks) + 1 /\ x.kf \in 0 .. Len(ks) /\ x.r \in RangesIn(Size)
         /\ Width(Size)[x.r] \in 0 .. Size
         /\ Goes(x) => /\ x.r.hi - x.r.lo > 1
                       /\ x.kd \in 1 .. Len(ks) /\ x.kf \in x.kd .. Len(ks) /\ x.kf \in 1 .. Len(ks)
                       /\ ks[x.kd] \in Int /\ ks[x.kf] \in Int
                       /\ PivotKey(x.r) \in Int
<1>1. Size \in Nat /\ \A i \in 0 .. Size - 1 : FileKey(i) \in Int
  BY Searchable DEF IndexAssumption
<1>2. Len(ks) \in Nat /\ \A i \in 1 .. Len(ks) : ks[i] \in Int
  BY LenProperties, ElementOfSeq DEF IsKeyList
<1>3. x.kd \in 1 .. Len(ks) + 1 /\ x.kf \in 0 .. Len(ks) /\ x.r \in RangesIn(Size)
  BY DEF Calls
<1>4. Width(Size)[x.r] \in 0 .. Size
  BY <1>1, <1>3, WidthShrinks
<1>5. ASSUME Goes(x)
      PROVE  /\ x.r.hi - x.r.lo > 1
             /\ x.kd \in 1 .. Len(ks) /\ x.kf \in x.kd .. Len(ks) /\ x.kf \in 1 .. Len(ks)
  <2>1. x.r.lo \in Int /\ x.r.hi \in Int
    BY <1>1, <1>3, Halves
  <2> QED BY <1>2, <1>3, <1>5, <2>1 DEF Goes
<1>6. ASSUME Goes(x) PROVE PivotKey(x.r) \in Int
  <2>1. Pivot(x.r) \in 0 .. Size - 1 /\ PivotCell(x.r) \in Cells
    <3>1. /\ x.r.hi \in 0 .. Size /\ Pivot(x.r) \in 0 .. Size /\ PivotCell(x.r) \in Cells
          /\ Pivot(x.r) < x.r.hi
      BY <1>1, <1>3, <1>5, <1>6, Halves
    <3> QED BY <1>1, <3>1
  <2>2. \A k \in Keys : k \in Int
    BY DEF IndexAssumption
  <2>3. KeyAt(PivotCell(x.r), Pivot(x.r)) \in Int
    BY <1>1, <2>1, <2>2 DEF KeyAt, CacheInv
  <2> QED BY <1>1, <2>1, <2>3 DEF PivotKey
<1> QED BY <1>1, <1>2, <1>3, <1>4, <1>5, <1>6

\* A call makes only calls for less: it gives up keys, or half of the range.
LEMMA CallsShrink ==
  ASSUME IndexAssumption, FillInv, CacheInv, NEW ks, IsKeyList(ks), NEW x \in Calls(Size, ks),
         Goes(x)
  PROVE  /\ PivotKey(x.r) = ks[x.kd] => Smaller(Size, ks, AfterFirst(ks, x), x)
         /\ PivotKey(x.r) = ks[x.kf] => Smaller(Size, ks, BeforeLast(ks, x), x)
         /\ Smaller(Size, ks, InUpper(x), x) /\ Smaller(Size, ks, InLower(x), x)
         /\ ks[x.kd] < PivotKey(x.r) /\ PivotKey(x.r) < ks[x.kf] =>
              /\ Smaller(Size, ks, LesserKeys(ks, x), x)
              /\ Smaller(Size, ks, GreaterKeys(ks, x), x)
<1>1. /\ Size \in Nat /\ Len(ks) \in Nat
      /\ x.kd \in 1 .. Len(ks) + 1 /\ x.kf \in 0 .. Len(ks) /\ x.r \in RangesIn(Size)
      /\ Width(Size)[x.r] \in 0 .. Size
      /\ x.r.hi - x.r.lo > 1
      /\ x.kd \in 1 .. Len(ks) /\ x.kf \in x.kd .. Len(ks) /\ x.kf \in 1 .. Len(ks)
      /\ PivotKey(x.r) \in Int
  BY CallTypes
<1>2. /\ LowerHalf(x.r) \in RangesIn(Size) /\ UpperHalf(x.r) \in RangesIn(Size)
      /\ Width(Size)[LowerHalf(x.r)] \in Nat /\ Width(Size)[UpperHalf(x.r)] \in Nat
      /\ Width(Size)[LowerHalf(x.r)] < Width(Size)[x.r]
      /\ Width(Size)[UpperHalf(x.r)] < Width(Size)[x.r]
  <2>1. LowerHalf(x.r) \in RangesIn(Size) /\ UpperHalf(x.r) \in RangesIn(Size)
    BY <1>1, Halves
  <2> QED BY <1>1, <2>1, WidthShrinks
<1>3. ASSUME NEW y \in Calls(Size, ks), y.kd >= x.kd, y.kf <= x.kf,
             \/ y.r = x.r /\ (y.kd > x.kd \/ y.kf < x.kf)
             \/ y.r \in {LowerHalf(x.r), UpperHalf(x.r)}
      PROVE  Smaller(Size, ks, y, x)
  <2>1. y.kd \in Int /\ y.kf \in Int
    BY <1>1 DEF Calls
  <2>2. PICK wx, wy : wx = Width(Size)[x.r] /\ wy = Width(Size)[y.r]
    OBVIOUS
  <2>3. /\ wx \in Nat /\ wy \in Nat /\ wy <= wx
        /\ wy < wx \/ y.kd > x.kd \/ y.kf < x.kf
    BY <1>1, <1>2, <1>3, <2>2
  <2>4. wy + (IF y.kd <= y.kf THEN y.kf - y.kd + 1 ELSE 0)
          < wx + (IF x.kd <= x.kf THEN x.kf - x.kd + 1 ELSE 0)
    <3>1. PICK xd, xf, yd, yf : xd = x.kd /\ xf = x.kf /\ yd = y.kd /\ yf = y.kf
      OBVIOUS
    <3>2. /\ xd \in Int /\ xf \in Int /\ yd \in Int /\ yf \in Int /\ xd <= xf
          /\ yd >= xd /\ yf <= xf /\ (wy < wx \/ yd > xd \/ yf < xf)
      BY <1>1, <1>3, <2>1, <2>3, <3>1
    <3>3. wy + (IF yd <= yf THEN yf - yd + 1 ELSE 0) < wx + (IF xd <= xf THEN xf - xd + 1 ELSE 0)
      BY <2>3, <3>2
    <3> QED BY <3>1, <3>3
  <2> QED BY <2>2, <2>4 DEF Smaller, KeysRank
<1>0. x.kd \in Int /\ x.kf \in Int
  BY <1>1
<1>4. ASSUME PivotKey(x.r) = ks[x.kd] PROVE Smaller(Size, ks, AfterFirst(ks, x), x)
  <2>1. PICK c : c = Cardinality(Equal(ks, PivotKey(x.r), x.kd, Len(ks)))
    OBVIOUS
  <2>2. c \in Nat /\ c > 0 /\ x.kd + c \in 1 .. Len(ks) + 1
    BY <1>1, <1>4, <2>1, EqualToFirst
  <2>3. PICK y : y = AfterFirst(ks, x)
    OBVIOUS
  <2>4. y \in Calls(Size, ks) /\ y.kd = x.kd + c /\ y.kf = x.kf /\ y.r = x.r
    BY <2>1, <2>2, <2>3 DEF AfterFirst, Calls
  <2>5. y.kd >= x.kd /\ y.kd > x.kd /\ y.kf <= x.kf
    BY <1>0, <2>2, <2>4
  <2> QED BY <1>3, <2>3, <2>4, <2>5
<1>5. ASSUME PivotKey(x.r) = ks[x.kf] PROVE Smaller(Size, ks, BeforeLast(ks, x), x)
  <2>1. PICK c : c = Cardinality(Equal(ks, PivotKey(x.r), 1, x.kf))
    OBVIOUS
  <2>2. c \in Nat /\ c > 0 /\ x.kf - c \in 0 .. Len(ks)
    BY <1>1, <1>5, <2>1, EqualToLast
  <2>3. PICK y : y = BeforeLast(ks, x)
    OBVIOUS
  <2>4. y \in Calls(Size, ks) /\ y.kd = x.kd /\ y.kf = x.kf - c /\ y.r = x.r
    BY <2>1, <2>2, <2>3 DEF BeforeLast, Calls
  <2>5. y.kd >= x.kd /\ y.kf < x.kf /\ y.kf <= x.kf
    BY <1>0, <2>2, <2>4
  <2> QED BY <1>3, <2>3, <2>4, <2>5
<1>6. Smaller(Size, ks, InUpper(x), x)
  <2>1. PICK y : y = InUpper(x)
    OBVIOUS
  <2>2. y \in Calls(Size, ks) /\ y.kd = x.kd /\ y.kf = x.kf /\ y.r = UpperHalf(x.r)
    BY <1>2, <2>1 DEF InUpper, Calls
  <2> QED BY <1>1, <1>3, <2>1, <2>2
<1>7. Smaller(Size, ks, InLower(x), x)
  <2>1. PICK y : y = InLower(x)
    OBVIOUS
  <2>2. y \in Calls(Size, ks) /\ y.kd = x.kd /\ y.kf = x.kf /\ y.r = LowerHalf(x.r)
    BY <1>2, <2>1 DEF InLower, Calls
  <2> QED BY <1>1, <1>3, <2>1, <2>2
<1>8. ASSUME ks[x.kd] < PivotKey(x.r), PivotKey(x.r) < ks[x.kf]
      PROVE  /\ Smaller(Size, ks, LesserKeys(ks, x), x)
             /\ Smaller(Size, ks, GreaterKeys(ks, x), x)
  <2>1. PICK l, c : /\ l = Cardinality(Less(ks, PivotKey(x.r), x.kd, x.kf))
                    /\ c = Cardinality(Equal(ks, PivotKey(x.r), x.kd, Len(ks)))
    OBVIOUS
  <2>2. /\ l \in Nat /\ x.kd + l - 1 \in 0 .. x.kf
        /\ c \in Nat /\ x.kd + l + c \in x.kd .. Len(ks) + 1
    BY <1>1, <1>8, <2>1, InBetween
  <2>3. PICK y, z : y = LesserKeys(ks, x) /\ z = GreaterKeys(ks, x)
    OBVIOUS
  <2>4. x.kd + l - 1 \in 0 .. Len(ks) /\ x.kd + l + c \in 1 .. Len(ks) + 1
    <3>1. PICK n, kd, kf : n = Len(ks) /\ kd = x.kd /\ kf = x.kf
      OBVIOUS
    <3>2. kd \in 1 .. n /\ kf \in 0 .. n /\ n \in Nat
      BY <1>1, <3>1
    <3>3. kd + l - 1 \in 0 .. kf /\ kd + l + c \in kd .. n + 1 /\ l \in Nat /\ c \in Nat
      BY <2>2, <3>1
    <3>4. kd + l - 1 \in 0 .. n /\ kd + l + c \in 1 .. n + 1
      BY <3>2, <3>3
    <3> QED BY <3>1, <3>4
  <2>5. y \in Calls(Size, ks) /\ y.kd = x.kd /\ y.kf = x.kd + l - 1 /\ y.r = LowerHalf(x.r)
    BY <1>2, <2>1, <2>3, <2>4 DEF LesserKeys, Calls
  <2>6. z \in Calls(Size, ks) /\ z.kd = x.kd + l + c /\ z.kf = x.kf /\ z.r = UpperHalf(x.r)
    BY <1>2, <2>1, <2>3, <2>4 DEF GreaterKeys, Calls
  <2>7. Smaller(Size, ks, y, x)
    <3>1. y.kd >= x.kd /\ y.kf <= x.kf
      BY <1>0, <2>2, <2>5
    <3> QED BY <1>3, <2>5, <3>1
  <2>8. Smaller(Size, ks, z, x)
    <3>1. z.kd >= x.kd /\ z.kf <= x.kf
      BY <1>0, <2>2, <2>6
    <3> QED BY <1>3, <2>6, <3>1
  <2> QED BY <2>3, <2>7, <2>8
<1> QED BY <1>4, <1>5, <1>6, <1>7, <1>8

\* The bisection of findKeys is what its definition says.
LEMMA KeysDefined ==
  ASSUME IndexAssumption, FillInv, CacheInv, NEW ks, IsKeyList(ks)
  PROVE  \A x \in Calls(Size, ks) : KeysBisection(ks)[x] = KeysStep(KeysBisection(ks), ks, x)
<1>1. PICK V : V = [at : SUBSET (Int \X Int), read : SUBSET (Cells \X Int)]
  OBVIOUS
<1>2. PICK X : X = Calls(Size, ks)
  OBVIOUS
<1>3. PICK H : H = [z \in X \X [X -> V] |-> KeysStep(z[2], ks, z[1])]
  OBVIOUS
<1>4. Size \in Nat /\ Len(ks) \in Nat
  BY Searchable, LenProperties DEF IsKeyList
<1>5. NoKeys \in V
  BY <1>1 DEF NoKeys
<1>6. \A a, b \in V : Together(a, b) \in V
  BY <1>1 DEF Together
<1>7. ASSUME NEW x \in X, Goes(x)
      PROVE  /\ AtPivot(Equal(ks, PivotKey(x.r), x.kd, Len(ks)), x.r) \in V
             /\ AtPivot(Equal(ks, PivotKey(x.r), 1, x.kf), x.r) \in V
             /\ AtPivot({}, x.r) \in V
  <2>1. Pivot(x.r) \in Int /\ PivotCell(x.r) \in Cells
    BY <1>2, <1>4, Halves DEF Calls
  <2>2. PivotRead(x.r) \in SUBSET (Cells \X Int)
    BY <2>1 DEF PivotRead
  <2>3. \A i, j : i .. j \in SUBSET Int
    OBVIOUS
  <2>4. \A keys \in SUBSET Int : AtPivot(keys, x.r) \in V
    BY <1>1, <2>1, <2>2 DEF AtPivot
  <2> QED BY <2>3, <2>4 DEF Equal
<1>8. ASSUME NEW g \in [X -> V], NEW x \in X PROVE KeysStep(g, ks, x) \in V
  <2>1. CASE ~Goes(x)
    BY <1>5, <2>1 DEF Goes, KeysStep
  <2>2. CASE Goes(x)
    <3>1. /\ PivotKey(x.r) = ks[x.kd] => g[AfterFirst(ks, x)] \in V
          /\ PivotKey(x.r) = ks[x.kf] => g[BeforeLast(ks, x)] \in V
          /\ g[InUpper(x)] \in V /\ g[InLower(x)] \in V
          /\ ks[x.kd] < PivotKey(x.r) /\ PivotKey(x.r) < ks[x.kf] =>
               g[LesserKeys(ks, x)] \in V /\ g[GreaterKeys(ks, x)] \in V
      BY <1>2, <2>2, CallsShrink DEF Smaller
    <3>2. /\ ks[x.kd] \in Int /\ ks[x.kf] \in Int /\ PivotKey(x.r) \in Int
      BY <1>2, <2>2, CallTypes
    <3>3. \/ PivotKey(x.r) = ks[x.kd] \/ PivotKey(x.r) = ks[x.kf]
          \/ PivotKey(x.r) < ks[x.kd] \/ PivotKey(x.r) > ks[x.kf]
          \/ ks[x.kd] < PivotKey(x.r) /\ PivotKey(x.r) < ks[x.kf]
      BY <3>2
    <3> QED BY <1>6, <1>7, <2>2, <3>1, <3>3 DEF Goes, KeysStep
  <2> QED BY <2>1, <2>2
<1>9. H \in [X \X [X -> V] -> V]
  BY <1>3, <1>8
<1>10. PICK rank : rank = KeysRank(Size, ks)
  OBVIOUS
<1>11. rank \in [X -> 0 .. Size + Len(ks)]
  <2>1. ASSUME NEW x \in X
        PROVE  Width(Size)[x.r] + (IF x.kd <= x.kf THEN x.kf - x.kd + 1 ELSE 0)
                 \in 0 .. Size + Len(ks)
    <3>1. PICK w, kd, kf : w = Width(Size)[x.r] /\ kd = x.kd /\ kf = x.kf
      OBVIOUS
    <3>2. /\ Size \in Nat /\ Len(ks) \in Nat
          /\ w \in 0 .. Size /\ kd \in 1 .. Len(ks) + 1 /\ kf \in 0 .. Len(ks)
      BY <1>2, <3>1, CallTypes
    <3>3. w + (IF kd <= kf THEN kf - kd + 1 ELSE 0) \in 0 .. Size + Len(ks)
      BY <3>2
    <3> QED BY <3>1, <3>3
  <2> QED BY <1>2, <1>10, <2>1 DEF KeysRank
<1>12. ASSUME NEW x \in X, NEW g \in [X -> V], NEW h \in [X -> V],
             \A y \in X : rank[y] < rank[x] => g[y] = h[y]
       PROVE  H[<<x, g>>] = H[<<x, h>>]
  <2>1. H[<<x, g>>] = KeysStep(g, ks, x) /\ H[<<x, h>>] = KeysStep(h, ks, x)
    BY <1>3
  <2>2. CASE ~Goes(x)
    BY <2>1, <2>2 DEF Goes, KeysStep
  <2>3. CASE Goes(x)
    <3>1. \A y : Smaller(Size, ks, y, x) => g[y] = h[y]
      BY <1>2, <1>10, <1>12 DEF Smaller
    <3>2. /\ PivotKey(x.r) = ks[x.kd] => g[AfterFirst(ks, x)] = h[AfterFirst(ks, x)]
          /\ PivotKey(x.r) = ks[x.kf] => g[BeforeLast(ks, x)] = h[BeforeLast(ks, x)]
          /\ g[InUpper(x)] = h[InUpper(x)] /\ g[InLower(x)] = h[InLower(x)]
          /\ ks[x.kd] < PivotKey(x.r) /\ PivotKey(x.r) < ks[x.kf] =>
               /\ g[LesserKeys(ks, x)] = h[LesserKeys(ks, x)]
               /\ g[GreaterKeys(ks, x)] = h[GreaterKeys(ks, x)]
      BY <1>2, <2>3, <3>1, CallsShrink
    <3>3. /\ ks[x.kd] \in Int /\ ks[x.kf] \in Int /\ PivotKey(x.r) \in Int
      BY <1>2, <2>3, CallTypes
    <3>4. \/ PivotKey(x.r) = ks[x.kd] \/ PivotKey(x.r) = ks[x.kf]
          \/ PivotKey(x.r) < ks[x.kd] \/ PivotKey(x.r) > ks[x.kf]
          \/ ks[x.kd] < PivotKey(x.r) /\ PivotKey(x.r) < ks[x.kf]
      BY <3>3
    <3>5. KeysStep(g, ks, x) = KeysStep(h, ks, x)
      BY <2>3, <3>2, <3>4 DEF Goes, KeysStep
    <3> QED BY <2>1, <3>5
  <2> QED BY <2>2, <2>3
<1>13. Definable(X, V, Size + Len(ks), rank, H)
  <2>1. V # {} /\ Size + Len(ks) \in Nat
    BY <1>4, <1>5
  <2>2. \A x \in X : \A g, h \in [X -> V] :
          (\A y \in X : rank[y] < rank[x] => g[y] = h[y]) => H[<<x, g>>] = H[<<x, h>>]
    BY <1>12
  <2> QED BY <1>9, <1>11, <2>1, <2>2, Zenon DEF Definable
<1>14. PICK f \in [X -> V] : \A x \in X : f[x] = H[<<x, f>>]
  BY <1>13, RankRecursion DEF Defined
<1>15. X = [kd : 1 .. Len(ks) + 1, kf : 0 .. Len(ks), r : Ranges]
  BY <1>2 DEF Calls, Ranges, RangesIn
<1>16. f = [x \in X |-> KeysStep(f, ks, x)]
  BY <1>3, <1>14
<1>17. KeysBisection(ks) = [x \in X |-> KeysStep(KeysBisection(ks), ks, x)]
  <2>1. KeysBisection(ks) = CHOOSE it : it = [x \in X |-> KeysStep(it, ks, x)]
    BY <1>15, KeysBisectionIs
  <2> QED BY <1>16, <2>1
<1> QED BY <1>2, <1>17

\* Positions that hold the keys they are given to.
Sound(ks, b) ==
  /\ b \in [at : SUBSET ((1 .. Len(ks)) \X (0 .. Size - 1)), read : SUBSET Reads(Size)]
  /\ \A z \in b.at : FileKey(z[2]) = ks[z[1]]

\* A key has a position.
Has(b, i) == \E p \in 0 .. Size - 1 : <<i, p>> \in b.at

\* The keys of a call lie between the keys at the ends of its range.
Between(ks, x) ==
  /\ x.r.lo < x.r.hi /\ x.r.hi <= Size - 1
  /\ \A i \in x.kd .. x.kf : FileKey(x.r.lo) < ks[i] /\ ks[i] < FileKey(x.r.hi)

\* What a call yields is sound, and in a sorted file there is a position for every key
\* that is held.
KeysRight(ks, x) ==
  /\ Sound(ks, KeysBisection(ks)[x])
  /\ InOrder(file) /\ Between(ks, x) =>
       \A i \in x.kd .. x.kf : ks[i] \in Held => Has(KeysBisection(ks)[x], i)

\* What two calls yield is together what either yields.
LEMMA TogetherSound ==
  ASSUME NEW ks, NEW a, NEW c, Sound(ks, a), Sound(ks, c)
  PROVE  /\ Sound(ks, Together(a, c))
         /\ \A i : Has(a, i) \/ Has(c, i) => Has(Together(a, c), i)
<1>1. Together(a, c).at = a.at \cup c.at
  BY DEF Together
<1>2. Together(a, c) \in [at : SUBSET ((1 .. Len(ks)) \X (0 .. Size - 1)), read : SUBSET Reads(Size)]
  BY DEF Together, Sound
<1> QED BY <1>1, <1>2 DEF Sound, Has

\* The keys that are equal to the one at the pivot are found there.
LEMMA AtPivotSound ==
  ASSUME NEW ks, NEW r, Pivot(r) \in 0 .. Size - 1, PivotRead(r) \in SUBSET Reads(Size),
         NEW E \in SUBSET (1 .. Len(ks)), \A i \in E : ks[i] = FileKey(Pivot(r))
  PROVE  Sound(ks, AtPivot(E, r)) /\ \A i \in E : Has(AtPivot(E, r), i)
<1>1. AtPivot(E, r).at = E \X {Pivot(r)}
  BY DEF AtPivot
<1>2. AtPivot(E, r) \in [at : SUBSET ((1 .. Len(ks)) \X (0 .. Size - 1)), read : SUBSET Reads(Size)]
  BY DEF AtPivot
<1>3. \A z \in E \X {Pivot(r)} : FileKey(z[2]) = ks[z[1]]
  OBVIOUS
<1>4. \A i \in E : <<i, Pivot(r)>> \in E \X {Pivot(r)}
  OBVIOUS
<1> QED BY <1>1, <1>2, <1>3, <1>4 DEF Sound, Has

\* No key lies between two neighbours of a sorted file.
LEMMA NotBetween ==
  ASSUME IndexAssumption, FillInv, InOrder(file),
         NEW lo \in 0 .. Size - 1, NEW hi \in 0 .. Size - 1,
         hi <= lo + 1, NEW key \in Int, FileKey(lo) < key, key < FileKey(hi)
  PROVE  key \notin Held
<1>1. Size \in Nat /\ \A i \in 0 .. Size - 1 : FileKey(i) \in Int
  BY Searchable DEF IndexAssumption
<1> SUFFICES ASSUME NEW p \in 0 .. Size - 1, FileKey(p) = key PROVE FALSE
  BY DEF Held
<1>2. CASE p <= lo
  <2>1. lo \in p .. Size - 1
    BY <1>1, <1>2
  <2>2. FileKey(p) <= FileKey(lo) /\ FileKey(lo) \in Int
    BY <1>1, <2>1, KeysRise
  <2> QED BY <2>2
<1>3. CASE p > lo
  <2>1. p \in hi .. Size - 1
    BY <1>1, <1>3
  <2>2. FileKey(hi) <= FileKey(p) /\ FileKey(hi) \in Int
    BY <1>1, <2>1, KeysRise
  <2> QED BY <2>2
<1> QED BY <1>2, <1>3

\* Every call of findKeysIterate yields that, if the calls it makes do.
LEMMA KeysStepRight ==
  ASSUME IndexAssumption, FillInv, CacheInv, Size > 0, NEW ks, IsKeyList(ks),
         NEW x \in Calls(Size, ks), Placed(Size, x.r), Goes(x),
         \A y : Smaller(Size, ks, y, x) /\ Placed(Size, y.r) => KeysRight(ks, y)
  PROVE  KeysRight(ks, x)
<1>1. /\ Size \in Nat /\ Len(ks) \in Nat /\ x.r \in RangesIn(Size)
      /\ x.kd \in 1 .. Len(ks) /\ x.kf \in x.kd .. Len(ks) /\ x.kf \in 1 .. Len(ks)
      /\ x.r.hi - x.r.lo > 1
      /\ ks[x.kd] \in Int /\ ks[x.kf] \in Int /\ PivotKey(x.r) \in Int
  BY CallTypes
<1>2. /\ Pivot(x.r) \in 0 .. Size - 1
      /\ PivotKey(x.r) = FileKey(Pivot(x.r))
      /\ PivotRead(x.r) \in SUBSET Reads(Size)
  BY <1>1, PivotRight
<1>3. \A i, j \in 1 .. Len(ks) : /\ ks[i] \in Int
                                 /\ i <= j => ks[i] <= ks[j]
  BY ElementOfSeq DEF IsKeyList
<1>4. /\ x.r.lo < Pivot(x.r) /\ Pivot(x.r) < x.r.hi
      /\ LowerHalf(x.r).lo = x.r.lo /\ LowerHalf(x.r).hi = Pivot(x.r)
      /\ UpperHalf(x.r).lo = Pivot(x.r) /\ UpperHalf(x.r).hi = x.r.hi
      /\ x.r.lo \in Int /\ x.r.hi \in Int
  BY <1>1, Halves
<1>5. Placed(Size, LowerHalf(x.r)) /\ Placed(Size, UpperHalf(x.r))
  BY <1>1, HalvesPlaced
<1>6. PICK b, it : b = KeysBisection(ks)[x] /\ it = KeysBisection(ks)
  OBVIOUS
<1>7. b = KeysStep(it, ks, x)
  BY <1>6, KeysDefined
<1>8. PICK key : key = PivotKey(x.r)
  OBVIOUS
<1>9. \A i \in x.kd .. x.kf : i \in 1 .. Len(ks) /\ i \in x.kd .. Len(ks) /\ i \in 1 .. x.kf
  BY <1>1
<1>10. \A i \in x.kd .. x.kf : ks[i] \in Int /\ ks[x.kd] <= ks[i] /\ ks[i] <= ks[x.kf]
  BY <1>1, <1>3, <1>9
<1>11. /\ Equal(ks, key, x.kd, Len(ks)) \in SUBSET (1 .. Len(ks))
       /\ Equal(ks, key, 1, x.kf) \in SUBSET (1 .. Len(ks)) /\ {} \in SUBSET (1 .. Len(ks))
  BY <1>1 DEF Equal
<1>12. /\ Sound(ks, AtPivot(Equal(ks, key, x.kd, Len(ks)), x.r))
       /\ Sound(ks, AtPivot(Equal(ks, key, 1, x.kf), x.r))
       /\ Sound(ks, AtPivot({}, x.r))
       /\ \A i \in Equal(ks, key, x.kd, Len(ks)) :
            Has(AtPivot(Equal(ks, key, x.kd, Len(ks)), x.r), i)
       /\ \A i \in Equal(ks, key, 1, x.kf) : Has(AtPivot(Equal(ks, key, 1, x.kf), x.r), i)
  <2>1. /\ \A i \in Equal(ks, key, x.kd, Len(ks)) : ks[i] = FileKey(Pivot(x.r))
        /\ \A i \in Equal(ks, key, 1, x.kf) : ks[i] = FileKey(Pivot(x.r))
    BY <1>2, <1>8 DEF Equal
  <2>2. \A E \in SUBSET (1 .. Len(ks)) : (\A i \in E : ks[i] = FileKey(Pivot(x.r))) =>
          Sound(ks, AtPivot(E, x.r)) /\ \A i \in E : Has(AtPivot(E, x.r), i)
    BY <1>2, AtPivotSound
  <2> QED BY <1>11, <2>1, <2>2
<1>13. CASE key = ks[x.kd]
  <2>1. PICK y, a : y = AfterFirst(ks, x) /\ a = AtPivot(Equal(ks, key, x.kd, Len(ks)), x.r)
    OBVIOUS
  <2>2. b = Together(a, it[y])
    BY <1>7, <1>8, <1>13, <2>1 DEF KeysStep, Goes
  <2>3. PICK c : c = Cardinality(Equal(ks, ks[x.kd], x.kd, Len(ks)))
    OBVIOUS
  <2>4. c \in Nat /\ Equal(ks, ks[x.kd], x.kd, Len(ks)) = x.kd .. x.kd + c - 1
    BY <1>1, <2>3, EqualToFirst
  <2>5. Smaller(Size, ks, y, x)
    BY <1>8, <1>13, <2>1, CallsShrink
  <2>6. y.kd = x.kd + c /\ y.kf = x.kf /\ y.r = x.r
    BY <1>8, <1>13, <2>1, <2>3 DEF AfterFirst, Calls
  <2>7. KeysRight(ks, y)
    BY <2>5, <2>6
  <2>8. Sound(ks, b) /\ \A i : Has(a, i) \/ Has(it[y], i) => Has(b, i)
    BY <1>6, <1>12, <2>1, <2>2, <2>7, TogetherSound DEF KeysRight
  <2>9. ASSUME InOrder(file), Between(ks, x), NEW i \in x.kd .. x.kf, ks[i] \in Held
        PROVE  Has(b, i)
    <3>1. CASE i \in Equal(ks, key, x.kd, Len(ks))
      BY <1>12, <2>1, <2>8, <3>1
    <3>2. CASE i \notin Equal(ks, key, x.kd, Len(ks))
      <4>1. i \in y.kd .. y.kf
        BY <1>1, <1>13, <2>4, <2>6, <3>2
      <4>2. Between(ks, y)
        <5>1. \A j \in y.kd .. y.kf : j \in x.kd .. x.kf
          BY <1>1, <2>4, <2>6
        <5> QED BY <2>6, <2>9, <5>1 DEF Between
      <4>3. Has(it[y], i)
        BY <1>6, <2>7, <2>9, <4>1, <4>2 DEF KeysRight
      <4> QED BY <2>8, <4>3
    <3> QED BY <3>1, <3>2
  <2> QED BY <1>6, <2>8, <2>9 DEF KeysRight
<1>14. CASE key # ks[x.kd] /\ key = ks[x.kf]
  <2>1. PICK y, a : y = BeforeLast(ks, x) /\ a = AtPivot(Equal(ks, key, 1, x.kf), x.r)
    OBVIOUS
  <2>2. b = Together(a, it[y])
    BY <1>7, <1>8, <1>14, <2>1 DEF KeysStep, Goes
  <2>3. PICK c : c = Cardinality(Equal(ks, ks[x.kf], 1, x.kf))
    OBVIOUS
  <2>4. c \in Nat /\ Equal(ks, ks[x.kf], 1, x.kf) = x.kf - c + 1 .. x.kf
    BY <1>1, <2>3, EqualToLast
  <2>5. Smaller(Size, ks, y, x)
    BY <1>8, <1>14, <2>1, CallsShrink
  <2>6. y.kd = x.kd /\ y.kf = x.kf - c /\ y.r = x.r
    BY <1>8, <1>14, <2>1, <2>3 DEF BeforeLast, Calls
  <2>7. KeysRight(ks, y)
    BY <2>5, <2>6
  <2>8. Sound(ks, b) /\ \A i : Has(a, i) \/ Has(it[y], i) => Has(b, i)
    BY <1>6, <1>12, <2>1, <2>2, <2>7, TogetherSound DEF KeysRight
  <2>9. ASSUME InOrder(file), Between(ks, x), NEW i \in x.kd .. x.kf, ks[i] \in Held
        PROVE  Has(b, i)
    <3>1. CASE i \in Equal(ks, key, 1, x.kf)
      BY <1>12, <2>1, <2>8, <3>1
    <3>2. CASE i \notin Equal(ks, key, 1, x.kf)
      <4>1. i \in y.kd .. y.kf
        BY <1>1, <1>14, <2>4, <2>6, <3>2
      <4>2. Between(ks, y)
        <5>1. \A j \in y.kd .. y.kf : j \in x.kd .. x.kf
          BY <1>1, <2>4, <2>6
        <5> QED BY <2>6, <2>9, <5>1 DEF Between
      <4>3. Has(it[y], i)
        BY <1>6, <2>7, <2>9, <4>1, <4>2 DEF KeysRight
      <4> QED BY <2>8, <4>3
    <3> QED BY <3>1, <3>2
  <2> QED BY <1>6, <2>8, <2>9 DEF KeysRight
<1>15. CASE key < ks[x.kd]
  <2>1. PICK y, a : y = InUpper(x) /\ a = AtPivot({}, x.r)
    OBVIOUS
  <2>2. b = Together(a, it[y])
    <3>1. key # ks[x.kd] /\ key # ks[x.kf]
      BY <1>1, <1>3, <1>8, <1>15
    <3> QED BY <1>7, <1>8, <1>15, <2>1, <3>1 DEF KeysStep, Goes
  <2>3. Smaller(Size, ks, y, x)
    BY <2>1, CallsShrink
  <2>4. y.kd = x.kd /\ y.kf = x.kf /\ y.r = UpperHalf(x.r)
    BY <2>1 DEF InUpper, Calls
  <2>5. KeysRight(ks, y)
    BY <1>5, <2>3, <2>4
  <2>6. Sound(ks, b) /\ \A i : Has(a, i) \/ Has(it[y], i) => Has(b, i)
    BY <1>6, <1>12, <2>1, <2>2, <2>5, TogetherSound DEF KeysRight
  <2>7. ASSUME Between(ks, x) PROVE Between(ks, y)
    <3>1. \A i \in x.kd .. x.kf : FileKey(Pivot(x.r)) < ks[i]
      BY <1>1, <1>2, <1>8, <1>10, <1>15
    <3> QED BY <1>4, <2>4, <2>7, <3>1 DEF Between
  <2> QED BY <1>6, <2>4, <2>5, <2>6, <2>7 DEF KeysRight
<1>16. CASE key > ks[x.kf]
  <2>1. PICK y, a : y = InLower(x) /\ a = AtPivot({}, x.r)
    OBVIOUS
  <2>2. b = Together(a, it[y])
    <3>1. key # ks[x.kd] /\ key # ks[x.kf] /\ ~(key < ks[x.kd])
      BY <1>1, <1>3, <1>8, <1>16
    <3> QED BY <1>7, <1>8, <1>16, <2>1, <3>1 DEF KeysStep, Goes
  <2>3. Smaller(Size, ks, y, x)
    BY <2>1, CallsShrink
  <2>4. y.kd = x.kd /\ y.kf = x.kf /\ y.r = LowerHalf(x.r)
    BY <2>1 DEF InLower, Calls
  <2>5. KeysRight(ks, y)
    BY <1>5, <2>3, <2>4
  <2>6. Sound(ks, b) /\ \A i : Has(a, i) \/ Has(it[y], i) => Has(b, i)
    BY <1>6, <1>12, <2>1, <2>2, <2>5, TogetherSound DEF KeysRight
  <2>7. ASSUME Between(ks, x) PROVE Between(ks, y)
    <3>1. \A i \in x.kd .. x.kf : ks[i] < FileKey(Pivot(x.r))
      BY <1>1, <1>2, <1>8, <1>10, <1>16
    <3>2. Pivot(x.r) <= Size - 1
      BY <1>1, <1>2
    <3> QED BY <1>4, <2>4, <2>7, <3>1, <3>2 DEF Between
  <2> QED BY <1>6, <2>4, <2>5, <2>6, <2>7 DEF KeysRight
<1>17. CASE ks[x.kd] < key /\ key < ks[x.kf]
  <2>1. PICK y, z, a : /\ y = LesserKeys(ks, x) /\ z = GreaterKeys(ks, x)
                       /\ a = AtPivot(Equal(ks, key, x.kd, Len(ks)), x.r)
    OBVIOUS
  <2>2. b = Together(a, Together(it[y], it[z]))
    <3>1. key # ks[x.kd] /\ key # ks[x.kf] /\ ~(key < ks[x.kd]) /\ ~(key > ks[x.kf])
      BY <1>1, <1>8, <1>17
    <3> QED BY <1>7, <1>8, <2>1, <3>1 DEF KeysStep, Goes
  <2>3. PICK l, c : /\ l = Cardinality(Less(ks, key, x.kd, x.kf))
                    /\ c = Cardinality(Equal(ks, key, x.kd, Len(ks)))
    OBVIOUS
  <2>4. /\ l \in Nat /\ Less(ks, key, x.kd, x.kf) = x.kd .. x.kd + l - 1
        /\ x.kd + l - 1 \in 0 .. x.kf
        /\ c \in Nat /\ Equal(ks, key, x.kd, Len(ks)) = x.kd + l .. x.kd + l + c - 1
        /\ \A i \in x.kd + l + c .. x.kf : key < ks[i]
    <3>1. key \in Int /\ x.kd \in 1 .. Len(ks) /\ x.kf \in x.kd .. Len(ks)
      BY <1>1, <1>8
    <3> QED BY <1>17, <2>3, <3>1, InBetween
  <2>5. Smaller(Size, ks, y, x) /\ Smaller(Size, ks, z, x)
    BY <1>8, <1>17, <2>1, CallsShrink
  <2>6. /\ y.kd = x.kd /\ y.kf = x.kd + l - 1 /\ y.r = LowerHalf(x.r)
        /\ z.kd = x.kd + l + c /\ z.kf = x.kf /\ z.r = UpperHalf(x.r)
    BY <1>8, <2>1, <2>3 DEF LesserKeys, GreaterKeys, Calls
  <2>7. KeysRight(ks, y) /\ KeysRight(ks, z)
    BY <1>5, <2>5, <2>6
  <2>8. /\ Sound(ks, b)
        /\ \A i : Has(a, i) \/ Has(it[y], i) \/ Has(it[z], i) => Has(b, i)
    <3>1. /\ Sound(ks, Together(it[y], it[z]))
          /\ \A i : Has(it[y], i) \/ Has(it[z], i) => Has(Together(it[y], it[z]), i)
      BY <1>6, <2>7, TogetherSound DEF KeysRight
    <3> QED BY <1>12, <2>1, <2>2, <3>1, TogetherSound
  <2>9. ASSUME Between(ks, x) PROVE Between(ks, y) /\ Between(ks, z)
    <3>1. \A i \in y.kd .. y.kf : i \in x.kd .. x.kf /\ ks[i] < FileKey(Pivot(x.r))
      <4>1. \A i \in x.kd .. x.kd + l - 1 : i \in x.kd .. x.kf /\ ks[i] < key
        BY <2>4 DEF Less
      <4> QED BY <1>2, <1>8, <2>6, <4>1
    <3>2. \A i \in z.kd .. z.kf : i \in x.kd .. x.kf /\ FileKey(Pivot(x.r)) < ks[i]
      <4>1. \A i \in x.kd + l + c .. x.kf : key < ks[i]
        BY <2>4
      <4>2. \A i \in x.kd + l + c .. x.kf : i \in x.kd .. x.kf
        <5>1. x.kd \in Nat /\ x.kf \in Nat
          BY <1>1
        <5>2. l \in Nat /\ c \in Nat
          BY <2>4
        <5> QED BY <5>1, <5>2
      <4> QED BY <1>2, <1>8, <2>6, <4>1, <4>2
    <3>3. Pivot(x.r) <= Size - 1
      BY <1>1, <1>2
    <3>4. Between(ks, y)
      BY <1>4, <2>6, <2>9, <3>1, <3>3 DEF Between
    <3>5. Between(ks, z)
      BY <1>4, <2>6, <2>9, <3>2 DEF Between
    <3> QED BY <3>4, <3>5
  <2>10. ASSUME InOrder(file), Between(ks, x), NEW i \in x.kd .. x.kf, ks[i] \in Held
         PROVE  Has(b, i)
    <3>1. CASE i \in Equal(ks, key, x.kd, Len(ks))
      BY <1>12, <2>1, <2>8, <3>1
    <3>2. CASE i \in y.kd .. y.kf
      <4>1. Has(it[y], i)
        BY <1>6, <2>7, <2>9, <2>10, <3>2 DEF KeysRight
      <4> QED BY <2>8, <4>1
    <3>3. CASE i \in z.kd .. z.kf
      <4>1. Has(it[z], i)
        BY <1>6, <2>7, <2>9, <2>10, <3>3 DEF KeysRight
      <4> QED BY <2>8, <4>1
    <3>4. i \in x.kd .. x.kd + l - 1 \/ i \in x.kd + l .. x.kd + l + c - 1 \/ i \in x.kd + l + c .. x.kf
      <4>1. x.kd \in Nat /\ x.kf \in Nat /\ i \in x.kd .. x.kf
        BY <1>1, <2>10
      <4>2. l \in Nat /\ c \in Nat
        BY <2>4
      <4> QED BY <4>1, <4>2
    <3>5. Equal(ks, key, x.kd, Len(ks)) = x.kd + l .. x.kd + l + c - 1
      BY <2>4
    <3> QED BY <2>6, <3>1, <3>2, <3>3, <3>4, <3>5
  <2> QED BY <1>6, <2>8, <2>10 DEF KeysRight
<1> QED BY <1>1, <1>8, <1>13, <1>14, <1>15, <1>16, <1>17

\* The bisection of findKeys is right about the keys and the range of every call.
LEMMA KeysBisectionRight ==
  ASSUME IndexAssumption, FillInv, CacheInv, Size > 0, NEW ks, IsKeyList(ks)
  PROVE  \A x \in Calls(Size, ks) : Placed(Size, x.r) => KeysRight(ks, x)
<1>1. Size \in Nat /\ Len(ks) \in Nat /\ \A i \in 1 .. Len(ks) : ks[i] \in Int
  BY Searchable, LenProperties, ElementOfSeq DEF IsKeyList
<1>2. PICK X, rank : X = Calls(Size, ks) /\ rank = KeysRank(Size, ks)
  OBVIOUS
<1>3. PICK S : S = {x \in X : Placed(Size, x.r) => KeysRight(ks, x)}
  OBVIOUS
<1>4. rank \in [X -> Nat]
  <2>1. ASSUME NEW x \in X
        PROVE  Width(Size)[x.r] + (IF x.kd <= x.kf THEN x.kf - x.kd + 1 ELSE 0) \in Nat
    BY <1>2, CallTypes
  <2> QED BY <1>2, <2>1 DEF KeysRank
<1>5. ASSUME NEW x \in X, \A y \in X : rank[y] < rank[x] => y \in S PROVE x \in S
  <2> SUFFICES ASSUME Placed(Size, x.r) PROVE KeysRight(ks, x)
    BY <1>3
  <2>1. CASE Goes(x)
    <3>1. \A y : Smaller(Size, ks, y, x) /\ Placed(Size, y.r) => KeysRight(ks, y)
      BY <1>2, <1>3, <1>5 DEF Smaller
    <3> QED BY <1>2, <2>1, <3>1, KeysStepRight
  <2>2. CASE ~Goes(x)
    <3>1. KeysBisection(ks)[x] = NoKeys
      BY <1>2, <2>2, KeysDefined DEF KeysStep, Goes
    <3>2. Sound(ks, NoKeys)
      BY DEF Sound, NoKeys
    <3>3. ASSUME InOrder(file), Between(ks, x), NEW i \in x.kd .. x.kf, ks[i] \in Held
          PROVE  FALSE
      <4>1. /\ x.kd \in 1 .. Len(ks) + 1 /\ x.kf \in 0 .. Len(ks)
            /\ x.r.lo \in 0 .. Size /\ x.r.hi \in 0 .. Size
        BY <1>1, <1>2, CallTypes, Halves
      <4>2. /\ x.r.lo \in 0 .. Size - 1 /\ x.r.hi \in 0 .. Size - 1 /\ x.r.hi <= x.r.lo + 1
            /\ ks[i] \in Int
        <5>1. x.kd <= x.kf /\ i \in 1 .. Len(ks)
          BY <1>1, <3>3, <4>1
        <5>2. x.r.hi < x.r.lo + 2
          BY <2>2, <4>1, <5>1 DEF Goes
        <5>3. x.r.lo < x.r.hi /\ x.r.hi <= Size - 1
          BY <3>3 DEF Between
        <5>4. ks[i] \in Int
          BY <1>1, <5>1
        <5>5. x.r.hi <= x.r.lo + 1
          BY <4>1, <5>2
        <5>6. x.r.lo \in 0 .. Size - 1 /\ x.r.hi \in 0 .. Size - 1
          BY <1>1, <4>1, <5>3
        <5> QED BY <5>4, <5>5, <5>6
      <4>3. FileKey(x.r.lo) < ks[i] /\ ks[i] < FileKey(x.r.hi)
        BY <3>3 DEF Between
      <4> QED BY <3>3, <4>2, <4>3, NotBetween
    <3> QED BY <3>1, <3>2, <3>3 DEF KeysRight
  <2> QED BY <2>1, <2>2
<1>6. Inductive(X, rank, S)
  BY <1>5 DEF Inductive
<1>7. S \in SUBSET X
  BY <1>3
<1>8. S = X
  BY <1>4, <1>6, <1>7, RankInduction
<1> QED BY <1>2, <1>3, <1>8

\* A sorted sequence, given by its neighbours.
LEMMA KeyListsAreSorted ==
  ASSUME IndexAssumption, NEW ks \in KeyLists
  PROVE  IsKeyList(ks) /\ DOMAIN ks = 1 .. Len(ks)
<1>1. PICK n \in 1 .. MaxQuery :
        ks \in [1 .. n -> Queries] /\ \A i \in 1 .. n - 1 : ks[i] <= ks[i + 1]
  BY DEF KeyLists
<1>2. n \in Nat /\ Queries \subseteq Int
  BY DEF IndexAssumption
<1>3. ks \in Seq(Int) /\ Len(ks) = n /\ DOMAIN ks = 1 .. n
  <2>1. ks \in [1 .. n -> Int]
    BY <1>1, <1>2
  <2> QED BY <1>2, <2>1
<1>4. \A i \in 1 .. n : ks[i] \in Int
  BY <1>1, <1>2
<1>5. \A i, j \in 1 .. n : i <= j => ks[i] <= ks[j]
  BY <1>1, <1>2, <1>4, RisesThroughout
<1> QED BY <1>2, <1>3, <1>5 DEF IsKeyList

\* The keys that are not more than the first one of the file, and not less than the last.
LEMMA OutsideKeys ==
  ASSUME NEW ks, IsKeyList(ks), NEW first \in Int, NEW last \in Int
  PROVE  LET D == {i \in 1 .. Len(ks) : ks[i] <= first}
             U == {i \in 1 .. Len(ks) : ks[i] >= last}
             kd == 1 + Cardinality(D)
             kf == Len(ks) - Cardinality(U)
         IN /\ kd \in 1 .. Len(ks) + 1 /\ kf \in 0 .. Len(ks)
            /\ \A i \in 1 .. Len(ks) : /\ i < kd <=> ks[i] <= first
                                       /\ i > kf <=> ks[i] >= last
<1>1. Len(ks) \in Nat /\ \A i \in 1 .. Len(ks) : ks[i] \in Int
  BY LenProperties, ElementOfSeq DEF IsKeyList
<1>2. PICK D, U : /\ D = {i \in 1 .. Len(ks) : ks[i] <= first}
                  /\ U = {i \in 1 .. Len(ks) : ks[i] >= last}
  OBVIOUS
<1>3. PICK d, u : d = Cardinality(D) /\ u = Cardinality(U)
  OBVIOUS
<1>4. ASSUME NEW i \in D, NEW j \in 1 .. i PROVE j \in D
  <2>1. i \in 1 .. Len(ks) /\ j \in 1 .. Len(ks) /\ j <= i /\ ks[i] <= first
    BY <1>1, <1>2
  <2>2. ks[j] <= ks[i]
    BY <2>1 DEF IsKeyList
  <2> QED BY <1>1, <1>2, <2>1, <2>2
<1>5. ASSUME NEW i \in U, NEW j \in i .. Len(ks) PROVE j \in U
  <2>1. i \in 1 .. Len(ks) /\ j \in 1 .. Len(ks) /\ i <= j /\ ks[i] >= last
    BY <1>1, <1>2
  <2>2. ks[i] <= ks[j]
    BY <2>1 DEF IsKeyList
  <2> QED BY <1>1, <1>2, <2>1, <2>2
<1>6. /\ D \in SUBSET (1 .. Len(ks)) /\ U \in SUBSET (1 .. Len(ks))
      /\ 1 \in Int /\ Len(ks) \in Int /\ 1 <= Len(ks) + 1
  BY <1>1, <1>2
<1>7. d \in Nat /\ D = 1 .. 1 + d - 1 /\ 1 + d - 1 <= Len(ks)
  BY <1>3, <1>4, <1>6, InitialSegment
<1>8. u \in Nat /\ U = Len(ks) - u + 1 .. Len(ks) /\ 1 <= Len(ks) - u + 1
  BY <1>3, <1>5, <1>6, FinalSegment
<1>9. 1 + d \in 1 .. Len(ks) + 1 /\ Len(ks) - u \in 0 .. Len(ks)
  BY <1>1, <1>7, <1>8
<1>10. ASSUME NEW i \in 1 .. Len(ks)
       PROVE  /\ i < 1 + d <=> ks[i] <= first
              /\ i > Len(ks) - u <=> ks[i] >= last
  <2>1. (i \in D <=> i < 1 + d) /\ (i \in U <=> i > Len(ks) - u)
    BY <1>1, <1>7, <1>8
  <2> QED BY <1>2, <2>1
<1> QED BY <1>2, <1>3, <1>9, <1>10

\* findKeys: what it reads, and what it gives for every key.
KeysAnswers(ks) ==
  LET f == FindKeys(ks) IN
  /\ f.read \in SUBSET Reads(Size)
  /\ InOrder(file) => \A i \in 1 .. Len(ks) :
       IF ks[i] \in Held THEN f.result[i] \in 0 .. Size - 1 /\ FileKey(f.result[i]) = ks[i]
       ELSE f.result[i] = IF FileKey(0) < ks[i] /\ ks[i] < FileKey(Size - 1)
                          THEN IdxNotFound ELSE 0

\* findKeys is right about every sorted list, whatever cells have been filled.
LEMMA FindKeysRight ==
  ASSUME IndexAssumption, FillInv, CacheInv, Size > 0,
         NEW ks, IsKeyList(ks), DOMAIN ks = 1 .. Len(ks)
  PROVE  KeysAnswers(ks)
<1>1. /\ Size \in Nat /\ \A i \in 0 .. Size - 1 : FileKey(i) \in Int
      /\ 0 \in 0 .. Size - 1 /\ Size - 1 \in 0 .. Size - 1
  <2>1. Size \in Nat /\ \A i \in 0 .. Size - 1 : FileKey(i) \in Int
    BY Searchable DEF IndexAssumption
  <2> QED BY <2>1
<1>2. Len(ks) \in Nat /\ \A i \in 1 .. Len(ks) : ks[i] \in Int
  BY LenProperties, ElementOfSeq DEF IsKeyList
<1>3. /\ FirstKey = FileKey(0) /\ LastKey = FileKey(Size - 1)
      /\ FirstKey \in Int /\ LastKey \in Int
      /\ FirstRead \in SUBSET Reads(Size) /\ LastRead \in SUBSET Reads(Size)
  BY <1>1, EndsRight
<1>4. PICK kd, kf : /\ kd = 1 + Cardinality({i \in 1 .. Len(ks) : ks[i] <= FirstKey})
                    /\ kf = Len(ks) - Cardinality({i \in 1 .. Len(ks) : ks[i] >= LastKey})
  OBVIOUS
<1>5. /\ kd \in 1 .. Len(ks) + 1 /\ kf \in 0 .. Len(ks)
      /\ \A i \in 1 .. Len(ks) : /\ i < kd <=> ks[i] <= FirstKey
                                 /\ i > kf <=> ks[i] >= LastKey
  BY <1>3, <1>4, OutsideKeys
<1>6. PICK x, b : x = [kd |-> kd, kf |-> kf, r |-> Whole] /\ b = KeysBisection(ks)[x]
  OBVIOUS
<1>7. Whole \in RangesIn(Size) /\ Placed(Size, Whole) /\ Whole.lo = 0 /\ Whole.hi = Size - 1
  <2>1. Whole = WholeOf(Size)
    BY DEF Whole, WholeOf
  <2> QED BY <1>1, <2>1, WholePlaced DEF WholeOf
<1>8. x \in Calls(Size, ks) /\ x.kd = kd /\ x.kf = kf /\ x.r = Whole
  BY <1>5, <1>6, <1>7 DEF Calls
<1>9. KeysRight(ks, x)
  BY <1>7, <1>8, KeysBisectionRight
<1>10. Sound(ks, b)
  BY <1>6, <1>9 DEF KeysRight
<1>11. ASSUME InOrder(file), NEW i \in kd .. kf, ks[i] \in Held PROVE Has(b, i)
  <2>1. \A j \in kd .. kf : FirstKey < ks[j] /\ ks[j] < LastKey
    <3> TAKE j \in kd .. kf
    <3>1. j \in 1 .. Len(ks) /\ ~(j < kd) /\ ~(j > kf)
      BY <1>2, <1>5
    <3> QED BY <1>2, <1>3, <1>5, <3>1
  <2>2. Size - 1 # 0
    BY <1>2, <1>3, <1>5, <2>1
  <2>3. Between(ks, x)
    BY <1>1, <1>3, <1>7, <1>8, <2>1, <2>2 DEF Between
  <2> QED BY <1>6, <1>8, <1>9, <1>11, <2>3 DEF KeysRight
<1>12. PICK f : f = FindKeys(ks)
  OBVIOUS
<1>13. /\ f.read = FirstRead \cup (IF kd <= Len(ks) THEN LastRead ELSE {})
                     \cup (IF kd <= kf THEN b.read ELSE {})
       /\ \A i \in 1 .. Len(ks) :
            f.result[i] = IF ks[i] = LastKey /\ kd <= Len(ks) THEN Size - 1
                          ELSE IF i \in kd .. kf
                            THEN IF \E p \in 0 .. Size : <<i, p>> \in b.at
                                 THEN CHOOSE p \in 0 .. Size : <<i, p>> \in b.at
                                 ELSE IdxNotFound
                          ELSE 0
  BY <1>4, <1>6, <1>12 DEF FindKeys
<1>14. f.read \in SUBSET Reads(Size)
  BY <1>3, <1>10, <1>13 DEF Sound
<1>15. ASSUME InOrder(file), NEW i \in 1 .. Len(ks)
       PROVE  IF ks[i] \in Held THEN f.result[i] \in 0 .. Size - 1 /\ FileKey(f.result[i]) = ks[i]
              ELSE f.result[i] = IF FirstKey < ks[i] /\ ks[i] < LastKey THEN IdxNotFound ELSE 0
  <2>1. \A p \in 0 .. Size - 1 : FirstKey <= FileKey(p) /\ FileKey(p) <= LastKey
    <3> TAKE p \in 0 .. Size - 1
    <3>1. p \in 0 .. Size - 1 /\ Size - 1 \in p .. Size - 1
      BY <1>1
    <3> QED BY <1>1, <1>3, <1>15, <3>1, KeysRise
  <2>2. ks[i] \in Held => FirstKey <= ks[i] /\ ks[i] <= LastKey
    BY <2>1 DEF Held
  <2>3. FirstKey \in Held /\ LastKey \in Held
    BY <1>1, <1>3 DEF Held
  <2>4. ks[i] \in Int
    BY <1>2
  <2>5. CASE ks[i] = LastKey /\ kd <= Len(ks)
    <3>1. f.result[i] = Size - 1
      BY <1>13, <2>5
    <3> QED BY <1>1, <1>3, <2>3, <2>5, <3>1
  <2>6. CASE ~(ks[i] = LastKey /\ kd <= Len(ks)) /\ i \in kd .. kf
    <3>1. FirstKey < ks[i] /\ ks[i] < LastKey
      BY <1>3, <1>5, <2>4, <2>6
    <3>2. \A p : <<i, p>> \in b.at => p \in 0 .. Size - 1 /\ FileKey(p) = ks[i] /\ ks[i] \in Held
      BY <1>10 DEF Sound, Held
    <3>3. f.result[i] = IF \E p \in 0 .. Size : <<i, p>> \in b.at
                        THEN CHOOSE p \in 0 .. Size : <<i, p>> \in b.at ELSE IdxNotFound
      BY <1>13, <2>6
    <3>4. CASE ks[i] \in Held
      <4>1. \E p \in 0 .. Size : <<i, p>> \in b.at
        <5>1. Has(b, i)
          BY <1>11, <1>15, <2>6, <3>4
        <5>2. PICK p : p \in 0 .. Size - 1 /\ <<i, p>> \in b.at
          BY <5>1 DEF Has
        <5>3. p \in 0 .. Size
          BY <1>1, <5>2
        <5> QED BY <5>2, <5>3
      <4>2. PICK q : q = CHOOSE p \in 0 .. Size : <<i, p>> \in b.at
        OBVIOUS
      <4>3. <<i, q>> \in b.at
        BY <4>1, <4>2, Zenon
      <4>4. f.result[i] = q
        BY <3>3, <4>1, <4>2
      <4> QED BY <3>2, <3>4, <4>3, <4>4
    <3>5. CASE ks[i] \notin Held
      BY <3>1, <3>2, <3>3, <3>5
    <3> QED BY <3>4, <3>5
  <2>7. CASE ~(ks[i] = LastKey /\ kd <= Len(ks)) /\ i \notin kd .. kf
    <3>1. f.result[i] = 0
      BY <1>13, <2>7
    <3>2. i < kd \/ i > kf
      BY <1>5, <2>7
    <3>3. ks[i] <= FirstKey \/ ks[i] > LastKey
      <4>1. CASE i < kd
        BY <1>5, <4>1
      <4>2. CASE i > kf /\ ~(i < kd)
        <5>1. ks[i] >= LastKey
          BY <1>5, <4>2
        <5>2. kd <= Len(ks)
          BY <1>2, <1>5, <4>2
        <5> QED BY <1>3, <2>4, <2>7, <5>1, <5>2
      <4> QED BY <3>2, <4>1, <4>2
    <3>4. ~(FirstKey < ks[i] /\ ks[i] < LastKey)
      BY <1>3, <2>4, <3>3
    <3>5. ks[i] \in Held => ks[i] = FirstKey
      BY <1>3, <2>2, <2>4, <3>3
    <3> QED BY <1>1, <1>3, <3>1, <3>4, <3>5
  <2> QED BY <2>5, <2>6, <2>7
<1> QED BY <1>3, <1>12, <1>14, <1>15 DEF KeysAnswers
-----------------------------------------------------------------------------
(* The searches keep their invariant, and the theorems. *)

\* Nothing is cached before the first search, so a step that only fills keeps the caches.
LEMMA NothingCached ==
  ASSUME CacheInv, Unfilled, UNCHANGED cacheKey
  PROVE  CacheInv' /\ Unfilled'
<1>1. cacheKey' \in [Cells -> Keys \cup {NoKey}] /\ \A c \in Cells : cacheKey'[c] = NoKey
  BY DEF CacheInv, Unfilled
<1> QED BY <1>1 DEF CacheInv, Unfilled

\* What a search reads, each cell for the position it stands for; so it can be filled.
LEMMA SearchCaches ==
  ASSUME IndexAssumption, FillInv, CacheInv, SearchOne \/ SearchRange \/ SearchKeys, Size > 0
  PROVE  CacheInv'
<1>2. CASE SearchOne
  <2>1. PICK k \in Queries : Fill(Find(k).read)
    BY <1>2 DEF SearchOne
  <2>2. k \in Int
    BY DEF IndexAssumption
  <2>3. Find(k).read \in SUBSET Reads(Size)
    BY <2>2, FindRight DEF FindAnswers
  <2> QED BY <2>1, <2>3, FillCaches
<1>3. CASE SearchRange
  <2>1. PICK k \in Queries : Fill(FindLastLesser(k).read)
    BY <1>3 DEF SearchRange
  <2>2. k \in Int
    BY DEF IndexAssumption
  <2>3. FindLastLesser(k).read \in SUBSET Reads(Size)
    BY <2>2, FindLastLesserRight DEF LesserAnswers
  <2> QED BY <2>1, <2>3, FillCaches
<1>4. CASE SearchKeys
  <2>1. PICK ks \in KeyLists : Fill(FindKeys(ks).read)
    BY <1>4 DEF SearchKeys
  <2>2. KeysAnswers(ks)
    BY KeyListsAreSorted, FindKeysRight
  <2>3. FindKeys(ks).read \in SUBSET Reads(Size)
    BY <2>2 DEF KeysAnswers
  <2> QED BY <2>1, <2>3, FillCaches
<1> QED BY <1>2, <1>3, <1>4

\* find on an empty index reads nothing.
LEMMA SearchEmpty ==
  ASSUME IndexAssumption, FillInv, CacheInv, SearchOne, ~(Size > 0)
  PROVE  CacheInv'
<1>1. Size = 0
  BY Searchable
<1>2. PICK k \in Queries : Fill(Find(k).read)
  BY DEF SearchOne
<1>3. Find(k).read = {}
  BY <1>1 DEF Find, NotFound
<1>4. ASSUME NEW c \in Cells PROVE cacheKey'[c] = NoKey
  <2>1. cacheKey'[c] = cacheKey[c]
    BY <1>2, <1>3 DEF Fill
  <2> QED BY <1>1, <2>1 DEF CacheInv
<1>5. cacheKey' \in [Cells -> Keys \cup {NoKey}]
  <2>1. cacheKey' = [c \in Cells |-> cacheKey'[c]]
    BY <1>2 DEF Fill
  <2> QED BY <1>4, <2>1
<1> QED BY <1>4, <1>5 DEF CacheInv

\* Every step keeps what is cached true.
LEMMA SearchInvariance ==
  ASSUME IndexAssumption
  PROVE  Spec => []CacheInv
<1> DEFINE Inv == CacheInv /\ (searching \/ Unfilled)
<1>1. Init => Inv
  <2> SUFFICES ASSUME Init PROVE CacheInv /\ Unfilled
    OBVIOUS
  <2>1. cacheKey \in [Cells -> Keys \cup {NoKey}] /\ \A c \in Cells : cacheKey[c] = NoKey
    BY DEF Init
  <2> QED BY <2>1 DEF CacheInv, Unfilled
<1>2. FillInv /\ Inv /\ [Next]_vars => Inv'
  <2> SUFFICES ASSUME FillInv, CacheInv, searching \/ Unfilled, [Next]_vars
               PROVE  CacheInv' /\ (searching' \/ Unfilled')
    OBVIOUS
  <2>1. CASE Insert
    <3>1. ~searching /\ UNCHANGED cacheKey
      BY <2>1 DEF Insert, AppendKey
    <3> QED BY <3>1, NothingCached
  <2>2. CASE Freeze
    <3>1. ~searching /\ UNCHANGED cacheKey
      BY <2>2 DEF Freeze, FlushAndSort
    <3> QED BY <3>1, NothingCached
  <2>3. CASE SearchOne
    <3>1. searching'
      BY <2>3 DEF SearchOne
    <3> QED BY <2>3, <3>1, SearchCaches, SearchEmpty
  <2>4. CASE SearchRange
    <3>1. Size > 0 /\ searching'
      BY <2>4 DEF SearchRange
    <3> QED BY <2>4, <3>1, SearchCaches
  <2>5. CASE SearchKeys
    <3>1. Size > 0 /\ searching'
      BY <2>5 DEF SearchKeys
    <3> QED BY <2>5, <3>1, SearchCaches
  <2>6. CASE UNCHANGED vars
    <3>1. file' = file /\ searching' = searching /\ cacheKey' = cacheKey
      BY <2>6 DEF vars
    <3>2. Size' = Size /\ \A c \in Cells : FileKey(PosOf(Size, c))' = FileKey(PosOf(Size, c))
      BY <3>1 DEF Size, FileKey
    <3> QED BY <3>1, <3>2 DEF CacheInv, Unfilled
  <2> QED BY <2>1, <2>2, <2>3, <2>4, <2>5, <2>6 DEF Next
<1>3. Inv => CacheInv
  OBVIOUS
<1> QED BY <1>1, <1>2, <1>3, FillInvariance, PTL DEF Spec

\* Whatever cells the searches before it have filled, and whatever the sizes of the
\* cache and of the window: find says a key is there exactly if it is, and where.
THEOREM FindsAreRight ==
  ASSUME IndexAssumption
  PROVE  Spec => []FindIsRight
<1>1. FillInv /\ CacheInv => FindIsRight
  <2> SUFFICES ASSUME FillInv, CacheInv, Usable, NEW k \in Queries
               PROVE  Find(k).found = (k \in Held) /\ (Find(k).found => FileKey(Find(k).pos) = k)
    BY DEF FindIsRight
  <2>1. k \in Int /\ Size > 0 /\ InOrder(file)
    BY DEF IndexAssumption, Usable
  <2>2. FindAnswers(k)
    BY <2>1, FindRight
  <2>3. Find(k).found => Find(k).pos \in 0 .. Size - 1 /\ FileKey(Find(k).pos) = k
    BY <2>2 DEF FindAnswers
  <2>4. Find(k).found => k \in Held
    BY <2>3 DEF Held
  <2>5. k \in Held => Find(k).found
    BY <2>1, <2>2 DEF FindAnswers
  <2>6. Find(k).found \in BOOLEAN
    BY <2>2 DEF FindAnswers
  <2>7. Find(k).found = (k \in Held)
    <3>1. CASE Find(k).found = TRUE
      <4>1. k \in Held
        BY <2>4, <3>1
      <4>2. (k \in Held) = TRUE
        BY <4>1
      <4> QED BY <3>1, <4>2
    <3>2. CASE Find(k).found = FALSE
      <4>1. k \notin Held
        BY <2>5, <3>2
      <4>2. (k \in Held) = FALSE
        BY <4>1
      <4> QED BY <3>2, <4>2
    <3> QED BY <2>6, <3>1, <3>2
  <2> QED BY <2>3, <2>7
<1> QED BY <1>1, FillInvariance, SearchInvariance, PTL

\* get_range returns all the items of its range, and at most one that follows it,
\* whatever the size of its blocks.
THEOREM RangesAreCovered ==
  ASSUME IndexAssumption
  PROVE  Spec => []RangeIsCovered
<1>1. FillInv /\ CacheInv => RangeIsCovered
  <2> SUFFICES ASSUME FillInv, CacheInv, Usable, NEW k \in Queries, NEW l \in Queries, k <= l
               PROVE  Covers(k, l)
    BY DEF RangeIsCovered, Covers
  <2>1. k \in Int /\ l \in Int /\ Size > 0 /\ InOrder(file)
    BY DEF IndexAssumption, Usable
  <2> QED BY <2>1, RangeCovers
<1> QED BY <1>1, FillInvariance, SearchInvariance, PTL

\* findKeys, for a sorted sequence of any length: the keys that are held get a position
\* that holds them, those that are not get IDX_NOT_FOUND between the first and the last.
THEOREM KeysAreFound ==
  ASSUME IndexAssumption
  PROVE  Spec => []FindKeysIsRight
<1>1. FillInv /\ CacheInv => FindKeysIsRight
  <2> SUFFICES ASSUME FillInv, CacheInv, Usable, NEW ks \in KeyLists, NEW i \in DOMAIN ks
               PROVE  LET r == FindKeys(ks).result IN
                      IF ks[i] \in Held THEN r[i] \in 0 .. Size - 1 /\ FileKey(r[i]) = ks[i]
                      ELSE r[i] = IF FileKey(0) < ks[i] /\ ks[i] < FileKey(Size - 1)
                                  THEN IdxNotFound ELSE 0
    BY DEF FindKeysIsRight
  <2>1. Size > 0 /\ InOrder(file)
    BY DEF Usable
  <2>2. i \in 1 .. Len(ks)
    BY KeyListsAreSorted
  <2>3. KeysAnswers(ks)
    BY <2>1, KeyListsAreSorted, FindKeysRight
  <2> QED BY <2>1, <2>2, <2>3 DEF KeysAnswers
<1> QED BY <1>1, FillInvariance, SearchInvariance, PTL
-----------------------------------------------------------------------------
(* An index that is given its keys in rising order, as compile.cpp does.     *)

\* The index has been given these keys, one after the other: the item of each is the
\* number of keys before it.
Given(ids) ==
  /\ ids \in Seq(Keys) /\ \A i, j \in 1 .. Len(ids) : i < j => ids[i] < ids[j]
  /\ file \in Seq(Record) /\ buffer \in Seq(Record)
  /\ Len(file) + Len(buffer) <= MaxItems /\ Len(buffer) < FlushSize
  /\ Len(Appended) = Len(ids)
  /\ \A i \in 1 .. Len(ids) : Appended[i].key = ids[i] /\ Appended[i].item = i - 1
  /\ sorted = TRUE
  /\ last_inserted = IF ids = << >> THEN NoKey ELSE ids[Len(ids)]

\* Such an index has the invariant of filling.
LEMMA GivenFills ==
  ASSUME IndexAssumption, NEW ids, Given(ids), searching \in BOOLEAN, searching => buffer = << >>
  PROVE  FillInv /\ InOrder(Appended)
<1>1. /\ ids \in Seq(Keys) /\ Len(ids) \in Nat /\ \A i \in 1 .. Len(ids) : ids[i] \in Keys
      /\ file \in Seq(Record) /\ buffer \in Seq(Record)
  BY LenProperties, ElementOfSeq DEF Given
<1>2. Appended \in Seq(Record) /\ DOMAIN Appended = 1 .. Len(ids)
  <2>1. Appended \in Seq(Record)
    BY <1>1, ConcatProperties DEF Appended
  <2> QED BY <2>1, LenProperties DEF Given
<1>3. Numbered(Appended)
  <2>1. \A i \in 1 .. Len(ids) : Appended[i].item = i - 1
    BY DEF Given
  <2>2. \A n \in 0 .. Len(ids) - 1 : n + 1 \in 1 .. Len(ids) /\ (n + 1) - 1 = n
    BY <1>1
  <2>3. \A i \in 1 .. Len(ids) : i - 1 \in 0 .. Len(ids) - 1
    BY <1>1
  <2>4. {Appended[i].item : i \in 1 .. Len(ids)} = 0 .. Len(ids) - 1
    <3>1. \A i \in 1 .. Len(ids) : Appended[i].item \in 0 .. Len(ids) - 1
      BY <2>1, <2>3
    <3>2. \A n \in 0 .. Len(ids) - 1 : \E i \in 1 .. Len(ids) : Appended[i].item = n
      <4> TAKE n \in 0 .. Len(ids) - 1
      <4>1. n + 1 \in 1 .. Len(ids) /\ Appended[n + 1].item = n
        BY <2>1, <2>2
      <4> QED BY <4>1
    <3> QED BY <3>1, <3>2
  <2> QED BY <1>2, <2>4 DEF Numbered, Given
<1>4. InOrder(Appended)
  <2>1. ASSUME NEW i \in 1 .. Len(ids) - 1 PROVE Appended[i].key <= Appended[i + 1].key
    <3>1. i \in 1 .. Len(ids) /\ i + 1 \in 1 .. Len(ids) /\ i < i + 1
      BY <1>1
    <3>2. ids[i] < ids[i + 1] /\ ids[i] \in Int /\ ids[i + 1] \in Int
      BY <1>1, <3>1 DEF Given, IndexAssumption
    <3>3. Appended[i].key = ids[i] /\ Appended[i + 1].key = ids[i + 1]
      BY <3>1 DEF Given
    <3> QED BY <3>2, <3>3
  <2> QED BY <2>1 DEF InOrder, Given
<1>5. OrderedLate(Appended)
  BY <1>4 DEF InOrder, OrderedLate
<1>6. searching => OrderedLate(file)
  <2> HAVE searching
  <2>1. Appended = file
    BY <1>1, ConcatEmptySeq DEF Appended
  <2> QED BY <1>5, <2>1
<1>7. last_inserted \in Keys \cup {NoKey} /\ (Len(Appended) > 0 => last_inserted = Appended[Len(Appended)].key)
  <2>1. CASE ids = << >>
    BY <2>1 DEF Given
  <2>2. CASE ids # << >>
    <3>1. Len(ids) \in 1 .. Len(ids)
      BY <1>1, <2>2
    <3>2. Appended[Len(ids)].key = ids[Len(ids)] /\ ids[Len(ids)] \in Keys
      BY <1>1, <3>1 DEF Given
    <3> QED BY <2>2, <3>2 DEF Given
  <2> QED BY <2>1, <2>2
<1>8. /\ Len(file) + Len(buffer) <= MaxItems /\ Len(buffer) < FlushSize /\ sorted \in BOOLEAN
  BY DEF Given
<1> QED BY <1>1, <1>3, <1>4, <1>5, <1>6, <1>7, <1>8 DEF FillInv

\* At the start no key has been given.
LEMMA GivenNone ==
  ASSUME IndexAssumption, Init
  PROVE  Given(<< >>) /\ CacheInv /\ Unfilled
<1>1. file = << >> /\ buffer = << >> /\ Appended = << >> /\ sorted = TRUE /\ last_inserted = NoKey
  <2>1. << >> \o << >> = << >>
    OBVIOUS
  <2> QED BY <2>1 DEF Init, Appended
<1>2. << >> \in Seq(Record) /\ << >> \in Seq(Keys) /\ Len(<< >>) = 0
  OBVIOUS
<1>3. Given(<< >>)
  BY <1>1, <1>2 DEF Given, IndexAssumption
<1>4. cacheKey \in [Cells -> Keys \cup {NoKey}] /\ \A c \in Cells : cacheKey[c] = NoKey
  BY DEF Init
<1> QED BY <1>3, <1>4 DEF CacheInv, Unfilled

\* One more key, beyond the others.
LEMMA GivenOneMore ==
  ASSUME IndexAssumption, NEW ids, Given(ids), searching = FALSE, NEW k \in Keys,
         \A i \in 1 .. Len(ids) : ids[i] < k, AppendKey(k)
  PROVE  Given(Append(ids, k))'
<1>1. FillInv
  BY GivenFills
<1>2. PICK r : r = [key |-> k, item |-> Len(Appended)]
  OBVIOUS
<1>3. /\ r \in Record /\ file' \in Seq(Record) /\ buffer' \in Seq(Record)
      /\ Appended' = Append(Appended, r)
      /\ Len(file') + Len(buffer') <= MaxItems /\ Len(buffer') < FlushSize
  BY <1>1, <1>2, AppendAppends
<1>4. /\ Appended \in Seq(Record) /\ Len(Appended) = Len(ids) /\ Len(ids) \in Nat
      /\ ids \in Seq(Keys) /\ r.key = k /\ r.item = Len(ids)
  BY <1>1, <1>2, AppendedShape DEF Given
<1>5. PICK more, all : more = Append(ids, k) /\ all = Append(Appended, r)
  OBVIOUS
<1>6. /\ more \in Seq(Keys) /\ more # << >> /\ Len(more) = Len(ids) + 1
      /\ more[Len(ids) + 1] = k /\ \A i \in 1 .. Len(ids) : more[i] = ids[i]
  BY <1>4, <1>5, AppendProperties
<1>7. /\ Len(all) = Len(ids) + 1
      /\ all[Len(ids) + 1] = r /\ \A i \in 1 .. Len(ids) : all[i] = Appended[i]
  BY <1>3, <1>4, <1>5, AppendProperties
<1>8. \A i \in 1 .. Len(more) : all[i].key = more[i] /\ all[i].item = i - 1
  <2> TAKE i \in 1 .. Len(more)
  <2>1. CASE i \in 1 .. Len(ids)
    <3>1. Appended[i].key = ids[i] /\ Appended[i].item = i - 1
      BY <2>1 DEF Given
    <3> QED BY <1>6, <1>7, <2>1, <3>1
  <2>2. CASE i = Len(ids) + 1
    BY <1>4, <1>6, <1>7, <2>2
  <2> QED BY <1>4, <1>6, <2>1, <2>2
<1>9. \A i, j \in 1 .. Len(more) : i < j => more[i] < more[j]
  <2> SUFFICES ASSUME NEW i \in 1 .. Len(more), NEW j \in 1 .. Len(more), i < j
               PROVE  more[i] < more[j]
    OBVIOUS
  <2>1. i \in 1 .. Len(ids)
    BY <1>4, <1>6
  <2>2. CASE j \in 1 .. Len(ids)
    BY <1>6, <2>1, <2>2 DEF Given
  <2>3. CASE j = Len(ids) + 1
    BY <1>6, <2>1, <2>3
  <2> QED BY <1>4, <1>6, <2>2, <2>3
<1>10. sorted' = TRUE /\ last_inserted' = k
  <2>1. last_inserted # NoKey => ~(k < last_inserted)
    <3> HAVE last_inserted # NoKey
    <3>1. ids # << >> /\ last_inserted = ids[Len(ids)]
      BY DEF Given
    <3>2. Len(ids) \in 1 .. Len(ids)
      BY <1>4, <3>1
    <3>3. ids[Len(ids)] < k /\ ids[Len(ids)] \in Int /\ k \in Int
      BY <1>4, <3>2, ElementOfSeq DEF IndexAssumption
    <3> QED BY <3>1, <3>3
  <2>2. sorted = TRUE
    BY DEF Given
  <2>3. /\ sorted' = (sorted /\ ~(Len(file') > 0 /\ last_inserted # NoKey /\ k < last_inserted))
        /\ last_inserted' = k
    BY Zenon DEF AppendKey
  <2> QED BY <2>1, <2>2, <2>3, Zenon
<1>11. Given(more)'
  BY <1>3, <1>5, <1>6, <1>7, <1>8, <1>9, <1>10 DEF Given
<1> QED BY <1>5, <1>11

\* Freezing such an index puts everything into the file.
LEMMA GivenFreeze ==
  ASSUME IndexAssumption, NEW ids, Given(ids), FlushAndSort
  PROVE  Given(ids)' /\ buffer' = << >>
<1>1. /\ file \in Seq(Record) /\ buffer \in Seq(Record) /\ Len(file) \in Nat /\ Len(buffer) \in Nat
      /\ Len(file) + Len(buffer) <= MaxItems /\ sorted = TRUE
  BY LenProperties DEF Given
<1>2. buffer' = << >> /\ file' = Appended /\ sorted' = TRUE /\ last_inserted' = last_inserted
  BY <1>1 DEF FlushAndSort, Appended
<1>3. Appended \in Seq(Record) /\ Len(Appended) = Len(file) + Len(buffer)
  BY <1>1, ConcatProperties DEF Appended
<1>4. << >> \in Seq(Record) /\ Len(<< >>) = 0
  OBVIOUS
<1>5. Appended' = Appended
  BY <1>2, <1>3, ConcatEmptySeq DEF Appended
<1>6. Len(file') + Len(buffer') <= MaxItems /\ Len(buffer') < FlushSize
  BY <1>1, <1>2, <1>3, <1>4 DEF IndexAssumption
<1> QED BY <1>2, <1>3, <1>4, <1>5, <1>6 DEF Given

\* A search leaves what it has been given.
LEMMA GivenKept ==
  ASSUME NEW ids, Given(ids), UNCHANGED <<file, buffer, sorted, last_inserted>>
  PROVE  Given(ids)'
BY DEF Given, Appended

\* A step that leaves file and cache leaves what is cached.
LEMMA CacheKept ==
  ASSUME CacheInv, UNCHANGED <<file, cacheKey>>
  PROVE  CacheInv' /\ (Unfilled => Unfilled')
<1>1. Size' = Size /\ \A c \in Cells : FileKey(PosOf(Size, c))' = FileKey(PosOf(Size, c))
  BY DEF Size, FileKey
<1> QED BY <1>1 DEF CacheInv, Unfilled

\* The keys that are in the file, of those that have been given.
LEMMA GivenFile ==
  ASSUME IndexAssumption, NEW ids, Given(ids), searching \in BOOLEAN, searching => buffer = << >>
  PROVE  /\ FillInv /\ InOrder(file) /\ Size \in Nat /\ Len(ids) \in Nat /\ Size <= Len(ids)
         /\ \A p \in 0 .. Size - 1 : /\ p + 1 \in 1 .. Len(ids) /\ FileKey(p) = ids[p + 1]
                                     /\ file[p + 1].item = p
         /\ buffer = << >> => Size = Len(ids)
<1>1. FillInv /\ InOrder(Appended)
  BY GivenFills
<1>2. /\ file \in Seq(Record) /\ buffer \in Seq(Record) /\ Len(file) \in Nat /\ Len(buffer) \in Nat
      /\ Len(ids) = Len(file) + Len(buffer)
  BY <1>1, AppendedShape DEF Given, FillInv
<1>3. \A i \in 1 .. Len(file) : Appended[i] = file[i]
  BY <1>2, ConcatProperties DEF Appended
<1>4. ASSUME NEW p \in 0 .. Size - 1
      PROVE  p + 1 \in 1 .. Len(ids) /\ FileKey(p) = ids[p + 1] /\ file[p + 1].item = p
  <2>1. p + 1 \in 1 .. Len(file) /\ p + 1 \in 1 .. Len(ids) /\ (p + 1) - 1 = p
    BY <1>2 DEF Size
  <2>2. Appended[p + 1].key = ids[p + 1] /\ Appended[p + 1].item = p
    BY <2>1 DEF Given
  <2> QED BY <1>3, <2>1, <2>2 DEF FileKey
<1>5. InOrder(file)
  <2>1. ASSUME NEW i \in 1 .. Len(file) - 1 PROVE file[i].key <= file[i + 1].key
    <3>1. /\ i \in 1 .. Len(file) /\ i + 1 \in 1 .. Len(file)
          /\ i \in 1 .. Len(Appended) - 1
      BY <1>2 DEF Given
    <3>2. Appended[i].key <= Appended[i + 1].key
      BY <1>1, <3>1 DEF InOrder
    <3> QED BY <1>3, <3>1, <3>2
  <2> QED BY <2>1 DEF InOrder
<1>6. buffer = << >> => Len(buffer) = 0
  OBVIOUS
<1> QED BY <1>1, <1>2, <1>4, <1>5, <1>6 DEF Size

\* find: what it says of a key, in terms of the keys that have been given.
GivenAnswer(ids, key) ==
  LET f == Find(key) IN
  /\ f.found \in BOOLEAN
  /\ f.found => /\ f.pos + 1 \in 1 .. Len(ids) /\ ids[f.pos + 1] = key /\ f.pos \in 0 .. Size - 1
                /\ file[f.pos + 1].item = f.pos
  /\ buffer = << >> /\ (\E i \in 1 .. Len(ids) : ids[i] = key) => f.found

\* find is right about every key, and what it reads may be cached.
LEMMA GivenFind ==
  ASSUME IndexAssumption, NEW ids, Given(ids), CacheInv, searching \in BOOLEAN,
         searching => buffer = << >>, NEW key \in Int
  PROVE  /\ GivenAnswer(ids, key)
         /\ Fill(Find(key).read) => Given(ids)' /\ CacheInv' /\ file' = file /\ buffer' = buffer
<1>1. /\ FillInv /\ InOrder(file) /\ Size \in Nat /\ Len(ids) \in Nat /\ Size <= Len(ids)
      /\ \A p \in 0 .. Size - 1 : /\ p + 1 \in 1 .. Len(ids) /\ FileKey(p) = ids[p + 1]
                                  /\ file[p + 1].item = p
      /\ buffer = << >> => Size = Len(ids)
  BY GivenFile
<1>2. PICK f : f = Find(key)
  OBVIOUS
<1>3. Fill(f.read) => Given(ids)' /\ file' = file /\ buffer' = buffer
  BY GivenKept DEF Fill
<1>4. CASE Size > 0
  <2>1. FindAnswers(key)
    BY <1>1, <1>4, FindRight
  <2>2. /\ f.read \in SUBSET Reads(Size) /\ f.found \in BOOLEAN
        /\ f.found => f.pos \in 0 .. Size - 1 /\ FileKey(f.pos) = key
        /\ key \in Held => f.found
    BY <1>1, <1>2, <2>1 DEF FindAnswers
  <2>3. f.found => /\ f.pos + 1 \in 1 .. Len(ids) /\ ids[f.pos + 1] = key
                   /\ file[f.pos + 1].item = f.pos
    BY <1>1, <2>2
  <2>4. buffer = << >> /\ (\E i \in 1 .. Len(ids) : ids[i] = key) => key \in Held
    <3> SUFFICES ASSUME buffer = << >>, NEW i \in 1 .. Len(ids), ids[i] = key PROVE key \in Held
      OBVIOUS
    <3>1. i - 1 \in 0 .. Size - 1 /\ (i - 1) + 1 = i
      BY <1>1
    <3>2. FileKey(i - 1) = key
      BY <1>1, <3>1
    <3> QED BY <3>1, <3>2 DEF Held
  <2>5. Fill(f.read) => CacheInv'
    BY <1>1, <1>4, <2>2, FillCaches
  <2> QED BY <1>2, <1>3, <2>2, <2>3, <2>4, <2>5 DEF GivenAnswer
<1>5. CASE Size = 0
  <2>1. f.found = FALSE /\ f.read = {}
    BY <1>2, <1>5 DEF Find, NotFound
  <2>2. buffer = << >> => ~(\E i \in 1 .. Len(ids) : ids[i] = key)
    BY <1>1, <1>5
  <2>3. Fill({}) => CacheInv'
    <3> HAVE Fill({})
    <3>1. cacheKey' = [c \in Cells |-> cacheKey[c]]
      BY DEF Fill
    <3>2. cacheKey' = cacheKey /\ file' = file
      BY <3>1 DEF CacheInv, Fill
    <3> QED BY <3>2, CacheKept
  <2> QED BY <1>2, <1>3, <2>1, <2>2, <2>3 DEF GivenAnswer
<1> QED BY <1>1, <1>4, <1>5

\* findKeys: what it says of sorted keys, in terms of the keys that have been given.
GivenAnswers(ids, ks) ==
  LET r == FindKeys(ks).result IN
  \A i \in 1 .. Len(ks) :
    /\ r[i] \in Int
    /\ r[i] # IdxNotFound => /\ r[i] + 1 \in 1 .. Len(ids) /\ file[r[i] + 1].item = r[i]
    /\ (\E j \in 1 .. Len(ids) : ids[j] = ks[i]) =>
         r[i] # IdxNotFound /\ ids[r[i] + 1] = ks[i]
    /\ ids[1] <= ks[i] /\ ks[i] <= ids[Len(ids)] /\ ~(\E j \in 1 .. Len(ids) : ids[j] = ks[i]) =>
         r[i] = IdxNotFound

\* findKeys is right about every sorted list, and what it reads may be cached.
LEMMA GivenFindKeys ==
  ASSUME IndexAssumption, NEW ids, Given(ids), ids # << >>, CacheInv, searching \in BOOLEAN,
         buffer = << >>, NEW ks, IsKeyList(ks), DOMAIN ks = 1 .. Len(ks)
  PROVE  /\ GivenAnswers(ids, ks)
         /\ Fill(FindKeys(ks).read) => Given(ids)' /\ CacheInv' /\ file' = file /\ buffer' = buffer
<1>1. /\ FillInv /\ InOrder(file) /\ Size \in Nat /\ Len(ids) \in Nat
      /\ \A p \in 0 .. Size - 1 : /\ p + 1 \in 1 .. Len(ids) /\ FileKey(p) = ids[p + 1]
                                  /\ file[p + 1].item = p
      /\ Size = Len(ids)
  BY GivenFile
<1>2. Size > 0
  <2>1. ids \in Seq(Keys)
    BY DEF Given
  <2> QED BY <1>1, <2>1, EmptySeq
<1>3. PICK f, r : f = FindKeys(ks) /\ r = f.result
  OBVIOUS
<1>4. KeysAnswers(ks)
  BY <1>1, <1>2, FindKeysRight
<1>5. /\ f.read \in SUBSET Reads(Size)
      /\ \A i \in 1 .. Len(ks) :
           IF ks[i] \in Held THEN r[i] \in 0 .. Size - 1 /\ FileKey(r[i]) = ks[i]
           ELSE r[i] = IF FileKey(0) < ks[i] /\ ks[i] < FileKey(Size - 1) THEN IdxNotFound ELSE 0
  BY <1>1, <1>3, <1>4 DEF KeysAnswers
<1>6. /\ 0 \in 0 .. Size - 1 /\ Size - 1 \in 0 .. Size - 1 /\ 0 + 1 = 1 /\ (Size - 1) + 1 = Len(ids)
  BY <1>1, <1>2
<1>7. FileKey(0) = ids[1] /\ FileKey(Size - 1) = ids[Len(ids)]
  BY <1>1, <1>6
<1>8. Fill(f.read) => Given(ids)' /\ CacheInv' /\ file' = file /\ buffer' = buffer
  <2>1. Fill(f.read) => Given(ids)' /\ file' = file /\ buffer' = buffer
    BY GivenKept DEF Fill
  <2>2. Fill(f.read) => CacheInv'
    BY <1>1, <1>2, <1>5, FillCaches
  <2> QED BY <2>1, <2>2
<1>9. ASSUME NEW i \in 1 .. Len(ks)
      PROVE  /\ r[i] \in Int
             /\ r[i] # IdxNotFound => r[i] + 1 \in 1 .. Len(ids) /\ file[r[i] + 1].item = r[i]
             /\ (\E j \in 1 .. Len(ids) : ids[j] = ks[i]) =>
                  r[i] # IdxNotFound /\ ids[r[i] + 1] = ks[i]
             /\ ids[1] <= ks[i] /\ ks[i] <= ids[Len(ids)]
                  /\ ~(\E j \in 1 .. Len(ids) : ids[j] = ks[i]) => r[i] = IdxNotFound
  <2>1. ks[i] \in Held <=> \E j \in 1 .. Len(ids) : ids[j] = ks[i]
    <3>1. ks[i] \in Held => \E j \in 1 .. Len(ids) : ids[j] = ks[i]
      BY <1>1 DEF Held
    <3>2. ASSUME NEW j \in 1 .. Len(ids), ids[j] = ks[i] PROVE ks[i] \in Held
      <4>1. j - 1 \in 0 .. Size - 1 /\ (j - 1) + 1 = j
        BY <1>1
      <4>2. FileKey(j - 1) = ks[i]
        BY <1>1, <3>2, <4>1
      <4> QED BY <4>1, <4>2 DEF Held
    <3> QED BY <3>1, <3>2
  <2>2. CASE ks[i] \in Held
    <3>1. r[i] \in 0 .. Size - 1 /\ FileKey(r[i]) = ks[i]
      BY <1>5, <2>2
    <3>2. r[i] + 1 \in 1 .. Len(ids) /\ ids[r[i] + 1] = ks[i] /\ file[r[i] + 1].item = r[i]
      BY <1>1, <3>1
    <3>3. r[i] # IdxNotFound /\ r[i] \in Int
      BY <3>1 DEF IdxNotFound
    <3> QED BY <2>1, <2>2, <3>2, <3>3
  <2>3. CASE ks[i] \notin Held
    <3>1. r[i] = IF ids[1] < ks[i] /\ ks[i] < ids[Len(ids)] THEN IdxNotFound ELSE 0
      BY <1>5, <1>7, <2>3
    <3>2. 0 + 1 \in 1 .. Len(ids) /\ file[0 + 1].item = 0
      BY <1>1, <1>6
    <3>3. ks[i] \in Int /\ ids[1] \in Int /\ ids[Len(ids)] \in Int
      <4>1. 1 \in 1 .. Len(ids) /\ Len(ids) \in 1 .. Len(ids)
        BY <1>1, <1>2
      <4> QED BY <4>1, ElementOfSeq DEF Given, IndexAssumption, IsKeyList
    <3>4. ks[i] # ids[1] /\ ks[i] # ids[Len(ids)]
      <4>1. 1 \in 1 .. Len(ids) /\ Len(ids) \in 1 .. Len(ids)
        BY <1>1, <1>2
      <4> QED BY <2>1, <2>3, <4>1
    <3>5. ids[1] <= ks[i] /\ ks[i] <= ids[Len(ids)] => r[i] = IdxNotFound
      BY <3>1, <3>3, <3>4
    <3>6. r[i] = IdxNotFound \/ r[i] = 0
      BY <3>1
    <3>7. r[i] \in Int
      BY <3>6 DEF IdxNotFound
    <3> QED BY <2>1, <2>3, <3>2, <3>5, <3>6, <3>7
  <2> QED BY <2>2, <2>3
<1> QED BY <1>3, <1>8, <1>9 DEF GivenAnswers

\* The type invariant, from what an index has been given.
LEMMA GivenTypes ==
  ASSUME IndexAssumption, NEW ids, Given(ids), searching \in BOOLEAN,
         cacheKey \in [Cells -> Keys \cup {NoKey}]
  PROVE  TypeOK
<1>1. file \in Seq(Record) /\ buffer \in Seq(Record) /\ Len(file) \in Nat /\ Len(buffer) \in Nat
  BY LenProperties DEF Given
<1>2. last_inserted \in Keys \cup {NoKey}
  <2>1. ids # << >> => Len(ids) \in 1 .. Len(ids)
    BY EmptySeq, LenProperties DEF Given
  <2>2. ids # << >> => ids[Len(ids)] \in Keys
    BY <2>1, ElementOfSeq DEF Given
  <2> QED BY <2>2 DEF Given
<1>3. Len(file) <= MaxItems
  BY <1>1 DEF Given, IndexAssumption
<1> QED BY <1>1, <1>2, <1>3 DEF TypeOK, Given

\* What find may say, and read, whatever the cells hold.
Answers(n) == [found : BOOLEAN, pos : 0 .. n - 1, read : SUBSET (Cells \X (0 .. n - 1))]

\* An index that is searched while it grows has cells that no longer stand for their
\* positions; find then still gives a position of the file.
LEMMA FindBounded ==
  ASSUME IndexAssumption, Size \in Nat, Size > 0, NEW key
  PROVE  Find(key) \in Answers(Size)
<1>1. 0 \in 0 .. Size - 1 /\ Size - 1 \in 0 .. Size - 1 /\ Size # 0
  OBVIOUS
<1>2. 0 \in Cells /\ CacheSize - 1 \in Cells
  BY DEF Cells, IndexAssumption
<1>3. FirstRead \in SUBSET (Cells \X (0 .. Size - 1)) /\ LastRead \in SUBSET (Cells \X (0 .. Size - 1))
  BY <1>1, <1>2 DEF FirstRead, LastRead
<1>4. PICK b : b = Bisection(key)
  OBVIOUS
<1>5. PICK S : S = {r \in RangesIn(Size) : r.hi <= Size - 1 => b[r] \in Answers(Size)}
  OBVIOUS
<1>6. ASSUME NEW r \in RangesIn(Size), r.hi <= Size - 1,
             r.hi - r.lo > 1 => LowerHalf(r) \in S /\ UpperHalf(r) \in S
      PROVE  b[r] \in Answers(Size)
  <2>1. b[r] = BisectStep(b, key, r)
    BY <1>4, BisectionDefined
  <2>2. /\ r.lo \in 0 .. Size /\ r.hi \in 0 .. Size
        /\ LowerHalf(r) \in RangesIn(Size) /\ UpperHalf(r) \in RangesIn(Size)
        /\ LowerHalf(r).hi = Pivot(r) /\ UpperHalf(r).hi = r.hi
        /\ Pivot(r) \in 0 .. Size /\ PivotCell(r) \in Cells
        /\ r.hi - r.lo > 1 => r.lo < Pivot(r) /\ Pivot(r) < r.hi
    BY Halves
  <2>3. CASE r.hi - r.lo <= 1
    <3>1. b[r] = NotFound
      BY <2>1, <2>3 DEF BisectStep
    <3> QED BY <1>1, <3>1 DEF NotFound, Answers
  <2>4. CASE ~(r.hi - r.lo <= 1)
    <3>1. Pivot(r) \in 0 .. Size - 1 /\ Pivot(r) <= Size - 1 /\ r.hi - r.lo > 1
      BY <1>6, <2>2, <2>4
    <3>2. b[LowerHalf(r)] \in Answers(Size) /\ b[UpperHalf(r)] \in Answers(Size)
      BY <1>5, <1>6, <2>2, <3>1
    <3>3. [found |-> TRUE, pos |-> Pivot(r), read |-> {}] \in Answers(Size)
      BY <3>1 DEF Answers
    <3>4. PivotRead(r) \in SUBSET (Cells \X (0 .. Size - 1))
      BY <2>2, <3>1 DEF PivotRead
    <3>5. \A half \in Answers(Size) : [half EXCEPT !.read = @ \cup PivotRead(r)] \in Answers(Size)
      BY <3>4 DEF Answers
    <3> QED BY <2>1, <2>4, <3>2, <3>3, <3>5 DEF BisectStep
  <2> QED BY <2>3, <2>4
<1>7. FromHalves(Size, S)
  BY <1>5, <1>6 DEF FromHalves
<1>8. S = RangesIn(Size)
  BY <1>5, <1>7, RangeInduction
<1>9. Bisection(key)[Whole] \in Answers(Size)
  <2>1. Whole = WholeOf(Size) /\ Whole \in RangesIn(Size) /\ Whole.hi <= Size - 1
    BY WholePlaced DEF Whole, WholeOf
  <2> QED BY <1>4, <1>5, <1>8, <2>1
<1>10. PICK f : f = Find(key)
  OBVIOUS
<1>11. CASE FirstKey >= key
  <2>1. f = [found |-> FirstKey = key, pos |-> 0, read |-> FirstRead]
    BY <1>1, <1>10, <1>11 DEF Find
  <2> QED BY <1>1, <1>3, <1>10, <2>1 DEF Answers
<1>12. CASE ~(FirstKey >= key) /\ LastKey <= key
  <2>1. f = [found |-> LastKey = key, pos |-> Size - 1, read |-> FirstRead \cup LastRead]
    BY <1>1, <1>10, <1>12 DEF Find
  <2> QED BY <1>1, <1>3, <1>10, <2>1 DEF Answers
<1>13. CASE ~(FirstKey >= key) /\ ~(LastKey <= key)
  <2>1. f = [Bisection(key)[Whole] EXCEPT !.read = @ \cup FirstRead \cup LastRead]
    BY <1>1, <1>10, <1>13 DEF Find
  <2>2. PICK h : h = Bisection(key)[Whole]
    OBVIOUS
  <2>3. h \in Answers(Size) /\ f = [h EXCEPT !.read = @ \cup FirstRead \cup LastRead]
    BY <1>9, <2>1, <2>2
  <2>4. f \in Answers(Size)
    BY <1>3, <2>3 DEF Answers
  <2> QED BY <1>10, <2>4
<1> QED BY <1>11, <1>12, <1>13

\* The same for an index that has been given its keys in rising order: what find says
\* it has found is the item of its position, and the cells keep their type.
LEMMA GivenFindStale ==
  ASSUME IndexAssumption, NEW ids, Given(ids), searching = FALSE, NEW key,
         cacheKey \in [Cells -> Keys \cup {NoKey}]
  PROVE  LET f == Find(key) IN
         /\ f.found \in BOOLEAN
         /\ f.found => f.pos \in 0 .. Size - 1 /\ f.pos + 1 \in 1 .. Len(ids) /\ file[f.pos + 1].item = f.pos
         /\ Fill(f.read) => /\ Given(ids)' /\ file' = file /\ buffer' = buffer
                            /\ cacheKey' \in [Cells -> Keys \cup {NoKey}]
<1>1. /\ FillInv /\ Size \in Nat
      /\ \A p \in 0 .. Size - 1 : p + 1 \in 1 .. Len(ids) /\ file[p + 1].item = p
  BY GivenFile
<1>2. PICK f : f = Find(key)
  OBVIOUS
<1>3. f.found \in BOOLEAN /\ (f.found => f.pos \in 0 .. Size - 1)
      /\ f.read \in SUBSET (Cells \X (0 .. Size - 1))
  <2>1. CASE Size > 0
    <3>1. f \in Answers(Size)
      BY <1>1, <1>2, <2>1, FindBounded
    <3> QED BY <3>1 DEF Answers
  <2>2. CASE Size = 0
    <3>1. f = [found |-> FALSE, pos |-> 0, read |-> {}]
      BY <1>2, <2>2 DEF Find, NotFound
    <3> QED BY <3>1
  <2> QED BY <1>1, <2>1, <2>2
<1>4. Fill(f.read) => /\ Given(ids)' /\ file' = file /\ buffer' = buffer
                      /\ cacheKey' \in [Cells -> Keys \cup {NoKey}]
  <2> SUFFICES ASSUME Fill(f.read) PROVE /\ Given(ids)' /\ file' = file /\ buffer' = buffer
                                         /\ cacheKey' \in [Cells -> Keys \cup {NoKey}]
    OBVIOUS
  <2>1. Given(ids)' /\ file' = file /\ buffer' = buffer
    BY GivenKept DEF Fill
  <2>2. \A p \in 0 .. Size - 1 : FileKey(p) \in Keys
    BY <1>1, Searchable
  <2>3. ASSUME NEW c \in Cells PROVE cacheKey'[c] \in Keys \cup {NoKey}
    <3>1. CASE cacheKey[c] = NoKey /\ \E p \in 0 .. Size : <<c, p>> \in f.read
      <4>1. PICK p : p = CHOOSE q \in 0 .. Size : <<c, q>> \in f.read
        OBVIOUS
      <4>2. <<c, p>> \in f.read
        BY <3>1, <4>1, Zenon
      <4>3. cacheKey'[c] = FileKey(p)
        BY <3>1, <4>1 DEF Fill
      <4> QED BY <1>3, <2>2, <4>2, <4>3
    <3>2. CASE ~(cacheKey[c] = NoKey /\ \E p \in 0 .. Size : <<c, p>> \in f.read)
      BY <3>2 DEF Fill
    <3> QED BY <3>1, <3>2
  <2>4. cacheKey' = [c \in Cells |-> cacheKey'[c]]
    BY DEF Fill
  <2> QED BY <2>1, <2>3, <2>4
<1> QED BY <1>1, <1>2, <1>3, <1>4

\* What a program knows of an index that it gives these keys and then searches.
Carries(ids) ==
  Given(ids) /\ CacheInv /\ searching \in BOOLEAN /\ (searching => buffer = << >>)

\* An index begins empty.
LEMMA CarriesNone ==
  ASSUME IndexAssumption, Init
  PROVE  Carries(<< >>) /\ Unfilled
BY GivenNone DEF Carries, Init

\* One more key, before the first search.
LEMMA CarriesOneMore ==
  ASSUME IndexAssumption, NEW ids, Carries(ids), Unfilled, searching = FALSE,
         UNCHANGED searching, NEW k \in Keys, \A i \in 1 .. Len(ids) : ids[i] < k, AppendKey(k)
  PROVE  Carries(Append(ids, k))' /\ Unfilled'
<1>1. Given(Append(ids, k))'
  BY GivenOneMore DEF Carries
<1>2. CacheInv' /\ Unfilled'
  BY NothingCached DEF Carries, AppendKey
<1> QED BY <1>1, <1>2 DEF Carries

\* The step from filling to searching.
LEMMA CarriesFreeze ==
  ASSUME IndexAssumption, NEW ids, Carries(ids), Unfilled, FlushAndSort, searching' \in BOOLEAN
  PROVE  Carries(ids)' /\ Unfilled' /\ buffer' = << >>
<1>1. Given(ids)' /\ buffer' = << >>
  BY GivenFreeze DEF Carries
<1>2. CacheInv' /\ Unfilled'
  BY NothingCached DEF Carries, FlushAndSort
<1> QED BY <1>1, <1>2 DEF Carries

\* A step that does not touch the index.
LEMMA CarriesOn ==
  ASSUME NEW ids, Carries(ids), UNCHANGED <<file, buffer, sorted, last_inserted, cacheKey>>,
         searching' \in BOOLEAN, searching' => searching \/ buffer = << >>
  PROVE  Carries(ids)' /\ (Unfilled => Unfilled')
<1>1. Given(ids)' /\ CacheInv' /\ (Unfilled => Unfilled')
  BY GivenKept, CacheKept DEF Carries
<1> QED BY <1>1 DEF Carries

\* A search.
LEMMA CarriesFind ==
  ASSUME IndexAssumption, NEW ids, Carries(ids), UNCHANGED searching, NEW key \in Int
  PROVE  /\ GivenAnswer(ids, key)
         /\ Fill(Find(key).read) => Carries(ids)' /\ file' = file /\ buffer' = buffer
<1>1. /\ GivenAnswer(ids, key)
      /\ Fill(Find(key).read) => Given(ids)' /\ CacheInv' /\ file' = file /\ buffer' = buffer
  BY GivenFind DEF Carries
<1> QED BY <1>1 DEF Carries

\* A search for several keys.
LEMMA CarriesFindKeys ==
  ASSUME IndexAssumption, NEW ids, Carries(ids), ids # << >>, UNCHANGED searching, searching,
         NEW ks, IsKeyList(ks), DOMAIN ks = 1 .. Len(ks)
  PROVE  /\ GivenAnswers(ids, ks)
         /\ Fill(FindKeys(ks).read) => Carries(ids)' /\ file' = file /\ buffer' = buffer
<1>1. /\ GivenAnswers(ids, ks)
      /\ Fill(FindKeys(ks).read) => Given(ids)' /\ CacheInv' /\ file' = file /\ buffer' = buffer
  BY GivenFindKeys DEF Carries
<1> QED BY <1>1 DEF Carries

\* Its types.
LEMMA CarriesTypes ==
  ASSUME IndexAssumption, NEW ids, Carries(ids)
  PROVE  TypeOK
BY GivenTypes DEF Carries, CacheInv
=============================================================================
