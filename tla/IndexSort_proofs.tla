-------------------------- MODULE IndexSort_proofs --------------------------
(***************************************************************************)
(* Theorems about sorting an index file, for every number of records, every *)
(* set of keys and every size of the buffers:                               *)
(*                                                                          *)
(*   ItemsStayUnderTheirKeys   both files keep their records, item with key *)
(*   PartsStayIndependent      what is not in a part together is in order   *)
(*   SortedWhenDone            so that the keys are, when no part is left   *)
(*                                                                          *)
(* Sorting says what the files, the stack and the division in progress have *)
(* to do with each other.  Every step moves records within the first of the *)
(* parts that are still to be sorted, and replaces the part by parts of it: *)
(* by none when it is sorted in memory, by itself in a round, by its sides  *)
(* at the end of a division.  For a round each place is traced back to the  *)
(* place its record comes from; for memsort, whose two functions recur, the *)
(* induction is over the length of what they work on.                       *)
(***************************************************************************)
EXTENDS IndexSort, WellFoundedInduction, SequenceTheorems, FiniteSetTheorems, TLAPS

(* Recursion and induction over a rank.  The theorems of the library take   *)
(* predicates, that is operators, as parameters; here they are stated for   *)
(* sets and for functions, so that they can be used for the recursive       *)
(* functions that sort.                                                    *)

\* A set that holds a point whenever it holds all points of lower rank.
Inductive(X, rank, S) ==
  \A x \in X : (\A y \in X : rank[y] < rank[x] => y \in S) => x \in S

\* H defines a value at each point from values at points of lower rank.
Definable(X, V, N, rank, H) ==
  /\ V # {} /\ N \in Nat /\ rank \in [X -> 0 .. N] /\ H \in [X \X [X -> V] -> V]
  /\ \A x \in X : \A g, h \in [X -> V] :
       (\A y \in X : rank[y] < rank[x] => g[y] = h[y]) => H[<<x, g>>] = H[<<x, h>>]

\* There is a function that is, at each point, what H makes of it.
Defined(X, V, H) == \E f \in [X -> V] : \A x \in X : f[x] = H[<<x, f>>]

\* The least element of a set of natural numbers.
LEMMA LeastElement ==
  ASSUME NEW T \in SUBSET Nat, T # {}
  PROVE  \E n \in T : \A m \in T : n <= m
<1>1. PICK n \in T : \A m \in T : ~(<<m, n>> \in OpToRel(<, Nat))
  BY NatLessThanWellFounded, WFMin
<1>2. ASSUME NEW m \in T PROVE n <= m
  <2>1. m < n => <<m, n>> \in OpToRel(<, Nat)
    BY DEF OpToRel
  <2>2. ~(m < n)
    BY <1>1, <2>1, Zenon
  <2> QED BY <2>2
<1> QED BY <1>2

\* Induction over a rank, for a set in place of a predicate.
LEMMA RankInduction ==
  ASSUME NEW X, NEW rank \in [X -> Nat], NEW S \in SUBSET X, Inductive(X, rank, S)
  PROVE  S = X
<1> SUFFICES ASSUME X \ S # {} PROVE FALSE
  OBVIOUS
<1>1. PICK T : T = {rank[x] : x \in X \ S}
  OBVIOUS
<1>0. T \in SUBSET Nat
  BY <1>1
<1>2. PICK n \in T : \A m \in T : n <= m
  <2>1. T # {}
    BY <1>1
  <2> QED BY <1>0, <2>1, LeastElement
<1>3. PICK x \in X \ S : rank[x] = n
  BY <1>1
<1>4. ASSUME NEW y \in X, rank[y] < rank[x] PROVE y \in S
  <2> SUFFICES ASSUME y \notin S PROVE FALSE
    OBVIOUS
  <2>1. rank[y] \in T /\ rank[y] \in Nat /\ rank[x] \in Nat
    BY <1>1
  <2> QED BY <1>2, <1>3, <1>4, <2>1
<1>5. (\A y \in X : rank[y] < rank[x] => y \in S) => x \in S
  BY <1>3 DEF Inductive
<1> QED BY <1>3, <1>4, <1>5

\* What is defined at each point from its values at points of lower rank exists, so a
\* recursive function of the model is equal to its definition.
LEMMA RankRecursion ==
  ASSUME NEW X, NEW V, NEW N, NEW rank, NEW H, Definable(X, V, N, rank, H)
  PROVE  Defined(X, V, H)
<1>0. /\ N \in Nat /\ rank \in [X -> 0 .. N] /\ H \in [X \X [X -> V] -> V]
      /\ \A x \in X : \A g, h \in [X -> V] :
           (\A y \in X : rank[y] < rank[x] => g[y] = h[y]) => H[<<x, g>>] = H[<<x, h>>]
  BY DEF Definable
<1>6. PICK v : v \in V
  BY DEF Definable
<1> DEFINE Upto(n) == \E f \in [X -> V] : \A x \in X : rank[x] < n => f[x] = H[<<x, f>>]
<1> DEFINE S == {n \in Nat : Upto(n)}
<1>1. 0 \in S
  <2>1. [x \in X |-> v] \in [X -> V]
    BY <1>6
  <2>2. \A x \in X : ~(rank[x] < 0)
    BY <1>0
  <2> QED BY <2>1, <2>2
<1>2. ASSUME NEW n \in S PROVE n + 1 \in S
  <2>1. PICK f \in [X -> V] : \A x \in X : rank[x] < n => f[x] = H[<<x, f>>]
    OBVIOUS
  <2>2. PICK g : g = [x \in X |-> H[<<x, f>>]]
    OBVIOUS
  <2>3. g \in [X -> V]
    <3>1. \A x \in X : H[<<x, f>>] \in V
      BY <1>0
    <3> QED BY <2>2, <3>1
  <2>4. ASSUME NEW x \in X, rank[x] < n + 1 PROVE g[x] = H[<<x, g>>]
    <3>1. \A y \in X : rank[y] < rank[x] => f[y] = g[y]
      <4> TAKE y \in X
      <4> HAVE rank[y] < rank[x]
      <4>1. rank[y] < n
        BY <1>0, <2>4
      <4> QED BY <2>1, <2>2, <4>1
    <3>2. H[<<x, f>>] = H[<<x, g>>]
      BY <1>0, <2>3, <3>1
    <3> QED BY <2>2, <3>2
  <2>5. Upto(n + 1)
    BY <2>3, <2>4
  <2> QED BY <2>5
<1> HIDE DEF S
<1>3. S = Nat
  <2> SUFFICES ASSUME Nat \ S # {} PROVE FALSE
    BY DEF S
  <2>1. PICK n \in Nat \ S : \A m \in Nat \ S : n <= m
    BY LeastElement
  <2>2. n # 0 /\ n - 1 \in Nat /\ ~(n <= n - 1)
    BY <1>1, <2>1
  <2>3. n - 1 \in S
    BY <2>1, <2>2
  <2>4. (n - 1) + 1 \in S
    BY <1>2, <2>3
  <2> QED BY <2>1, <2>4
<1>4. Upto(N + 1)
  <2> HIDE DEF Upto
  <2>1. N + 1 \in S
    BY <1>0, <1>3
  <2> QED BY <2>1 DEF S
<1>5. \A x \in X : rank[x] < N + 1
  BY <1>0
<1> QED BY <1>4, <1>5 DEF Defined
-----------------------------------------------------------------------------
(* Moving records within a part of an array. *)

\* b holds what a holds: the same records between from and to, the same elsewhere.
SameWithin(a, b, from, to) ==
  /\ DOMAIN b = DOMAIN a
  /\ \A x \in DOMAIN a : x \notin from .. to => b[x] = a[x]
  /\ \A x \in from .. to : \E y \in from .. to : b[x] = a[y]
  /\ \A y \in from .. to : \E x \in from .. to : b[x] = a[y]

\* Moving twice.
LEMMA SameTwice ==
  ASSUME NEW n \in Nat, NEW from \in 0 .. n, NEW to \in -1 .. n - 1, NEW f \in from .. n, NEW t \in -1 .. to,
         NEW a, NEW b, NEW c, DOMAIN a = 0 .. n - 1,
         SameWithin(a, b, from, to), SameWithin(b, c, f, t)
  PROVE  SameWithin(a, c, from, to)
<1>1. f .. t \subseteq from .. to /\ from .. to \subseteq 0 .. n - 1
  OBVIOUS
<1>2. DOMAIN c = DOMAIN a /\ DOMAIN b = DOMAIN a
  BY DEF SameWithin
<1>3. ASSUME NEW x \in DOMAIN a, x \notin from .. to PROVE c[x] = a[x]
  <2>1. b[x] = a[x] /\ c[x] = b[x]
    BY <1>1, <1>2, <1>3 DEF SameWithin
  <2> QED BY <2>1
<1>4. ASSUME NEW x \in from .. to PROVE \E y \in from .. to : c[x] = a[y]
  <2>1. PICK z \in from .. to : c[x] = b[z]
    <3>1. CASE x \in f .. t
      BY <1>1, <3>1 DEF SameWithin
    <3>2. CASE x \notin f .. t
      BY <1>1, <1>2, <3>2 DEF SameWithin
    <3> QED BY <3>1, <3>2
  <2>2. PICK y \in from .. to : b[z] = a[y]
    BY <2>1 DEF SameWithin
  <2> QED BY <2>1, <2>2
<1>5. ASSUME NEW y \in from .. to PROVE \E x \in from .. to : c[x] = a[y]
  <2>1. PICK z \in from .. to : b[z] = a[y]
    BY DEF SameWithin
  <2>2. PICK x \in from .. to : c[x] = b[z]
    <3>1. CASE z \in f .. t
      BY <1>1, <3>1 DEF SameWithin
    <3>2. CASE z \notin f .. t
      BY <1>1, <1>2, <2>1, <3>2 DEF SameWithin
    <3> QED BY <3>1, <3>2
  <2> QED BY <2>1, <2>2
<1> QED BY <1>2, <1>3, <1>4, <1>5 DEF SameWithin

\* Arrays of n records.
IsArray(a, n, R) == n \in Nat /\ a \in [0 .. n - 1 -> R] /\ \A r \in R : r.key \in Int

\* What an exchange leaves.
IsSwapped(a, b, n, R, i, j) ==
  /\ IsArray(b, n, R) /\ DOMAIN b = 0 .. n - 1
  /\ b[i] = a[j] /\ b[j] = a[i]
  /\ \A x \in 0 .. n - 1 : x # i /\ x # j => b[x] = a[x]

\* An exchange.
LEMMA SwappedIs ==
  ASSUME NEW n \in Nat, NEW R, NEW a, IsArray(a, n, R), NEW i \in 0 .. n - 1, NEW j \in 0 .. n - 1,
         NEW b, b = Swapped(a, i, j)
  PROVE  IsSwapped(a, b, n, R, i, j)
<1>2. a \in [0 .. n - 1 -> R]
  BY DEF IsArray
<1>3. b = [x \in 0 .. n - 1 |-> IF x = j THEN a[i] ELSE IF x = i THEN a[j] ELSE a[x]]
  BY <1>2 DEF Swapped
<1>4. b \in [0 .. n - 1 -> R]
  BY <1>2, <1>3
<1> QED BY <1>2, <1>3, <1>4 DEF IsArray, IsSwapped

LEMMA SwappedSame ==
  ASSUME NEW n \in Nat, NEW R, NEW a, IsArray(a, n, R),
         NEW from \in 0 .. n - 1, NEW to \in 0 .. n - 1, NEW i \in from .. to, NEW j \in from .. to
  PROVE  SameWithin(a, Swapped(a, i, j), from, to)
<1>1. i \in 0 .. n - 1 /\ j \in 0 .. n - 1 /\ DOMAIN a = 0 .. n - 1
  BY DEF IsArray
<1>2. PICK b : b = Swapped(a, i, j)
  OBVIOUS
<1>3. /\ IsArray(b, n, R) /\ DOMAIN b = 0 .. n - 1 /\ b[i] = a[j] /\ b[j] = a[i]
      /\ \A x \in 0 .. n - 1 : x # i /\ x # j => b[x] = a[x]
  <2>1. IsSwapped(a, b, n, R, i, j)
    BY <1>1, <1>2, SwappedIs
  <2> QED BY <2>1 DEF IsSwapped
<1>4. \A x \in from .. to : x \in 0 .. n - 1
  BY DEF IsArray
<1>5. ASSUME NEW x \in from .. to PROVE \E y \in from .. to : b[x] = a[y]
  BY <1>3, <1>4
<1>6. ASSUME NEW y \in from .. to PROVE \E x \in from .. to : b[x] = a[y]
  BY <1>3, <1>4
<1> QED BY <1>1, <1>2, <1>3, <1>5, <1>6 DEF SameWithin

\* A comparison that exchanges.
LEMMA OrderedIs ==
  ASSUME NEW n \in Nat, NEW R, NEW a, IsArray(a, n, R),
         NEW from \in 0 .. n - 1, NEW to \in 0 .. n - 1, NEW i \in from .. to, NEW j \in from .. to,
         NEW b, b = Ordered(a, i, j)
  PROVE  /\ IsArray(b, n, R) /\ SameWithin(a, b, from, to)
         /\ b[i].key <= b[j].key
<1>1. i \in 0 .. n - 1 /\ j \in 0 .. n - 1 /\ DOMAIN a = 0 .. n - 1
  BY DEF IsArray
<1>2. a[i].key \in Int /\ a[j].key \in Int
  BY <1>1 DEF IsArray
<1>3. CASE a[j].key < a[i].key
  <2>1. b = Swapped(a, i, j)
    BY <1>3 DEF Ordered
  <2>2. IsArray(b, n, R) /\ b[i] = a[j] /\ b[j] = a[i]
    BY <1>1, <2>1, SwappedIs DEF IsSwapped
  <2>3. SameWithin(a, b, from, to)
    BY <2>1, SwappedSame
  <2> QED BY <1>2, <1>3, <2>2, <2>3
<1>4. CASE ~(a[j].key < a[i].key)
  <2>1. b = a
    BY <1>4 DEF Ordered
  <2>2. SameWithin(a, a, from, to)
    BY DEF SameWithin
  <2> QED BY <1>2, <1>4, <2>1, <2>2
<1> QED BY <1>3, <1>4

\* The choice of a pivot moves records in the part only.
LEMMA MedianSame ==
  ASSUME NEW n \in Nat, NEW R, NEW a, IsArray(a, n, R),
         NEW begin \in 0 .. n - 1, NEW end \in begin .. n - 1
  PROVE  IsArray(MedianAtEnd(a, begin, end), n, R)
         /\ SameWithin(a, MedianAtEnd(a, begin, end), begin, end)
<1>1. PICK mid : mid = begin + (end - begin) \div 2
  OBVIOUS
<1>2. mid \in begin .. end /\ begin \in begin .. end /\ end \in begin .. end
      /\ end \in 0 .. n - 1 /\ n \in Nat /\ begin \in 0 .. n /\ end \in -1 .. n - 1 /\ begin \in begin .. n /\ end \in -1 .. end
  BY <1>1 DEF IsArray
<1>3. PICK b, c, d : b = Ordered(a, begin, mid) /\ c = Ordered(b, begin, end) /\ d = Ordered(c, end, mid)
  OBVIOUS
<1>4. IsArray(b, n, R) /\ SameWithin(a, b, begin, end)
  BY <1>2, <1>3, OrderedIs
<1>5. IsArray(c, n, R) /\ SameWithin(b, c, begin, end)
  BY <1>2, <1>3, <1>4, OrderedIs
<1>6. IsArray(d, n, R) /\ SameWithin(c, d, begin, end)
  BY <1>2, <1>3, <1>5, OrderedIs
<1>7. DOMAIN a = 0 .. n - 1 /\ DOMAIN b = 0 .. n - 1
  BY <1>4 DEF IsArray
<1>8. SameWithin(a, c, begin, end)
  BY <1>2, <1>4, <1>5, <1>7, SameTwice
<1>9. SameWithin(a, d, begin, end)
  BY <1>2, <1>6, <1>7, <1>8, SameTwice
<1> QED BY <1>1, <1>3, <1>6, <1>9 DEF MedianAtEnd
-----------------------------------------------------------------------------
(* Dividing an array in memory. *)

\* The least and the greatest of a set of numbers between two bounds.
LEMMA LeastIs ==
  ASSUME NEW b \in Int, NEW e \in Int, NEW T \in SUBSET (b .. e), T # {}
  PROVE  Least(T) \in T /\ \A y \in T : Least(T) <= y
<1>1. PICK U : U = {x - b : x \in T}
  OBVIOUS
<1>0. \A x \in T : x \in Int /\ x - b \in Nat
  OBVIOUS
<1>2. U \in SUBSET Nat /\ U # {}
  BY <1>0, <1>1
<1>3. PICK u \in U : \A m \in U : u <= m
  BY <1>2, LeastElement
<1>4. PICK x \in T : u = x - b
  BY <1>1, <1>3
<1>5. \A y \in T : x <= y
  <2> TAKE y \in T
  <2>3. x \in Int /\ y \in Int
    BY <1>0
  <2>1. y - b \in U
    BY <1>1
  <2>2. x - b <= y - b
    BY <1>3, <1>4, <2>1
  <2> QED BY <2>2, <2>3
<1> QED BY <1>5 DEF Least

LEMMA GreatestIs ==
  ASSUME NEW b \in Int, NEW e \in Int, NEW T \in SUBSET (b .. e), T # {}
  PROVE  Greatest(T) \in T /\ \A y \in T : y <= Greatest(T)
<1>1. PICK U : U = {e - x : x \in T}
  OBVIOUS
<1>0. \A x \in T : x \in Int /\ e - x \in Nat
  OBVIOUS
<1>2. U \in SUBSET Nat /\ U # {}
  BY <1>0, <1>1
<1>3. PICK u \in U : \A m \in U : u <= m
  BY <1>2, LeastElement
<1>4. PICK x \in T : u = e - x
  BY <1>1, <1>3
<1>5. \A y \in T : y <= x
  <2> TAKE y \in T
  <2>3. x \in Int /\ y \in Int
    BY <1>0
  <2>1. e - y \in U
    BY <1>1
  <2>2. e - x <= e - y
    BY <1>3, <1>4, <2>1
  <2> QED BY <2>2, <2>3
<1> QED BY <1>5 DEF Greatest

\* The states of a division: the array, with the pivot at its end, and the two indexes.
Divisions(array, begin, end) ==
  [a : {a \in [DOMAIN array -> {array[x] : x \in DOMAIN array}] : a[end] = array[end]},
   i : begin - 1 .. end - 1, j : begin .. end]

NextI(s, pivot, end) == Least({x \in s.i + 1 .. end : s.a[x].key >= pivot})
NextJ(s, pivot, begin) ==
  LET notGreater == {x \in begin .. s.j - 1 : s.a[x].key <= pivot}
  IN IF notGreater = {} THEN begin ELSE Greatest(notGreater)

DividedStep(f, pivot, begin, end, s) ==
  IF NextI(s, pivot, end) >= NextJ(s, pivot, begin)
  THEN [array |-> Swapped(s.a, NextI(s, pivot, end), end), at |-> NextI(s, pivot, end)]
  ELSE f[[a |-> Swapped(s.a, NextI(s, pivot, end), NextJ(s, pivot, begin)),
          i |-> NextI(s, pivot, end), j |-> NextJ(s, pivot, begin)]]

\* What is divided: an array of n records, a part of it and its last key.
Divides(n, R, array, begin, end, pivot) ==
  /\ n \in Nat /\ IsArray(array, n, R) /\ R = {array[x] : x \in DOMAIN array}
  /\ begin \in 0 .. n - 1 /\ end \in begin .. n - 1 /\ pivot = array[end].key

\* What has been passed by the indexes is on its side.
Passed(s, pivot, begin, end) ==
  /\ \A x \in begin .. s.i : s.a[x].key <= pivot
  /\ \A x \in s.j .. end : s.a[x].key >= pivot

\* The result of a division of a part of a.
IsDivision(a, d, n, R, pivot, begin, end) ==
  /\ IsArray(d.array, n, R) /\ d.at \in begin .. end
  /\ SameWithin(a, d.array, begin, end)
  /\ d.array[d.at].key = pivot
  /\ \A x \in begin .. d.at - 1 : d.array[x].key <= pivot
  /\ \A x \in d.at + 1 .. end : pivot <= d.array[x].key

\* A state of a division.
LEMMA DivisionShape ==
  ASSUME NEW n, NEW R, NEW array, NEW begin, NEW end, NEW pivot,
         Divides(n, R, array, begin, end, pivot), NEW s \in Divisions(array, begin, end)
  PROVE  /\ IsArray(s.a, n, R) /\ s.a[end].key = pivot /\ s.a[end] = array[end]
         /\ s.i \in begin - 1 .. end - 1 /\ s.j \in begin .. end /\ s.i \in Int /\ s.j \in Int
         /\ DOMAIN array = 0 .. n - 1 /\ DOMAIN s.a = 0 .. n - 1
         /\ n \in Nat /\ begin \in 0 .. n - 1 /\ end \in begin .. n - 1 /\ begin \in Int /\ end \in Int
         /\ pivot \in Int /\ \A x \in begin .. end : s.a[x].key \in Int /\ x \in 0 .. n - 1
<1>1. n \in Nat /\ array \in [0 .. n - 1 -> R] /\ (\A r \in R : r.key \in Int)
      /\ R = {array[x] : x \in DOMAIN array}
      /\ begin \in 0 .. n - 1 /\ end \in begin .. n - 1 /\ pivot = array[end].key
  BY DEF Divides, IsArray
<1>2. DOMAIN array = 0 .. n - 1 /\ array[end] \in R
  BY <1>1
<1>3. s.a \in [0 .. n - 1 -> R] /\ s.a[end] = array[end] /\ s.i \in begin - 1 .. end - 1 /\ s.j \in begin .. end
  BY <1>1, <1>2 DEF Divisions
<1>0. begin \in Int /\ end \in Int /\ 0 <= begin /\ end <= n - 1
  BY <1>1
<1>4. /\ s.i \in Int /\ s.j \in Int
      /\ \A x \in begin .. end : x \in 0 .. n - 1
  <2>1. s.i \in Int /\ s.j \in Int
    BY <1>0, <1>3
  <2>2. ASSUME NEW x \in begin .. end PROVE x \in 0 .. n - 1
    BY <1>0, <1>1
  <2> QED BY <2>1, <2>2
<1>5. \A x \in 0 .. n - 1 : s.a[x].key \in Int
  BY <1>1, <1>3
<1>6. pivot \in Int /\ s.a[end].key = pivot /\ DOMAIN s.a = 0 .. n - 1
  BY <1>1, <1>2, <1>3
<1>7. IsArray(s.a, n, R)
  BY <1>1, <1>3 DEF IsArray
<1> QED BY <1>0, <1>1, <1>2, <1>3, <1>4, <1>5, <1>6, <1>7

\* Where the indexes stop.
LEMMA NextPlaces ==
  ASSUME NEW n, NEW R, NEW array, NEW begin, NEW end, NEW pivot,
         Divides(n, R, array, begin, end, pivot), NEW s \in Divisions(array, begin, end),
         NEW i, i = NextI(s, pivot, end), NEW j, j = NextJ(s, pivot, begin)
  PROVE  /\ i \in s.i + 1 .. end /\ s.a[i].key >= pivot
         /\ \A x \in begin .. end : s.i < x /\ x < i => s.a[x].key < pivot
         /\ j \in begin .. end
         /\ \A x \in begin .. end : j < x /\ x < s.j => s.a[x].key > pivot
         /\ i < j => j \in begin .. s.j - 1 /\ s.a[j].key <= pivot
<1>1. /\ s.a[end].key = pivot /\ s.i \in begin - 1 .. end - 1 /\ s.j \in begin .. end /\ s.i \in Int /\ s.j \in Int
      /\ begin \in Int /\ end \in Int /\ pivot \in Int /\ \A x \in begin .. end : s.a[x].key \in Int
  BY DivisionShape
<1>2. PICK T : T = {x \in s.i + 1 .. end : s.a[x].key >= pivot}
  OBVIOUS
<1>3. end \in T /\ T \in SUBSET (s.i + 1 .. end) /\ s.i + 1 \in Int
  BY <1>1, <1>2
<1>4. i \in T /\ \A y \in T : i <= y
  <2>1. i = Least(T)
    BY <1>2 DEF NextI
  <2>2. PICK b : b = s.i + 1
    OBVIOUS
  <2>3. b \in Int /\ T \in SUBSET (b .. end) /\ T # {} /\ end \in Int
    BY <1>1, <1>3, <2>2
  <2>4. Least(T) \in T /\ \A y \in T : Least(T) <= y
    BY <2>3, LeastIs
  <2> QED BY <2>1, <2>4
<1>5. /\ i \in s.i + 1 .. end /\ s.a[i].key >= pivot
      /\ \A x \in begin .. end : s.i < x /\ x < i => s.a[x].key < pivot
  <2>1. i \in s.i + 1 .. end /\ s.a[i].key >= pivot
    BY <1>2, <1>4
  <2>2. ASSUME NEW x \in begin .. end, s.i < x, x < i PROVE s.a[x].key < pivot
    <3>1. x \in s.i + 1 .. end /\ x < i /\ x \in begin .. end
      BY <1>1, <2>1, <2>2
    <3>2. x \notin T
      BY <1>4, <2>1, <3>1
    <3> QED BY <1>1, <1>2, <3>1, <3>2
  <2> QED BY <2>1, <2>2
<1>6. PICK U : U = {x \in begin .. s.j - 1 : s.a[x].key <= pivot}
  OBVIOUS
<1>7. U \in SUBSET (begin .. s.j - 1) /\ s.j - 1 \in Int
  BY <1>1, <1>6
<1>8. j \in begin .. end /\ (\A y \in U : y <= j) /\ (U # {} => j \in U) /\ (U = {} => j = begin)
  <2>1. CASE U = {}
    BY <1>1, <1>6, <2>1 DEF NextJ
  <2>2. CASE U # {}
    <3>1. j = Greatest(U)
      BY <1>6, <2>2 DEF NextJ
    <3>2. j \in U /\ \A y \in U : y <= j
      BY <1>1, <1>7, <2>2, <3>1, GreatestIs
    <3>3. j \in begin .. end
      BY <1>1, <1>7, <3>2
    <3> QED BY <2>2, <3>2, <3>3
  <2> QED BY <2>1, <2>2
<1>9. ASSUME NEW x \in begin .. end, j < x, x < s.j PROVE s.a[x].key > pivot
  <2>1. x \in begin .. s.j - 1 /\ x \in begin .. end /\ j < x
    BY <1>1, <1>8, <1>9
  <2>2. x \notin U
    BY <1>8, <2>1
  <2> QED BY <1>1, <1>6, <2>1, <2>2
<1>10. ASSUME i < j PROVE j \in begin .. s.j - 1 /\ s.a[j].key <= pivot
  <2>1. U # {}
    BY <1>1, <1>5, <1>8, <1>10
  <2> QED BY <1>6, <1>8, <2>1
<1> QED BY <1>5, <1>8, <1>9, <1>10

\* The next state of a division is one.
LEMMA NextDivision ==
  ASSUME NEW n, NEW R, NEW array, NEW begin, NEW end, NEW pivot,
         Divides(n, R, array, begin, end, pivot), NEW s \in Divisions(array, begin, end),
         NEW i, i = NextI(s, pivot, end), NEW j, j = NextJ(s, pivot, begin), i < j,
         NEW t, t = [a |-> Swapped(s.a, i, j), i |-> i, j |-> j]
  PROVE  /\ t \in Divisions(array, begin, end) /\ t.j < s.j
         /\ SameWithin(s.a, t.a, begin, end)
         /\ Passed(s, pivot, begin, end) => Passed(t, pivot, begin, end)
<1>1. /\ IsArray(s.a, n, R) /\ s.a[end] = array[end]
      /\ s.i \in begin - 1 .. end - 1 /\ s.j \in begin .. end /\ s.i \in Int /\ s.j \in Int
      /\ DOMAIN array = 0 .. n - 1 /\ DOMAIN s.a = 0 .. n - 1
      /\ n \in Nat /\ begin \in 0 .. n - 1 /\ end \in begin .. n - 1 /\ begin \in Int /\ end \in Int
      /\ pivot \in Int /\ \A x \in begin .. end : s.a[x].key \in Int /\ x \in 0 .. n - 1
  BY DivisionShape
<1>2. /\ i \in s.i + 1 .. end /\ s.a[i].key >= pivot
      /\ \A x \in begin .. end : s.i < x /\ x < i => s.a[x].key < pivot
      /\ j \in begin .. s.j - 1 /\ s.a[j].key <= pivot
      /\ \A x \in begin .. end : j < x /\ x < s.j => s.a[x].key > pivot
  BY NextPlaces
<1>3. /\ i \in begin .. end /\ j \in begin .. end /\ i \in 0 .. n - 1 /\ j \in 0 .. n - 1
      /\ i # end /\ j # end /\ end \in 0 .. n - 1 /\ i \in Int /\ j \in Int
  <2>0. /\ s.i \in Int /\ s.j \in Int /\ begin \in Int /\ end \in Int /\ s.j <= end /\ begin - 1 <= s.i
        /\ i \in s.i + 1 .. end /\ j \in begin .. s.j - 1
    BY <1>1, <1>2
  <2>1. i \in begin .. end /\ j \in begin .. end /\ i \in Int /\ j \in Int /\ j < end
    BY <2>0
  <2> QED BY <1>1, <2>1
<1>4. PICK b : b = Swapped(s.a, i, j)
  OBVIOUS
<1>5. /\ IsArray(b, n, R) /\ b[i] = s.a[j] /\ b[j] = s.a[i]
      /\ \A x \in 0 .. n - 1 : x # i /\ x # j => b[x] = s.a[x]
  <2>1. PICK a : a = s.a
    OBVIOUS
  <2>2. n \in Nat /\ IsArray(a, n, R) /\ i \in 0 .. n - 1 /\ j \in 0 .. n - 1 /\ b = Swapped(a, i, j)
    BY <1>1, <1>3, <1>4, <2>1
  <2>3. IsSwapped(a, b, n, R, i, j)
    BY <2>2, SwappedIs
  <2> QED BY <2>1, <2>3 DEF IsSwapped
<1>6. SameWithin(s.a, b, begin, end)
  BY <1>1, <1>3, <1>4, SwappedSame
<1>7. t.a = b /\ t.i = i /\ t.j = j
  BY <1>4
<1>8. t \in Divisions(array, begin, end)
  <2>1. b \in [DOMAIN array -> {array[x] : x \in DOMAIN array}]
    BY <1>1, <1>5 DEF IsArray, Divides
  <2>2. b[end] = array[end]
    BY <1>1, <1>3, <1>5
  <2>3. i \in begin - 1 .. end - 1
    BY <1>1, <1>3
  <2> QED BY <1>3, <1>4, <2>1, <2>2, <2>3 DEF Divisions
<1>9. ASSUME Passed(s, pivot, begin, end) PROVE Passed(t, pivot, begin, end)
  <2>1. ASSUME NEW x \in begin .. i PROVE b[x].key <= pivot
    <3>1. CASE x = i
      BY <1>2, <1>5, <3>1
    <3>2. CASE x # i
      <4>1. x \in 0 .. n - 1 /\ x # j /\ x \in begin .. end
        BY <1>1, <1>3
      <4>2. b[x] = s.a[x] /\ s.a[x].key \in Int
        BY <1>1, <1>5, <3>2, <4>1
      <4>3. s.a[x].key <= pivot
        <5>1. CASE x \in begin .. s.i
          BY <1>9, <5>1 DEF Passed
        <5>2. CASE x \notin begin .. s.i
          <6>1. s.i \in Int /\ i \in Int /\ begin \in Int
            BY <1>1, <1>3
          <6>2. s.i < x /\ x < i
            BY <3>2, <5>2, <6>1
          <6>3. s.a[x].key < pivot
            BY <1>2, <4>1, <6>2
          <6> QED BY <1>1, <4>2, <6>3
        <5> QED BY <5>1, <5>2
      <4> QED BY <4>2, <4>3
    <3> QED BY <3>1, <3>2
  <2>2. ASSUME NEW x \in j .. end PROVE b[x].key >= pivot
    <3>1. CASE x = j
      BY <1>2, <1>5, <3>1
    <3>2. CASE x # j
      <4>1. x \in 0 .. n - 1 /\ x # i /\ x \in begin .. end
        BY <1>1, <1>3
      <4>2. b[x] = s.a[x] /\ s.a[x].key \in Int
        BY <1>1, <1>5, <3>2, <4>1
      <4>3. s.a[x].key >= pivot
        <5>1. CASE x \in s.j .. end
          BY <1>9, <5>1 DEF Passed
        <5>2. CASE x \notin s.j .. end
          <6>1. s.j \in Int /\ j \in Int /\ end \in Int
            BY <1>1, <1>3
          <6>2. j < x /\ x < s.j
            BY <3>2, <5>2, <6>1
          <6>3. s.a[x].key > pivot
            BY <1>2, <4>1, <6>2
          <6> QED BY <1>1, <4>2, <6>3
        <5> QED BY <5>1, <5>2
      <4> QED BY <4>2, <4>3
    <3> QED BY <3>1, <3>2
  <2> QED BY <1>7, <2>1, <2>2 DEF Passed
<1>10. t.j < s.j
  BY <1>1, <1>2, <1>3, <1>7
<1> QED BY <1>6, <1>7, <1>8, <1>9, <1>10

\* The end of a division.
LEMMA LastDivision ==
  ASSUME NEW n, NEW R, NEW array, NEW begin, NEW end, NEW pivot,
         Divides(n, R, array, begin, end, pivot), NEW s \in Divisions(array, begin, end),
         NEW i, i = NextI(s, pivot, end), NEW j, j = NextJ(s, pivot, begin), ~(i < j),
         NEW d, d = [array |-> Swapped(s.a, i, end), at |-> i]
  PROVE  /\ d \in [array : [0 .. n - 1 -> R], at : begin .. end]
         /\ Passed(s, pivot, begin, end) => IsDivision(s.a, d, n, R, pivot, begin, end)
<1>1. /\ IsArray(s.a, n, R) /\ s.a[end].key = pivot
      /\ s.i \in begin - 1 .. end - 1 /\ s.j \in begin .. end /\ s.i \in Int /\ s.j \in Int
      /\ DOMAIN array = 0 .. n - 1 /\ DOMAIN s.a = 0 .. n - 1
      /\ n \in Nat /\ begin \in 0 .. n - 1 /\ end \in begin .. n - 1 /\ begin \in Int /\ end \in Int
      /\ pivot \in Int /\ \A x \in begin .. end : s.a[x].key \in Int /\ x \in 0 .. n - 1
  BY DivisionShape
<1>2. /\ i \in s.i + 1 .. end /\ s.a[i].key >= pivot
      /\ \A x \in begin .. end : s.i < x /\ x < i => s.a[x].key < pivot
      /\ j \in begin .. end
      /\ \A x \in begin .. end : j < x /\ x < s.j => s.a[x].key > pivot
  BY NextPlaces
<1>3. /\ i \in begin .. end /\ i \in 0 .. n - 1 /\ end \in begin .. end
      /\ end \in 0 .. n - 1 /\ i \in Int /\ j \in Int
  BY <1>1, <1>2
<1>4. PICK b : b = Swapped(s.a, i, end)
  OBVIOUS
<1>5. /\ IsArray(b, n, R) /\ b[i] = s.a[end] /\ b[end] = s.a[i]
      /\ \A x \in 0 .. n - 1 : x # i /\ x # end => b[x] = s.a[x]
  <2>1. PICK a : a = s.a
    OBVIOUS
  <2>2. n \in Nat /\ IsArray(a, n, R) /\ i \in 0 .. n - 1 /\ end \in 0 .. n - 1 /\ b = Swapped(a, i, end)
    BY <1>1, <1>3, <1>4, <2>1
  <2>3. IsSwapped(a, b, n, R, i, end)
    BY <2>2, SwappedIs
  <2> QED BY <2>1, <2>3 DEF IsSwapped
<1>6. SameWithin(s.a, b, begin, end)
  BY <1>1, <1>3, <1>4, SwappedSame
<1>7. d.array = b /\ d.at = i
  BY <1>4
<1>8. d \in [array : [0 .. n - 1 -> R], at : begin .. end]
  <2>1. b \in [0 .. n - 1 -> R]
    BY <1>5 DEF IsArray
  <2> QED BY <1>3, <1>4, <2>1
<1>9. ASSUME Passed(s, pivot, begin, end) PROVE IsDivision(s.a, d, n, R, pivot, begin, end)
  <2>1. ASSUME NEW x \in begin .. i - 1 PROVE b[x].key <= pivot
    <3>1. x \in 0 .. n - 1 /\ x # end /\ x # i /\ x \in begin .. end
      BY <1>1, <1>3
    <3>2. b[x] = s.a[x] /\ s.a[x].key \in Int
      BY <1>1, <1>5, <3>1
    <3>3. s.a[x].key <= pivot
      <5>1. CASE x \in begin .. s.i
        BY <1>9, <5>1 DEF Passed
      <5>2. CASE x \notin begin .. s.i
        <6>1. s.i \in Int /\ i \in Int /\ begin \in Int
          BY <1>1, <1>3
        <6>2. s.i < x /\ x < i
          BY <5>2, <6>1
        <6>3. s.a[x].key < pivot
          BY <1>2, <3>1, <6>2
        <6> QED BY <1>1, <3>2, <6>3
      <5> QED BY <5>1, <5>2
    <3> QED BY <3>2, <3>3
  <2>2. ASSUME NEW x \in i + 1 .. end PROVE pivot <= b[x].key
    <3>1. CASE x = end
      BY <1>1, <1>2, <1>3, <1>5, <3>1
    <3>2. CASE x # end
      <4>1. x \in 0 .. n - 1 /\ x # i /\ x \in begin .. end
        BY <1>1, <1>3
      <4>2. b[x] = s.a[x] /\ s.a[x].key \in Int
        BY <1>1, <1>5, <3>2, <4>1
      <4>3. s.a[x].key >= pivot
        <5>1. CASE x \in s.j .. end
          BY <1>9, <5>1 DEF Passed
        <5>2. CASE x \notin s.j .. end
          <6>1. s.j \in Int /\ i \in Int /\ j \in Int /\ end \in Int
            BY <1>1, <1>3
          <6>2. j < x /\ x < s.j
            BY <5>2, <6>1
          <6>3. s.a[x].key > pivot
            BY <1>2, <4>1, <6>2
          <6> QED BY <1>1, <4>2, <6>3
        <5> QED BY <5>1, <5>2
      <4> QED BY <1>1, <4>2, <4>3
    <3> QED BY <3>1, <3>2
  <2> QED BY <1>1, <1>3, <1>5, <1>6, <1>7, <2>1, <2>2 DEF IsDivision
<1> QED BY <1>8, <1>9

\* The recursion of a division.
Division(array, begin, end) ==
  CHOOSE run : run = [s \in Divisions(array, begin, end) |->
                        DividedStep(run, array[end].key, begin, end, s)]

\* A division is what its definition says.
LEMMA DivisionDefined ==
  ASSUME NEW n, NEW R, NEW array, NEW begin, NEW end, NEW pivot,
         Divides(n, R, array, begin, end, pivot)
  PROVE  \A s \in Divisions(array, begin, end) :
           Division(array, begin, end)[s] = DividedStep(Division(array, begin, end), pivot, begin, end, s)
<1>1. PICK V : V = [array : [0 .. n - 1 -> R], at : begin .. end]
  OBVIOUS
<1>2. PICK X : X = Divisions(array, begin, end)
  OBVIOUS
<1>3. PICK H : H = [z \in X \X [X -> V] |-> DividedStep(z[2], pivot, begin, end, z[1])]
  OBVIOUS
<1>4. /\ n \in Nat /\ begin \in 0 .. n - 1 /\ end \in begin .. n - 1 /\ pivot = array[end].key
      /\ array \in [0 .. n - 1 -> R]
  BY DEF Divides, IsArray
<1>5. V # {}
  <2>1. [array |-> array, at |-> end] \in V
    BY <1>1, <1>4
  <2> QED BY <2>1
<1>6. ASSUME NEW g \in [X -> V], NEW s \in X
      PROVE  DividedStep(g, pivot, begin, end, s) \in V
  <2>1. PICK i : i = NextI(s, pivot, end)
    OBVIOUS
  <2>2. PICK j : j = NextJ(s, pivot, begin)
    OBVIOUS
  <2>3. i \in Int /\ j \in Int
    <3>1. begin \in Int /\ end \in Int /\ s.i \in Int
      BY <1>2, DivisionShape
    <3>2. i \in s.i + 1 .. end /\ j \in begin .. end
      BY <1>2, <2>1, <2>2, NextPlaces
    <3> QED BY <3>1, <3>2
  <2>4. CASE i < j
    <3>1. [a |-> Swapped(s.a, i, j), i |-> i, j |-> j] \in X
      BY <1>2, <2>1, <2>2, <2>4, NextDivision
    <3> QED BY <2>1, <2>2, <2>3, <2>4, <3>1 DEF DividedStep
  <2>5. CASE ~(i < j)
    <3>1. [array |-> Swapped(s.a, i, end), at |-> i] \in V
      BY <1>1, <1>2, <2>1, <2>2, <2>5, LastDivision
    <3> QED BY <2>1, <2>2, <2>3, <2>5, <3>1 DEF DividedStep
  <2> QED BY <2>4, <2>5
<1>7. H \in [X \X [X -> V] -> V]
  BY <1>3, <1>6
<1>8. PICK rank : rank = [s \in X |-> s.j - begin]
  OBVIOUS
<1>9. /\ rank \in [X -> 0 .. n]
      /\ \A s \in X : rank[s] = s.j - begin /\ s.j \in Int
  <2>1. ASSUME NEW s \in X PROVE s.j - begin \in 0 .. n /\ s.j \in Int
    <3>1. s.j \in begin .. end /\ s.j \in Int /\ begin \in Int /\ end \in Int
      BY <1>2, DivisionShape
    <3> QED BY <1>4, <3>1
  <2> QED BY <1>8, <2>1
<1>10. ASSUME NEW s \in X, NEW g \in [X -> V], NEW h \in [X -> V],
              \A y \in X : rank[y] < rank[s] => g[y] = h[y]
       PROVE  H[<<s, g>>] = H[<<s, h>>]
  <2>1. H[<<s, g>>] = DividedStep(g, pivot, begin, end, s) /\ H[<<s, h>>] = DividedStep(h, pivot, begin, end, s)
    BY <1>3
  <2>2. PICK i : i = NextI(s, pivot, end)
    OBVIOUS
  <2>3. PICK j : j = NextJ(s, pivot, begin)
    OBVIOUS
  <2>4. i \in Int /\ j \in Int
    <3>1. begin \in Int /\ end \in Int /\ s.i \in Int
      BY <1>2, DivisionShape
    <3>2. i \in s.i + 1 .. end /\ j \in begin .. end
      BY <1>2, <2>2, <2>3, NextPlaces
    <3> QED BY <3>1, <3>2
  <2>5. CASE i < j
    <3>1. PICK t : t = [a |-> Swapped(s.a, i, j), i |-> i, j |-> j]
      OBVIOUS
    <3>2. t \in X /\ t.j < s.j
      BY <1>2, <2>2, <2>3, <2>5, <3>1, NextDivision
    <3>3. rank[t] < rank[s]
      BY <1>4, <1>9, <3>2
    <3>4. g[t] = h[t]
      BY <1>10, <3>2, <3>3
    <3>5. DividedStep(g, pivot, begin, end, s) = g[t] /\ DividedStep(h, pivot, begin, end, s) = h[t]
      BY <2>2, <2>3, <2>4, <2>5, <3>1 DEF DividedStep
    <3> QED BY <2>1, <3>4, <3>5
  <2>6. CASE ~(i < j)
    BY <2>1, <2>2, <2>3, <2>4, <2>6 DEF DividedStep
  <2> QED BY <2>5, <2>6
<1>11. Definable(X, V, n, rank, H)
  BY <1>4, <1>5, <1>7, <1>9, <1>10 DEF Definable
<1>12. PICK f \in [X -> V] : \A s \in X : f[s] = H[<<s, f>>]
  BY <1>11, RankRecursion DEF Defined
<1>13. f = [s \in X |-> DividedStep(f, pivot, begin, end, s)]
  <2>1. \A s \in X : f[s] = DividedStep(f, pivot, begin, end, s)
    BY <1>3, <1>12
  <2> QED BY <2>1
<1>14. Division(array, begin, end) = [s \in X |-> DividedStep(Division(array, begin, end), pivot, begin, end, s)]
  BY <1>2, <1>4, <1>13 DEF Division
<1> QED BY <1>2, <1>14

\* What a state of a division leads to.
DivisionRight(f, n, R, pivot, begin, end, s) ==
  Passed(s, pivot, begin, end) => IsDivision(s.a, f[s], n, R, pivot, begin, end)

\* A division of what a has within a part is one of a.
LEMMA DivisionOfSame ==
  ASSUME NEW n \in Nat, NEW R, NEW a, NEW b, NEW d, NEW begin \in 0 .. n - 1, NEW end \in begin .. n - 1, NEW pivot,
         DOMAIN a = 0 .. n - 1, SameWithin(a, b, begin, end),
         IsDivision(b, d, n, R, pivot, begin, end)
  PROVE  IsDivision(a, d, n, R, pivot, begin, end)
<1>1. begin \in 0 .. n /\ end \in -1 .. n - 1 /\ begin \in begin .. n /\ end \in -1 .. end
  OBVIOUS
<1>2. SameWithin(b, d.array, begin, end)
  BY DEF IsDivision
<1>3. SameWithin(a, d.array, begin, end)
  BY <1>1, <1>2, SameTwice
<1> QED BY <1>3 DEF IsDivision

\* A division leaves the pivot between smaller and greater records.
LEMMA DivisionIsRight ==
  ASSUME NEW n, NEW R, NEW array, NEW begin, NEW end, NEW pivot,
         Divides(n, R, array, begin, end, pivot)
  PROVE  \A s \in Divisions(array, begin, end) :
           DivisionRight(Division(array, begin, end), n, R, pivot, begin, end, s)
<1>1. PICK X : X = Divisions(array, begin, end)
  OBVIOUS
<1>2. PICK f : f = Division(array, begin, end)
  OBVIOUS
<1>3. \A s \in X : f[s] = DividedStep(f, pivot, begin, end, s)
  BY <1>1, <1>2, DivisionDefined
<1>4. PICK rank : rank = [s \in X |-> s.j - begin]
  OBVIOUS
<1>5. /\ rank \in [X -> Nat]
      /\ \A s \in X : rank[s] = s.j - begin /\ s.j \in Int
  <2>1. ASSUME NEW s \in X PROVE s.j - begin \in Nat /\ s.j \in Int
    <3>1. s.j \in begin .. end /\ s.j \in Int /\ begin \in Int /\ end \in Int
      BY <1>1, DivisionShape
    <3> QED BY <3>1
  <2> QED BY <1>4, <2>1
<1>6. PICK S : S = {s \in X : DivisionRight(f, n, R, pivot, begin, end, s)}
  OBVIOUS
<1>7. ASSUME NEW s \in X, \A y \in X : rank[y] < rank[s] => y \in S
      PROVE  DivisionRight(f, n, R, pivot, begin, end, s)
  <2>1. PICK i : i = NextI(s, pivot, end)
    OBVIOUS
  <2>2. PICK j : j = NextJ(s, pivot, begin)
    OBVIOUS
  <2>3. /\ begin \in Int /\ end \in Int /\ s.i \in Int /\ n \in Nat
        /\ begin \in 0 .. n - 1 /\ end \in begin .. n - 1 /\ DOMAIN s.a = 0 .. n - 1
    BY <1>1, DivisionShape
  <2>4. i \in Int /\ j \in Int
    <3>1. i \in s.i + 1 .. end /\ j \in begin .. end
      BY <1>1, <2>1, <2>2, NextPlaces
    <3> QED BY <2>3, <3>1
  <2>5. CASE i < j
    <3>1. PICK t : t = [a |-> Swapped(s.a, i, j), i |-> i, j |-> j]
      OBVIOUS
    <3>2. /\ t \in X /\ t.j < s.j /\ SameWithin(s.a, t.a, begin, end)
          /\ Passed(s, pivot, begin, end) => Passed(t, pivot, begin, end)
      BY <1>1, <2>1, <2>2, <2>5, <3>1, NextDivision
    <3>3. rank[t] < rank[s]
      BY <1>5, <2>3, <3>2
    <3>4. DivisionRight(f, n, R, pivot, begin, end, t)
      BY <1>6, <1>7, <3>2, <3>3
    <3>5. f[s] = f[t]
      <4>1. DividedStep(f, pivot, begin, end, s) = f[t]
        BY <2>1, <2>2, <2>4, <2>5, <3>1 DEF DividedStep
      <4> QED BY <1>3, <4>1
    <3>6. ASSUME Passed(s, pivot, begin, end) PROVE IsDivision(s.a, f[s], n, R, pivot, begin, end)
      <4>1. IsDivision(t.a, f[t], n, R, pivot, begin, end)
        BY <3>2, <3>4, <3>6 DEF DivisionRight
      <4>2. PICK a, b, d : a = s.a /\ b = t.a /\ d = f[t]
        OBVIOUS
      <4>3. IsDivision(a, d, n, R, pivot, begin, end)
        BY <2>3, <3>2, <4>1, <4>2, DivisionOfSame
      <4> QED BY <3>5, <4>2, <4>3
    <3> QED BY <3>6 DEF DivisionRight
  <2>6. CASE ~(i < j)
    <3>1. PICK d : d = [array |-> Swapped(s.a, i, end), at |-> i]
      OBVIOUS
    <3>2. Passed(s, pivot, begin, end) => IsDivision(s.a, d, n, R, pivot, begin, end)
      BY <1>1, <2>1, <2>2, <2>6, <3>1, LastDivision
    <3>3. f[s] = d
      <4>1. DividedStep(f, pivot, begin, end, s) = d
        BY <2>1, <2>2, <2>4, <2>6, <3>1 DEF DividedStep
      <4> QED BY <1>3, <4>1
    <3> QED BY <3>2, <3>3 DEF DivisionRight
  <2> QED BY <2>5, <2>6
<1>8. S \in SUBSET X /\ Inductive(X, rank, S)
  BY <1>6, <1>7 DEF Inductive
<1>9. S = X
  BY <1>5, <1>8, RankInduction
<1> QED BY <1>1, <1>2, <1>6, <1>9

\* Divided, for any array and any part of it.
LEMMA DividedIs ==
  ASSUME NEW n \in Nat, NEW R, NEW array, IsArray(array, n, R),
         NEW begin \in 0 .. n - 1, NEW end \in begin .. n - 1,
         NEW d, d = Divided(array, begin, end)
  PROVE  IsDivision(array, d, n, R, array[end].key, begin, end)
<1>1. PICK Q : Q = {array[x] : x \in DOMAIN array}
  OBVIOUS
<1>2. PICK pivot : pivot = array[end].key
  OBVIOUS
<1>3. array \in [0 .. n - 1 -> R] /\ \A r \in R : r.key \in Int
  BY DEF IsArray
<1>4. DOMAIN array = 0 .. n - 1 /\ Q \subseteq R /\ array \in [0 .. n - 1 -> Q]
  BY <1>1, <1>3
<1>5. Divides(n, Q, array, begin, end, pivot)
  BY <1>1, <1>2, <1>3, <1>4 DEF Divides, IsArray
<1>6. PICK s : s = [a |-> array, i |-> begin - 1, j |-> end]
  OBVIOUS
<1>7. s \in Divisions(array, begin, end)
  <2>1. begin - 1 \in begin - 1 .. end - 1 /\ end \in begin .. end
    OBVIOUS
  <2> QED BY <1>1, <1>4, <1>6, <2>1 DEF Divisions
<1>8. Passed(s, pivot, begin, end)
  <2>1. pivot \in Int
    BY <1>2, <1>3
  <2> QED BY <1>2, <1>6, <2>1 DEF Passed
<1>9. d = Division(array, begin, end)[s]
  BY <1>6 DEF Divided, Division, Divisions, DividedStep, NextI, NextJ
<1>10. IsDivision(array, d, n, Q, pivot, begin, end)
  <2>1. DivisionRight(Division(array, begin, end), n, Q, pivot, begin, end, s)
    BY <1>5, <1>7, DivisionIsRight
  <2> QED BY <1>6, <1>8, <1>9, <2>1 DEF DivisionRight
<1>11. IsArray(d.array, n, R)
  <2>1. d.array \in [0 .. n - 1 -> Q]
    BY <1>10 DEF IsDivision, IsArray
  <2>2. d.array \in [0 .. n - 1 -> R]
    BY <1>4, <2>1
  <2> QED BY <1>3, <2>2 DEF IsArray
<1> QED BY <1>2, <1>10, <1>11 DEF IsDivision
-----------------------------------------------------------------------------
(* Sorting an array in memory. *)

\* The parts of arrays of n records that are sorted.
Sortings(n, R) == [a : [0 .. n - 1 -> R], begin : 0 .. n, end : -1 .. n - 1]

\* One part sorted, with its two sides sorted by f.
SortStep(f, s) ==
  IF s.end - s.begin < 1 THEN s.a
  ELSE IF s.end - s.begin = 1 THEN Ordered(s.a, s.begin, s.end)
  ELSE LET d == Divided(MedianAtEnd(s.a, s.begin, s.end), s.begin, s.end)
           lower == f[[a |-> d.array, begin |-> s.begin, end |-> d.at - 1]]
       IN f[[a |-> lower, begin |-> d.at + 1, end |-> s.end]]

\* The keys rise from begin to end.
Rising(a, begin, end) == \A x \in begin .. end : \A y \in begin .. end : x < y => a[x].key <= a[y].key

\* b is a with the records between begin and end sorted.
IsSorting(a, b, n, R, begin, end) ==
  IsArray(b, n, R) /\ SameWithin(a, b, begin, end) /\ Rising(b, begin, end)

\* The division that a greater part begins with.
LEMMA SortDivides ==
  ASSUME NEW n \in Nat, NEW R, NEW a, IsArray(a, n, R),
         NEW begin \in 0 .. n - 1, NEW end \in begin .. n - 1,
         NEW d, d = Divided(MedianAtEnd(a, begin, end), begin, end)
  PROVE  \E pivot \in Int : IsDivision(a, d, n, R, pivot, begin, end)
<1>1. PICK m : m = MedianAtEnd(a, begin, end)
  OBVIOUS
<1>2. IsArray(m, n, R) /\ SameWithin(a, m, begin, end)
  BY <1>1, MedianSame
<1>3. PICK pivot : pivot = m[end].key
  OBVIOUS
<1>4. IsDivision(m, d, n, R, pivot, begin, end)
  BY <1>1, <1>2, <1>3, DividedIs
<1>5. DOMAIN a = 0 .. n - 1 /\ pivot \in Int
  BY <1>2, <1>3 DEF IsArray
<1>6. IsDivision(a, d, n, R, pivot, begin, end)
  BY <1>2, <1>4, <1>5, DivisionOfSame
<1> QED BY <1>5, <1>6

\* A division with both sides sorted.
LEMMA SidesSorted ==
  ASSUME NEW n \in Nat, NEW R, NEW a, IsArray(a, n, R),
         NEW begin \in 0 .. n - 1, NEW end \in begin .. n - 1, NEW pivot \in Int,
         NEW d, IsDivision(a, d, n, R, pivot, begin, end),
         NEW l, IsSorting(d.array, l, n, R, begin, d.at - 1),
         NEW u, IsSorting(l, u, n, R, d.at + 1, end)
  PROVE  IsSorting(a, u, n, R, begin, end)
<1>1. PICK at : at = d.at
  OBVIOUS
<1>2. PICK e : e = d.array
  OBVIOUS
<1>3. /\ at \in begin .. end /\ IsArray(e, n, R) /\ SameWithin(a, e, begin, end)
      /\ e[at].key = pivot
      /\ \A x \in begin .. at - 1 : e[x].key <= pivot
      /\ \A x \in at + 1 .. end : pivot <= e[x].key
  BY <1>1, <1>2 DEF IsDivision
<1>4. /\ IsArray(l, n, R) /\ SameWithin(e, l, begin, at - 1) /\ Rising(l, begin, at - 1)
      /\ IsArray(u, n, R) /\ SameWithin(l, u, at + 1, end) /\ Rising(u, at + 1, end)
  BY <1>1, <1>2 DEF IsSorting
<1>5. /\ DOMAIN a = 0 .. n - 1 /\ DOMAIN e = 0 .. n - 1 /\ DOMAIN l = 0 .. n - 1
      /\ \A x \in 0 .. n - 1 : u[x].key \in Int
  BY <1>3, <1>4 DEF IsArray
<1>6. begin \in 0 .. n /\ end \in -1 .. n - 1 /\ at \in Int /\ begin <= at /\ at <= end /\ begin \in Int /\ end \in Int
  BY <1>3
<1>7. /\ begin \in begin .. n /\ at - 1 \in -1 .. end
      /\ at + 1 \in begin .. n /\ end \in -1 .. end
  BY <1>6
<1>8. SameWithin(a, l, begin, end)
  <2>1. PICK t : t = at - 1
    OBVIOUS
  <2>2. t \in -1 .. end /\ SameWithin(e, l, begin, t)
    BY <1>4, <1>7, <2>1
  <2> QED BY <1>3, <1>5, <1>6, <1>7, <2>2, SameTwice
<1>9. SameWithin(a, u, begin, end)
  <2>1. PICK t : t = at + 1
    OBVIOUS
  <2>2. t \in begin .. n /\ SameWithin(l, u, t, end)
    BY <1>4, <1>7, <2>1
  <2> QED BY <1>5, <1>6, <1>7, <1>8, <2>2, SameTwice
<1>10. ASSUME NEW x \in begin .. at - 1 PROVE u[x] = l[x] /\ u[x].key <= pivot
  <2>1. x \in 0 .. n - 1 /\ x \notin at + 1 .. end
    BY <1>6
  <2>2. u[x] = l[x]
    BY <1>4, <1>5, <2>1 DEF SameWithin
  <2>3. PICK y \in begin .. at - 1 : l[x] = e[y]
    BY <1>4 DEF SameWithin
  <2> QED BY <1>3, <2>2, <2>3
<1>11. u[at].key = pivot
  <2>1. at \in 0 .. n - 1 /\ at \notin at + 1 .. end /\ at \notin begin .. at - 1
    BY <1>6
  <2> QED BY <1>3, <1>4, <1>5, <2>1 DEF SameWithin
<1>12. ASSUME NEW x \in at + 1 .. end PROVE pivot <= u[x].key
  <2>1. PICK y \in at + 1 .. end : u[x] = l[y]
    BY <1>4 DEF SameWithin
  <2>2. y \in 0 .. n - 1 /\ y \notin begin .. at - 1
    BY <1>6
  <2>3. l[y] = e[y]
    BY <1>4, <1>5, <2>2 DEF SameWithin
  <2> QED BY <1>3, <2>1, <2>3
<1>13. ASSUME NEW x \in begin .. end, NEW y \in begin .. end, x < y PROVE u[x].key <= u[y].key
  <2>1. x \in Int /\ y \in Int /\ u[x].key \in Int /\ u[y].key \in Int
    <3>1. x \in 0 .. n - 1 /\ y \in 0 .. n - 1
      BY <1>6
    <3> QED BY <1>5, <3>1
  <2>2. CASE y < at
    <3>1. x \in begin .. at - 1 /\ y \in begin .. at - 1
      BY <1>6, <1>13, <2>1, <2>2
    <3>2. l[x].key <= l[y].key
      BY <1>4, <1>13, <3>1 DEF Rising
    <3> QED BY <1>10, <3>1, <3>2
  <2>3. CASE at < x
    <3>1. x \in at + 1 .. end /\ y \in at + 1 .. end
      BY <1>6, <1>13, <2>1, <2>3
    <3> QED BY <1>4, <1>13, <3>1 DEF Rising
  <2>4. CASE x <= at /\ at <= y
    <3>1. u[x].key <= pivot
      <4>1. CASE x = at
        BY <1>11, <4>1
      <4>2. CASE x # at
        <5>1. x \in begin .. at - 1
          BY <1>6, <2>1, <2>4, <4>2
        <5> QED BY <1>10, <5>1
      <4> QED BY <4>1, <4>2
    <3>2. pivot <= u[y].key
      <4>1. CASE y = at
        BY <1>11, <4>1
      <4>2. CASE y # at
        <5>1. y \in at + 1 .. end
          BY <1>6, <2>1, <2>4, <4>2
        <5> QED BY <1>12, <5>1
      <4> QED BY <4>1, <4>2
    <3> QED BY <2>1, <3>1, <3>2
  <2> QED BY <1>6, <2>1, <2>2, <2>3, <2>4
<1>14. Rising(u, begin, end)
  BY <1>13 DEF Rising
<1> QED BY <1>4, <1>9, <1>14 DEF IsSorting

\* The recursion of the sort.
SortFunction(n, R) == CHOOSE sort : sort = [s \in Sortings(n, R) |-> SortStep(sort, s)]

\* The number of records of a part.
Span(n, R) == [s \in Sortings(n, R) |-> IF s.end >= s.begin THEN s.end - s.begin + 1 ELSE 0]

\* A part to sort.
LEMMA SortingShape ==
  ASSUME NEW n \in Nat, NEW R, NEW s \in Sortings(n, R), \A r \in R : r.key \in Int
  PROVE  /\ IsArray(s.a, n, R) /\ s.begin \in 0 .. n /\ s.end \in -1 .. n - 1
         /\ s.begin \in Int /\ s.end \in Int
         /\ Span(n, R)[s] = (IF s.end >= s.begin THEN s.end - s.begin + 1 ELSE 0)
         /\ Span(n, R)[s] \in 0 .. n
<1>1. s.a \in [0 .. n - 1 -> R] /\ s.begin \in 0 .. n /\ s.end \in -1 .. n - 1
  BY DEF Sortings
<1>2. s.begin \in Int /\ s.end \in Int
  BY <1>1
<1>3. IsArray(s.a, n, R)
  BY <1>1 DEF IsArray
<1>4. Span(n, R)[s] = (IF s.end >= s.begin THEN s.end - s.begin + 1 ELSE 0)
  BY DEF Span
<1>5. Span(n, R)[s] \in 0 .. n
  BY <1>1, <1>2, <1>4
<1> QED BY <1>1, <1>2, <1>3, <1>4, <1>5

\* The sides of a part are smaller than it.
LEMMA SidesAreSmaller ==
  ASSUME NEW n \in Nat, NEW R, NEW s \in Sortings(n, R), \A r \in R : r.key \in Int,
         s.end - s.begin > 1,
         NEW d, d = Divided(MedianAtEnd(s.a, s.begin, s.end), s.begin, s.end)
  PROVE  /\ \E pivot \in Int : IsDivision(s.a, d, n, R, pivot, s.begin, s.end)
         /\ s.begin \in 0 .. n - 1 /\ s.end \in s.begin .. n - 1
         /\ \A a \in [0 .. n - 1 -> R] :
              LET lower == [a |-> a, begin |-> s.begin, end |-> d.at - 1]
                  upper == [a |-> a, begin |-> d.at + 1, end |-> s.end]
              IN /\ lower \in Sortings(n, R) /\ Span(n, R)[lower] < Span(n, R)[s]
                 /\ upper \in Sortings(n, R) /\ Span(n, R)[upper] < Span(n, R)[s]
         /\ d.array \in [0 .. n - 1 -> R]
<1>1. PICK begin : begin = s.begin
  OBVIOUS
<1>2. PICK end : end = s.end
  OBVIOUS
<1>3. PICK b : b = s.a
  OBVIOUS
<1>4. /\ IsArray(b, n, R) /\ begin \in 0 .. n /\ end \in -1 .. n - 1 /\ begin \in Int /\ end \in Int
      /\ Span(n, R)[s] = (IF end >= begin THEN end - begin + 1 ELSE 0)
  BY <1>1, <1>2, <1>3, SortingShape
<1>5. begin \in 0 .. n - 1 /\ end \in begin .. n - 1 /\ end - begin > 1
  BY <1>1, <1>2, <1>4
<1>6. d = Divided(MedianAtEnd(b, begin, end), begin, end)
  BY <1>1, <1>2, <1>3
<1>7. PICK pivot \in Int : IsDivision(b, d, n, R, pivot, begin, end)
  BY <1>4, <1>5, <1>6, SortDivides
<1>8. d.at \in begin .. end /\ d.array \in [0 .. n - 1 -> R]
  BY <1>7 DEF IsDivision, IsArray
<1>9. Span(n, R)[s] = end - begin + 1
  BY <1>4, <1>5
<1>10. PICK at : at = d.at
  OBVIOUS
<1>11. at \in Int /\ begin <= at /\ at <= end
  BY <1>4, <1>8, <1>10
<1>12. at - 1 \in -1 .. n - 1 /\ at + 1 \in 0 .. n
  BY <1>4, <1>5, <1>11
<1>13. ASSUME NEW a \in [0 .. n - 1 -> R], NEW t, t = [a |-> a, begin |-> begin, end |-> at - 1]
       PROVE  t \in Sortings(n, R) /\ Span(n, R)[t] < Span(n, R)[s]
  <2>1. t \in Sortings(n, R) /\ t.begin = begin /\ t.end = at - 1
    BY <1>4, <1>12, <1>13 DEF Sortings
  <2>2. Span(n, R)[t] = (IF at - 1 >= begin THEN at - 1 - begin + 1 ELSE 0)
    BY <2>1 DEF Span
  <2> QED BY <1>4, <1>5, <1>9, <1>11, <2>1, <2>2
<1>14. ASSUME NEW a \in [0 .. n - 1 -> R], NEW t, t = [a |-> a, begin |-> at + 1, end |-> end]
       PROVE  t \in Sortings(n, R) /\ Span(n, R)[t] < Span(n, R)[s]
  <2>1. t \in Sortings(n, R) /\ t.begin = at + 1 /\ t.end = end
    BY <1>4, <1>12, <1>14 DEF Sortings
  <2>2. Span(n, R)[t] = (IF end >= at + 1 THEN end - (at + 1) + 1 ELSE 0)
    BY <2>1 DEF Span
  <2> QED BY <1>4, <1>5, <1>9, <1>11, <2>1, <2>2
<1> QED BY <1>1, <1>2, <1>3, <1>5, <1>7, <1>8, <1>10, <1>13, <1>14

\* The sort is what its definition says.
LEMMA SortingDefined ==
  ASSUME NEW n \in Nat, NEW R, R # {}, \A r \in R : r.key \in Int
  PROVE  \A s \in Sortings(n, R) : SortFunction(n, R)[s] = SortStep(SortFunction(n, R), s)
<1>1. PICK V : V = [0 .. n - 1 -> R]
  OBVIOUS
<1>2. PICK X : X = Sortings(n, R)
  OBVIOUS
<1>3. PICK H : H = [z \in X \X [X -> V] |-> SortStep(z[2], z[1])]
  OBVIOUS
<1>4. V # {}
  <2>1. PICK r : r \in R
    OBVIOUS
  <2>2. [x \in 0 .. n - 1 |-> r] \in V
    BY <1>1, <2>1
  <2> QED BY <2>2
<1>5. ASSUME NEW g \in [X -> V], NEW s \in X
      PROVE  SortStep(g, s) \in V
  <2>1. /\ IsArray(s.a, n, R) /\ s.begin \in Int /\ s.end \in Int
        /\ s.begin \in 0 .. n /\ s.end \in -1 .. n - 1 /\ s.a \in V
    BY <1>1, <1>2, SortingShape DEF IsArray
  <2>2. CASE s.end - s.begin < 1
    BY <2>1, <2>2 DEF SortStep
  <2>3. CASE s.end - s.begin = 1
    <3>1. PICK a, begin, end : a = s.a /\ begin = s.begin /\ end = s.end
      OBVIOUS
    <3>2. begin \in 0 .. n - 1 /\ end \in 0 .. n - 1 /\ begin \in begin .. end /\ end \in begin .. end /\ IsArray(a, n, R)
      BY <2>1, <2>3, <3>1
    <3>3. PICK b : b = Ordered(a, begin, end)
      OBVIOUS
    <3>4. IsArray(b, n, R)
      BY <3>2, <3>3, OrderedIs
    <3>5. b \in V
      BY <1>1, <3>4 DEF IsArray
    <3> QED BY <2>1, <2>3, <3>1, <3>3, <3>5 DEF SortStep
  <2>4. CASE s.end - s.begin > 1
    <3>1. PICK d : d = Divided(MedianAtEnd(s.a, s.begin, s.end), s.begin, s.end)
      OBVIOUS
    <3>2. PICK t : t = [a |-> d.array, begin |-> s.begin, end |-> d.at - 1]
      OBVIOUS
    <3>3. d.array \in [0 .. n - 1 -> R]
      BY <1>2, <2>4, <3>1, SidesAreSmaller
    <3>4. t \in X /\ Span(n, R)[t] < Span(n, R)[s]
      BY <1>2, <2>4, <3>1, <3>2, <3>3, SidesAreSmaller
    <3>5. g[t] \in [0 .. n - 1 -> R]
      BY <1>1, <3>4
    <3>6. PICK u : u = [a |-> g[t], begin |-> d.at + 1, end |-> s.end]
      OBVIOUS
    <3>7. u \in X /\ Span(n, R)[u] < Span(n, R)[s]
      BY <1>2, <2>4, <3>1, <3>5, <3>6, SidesAreSmaller
    <3>8. SortStep(g, s) = g[u]
      BY <2>1, <2>4, <3>1, <3>2, <3>6 DEF SortStep
    <3> QED BY <3>7, <3>8
  <2> QED BY <2>1, <2>2, <2>3, <2>4
<1>6. H \in [X \X [X -> V] -> V]
  BY <1>3, <1>5
<1>7. PICK rank : rank = Span(n, R)
  OBVIOUS
<1>8. rank \in [X -> 0 .. n]
  <2>1. ASSUME NEW s \in X PROVE rank[s] \in 0 .. n
    BY <1>2, <1>7, <2>1, SortingShape
  <2>2. rank = [s \in X |-> rank[s]]
    BY <1>2, <1>7 DEF Span
  <2> QED BY <2>1, <2>2
<1>9. ASSUME NEW s \in X, NEW g \in [X -> V], NEW h \in [X -> V],
             \A y \in X : rank[y] < rank[s] => g[y] = h[y]
      PROVE  H[<<s, g>>] = H[<<s, h>>]
  <2>1. H[<<s, g>>] = SortStep(g, s) /\ H[<<s, h>>] = SortStep(h, s)
    BY <1>3
  <2>2. s.begin \in Int /\ s.end \in Int
    BY <1>2, SortingShape
  <2>3. CASE s.end - s.begin <= 1
    BY <2>1, <2>2, <2>3 DEF SortStep
  <2>4. CASE s.end - s.begin > 1
    <3>1. PICK d : d = Divided(MedianAtEnd(s.a, s.begin, s.end), s.begin, s.end)
      OBVIOUS
    <3>2. PICK t : t = [a |-> d.array, begin |-> s.begin, end |-> d.at - 1]
      OBVIOUS
    <3>3. d.array \in [0 .. n - 1 -> R]
      BY <1>2, <2>4, <3>1, SidesAreSmaller
    <3>4. t \in X /\ rank[t] < rank[s]
      BY <1>2, <1>7, <2>4, <3>1, <3>2, <3>3, SidesAreSmaller
    <3>5. g[t] \in [0 .. n - 1 -> R] /\ g[t] = h[t]
      BY <1>1, <1>9, <3>4
    <3>6. PICK u : u = [a |-> g[t], begin |-> d.at + 1, end |-> s.end]
      OBVIOUS
    <3>7. u \in X /\ rank[u] < rank[s]
      BY <1>2, <1>7, <2>4, <3>1, <3>5, <3>6, SidesAreSmaller
    <3>8. g[u] = h[u]
      BY <1>9, <3>7
    <3>9. SortStep(g, s) = g[u]
      BY <2>2, <2>4, <3>1, <3>2, <3>6 DEF SortStep
    <3>10. SortStep(h, s) = h[u]
      BY <2>2, <2>4, <3>1, <3>2, <3>5, <3>6 DEF SortStep
    <3> QED BY <2>1, <3>8, <3>9, <3>10
  <2> QED BY <2>2, <2>3, <2>4
<1>10. Definable(X, V, n, rank, H)
  BY <1>4, <1>6, <1>8, <1>9 DEF Definable
<1>11. PICK f \in [X -> V] : \A s \in X : f[s] = H[<<s, f>>]
  BY <1>10, RankRecursion DEF Defined
<1>12. f = [s \in X |-> SortStep(f, s)]
  <2>1. \A s \in X : f[s] = SortStep(f, s)
    BY <1>3, <1>11
  <2> QED BY <2>1
<1>13. SortFunction(n, R) = [s \in X |-> SortStep(SortFunction(n, R), s)]
  BY <1>2, <1>12 DEF SortFunction
<1> QED BY <1>2, <1>13

\* The sort of a part orders it, and moves nothing in or out of it.
LEMMA SortingIsRight ==
  ASSUME NEW n \in Nat, NEW R, R # {}, \A r \in R : r.key \in Int
  PROVE  \A s \in Sortings(n, R) : IsSorting(s.a, SortFunction(n, R)[s], n, R, s.begin, s.end)
<1>1. PICK X : X = Sortings(n, R)
  OBVIOUS
<1>2. PICK f : f = SortFunction(n, R)
  OBVIOUS
<1>3. \A s \in X : f[s] = SortStep(f, s)
  BY <1>1, <1>2, SortingDefined
<1>4. PICK rank : rank = Span(n, R)
  OBVIOUS
<1>5. rank \in [X -> Nat]
  <2>1. ASSUME NEW s \in X PROVE rank[s] \in Nat
    BY <1>1, <1>4, <2>1, SortingShape
  <2>2. rank = [s \in X |-> rank[s]]
    BY <1>1, <1>4 DEF Span
  <2> QED BY <2>1, <2>2
<1>6. PICK S : S = {s \in X : IsSorting(s.a, f[s], n, R, s.begin, s.end)}
  OBVIOUS
<1>7. ASSUME NEW s \in X, \A y \in X : rank[y] < rank[s] => y \in S
      PROVE  IsSorting(s.a, f[s], n, R, s.begin, s.end)
  <2>1. PICK a, begin, end, b : a = s.a /\ begin = s.begin /\ end = s.end /\ b = f[s]
    OBVIOUS
  <2>2. /\ IsArray(a, n, R) /\ begin \in Int /\ end \in Int
        /\ begin \in 0 .. n /\ end \in -1 .. n - 1
    BY <1>1, <2>1, SortingShape
  <2>3. b = SortStep(f, s)
    BY <1>3, <2>1
  <2>4. CASE end - begin < 1
    <3>1. b = a
      BY <2>1, <2>3, <2>4 DEF SortStep
    <3>2. SameWithin(a, a, begin, end)
      BY DEF SameWithin
    <3>3. Rising(a, begin, end)
      BY <2>2, <2>4 DEF Rising
    <3> QED BY <2>1, <2>2, <3>1, <3>2, <3>3 DEF IsSorting
  <2>5. CASE end - begin = 1
    <3>1. begin \in 0 .. n - 1 /\ end \in 0 .. n - 1 /\ begin \in begin .. end /\ end \in begin .. end
      BY <2>2, <2>5
    <3>2. b = Ordered(a, begin, end)
      BY <2>1, <2>2, <2>3, <2>5 DEF SortStep
    <3>3. IsArray(b, n, R) /\ SameWithin(a, b, begin, end) /\ b[begin].key <= b[end].key
      BY <2>2, <3>1, <3>2, OrderedIs
    <3>4. ASSUME NEW x \in begin .. end, NEW y \in begin .. end, x < y
          PROVE  x = begin /\ y = end
      BY <2>2, <2>5, <3>4
    <3>5. Rising(b, begin, end)
      BY <3>3, <3>4 DEF Rising
    <3> QED BY <2>1, <3>3, <3>5 DEF IsSorting
  <2>6. CASE end - begin > 1
    <3>0. s.end - s.begin > 1
      BY <2>1, <2>6
    <3>1. PICK d : d = Divided(MedianAtEnd(s.a, s.begin, s.end), s.begin, s.end)
      OBVIOUS
    <3>2. PICK pivot \in Int : IsDivision(s.a, d, n, R, pivot, s.begin, s.end)
      BY <1>1, <3>0, <3>1, SidesAreSmaller
    <3>3. d.array \in [0 .. n - 1 -> R] /\ s.begin \in 0 .. n - 1 /\ s.end \in s.begin .. n - 1
      BY <1>1, <3>0, <3>1, SidesAreSmaller
    <3>4. PICK t : t = [a |-> d.array, begin |-> s.begin, end |-> d.at - 1]
      OBVIOUS
    <3>5. t \in X /\ rank[t] < rank[s]
      BY <1>1, <1>4, <3>0, <3>1, <3>3, <3>4, SidesAreSmaller
    <3>6. PICK l : l = f[t]
      OBVIOUS
    <3>7. IsSorting(d.array, l, n, R, begin, d.at - 1)
      <4>1. t \in S
        BY <1>7, <3>5
      <4>2. IsSorting(t.a, f[t], n, R, t.begin, t.end)
        BY <1>6, <4>1
      <4>3. t.a = d.array /\ t.begin = begin /\ t.end = d.at - 1
        BY <2>1, <3>4
      <4> QED BY <3>6, <4>2, <4>3
    <3>8. l \in [0 .. n - 1 -> R]
      BY <3>7 DEF IsSorting, IsArray
    <3>9. PICK u : u = [a |-> l, begin |-> d.at + 1, end |-> s.end]
      OBVIOUS
    <3>10. u \in X /\ rank[u] < rank[s]
      BY <1>1, <1>4, <3>0, <3>1, <3>8, <3>9, SidesAreSmaller
    <3>11. IsSorting(l, f[u], n, R, d.at + 1, end)
      <4>1. u \in S
        BY <1>7, <3>10
      <4>2. IsSorting(u.a, f[u], n, R, u.begin, u.end)
        BY <1>6, <4>1
      <4>3. u.a = l /\ u.begin = d.at + 1 /\ u.end = end
        BY <2>1, <3>9
      <4> QED BY <4>2, <4>3
    <3>12. SortStep(f, s) = f[u]
      BY <2>1, <2>2, <3>0, <3>1, <3>4, <3>6, <3>9 DEF SortStep
    <3>13. IsDivision(a, d, n, R, pivot, begin, end) /\ begin \in 0 .. n - 1 /\ end \in begin .. n - 1
      BY <2>1, <3>2, <3>3
    <3>14. PICK v : v = f[u]
      OBVIOUS
    <3>15. IsSorting(a, v, n, R, begin, end)
      BY <2>2, <3>7, <3>11, <3>13, <3>14, SidesSorted
    <3> QED BY <2>1, <2>3, <3>12, <3>14, <3>15
  <2> QED BY <2>2, <2>4, <2>5, <2>6
<1>8. S \in SUBSET X /\ Inductive(X, rank, S)
  BY <1>6, <1>7 DEF Inductive
<1>9. S = X
  BY <1>5, <1>8, RankInduction
<1> QED BY <1>1, <1>2, <1>6, <1>9

\* MemSort, for any array.
LEMMA MemSortIs ==
  ASSUME NEW n \in Nat, n > 0, NEW R, NEW array, IsArray(array, n, R),
         NEW b, b = MemSort(array)
  PROVE  IsSorting(array, b, n, R, 0, n - 1)
<1>1. PICK Q : Q = {array[x] : x \in DOMAIN array}
  OBVIOUS
<1>2. array \in [0 .. n - 1 -> R] /\ \A r \in R : r.key \in Int
  BY DEF IsArray
<1>3. /\ DOMAIN array = 0 .. n - 1 /\ Q \subseteq R /\ array \in [0 .. n - 1 -> Q]
      /\ Q # {} /\ \A r \in Q : r.key \in Int
  BY <1>1, <1>2
<1>4. Cardinality(DOMAIN array) = n
  <2>1. 0 \in Int /\ n - 1 \in Int
    OBVIOUS
  <2>2. Cardinality(0 .. n - 1) = IF 0 > n - 1 THEN 0 ELSE n - 1 - 0 + 1
    BY <2>1, FS_Interval
  <2> QED BY <1>3, <2>2
<1>5. PICK s : s = [a |-> array, begin |-> 0, end |-> n - 1]
  OBVIOUS
<1>6. s \in Sortings(n, Q)
  <2>1. 0 \in 0 .. n /\ n - 1 \in -1 .. n - 1
    OBVIOUS
  <2> QED BY <1>3, <1>5, <2>1 DEF Sortings
<1>7. b = SortFunction(n, Q)[s]
  <2>1. Sortings(n, Q) = [a : [DOMAIN array -> Q], begin : 0 .. n, end : -1 .. n - 1]
    BY <1>3 DEF Sortings
  <2> QED BY <1>1, <1>4, <1>5, <2>1 DEF MemSort, SortFunction, SortStep
<1>8. IsSorting(s.a, SortFunction(n, Q)[s], n, Q, s.begin, s.end)
  BY <1>3, <1>6, SortingIsRight
<1>9. IsSorting(array, b, n, Q, 0, n - 1)
  BY <1>5, <1>7, <1>8
<1>10. b \in [0 .. n - 1 -> R]
  BY <1>3, <1>9 DEF IsSorting, IsArray
<1> QED BY <1>2, <1>9, <1>10 DEF IsSorting, IsArray
-----------------------------------------------------------------------------
(* Splitting a buffer. *)

\* The indexes into a buffer of m records, split into two sequences.
Splits(m) == [grands : Seq(1 .. m), petits : Seq(1 .. m)]

\* What the recursion of Split makes of index n, and the recursion itself.
SplitStep(f, keys, curKey, n) ==
  IF n = Len(keys) THEN [grands |-> << >>, petits |-> << >>]
  ELSE LET s == f[n + 1]
           k == keys[n + 1]
           great == \/ k > curKey
                    \/ k = curKey /\ Len(s.grands) <= Len(s.petits)
       IN IF great THEN [s EXCEPT !.grands = Append(@, n + 1)]
          ELSE [s EXCEPT !.petits = Append(@, n + 1)]
Splitting(keys, curKey) ==
  CHOOSE split : split = [n \in 0 .. Len(keys) |-> SplitStep(split, keys, curKey, n)]

\* An index more on one of the sides.
LEMMA OneMoreIndex ==
  ASSUME NEW m \in Nat, NEW s \in Splits(m), NEW x \in 1 .. m
  PROVE  /\ [s EXCEPT !.grands = Append(@, x)] \in Splits(m)
         /\ [s EXCEPT !.petits = Append(@, x)] \in Splits(m)
<1>1. s.grands \in Seq(1 .. m) /\ s.petits \in Seq(1 .. m)
  BY DEF Splits
<1>2. Append(s.grands, x) \in Seq(1 .. m) /\ Append(s.petits, x) \in Seq(1 .. m)
  BY <1>1, AppendProperties
<1> QED BY <1>1, <1>2 DEF Splits

\* The split is what its definition says.
LEMMA SplittingDefined ==
  ASSUME NEW keys, Len(keys) \in Nat, NEW curKey
  PROVE  \A n \in 0 .. Len(keys) : Splitting(keys, curKey)[n] = SplitStep(Splitting(keys, curKey), keys, curKey, n)
<1>1. PICK m : m = Len(keys)
  OBVIOUS
<1>2. PICK V : V = Splits(m)
  OBVIOUS
<1>3. PICK X : X = 0 .. m
  OBVIOUS
<1>4. PICK H : H = [z \in X \X [X -> V] |-> SplitStep(z[2], keys, curKey, z[1])]
  OBVIOUS
<1>5. [grands |-> << >>, petits |-> << >>] \in V
  BY <1>2 DEF Splits
<1>6. ASSUME NEW g \in [X -> V], NEW n \in X
      PROVE  SplitStep(g, keys, curKey, n) \in V
  <2>1. CASE n = m
    BY <1>1, <1>5, <2>1 DEF SplitStep
  <2>2. CASE n # m
    <3>1. n + 1 \in X /\ n + 1 \in 1 .. m /\ m \in Nat
      BY <1>1, <1>3, <2>2
    <3>2. PICK s : s = g[n + 1]
      OBVIOUS
    <3>3. s \in Splits(m)
      BY <1>2, <3>1, <3>2
    <3>4. /\ [s EXCEPT !.grands = Append(@, n + 1)] \in V
          /\ [s EXCEPT !.petits = Append(@, n + 1)] \in V
      BY <1>2, <3>1, <3>3, OneMoreIndex
    <3>5. \/ SplitStep(g, keys, curKey, n) = [s EXCEPT !.grands = Append(@, n + 1)]
          \/ SplitStep(g, keys, curKey, n) = [s EXCEPT !.petits = Append(@, n + 1)]
      BY <1>1, <2>2, <3>2, Zenon DEF SplitStep
    <3> QED BY <3>4, <3>5
  <2> QED BY <2>1, <2>2
<1>7. H \in [X \X [X -> V] -> V]
  BY <1>4, <1>6
<1>8. PICK rank : rank = [n \in X |-> m - n]
  OBVIOUS
<1>9. rank \in [X -> 0 .. m] /\ \A n \in X : rank[n] = m - n
  BY <1>1, <1>3, <1>8
<1>10. ASSUME NEW n \in X, NEW g \in [X -> V], NEW h \in [X -> V],
             \A y \in X : rank[y] < rank[n] => g[y] = h[y]
      PROVE  H[<<n, g>>] = H[<<n, h>>]
  <2>1. H[<<n, g>>] = SplitStep(g, keys, curKey, n) /\ H[<<n, h>>] = SplitStep(h, keys, curKey, n)
    BY <1>4
  <2>2. CASE n = m
    BY <1>1, <2>1, <2>2 DEF SplitStep
  <2>3. CASE n # m
    <3>1. n + 1 \in X /\ n \in Int /\ m \in Int
      BY <1>1, <1>3, <2>3
    <3>2. rank[n + 1] < rank[n]
      BY <1>9, <3>1
    <3>3. g[n + 1] = h[n + 1]
      BY <1>10, <3>1, <3>2
    <3>4. SplitStep(g, keys, curKey, n) = SplitStep(h, keys, curKey, n)
      BY <3>3 DEF SplitStep
    <3> QED BY <2>1, <3>4
  <2> QED BY <2>2, <2>3
<1>11. Definable(X, V, m, rank, H)
  BY <1>1, <1>5, <1>7, <1>9, <1>10 DEF Definable
<1>12. PICK f \in [X -> V] : \A n \in X : f[n] = H[<<n, f>>]
  BY <1>11, RankRecursion DEF Defined
<1>13. f = [n \in X |-> SplitStep(f, keys, curKey, n)]
  <2>1. \A n \in X : f[n] = SplitStep(f, keys, curKey, n)
    BY <1>4, <1>12
  <2> QED BY <2>1
<1>14. Splitting(keys, curKey) = [n \in X |-> SplitStep(Splitting(keys, curKey), keys, curKey, n)]
  BY <1>1, <1>3, <1>13 DEF Splitting
<1> QED BY <1>1, <1>3, <1>14

\* Every index above n is on the side of its key, once.
IsSplit(s, keys, curKey, n, m) ==
  /\ s \in Splits(m)
  /\ Len(s.grands) + Len(s.petits) = m - n
  /\ \A i \in 1 .. Len(s.grands) : keys[s.grands[i]] >= curKey
  /\ \A i \in 1 .. Len(s.petits) : keys[s.petits[i]] <= curKey
  /\ \A x \in n + 1 .. m : \/ \E i \in 1 .. Len(s.grands) : s.grands[i] = x
                           \/ \E i \in 1 .. Len(s.petits) : s.petits[i] = x

\* An index more, on the side of its key.
OnItsSide(t, s, keys, curKey, n) ==
  \/ t = [s EXCEPT !.grands = Append(@, n + 1)] /\ keys[n + 1] >= curKey
  \/ t = [s EXCEPT !.petits = Append(@, n + 1)] /\ keys[n + 1] <= curKey

LEMMA SplitOneMore ==
  ASSUME NEW m \in Nat, NEW n \in 0 .. m - 1, NEW keys, NEW curKey \in Int, keys[n + 1] \in Int,
         NEW s, IsSplit(s, keys, curKey, n + 1, m),
         NEW t, OnItsSide(t, s, keys, curKey, n)
  PROVE  IsSplit(t, keys, curKey, n, m)
<1>1. PICK g, p : g = s.grands /\ p = s.petits
  OBVIOUS
<1>2. /\ s \in Splits(m) /\ g \in Seq(1 .. m) /\ p \in Seq(1 .. m)
      /\ Len(g) \in Nat /\ Len(p) \in Nat /\ Len(g) + Len(p) = m - (n + 1)
      /\ \A i \in 1 .. Len(g) : keys[g[i]] >= curKey
      /\ \A i \in 1 .. Len(p) : keys[p[i]] <= curKey
      /\ \A x \in n + 1 + 1 .. m : \/ \E i \in 1 .. Len(g) : g[i] = x
                                   \/ \E i \in 1 .. Len(p) : p[i] = x
  BY <1>1 DEF IsSplit, Splits
<1>3. n + 1 \in 1 .. m
  OBVIOUS
<1>4. \A q \in Seq(1 .. m) : /\ Append(q, n + 1) \in Seq(1 .. m) /\ Len(Append(q, n + 1)) = Len(q) + 1
                             /\ Append(q, n + 1)[Len(q) + 1] = n + 1
                             /\ \A i \in 1 .. Len(q) : Append(q, n + 1)[i] = q[i]
  BY <1>3, AppendProperties
<1>5. CASE t = [s EXCEPT !.grands = Append(@, n + 1)] /\ keys[n + 1] >= curKey
  <2>1. PICK a : a = Append(g, n + 1)
    OBVIOUS
  <2>2. t.grands = a /\ t.petits = p /\ t \in Splits(m)
    BY <1>1, <1>2, <1>3, <1>5, <2>1, OneMoreIndex DEF Splits
  <2>3. /\ Len(a) = Len(g) + 1 /\ a[Len(g) + 1] = n + 1
        /\ \A i \in 1 .. Len(g) : a[i] = g[i]
    BY <1>2, <1>4, <2>1
  <2>0. /\ Len(g) \in Nat /\ Len(p) \in Nat /\ Len(g) + Len(p) = m - (n + 1)
        /\ Len(a) = Len(g) + 1 /\ n \in Int
    BY <1>2, <2>3
  <2>4. Len(a) + Len(p) = m - n
    BY <2>0
  <2>5. ASSUME NEW i \in 1 .. Len(a) PROVE keys[a[i]] >= curKey
    <3>1. CASE i = Len(g) + 1
      BY <1>5, <2>3, <3>1
    <3>2. CASE i # Len(g) + 1
      <4>1. i \in 1 .. Len(g)
        BY <2>0, <3>2
      <4> QED BY <1>2, <2>3, <4>1
    <3> QED BY <3>1, <3>2
  <2>6. ASSUME NEW x \in n + 1 .. m
        PROVE  \/ \E i \in 1 .. Len(a) : a[i] = x
               \/ \E i \in 1 .. Len(p) : p[i] = x
    <3>1. CASE x = n + 1
      <4>1. Len(g) + 1 \in 1 .. Len(a)
        BY <1>2, <2>3
      <4> QED BY <2>3, <3>1, <4>1
    <3>2. CASE x # n + 1
      <4>1. x \in n + 1 + 1 .. m
        BY <3>2
      <4>2. CASE \E i \in 1 .. Len(g) : g[i] = x
        <5>1. PICK i \in 1 .. Len(g) : g[i] = x
          BY <4>2
        <5>2. i \in 1 .. Len(a)
          BY <2>0, <5>1
        <5>3. a[i] = x
          BY <2>3, <5>1
        <5> QED BY <5>2, <5>3
      <4> QED BY <1>2, <4>1, <4>2
    <3> QED BY <3>1, <3>2
  <2> QED BY <1>2, <2>2, <2>4, <2>5, <2>6 DEF IsSplit
<1>6. CASE t = [s EXCEPT !.petits = Append(@, n + 1)] /\ keys[n + 1] <= curKey
  <2>1. PICK a : a = Append(p, n + 1)
    OBVIOUS
  <2>2. t.petits = a /\ t.grands = g /\ t \in Splits(m)
    BY <1>1, <1>2, <1>3, <1>6, <2>1, OneMoreIndex DEF Splits
  <2>3. /\ Len(a) = Len(p) + 1 /\ a[Len(p) + 1] = n + 1
        /\ \A i \in 1 .. Len(p) : a[i] = p[i]
    BY <1>2, <1>4, <2>1
  <2>0. /\ Len(g) \in Nat /\ Len(p) \in Nat /\ Len(g) + Len(p) = m - (n + 1)
        /\ Len(a) = Len(p) + 1 /\ n \in Int
    BY <1>2, <2>3
  <2>4. Len(g) + Len(a) = m - n
    BY <2>0
  <2>5. ASSUME NEW i \in 1 .. Len(a) PROVE keys[a[i]] <= curKey
    <3>1. CASE i = Len(p) + 1
      BY <1>6, <2>3, <3>1
    <3>2. CASE i # Len(p) + 1
      <4>1. i \in 1 .. Len(p)
        BY <2>0, <3>2
      <4> QED BY <1>2, <2>3, <4>1
    <3> QED BY <3>1, <3>2
  <2>6. ASSUME NEW x \in n + 1 .. m
        PROVE  \/ \E i \in 1 .. Len(g) : g[i] = x
               \/ \E i \in 1 .. Len(a) : a[i] = x
    <3>1. CASE x = n + 1
      <4>1. Len(p) + 1 \in 1 .. Len(a)
        BY <1>2, <2>3
      <4> QED BY <2>3, <3>1, <4>1
    <3>2. CASE x # n + 1
      <4>1. x \in n + 1 + 1 .. m
        BY <3>2
      <4>2. CASE \E i \in 1 .. Len(p) : p[i] = x
        <5>1. PICK i \in 1 .. Len(p) : p[i] = x
          BY <4>2
        <5>2. i \in 1 .. Len(a)
          BY <2>0, <5>1
        <5>3. a[i] = x
          BY <2>3, <5>1
        <5> QED BY <5>2, <5>3
      <4> QED BY <1>2, <4>1, <4>2
    <3> QED BY <3>1, <3>2
  <2> QED BY <1>2, <2>2, <2>4, <2>5, <2>6 DEF IsSplit
<1> QED BY <1>5, <1>6 DEF OnItsSide

\* Split, for any buffer.
LEMMA SplitIs ==
  ASSUME NEW keys, NEW m \in Nat, Len(keys) = m, \A i \in 1 .. m : keys[i] \in Int, NEW curKey \in Int,
         NEW s, s = Split(keys, curKey)
  PROVE  IsSplit(s, keys, curKey, 0, m)
<1>1. PICK f : f = Splitting(keys, curKey)
  OBVIOUS
<1>2. \A n \in 0 .. m : f[n] = SplitStep(f, keys, curKey, n)
  BY <1>1, SplittingDefined
<1>3. PICK rank : rank = [n \in 0 .. m |-> m - n]
  OBVIOUS
<1>4. rank \in [0 .. m -> Nat] /\ \A n \in 0 .. m : rank[n] = m - n
  BY <1>3
<1>5. PICK S : S = {n \in 0 .. m : IsSplit(f[n], keys, curKey, n, m)}
  OBVIOUS
<1>6. ASSUME NEW n \in 0 .. m, \A y \in 0 .. m : rank[y] < rank[n] => y \in S
      PROVE  IsSplit(f[n], keys, curKey, n, m)
  <2>1. PICK t : t = f[n]
    OBVIOUS
  <2>2. t = SplitStep(f, keys, curKey, n)
    BY <1>2, <2>1
  <2>3. CASE n = m
    <3>1. t = [grands |-> << >>, petits |-> << >>]
      BY <2>2, <2>3 DEF SplitStep
    <3>2. t \in Splits(m) /\ Len(t.grands) = 0 /\ Len(t.petits) = 0
      BY <3>1 DEF Splits
    <3>3. Len(t.grands) + Len(t.petits) = m - n /\ n + 1 .. m = {} /\ 1 .. Len(t.grands) = {} /\ 1 .. Len(t.petits) = {}
      BY <2>3, <3>2
    <3> QED BY <2>1, <3>2, <3>3 DEF IsSplit
  <2>4. CASE n # m
    <3>1. n \in 0 .. m - 1 /\ n + 1 \in 0 .. m /\ n + 1 \in 1 .. m
      BY <2>4
    <3>2. rank[n + 1] < rank[n]
      BY <1>4, <3>1
    <3>3. PICK q : q = f[n + 1]
      OBVIOUS
    <3>4. IsSplit(q, keys, curKey, n + 1, m)
      BY <1>5, <1>6, <3>1, <3>2, <3>3
    <3>5. keys[n + 1] \in Int
      BY <3>1
    <3>6. OnItsSide(t, q, keys, curKey, n)
      <4>1. \/ t = [q EXCEPT !.grands = Append(@, n + 1)] /\ (keys[n + 1] > curKey \/ keys[n + 1] = curKey)
            \/ t = [q EXCEPT !.petits = Append(@, n + 1)] /\ ~(keys[n + 1] > curKey)
        BY <2>2, <2>4, <3>3, Zenon DEF SplitStep
      <4> QED BY <3>5, <4>1 DEF OnItsSide
    <3>7. IsSplit(t, keys, curKey, n, m)
      BY <3>1, <3>4, <3>5, <3>6, SplitOneMore
    <3> QED BY <2>1, <3>7
  <2> QED BY <2>3, <2>4
<1>7. S \in SUBSET (0 .. m) /\ Inductive(0 .. m, rank, S)
  BY <1>5, <1>6 DEF Inductive
<1>8. S = 0 .. m
  BY <1>4, <1>7, RankInduction
<1>9. s = f[0]
  BY <1>1 DEF Split, Splitting, SplitStep
<1>10. 0 \in S
  BY <1>8
<1> QED BY <1>5, <1>9, <1>10
-----------------------------------------------------------------------------
(* The files and the parts that are still to be sorted. *)

\* The files hold the n records of the input, each item under its key.
Paired(n, in, k, it) ==
  /\ n \in Nat /\ k \in [0 .. n - 1 -> Int] /\ it \in [0 .. n - 1 -> 0 .. n - 1]
  /\ \A p \in 0 .. n - 1 : k[p] = in[it[p]]
  /\ \A y \in 0 .. n - 1 : \E p \in 0 .. n - 1 : it[p] = y

\* Both files as one array of records.
Both(k, it) == [p \in DOMAIN k |-> [key |-> k[p], item |-> it[p]]]

\* Moving keys and items together.
LEMMA MovedTogether ==
  ASSUME NEW n, NEW in, NEW k, NEW it, Paired(n, in, k, it),
         NEW k2, k2 = [p \in 0 .. n - 1 |-> k2[p]], NEW it2, it2 = [p \in 0 .. n - 1 |-> it2[p]],
         NEW begin \in 0 .. n - 1, NEW end \in begin .. n - 1,
         SameWithin(Both(k, it), Both(k2, it2), begin, end)
  PROVE  Paired(n, in, k2, it2) /\ SameWithin(k, k2, begin, end)
<1>1. /\ n \in Nat /\ k \in [0 .. n - 1 -> Int] /\ it \in [0 .. n - 1 -> 0 .. n - 1]
      /\ \A p \in 0 .. n - 1 : k[p] = in[it[p]]
      /\ \A y \in 0 .. n - 1 : \E p \in 0 .. n - 1 : it[p] = y
  BY DEF Paired
<1>2. PICK a, b : a = Both(k, it) /\ b = Both(k2, it2)
  OBVIOUS
<1>3. DOMAIN k = 0 .. n - 1 /\ DOMAIN k2 = 0 .. n - 1
  BY <1>1
<1>4. /\ DOMAIN a = 0 .. n - 1
      /\ \A p \in 0 .. n - 1 : a[p].key = k[p] /\ a[p].item = it[p]
      /\ \A p \in 0 .. n - 1 : b[p].key = k2[p] /\ b[p].item = it2[p]
  BY <1>2, <1>3 DEF Both
<1>5. \A x \in begin .. end : x \in 0 .. n - 1
  <2>1. begin \in Int /\ end \in Int /\ 0 <= begin /\ end <= n - 1 /\ n \in Int
    BY <1>1
  <2> QED BY <2>1
<1>6. /\ \A x \in 0 .. n - 1 : x \notin begin .. end => b[x] = a[x]
      /\ \A x \in begin .. end : \E y \in begin .. end : b[x] = a[y]
      /\ \A y \in begin .. end : \E x \in begin .. end : b[x] = a[y]
  BY <1>2, <1>4 DEF SameWithin
<1>7. ASSUME NEW x \in 0 .. n - 1
      PROVE  \E y \in 0 .. n - 1 : k2[x] = k[y] /\ it2[x] = it[y]
  <2>1. CASE x \in begin .. end
    <3>1. PICK y \in begin .. end : b[x] = a[y]
      BY <1>6, <2>1
    <3>2. y \in 0 .. n - 1
      BY <1>5
    <3> QED BY <1>4, <3>1, <3>2
  <2>2. CASE x \notin begin .. end
    <3>1. b[x] = a[x]
      BY <1>6, <2>2
    <3> QED BY <1>4, <3>1
  <2> QED BY <2>1, <2>2
<1>8. ASSUME NEW y \in 0 .. n - 1
      PROVE  \E x \in 0 .. n - 1 : it2[x] = it[y]
  <2>1. CASE y \in begin .. end
    <3>1. PICK x \in begin .. end : b[x] = a[y]
      BY <1>6, <2>1
    <3>2. x \in 0 .. n - 1
      BY <1>5
    <3> QED BY <1>4, <3>1, <3>2
  <2>2. CASE y \notin begin .. end
    <3>1. b[y] = a[y]
      BY <1>6, <2>2
    <3> QED BY <1>4, <3>1
  <2> QED BY <2>1, <2>2
<1>9. \A x \in 0 .. n - 1 : k2[x] \in Int /\ it2[x] \in 0 .. n - 1 /\ k2[x] = in[it2[x]]
  <2> TAKE x \in 0 .. n - 1
  <2>1. PICK y \in 0 .. n - 1 : k2[x] = k[y] /\ it2[x] = it[y]
    BY <1>7
  <2> QED BY <1>1, <2>1
<1>10. k2 \in [0 .. n - 1 -> Int] /\ it2 \in [0 .. n - 1 -> 0 .. n - 1]
  BY <1>9
<1>11. \A y \in 0 .. n - 1 : \E p \in 0 .. n - 1 : it2[p] = y
  <2> TAKE y \in 0 .. n - 1
  <2>1. PICK z \in 0 .. n - 1 : it[z] = y
    BY <1>1
  <2> QED BY <1>8, <2>1
<1>12. Paired(n, in, k2, it2)
  BY <1>1, <1>9, <1>10, <1>11 DEF Paired
<1>13. SameWithin(k, k2, begin, end)
  <2>1. ASSUME NEW x \in 0 .. n - 1, x \notin begin .. end PROVE k2[x] = k[x]
    <3>1. b[x] = a[x]
      BY <1>6, <2>1
    <3> QED BY <1>4, <3>1
  <2>2. ASSUME NEW x \in begin .. end PROVE \E y \in begin .. end : k2[x] = k[y]
    <3>1. PICK y \in begin .. end : b[x] = a[y]
      BY <1>6
    <3>2. x \in 0 .. n - 1 /\ y \in 0 .. n - 1
      BY <1>5
    <3> QED BY <1>4, <3>1, <3>2
  <2>3. ASSUME NEW y \in begin .. end PROVE \E x \in begin .. end : k2[x] = k[y]
    <3>1. PICK x \in begin .. end : b[x] = a[y]
      BY <1>6
    <3>2. x \in 0 .. n - 1 /\ y \in 0 .. n - 1
      BY <1>5
    <3> QED BY <1>4, <3>1, <3>2
  <2> QED BY <1>3, <2>1, <2>2, <2>3 DEF SameWithin
<1> QED BY <1>12, <1>13

\* Parts <<begin, end>> of n records.
Intervals(n) == {iv \in (0 .. n - 1) \X (0 .. n - 1) : iv[1] <= iv[2]}
Covers(iv, p, q) == iv[1] <= p /\ q <= iv[2]
Before(iv, jv) == iv[2] < jv[1] \/ jv[2] < iv[1]

\* No two of a sequence of parts have a record in common.
AllApart(o) == \A i \in 1 .. Len(o) : \A j \in 1 .. Len(o) : i < j => Before(o[i], o[j])

\* What lies in none of the parts o together is in order.
InOrderOutside(n, f, o) ==
  \A p \in 0 .. n - 1 : \A q \in 0 .. n - 1 :
    p < q /\ (\A i \in 1 .. Len(o) : ~Covers(o[i], p, q)) => f[p] <= f[q]

\* The parts that are still to be sorted.
StillToSort(n, f, o) ==
  o \in Seq(Intervals(n)) /\ AllApart(o) /\ InOrderOutside(n, f, o)

\* The parts w, within the part iv.
Inside(n, w, iv) ==
  /\ w \in Seq(Intervals(n)) /\ AllApart(w)
  /\ \A i \in 1 .. Len(w) : iv[1] <= w[i][1] /\ w[i][2] <= iv[2]

\* The first part is replaced by parts of it: the elements.
LEMMA Replaced ==
  ASSUME NEW T, NEW o \in Seq(T), Len(o) > 0, NEW w \in Seq(T), NEW c, c = w \o Tail(o)
  PROVE  /\ c \in Seq(T) /\ Len(c) = Len(w) + Len(o) - 1 /\ Len(w) \in Nat /\ Len(o) \in Nat
         /\ \A i \in 1 .. Len(w) : c[i] = w[i] /\ i \in 1 .. Len(c)
         /\ \A j \in 2 .. Len(o) : c[Len(w) + j - 1] = o[j] /\ Len(w) + j - 1 \in 1 .. Len(c)
         /\ \A i \in 1 .. Len(c) : i \notin 1 .. Len(w) =>
              i - Len(w) + 1 \in 2 .. Len(o) /\ c[i] = o[i - Len(w) + 1]
<1>1. PICK t : t = Tail(o)
  OBVIOUS
<1>2. o # << >> /\ Len(o) \in Nat /\ Len(w) \in Nat
  OBVIOUS
<1>3. t \in Seq(T) /\ Len(t) = Len(o) - 1 /\ \A i \in 1 .. Len(t) : t[i] = o[i + 1]
  BY <1>1, <1>2
<1>4. /\ c \in Seq(T) /\ Len(c) = Len(w) + Len(t)
      /\ \A i \in 1 .. Len(w) + Len(t) : c[i] = IF i <= Len(w) THEN w[i] ELSE t[i - Len(w)]
  BY <1>1, <1>3, ConcatProperties
<1>5. ASSUME NEW i \in 1 .. Len(w) PROVE c[i] = w[i] /\ i \in 1 .. Len(c)
  BY <1>2, <1>3, <1>4
<1>6. ASSUME NEW j \in 2 .. Len(o) PROVE c[Len(w) + j - 1] = o[j] /\ Len(w) + j - 1 \in 1 .. Len(c)
  <2>1. PICK i : i = Len(w) + j - 1
    OBVIOUS
  <2>2. i \in 1 .. Len(w) + Len(t) /\ ~(i <= Len(w)) /\ i - Len(w) = j - 1 /\ j - 1 \in 1 .. Len(t)
    BY <1>2, <1>3, <2>1
  <2>3. c[i] = t[j - 1]
    BY <1>4, <2>2
  <2>4. t[j - 1] = o[j - 1 + 1]
    BY <1>3, <2>2
  <2>5. j - 1 + 1 = j
    OBVIOUS
  <2> QED BY <1>4, <2>1, <2>2, <2>3, <2>4, <2>5
<1>7. ASSUME NEW i \in 1 .. Len(c), i \notin 1 .. Len(w)
      PROVE  i - Len(w) + 1 \in 2 .. Len(o) /\ c[i] = o[i - Len(w) + 1]
  <2>1. ~(i <= Len(w)) /\ i - Len(w) \in 1 .. Len(t) /\ i - Len(w) + 1 \in 2 .. Len(o)
    BY <1>2, <1>3, <1>4, <1>7
  <2>2. c[i] = t[i - Len(w)] /\ t[i - Len(w)] = o[i - Len(w) + 1]
    BY <1>3, <1>4, <2>1
  <2> QED BY <2>1, <2>2
<1> QED BY <1>2, <1>3, <1>4, <1>5, <1>6, <1>7

\* A part of a part is apart from what the part is apart from.
LEMMA BeforeInside ==
  ASSUME NEW iv \in Int \X Int, NEW jv \in Int \X Int, NEW kv \in Int \X Int, Before(iv, jv),
         iv[1] <= kv[1], kv[2] <= iv[2], kv[1] <= kv[2]
  PROVE  Before(kv, jv)
BY DEF Before

\* The first part is replaced by parts of it: they are apart.
LEMMA ReplacedApart ==
  ASSUME NEW n \in Nat, NEW o \in Seq(Intervals(n)), Len(o) > 0, AllApart(o),
         NEW w, Inside(n, w, o[1]), NEW c, c = w \o Tail(o)
  PROVE  c \in Seq(Intervals(n)) /\ AllApart(c)
<1>1. PICK T : T = Intervals(n)
  OBVIOUS
<1>2. w \in Seq(T) /\ o \in Seq(T) /\ AllApart(w)
      /\ \A i \in 1 .. Len(w) : o[1][1] <= w[i][1] /\ w[i][2] <= o[1][2]
  BY <1>1 DEF Inside
<1>3. /\ c \in Seq(T) /\ Len(c) = Len(w) + Len(o) - 1 /\ Len(w) \in Nat /\ Len(o) \in Nat
      /\ \A i \in 1 .. Len(w) : c[i] = w[i]
      /\ \A i \in 1 .. Len(c) : i \notin 1 .. Len(w) =>
           i - Len(w) + 1 \in 2 .. Len(o) /\ c[i] = o[i - Len(w) + 1]
  BY <1>2, Replaced
<1>4. \A iv \in T : iv \in Int \X Int /\ iv[1] <= iv[2]
  BY <1>1 DEF Intervals
<1>5. ASSUME NEW i \in 1 .. Len(c), NEW j \in 1 .. Len(c), i < j PROVE Before(c[i], c[j])
  <2>1. CASE j \in 1 .. Len(w)
    <3>1. i \in 1 .. Len(w)
      BY <1>3, <1>5, <2>1
    <3> QED BY <1>2, <1>3, <1>5, <2>1, <3>1 DEF AllApart
  <2>2. CASE i \notin 1 .. Len(w)
    <3>1. j \notin 1 .. Len(w)
      BY <1>3, <1>5, <2>2
    <3>2. /\ i - Len(w) + 1 \in 1 .. Len(o) /\ c[i] = o[i - Len(w) + 1]
          /\ j - Len(w) + 1 \in 1 .. Len(o) /\ c[j] = o[j - Len(w) + 1]
          /\ i - Len(w) + 1 < j - Len(w) + 1
      BY <1>3, <1>5, <2>2, <3>1
    <3> QED BY <3>2 DEF AllApart
  <2>3. CASE i \in 1 .. Len(w) /\ j \notin 1 .. Len(w)
    <3>1. PICK m \in 2 .. Len(o) : c[j] = o[m]
      BY <1>3, <2>3
    <3>2. 1 \in 1 .. Len(o) /\ m \in 1 .. Len(o) /\ 1 < m
      BY <1>3
    <3>3. Before(o[1], o[m])
      BY <3>2 DEF AllApart
    <3>4. o[1] \in T /\ o[m] \in T /\ w[i] \in T
      BY <1>2, <2>3, <3>2, ElementOfSeq
    <3>5. o[1][1] <= w[i][1] /\ w[i][2] <= o[1][2]
      BY <1>2, <2>3
    <3>6. o[1] \in Int \X Int /\ o[m] \in Int \X Int /\ w[i] \in Int \X Int /\ w[i][1] <= w[i][2]
      BY <1>4, <3>4
    <3>7. Before(w[i], o[m])
      BY <3>3, <3>5, <3>6, BeforeInside
    <3> QED BY <1>3, <2>3, <3>1, <3>7
  <2> QED BY <2>1, <2>2, <2>3
<1> QED BY <1>1, <1>3, <1>5 DEF AllApart

\* From begin to end, what lies in none of the parts w together is in order.
InOrderBetween(g, w, begin, end) ==
  \A p \in begin .. end : \A q \in begin .. end :
    p < q /\ (\A i \in 1 .. Len(w) : ~Covers(w[i], p, q)) => g[p] <= g[q]

\* From begin to end x moves to p; and what that means for two places.
Moves(begin, end, p, x) ==
  IF p \in begin .. end THEN x \in begin .. end ELSE x = p
FurtherApart(begin, end, p, q, x, y) ==
  /\ x < y /\ ~(begin <= x /\ y <= end)
  /\ \A b \in Int : \A e \in Int : (end < b \/ e < begin) /\ b <= x /\ y <= e => b <= p /\ q <= e

\* Two places, not both from begin to end, before and after a move from begin to end.
LEMMA MovedBetween ==
  ASSUME NEW begin \in Int, NEW end \in Int, begin <= end,
         NEW p \in Int, NEW q \in Int, p < q, ~(p \in begin .. end /\ q \in begin .. end),
         NEW x \in Int, NEW y \in Int,
         Moves(begin, end, p, x), Moves(begin, end, q, y)
  PROVE  FurtherApart(begin, end, p, q, x, y)
<1>1. CASE p \in begin .. end
  BY <1>1 DEF Moves, FurtherApart
<1>2. CASE q \in begin .. end
  BY <1>2 DEF Moves, FurtherApart
<1>3. CASE p \notin begin .. end /\ q \notin begin .. end
  BY <1>3 DEF Moves, FurtherApart
<1> QED BY <1>1, <1>2, <1>3

\* The places of a part.
LEMMA WithinRange ==
  ASSUME NEW n \in Nat, NEW begin \in 0 .. n - 1, NEW end \in 0 .. n - 1
  PROVE  \A y \in begin .. end : y \in 0 .. n - 1
OBVIOUS

\* Records are moved within the first part, which is replaced by parts of it: what was
\* in order outside of the parts still is.
LEMMA ReplacedInOrder ==
  ASSUME NEW n \in Nat, NEW f \in [0 .. n - 1 -> Int], NEW g \in [0 .. n - 1 -> Int],
         NEW o, StillToSort(n, f, o), Len(o) > 0,
         NEW begin, NEW end, begin = o[1][1], end = o[1][2], SameWithin(f, g, begin, end),
         NEW w, Inside(n, w, o[1]), InOrderBetween(g, w, begin, end),
         NEW c, c = w \o Tail(o)
  PROVE  StillToSort(n, g, c)
<1>1. PICK T : T = Intervals(n)
  OBVIOUS
<1>2. w \in Seq(T) /\ o \in Seq(T) /\ AllApart(o) /\ InOrderOutside(n, f, o)
  BY <1>1 DEF Inside, StillToSort
<1>3. /\ Len(w) \in Nat /\ Len(o) \in Nat
      /\ \A i \in 1 .. Len(w) : c[i] = w[i] /\ i \in 1 .. Len(c)
      /\ \A j \in 2 .. Len(o) : c[Len(w) + j - 1] = o[j] /\ Len(w) + j - 1 \in 1 .. Len(c)
  BY <1>2, Replaced
<1>4. \A iv \in T : iv[1] \in 0 .. n - 1 /\ iv[2] \in 0 .. n - 1 /\ iv[1] <= iv[2]
  BY <1>1 DEF Intervals
<1>5. c \in Seq(Intervals(n)) /\ AllApart(c)
  BY <1>1, <1>2, ReplacedApart
<1>6. 1 \in 1 .. Len(o) /\ o[1] \in T
  <2>1. 1 \in 1 .. Len(o)
    BY <1>3
  <2> QED BY <1>2, <2>1, ElementOfSeq
<1>7. begin \in 0 .. n - 1 /\ end \in 0 .. n - 1 /\ begin <= end /\ begin \in Int /\ end \in Int
  BY <1>4, <1>6
<1>8. \A x \in 0 .. n - 1 : x \notin begin .. end => g[x] = f[x]
  BY DEF SameWithin
<1>9. ASSUME NEW x \in 0 .. n - 1
      PROVE  \E y \in 0 .. n - 1 : g[x] = f[y] /\ Moves(begin, end, x, y)
  <2>1. CASE x \in begin .. end
    <3>1. PICK y \in begin .. end : g[x] = f[y]
      BY <2>1 DEF SameWithin
    <3>2. y \in 0 .. n - 1
      BY <1>7, WithinRange
    <3> QED BY <2>1, <3>1, <3>2 DEF Moves
  <2>2. CASE x \notin begin .. end
    BY <1>8, <2>2 DEF Moves
  <2> QED BY <2>1, <2>2
<1>10. ASSUME NEW p \in 0 .. n - 1, NEW q \in 0 .. n - 1, p < q,
              \A i \in 1 .. Len(c) : ~Covers(c[i], p, q)
       PROVE  g[p] <= g[q]
  <2>1. CASE p \in begin .. end /\ q \in begin .. end
    <3>1. ASSUME NEW i \in 1 .. Len(w) PROVE ~Covers(w[i], p, q)
      BY <1>3, <1>10
    <3> QED BY <1>10, <2>1, <3>1 DEF InOrderBetween
  <2>2. CASE ~(p \in begin .. end /\ q \in begin .. end)
    <3>1. PICK x \in 0 .. n - 1 : g[p] = f[x] /\ Moves(begin, end, p, x)
      BY <1>9
    <3>2. PICK y \in 0 .. n - 1 : g[q] = f[y] /\ Moves(begin, end, q, y)
      BY <1>9
    <3>0. FurtherApart(begin, end, p, q, x, y)
      <4>1. p \in Int /\ q \in Int /\ x \in Int /\ y \in Int
        OBVIOUS
      <4> QED BY <1>7, <1>10, <2>2, <3>1, <3>2, <4>1, MovedBetween
    <3>3. /\ x < y /\ ~(begin <= x /\ y <= end)
          /\ \A b \in Int : \A e \in Int : (end < b \/ e < begin) /\ b <= x /\ y <= e => b <= p /\ q <= e
      BY <3>0 DEF FurtherApart
    <3>4. ASSUME NEW j \in 1 .. Len(o) PROVE ~Covers(o[j], x, y)
      <4>1. CASE j = 1
        BY <3>3, <4>1 DEF Covers
      <4>2. CASE j # 1
        <5>1. j \in 2 .. Len(o) /\ 1 < j
          BY <1>3, <4>2
        <5>2. ~Covers(o[j], p, q)
          BY <1>3, <1>10, <5>1
        <5>3. Before(o[1], o[j])
          BY <1>2, <1>6, <5>1 DEF AllApart
        <5>4. o[j] \in T
          BY <1>2, ElementOfSeq
        <5>5. o[j][1] \in Int /\ o[j][2] \in Int
          BY <1>4, <5>4
        <5>6. end < o[j][1] \/ o[j][2] < begin
          BY <5>3 DEF Before
        <5> QED BY <3>3, <5>2, <5>5, <5>6 DEF Covers
      <4> QED BY <4>1, <4>2
    <3>5. f[x] <= f[y]
      BY <1>2, <3>3, <3>4 DEF InOrderOutside
    <3> QED BY <3>1, <3>2, <3>5
  <2> QED BY <2>1, <2>2
<1>11. InOrderOutside(n, g, c)
  BY <1>10 DEF InOrderOutside
<1> QED BY <1>5, <1>11 DEF StillToSort
-----------------------------------------------------------------------------
(* Sorting in memory, beginning and ending a division. *)

\* A division in progress: the place of the pivot, and what has been divided.
PartRecords(n) ==
  [begin : 0 .. n - 1, end : 0 .. n - 1, curKey : Int, curItem : 0 .. n - 1,
   autres : Nat, plusGrands : Nat, plusPetits : Nat]
InDivision(pt, n, k, it) ==
  /\ pt \in PartRecords(n)
  /\ pt.begin + pt.plusPetits + pt.autres + pt.plusGrands = pt.end
  /\ k[pt.end - pt.plusGrands] = pt.curKey
  /\ it[pt.end - pt.plusGrands] = pt.curItem
  /\ \A p \in pt.begin .. pt.begin + pt.plusPetits - 1 : k[p] <= pt.curKey
  /\ \A p \in pt.end - pt.plusGrands + 1 .. pt.end : pt.curKey <= k[p]

\* The parts that are still to be sorted, the one that is being divided first.
Open(pt, st) == (IF pt = None THEN << >> ELSE << <<pt.begin, pt.end>> >>) \o st

\* The invariant of the sort, for files of n records.
Sorting(n, in, size, k, it, st, pt) ==
  /\ n \in Nat /\ size \in Nat \ {0} /\ in \in [0 .. n - 1 -> Keys]
  /\ Paired(n, in, k, it)
  /\ pt # None => InDivision(pt, n, k, it)
  /\ st \in Seq(Intervals(n))
  /\ StillToSort(n, k, Open(pt, st))
SortInv == Sorting(Count, input, buffer_size, keyFile, itemFile, stack, part)

\* A place, counted from the beginning of a part.
LEMMA Shifted ==
  ASSUME NEW p \in Int, NEW begin \in Int, NEW end \in Int, NEW m \in Int,
         begin <= p, p <= end, m - 1 = end - begin
  PROVE  p - begin \in 0 .. m - 1 /\ begin + (p - begin) = p
OBVIOUS

\* A part is read, sorted and written back; and it is sorted.
SortsPart(n, k, it, begin, end, k2, it2) ==
  LET loaded == [i \in 0 .. end - begin |-> [key |-> k[begin + i], item |-> it[begin + i]]]
      done == MemSort(loaded)
  IN /\ k2 = [p \in 0 .. n - 1 |-> IF p \in begin .. end THEN done[p - begin].key ELSE k[p]]
     /\ it2 = [p \in 0 .. n - 1 |-> IF p \in begin .. end THEN done[p - begin].item ELSE it[p]]
PartSorted(n, k, it, begin, end, k2, it2) ==
  /\ SameWithin(Both(k, it), Both(k2, it2), begin, end)
  /\ \A p \in begin .. end : \A q \in begin .. end : p < q => k2[p] <= k2[q]
  /\ k2 = [p \in 0 .. n - 1 |-> k2[p]] /\ it2 = [p \in 0 .. n - 1 |-> it2[p]]

\* What is read, sorted and written back: the same records, in order.
LEMMA SortedInMemory ==
  ASSUME NEW n, NEW in, NEW k, NEW it, Paired(n, in, k, it),
         NEW begin \in 0 .. n - 1, NEW end \in begin .. n - 1,
         NEW k2, NEW it2, SortsPart(n, k, it, begin, end, k2, it2)
  PROVE  PartSorted(n, k, it, begin, end, k2, it2)
<1>1. PICK loaded : loaded = [i \in 0 .. end - begin |-> [key |-> k[begin + i], item |-> it[begin + i]]]
  OBVIOUS
<1>2. PICK done : done = MemSort(loaded)
  OBVIOUS
<1>3. /\ k2 = [p \in 0 .. n - 1 |-> IF p \in begin .. end THEN done[p - begin].key ELSE k[p]]
      /\ it2 = [p \in 0 .. n - 1 |-> IF p \in begin .. end THEN done[p - begin].item ELSE it[p]]
  BY <1>1, <1>2 DEF SortsPart
<1>4. /\ n \in Nat /\ k \in [0 .. n - 1 -> Int] /\ it \in [0 .. n - 1 -> 0 .. n - 1]
  BY DEF Paired
<1>5. begin \in Int /\ end \in Int /\ 0 <= begin /\ begin <= end /\ end <= n - 1
  BY <1>4
<1>6. PICK m : m = end - begin + 1
  OBVIOUS
<1>7. m \in Nat /\ m > 0 /\ m - 1 = end - begin
  BY <1>5, <1>6
<1>8. PICK R : R = [key : Int, item : 0 .. n - 1]
  OBVIOUS
<1>9. ASSUME NEW i \in 0 .. m - 1 PROVE begin + i \in begin .. end /\ begin + i \in 0 .. n - 1
  <2>1. i \in Nat /\ i <= end - begin
    BY <1>7
  <2>2. begin + i \in Int /\ begin <= begin + i /\ begin + i <= end
    BY <1>5, <2>1
  <2> QED BY <1>4, <1>5, <2>2
<1>10. /\ loaded \in [0 .. m - 1 -> R]
      /\ \A i \in 0 .. m - 1 : loaded[i] = [key |-> k[begin + i], item |-> it[begin + i]]
  <2>1. loaded = [i \in 0 .. m - 1 |-> [key |-> k[begin + i], item |-> it[begin + i]]]
    BY <1>1, <1>7
  <2>2. \A i \in 0 .. m - 1 : [key |-> k[begin + i], item |-> it[begin + i]] \in R
    BY <1>4, <1>8, <1>9
  <2> QED BY <2>1, <2>2
<1>11. IsArray(loaded, m, R)
  BY <1>7, <1>8, <1>10 DEF IsArray
<1>12. IsSorting(loaded, done, m, R, 0, m - 1)
  BY <1>2, <1>7, <1>11, MemSortIs
<1>13. /\ \A i \in 0 .. m - 1 : \E j \in 0 .. m - 1 : done[i] = loaded[j]
       /\ \A j \in 0 .. m - 1 : \E i \in 0 .. m - 1 : done[i] = loaded[j]
       /\ \A i \in 0 .. m - 1 : \A j \in 0 .. m - 1 : i < j => done[i].key <= done[j].key
  BY <1>12 DEF IsSorting, SameWithin, Rising
<1>14. PICK a, b : a = Both(k, it) /\ b = Both(k2, it2)
  OBVIOUS
<1>15. /\ DOMAIN a = 0 .. n - 1 /\ DOMAIN b = 0 .. n - 1
       /\ \A p \in 0 .. n - 1 : a[p] = [key |-> k[p], item |-> it[p]]
       /\ \A p \in 0 .. n - 1 : b[p] = [key |-> k2[p], item |-> it2[p]]
  BY <1>3, <1>4, <1>14 DEF Both
<1>16. ASSUME NEW p \in begin .. end PROVE p \in 0 .. n - 1 /\ p - begin \in 0 .. m - 1 /\ begin + (p - begin) = p
  <2>1. p \in Int /\ begin <= p /\ p <= end
    BY <1>5
  <2>2. p \in 0 .. n - 1
    BY <1>4, <1>5, <2>1
  <2> QED BY <1>5, <1>7, <2>1, <2>2, Shifted
<1>17. ASSUME NEW p \in 0 .. n - 1, p \notin begin .. end PROVE b[p] = a[p]
  <2>1. k2[p] = k[p] /\ it2[p] = it[p]
    BY <1>3, <1>17
  <2>2. a[p] = [key |-> k[p], item |-> it[p]] /\ b[p] = [key |-> k2[p], item |-> it2[p]]
    BY <1>15
  <2> QED BY <2>1, <2>2
<1>18. ASSUME NEW j \in 0 .. m - 1 PROVE loaded[j] = a[begin + j]
  BY <1>9, <1>10, <1>15
<1>19. ASSUME NEW p \in begin .. end PROVE b[p] = done[p - begin] /\ k2[p] = done[p - begin].key
  <2>1. k2[p] = done[p - begin].key /\ it2[p] = done[p - begin].item
    BY <1>3, <1>16
  <2>2. PICK j \in 0 .. m - 1 : done[p - begin] = loaded[j]
    BY <1>13, <1>16
  <2>3. done[p - begin] = [key |-> k[begin + j], item |-> it[begin + j]]
    BY <1>10, <2>2
  <2> QED BY <1>15, <1>16, <2>1, <2>3
<1>20. ASSUME NEW p \in begin .. end PROVE \E q \in begin .. end : b[p] = a[q]
  <2>1. PICK j \in 0 .. m - 1 : done[p - begin] = loaded[j]
    BY <1>13, <1>16
  <2>2. b[p] = a[begin + j]
    BY <1>18, <1>19, <2>1
  <2> QED BY <1>9, <2>2
<1>21. ASSUME NEW q \in begin .. end PROVE \E p \in begin .. end : b[p] = a[q]
  <2>1. PICK i \in 0 .. m - 1 : done[i] = loaded[q - begin]
    BY <1>13, <1>16
  <2>2. PICK p : p = begin + i
    OBVIOUS
  <2>3. p \in begin .. end /\ p - begin = i
    BY <1>5, <1>9, <2>2
  <2>4. b[p] = done[i]
    BY <1>19, <2>3
  <2>5. loaded[q - begin] = a[q]
    <3>1. loaded[q - begin] = a[begin + (q - begin)]
      BY <1>16, <1>18
    <3> QED BY <1>16, <3>1
  <2> QED BY <2>1, <2>3, <2>4, <2>5
<1>22. SameWithin(a, b, begin, end)
  BY <1>15, <1>17, <1>20, <1>21 DEF SameWithin
<1>23. ASSUME NEW p \in begin .. end, NEW q \in begin .. end, p < q PROVE k2[p] <= k2[q]
  <2>1. p - begin < q - begin
    BY <1>5, <1>23
  <2>2. done[p - begin].key <= done[q - begin].key
    BY <1>13, <1>16, <2>1
  <2> QED BY <1>19, <2>2
<1>24. k2 = [p \in 0 .. n - 1 |-> k2[p]] /\ it2 = [p \in 0 .. n - 1 |-> it2[p]]
  BY <1>3
<1> QED BY <1>14, <1>22, <1>23, <1>24 DEF PartSorted

\* Two places exchanged in both files.
LEMMA SwappedTogether ==
  ASSUME NEW n, NEW in, NEW k, NEW it, Paired(n, in, k, it),
         NEW begin \in 0 .. n - 1, NEW end \in begin .. n - 1, NEW mid \in begin .. end,
         NEW k2, k2 = Swapped(k, mid, end), NEW it2, it2 = Swapped(it, mid, end)
  PROVE  /\ SameWithin(Both(k, it), Both(k2, it2), begin, end)
         /\ k2 = [p \in 0 .. n - 1 |-> k2[p]] /\ it2 = [p \in 0 .. n - 1 |-> it2[p]]
<1>1. /\ n \in Nat /\ k \in [0 .. n - 1 -> Int] /\ it \in [0 .. n - 1 -> 0 .. n - 1]
  BY DEF Paired
<1>2. begin \in Int /\ end \in Int /\ mid \in Int /\ mid \in 0 .. n - 1 /\ end \in 0 .. n - 1 /\ end \in begin .. end
  BY <1>1
<1>3. k2 = [p \in 0 .. n - 1 |-> IF p = end THEN k[mid] ELSE IF p = mid THEN k[end] ELSE k[p]]
  BY <1>1 DEF Swapped
<1>4. it2 = [p \in 0 .. n - 1 |-> IF p = end THEN it[mid] ELSE IF p = mid THEN it[end] ELSE it[p]]
  BY <1>1 DEF Swapped
<1>5. PICK a, b : a = Both(k, it) /\ b = Both(k2, it2)
  OBVIOUS
<1>6. /\ DOMAIN a = 0 .. n - 1 /\ DOMAIN b = 0 .. n - 1
      /\ \A p \in 0 .. n - 1 : a[p] = [key |-> k[p], item |-> it[p]]
      /\ \A p \in 0 .. n - 1 : b[p] = [key |-> k2[p], item |-> it2[p]]
  BY <1>1, <1>3, <1>5 DEF Both
<1>7. \A p \in 0 .. n - 1 : b[p] = IF p = end THEN a[mid] ELSE IF p = mid THEN a[end] ELSE a[p]
  BY <1>2, <1>3, <1>4, <1>6
<1>8. \A p \in begin .. end : p \in 0 .. n - 1
  BY <1>1, <1>2
<1>9. ASSUME NEW x \in begin .. end PROVE \E y \in begin .. end : b[x] = a[y]
  BY <1>2, <1>7, <1>8
<1>10. ASSUME NEW y \in begin .. end PROVE \E x \in begin .. end : b[x] = a[y]
  <2>1. b[mid] = a[end] /\ b[end] = a[mid]
    BY <1>2, <1>7
  <2>2. CASE y = mid
    BY <1>2, <2>1, <2>2
  <2>3. CASE y = end
    BY <1>2, <2>1, <2>3
  <2>4. CASE y # mid /\ y # end
    BY <1>7, <1>8, <2>4
  <2> QED BY <2>2, <2>3, <2>4
<1>11. SameWithin(a, b, begin, end)
  <2>1. \A x \in 0 .. n - 1 : x \notin begin .. end => b[x] = a[x]
    BY <1>2, <1>7
  <2> QED BY <1>6, <1>9, <1>10, <2>1 DEF SameWithin
<1> QED BY <1>3, <1>4, <1>5, <1>11

\* At most two parts, as a sequence.
LEMMA ShortSequences ==
  ASSUME NEW T, NEW u, NEW v
  PROVE  /\ <<u>> \o <<v>> = <<u, v>> /\ <<u>> \o << >> = <<u>> /\ << >> \o <<v>> = <<v>>
         /\ << >> \o << >> = << >>
         /\ Len(<<u, v>>) = 2 /\ <<u, v>>[1] = u /\ <<u, v>>[2] = v
         /\ u \in T /\ v \in T => <<u, v>> \in Seq(T)
<1>1. <<u>> \o <<v>> = <<u, v>>
  <2>1. PICK S : S = {u, v}
    OBVIOUS
  <2>2. <<u>> \in Seq(S) /\ v \in S
    BY <2>1
  <2>3. <<v>> \in Seq(S) /\ <<u, v>> \in Seq(S) /\ Len(<<u, v>>) = 2 /\ <<u, v>>[1] = u /\ <<u, v>>[2] = v
    BY <2>1
  <2>4. PICK c, d : c = <<u>> \o <<v>> /\ d = <<u, v>>
    OBVIOUS
  <2>5. Len(<<u>>) = 1 /\ Len(<<v>>) = 1 /\ <<u>>[1] = u /\ <<v>>[1] = v
    OBVIOUS
  <2>6. c \in Seq(S) /\ Len(c) = 2 /\ c[1] = u /\ c[2] = v
    BY <2>2, <2>3, <2>4, <2>5, ConcatProperties
  <2>7. d \in Seq(S) /\ Len(d) = 2 /\ d[1] = u /\ d[2] = v
    BY <2>3, <2>4
  <2>8. \A i \in 1 .. 2 : i = 1 \/ i = 2
    OBVIOUS
  <2>9. c = d
    BY <2>6, <2>7, <2>8, SeqEqual
  <2> QED BY <2>4, <2>9
<1>2. <<u>> \o << >> = <<u>>
  OBVIOUS
<1>3. << >> \o <<v>> = <<v>>
  OBVIOUS
<1>4. << >> \o << >> = << >>
  OBVIOUS
<1>5. Len(<<u, v>>) = 2 /\ <<u, v>>[1] = u /\ <<u, v>>[2] = v
  OBVIOUS
<1>6. u \in T /\ v \in T => <<u, v>> \in Seq(T)
  OBVIOUS
<1> QED BY <1>1, <1>2, <1>3, <1>4, <1>5, <1>6

\* The two sides of a finished division.
Sides(pt) ==
  (IF pt.plusGrands > 1 THEN <<<<pt.end - (pt.plusGrands - 1), pt.end>>>> ELSE << >>)
  \o (IF pt.plusPetits > 1 THEN <<<<pt.begin, pt.begin + pt.plusPetits - 1>>>> ELSE << >>)

LEMMA SidesInside ==
  ASSUME NEW n \in Nat, NEW pt, NEW k \in [0 .. n - 1 -> Int], NEW it,
         InDivision(pt, n, k, it), pt.autres = 0,
         NEW w, w = Sides(pt)
  PROVE  Inside(n, w, <<pt.begin, pt.end>>) /\ InOrderBetween(k, w, pt.begin, pt.end)
<1>1. PICK begin, end, g, p : begin = pt.begin /\ end = pt.end /\ g = pt.plusGrands /\ p = pt.plusPetits
  OBVIOUS
<1>2. PICK cur : cur = pt.curKey
  OBVIOUS
<1>3. /\ begin \in 0 .. n - 1 /\ end \in 0 .. n - 1 /\ g \in Nat /\ p \in Nat /\ begin + p + g = end
      /\ cur \in Int /\ k[end - g] = cur
      /\ \A x \in begin .. begin + p - 1 : k[x] <= cur
      /\ \A x \in end - g + 1 .. end : cur <= k[x]
  <2>1. /\ begin \in 0 .. n - 1 /\ end \in 0 .. n - 1 /\ g \in Nat /\ p \in Nat /\ cur \in Int
    BY <1>1, <1>2 DEF InDivision, PartRecords
  <2>2. begin + p + 0 + g = end
    BY <1>1 DEF InDivision
  <2>3. begin + p + g = end
    BY <2>1, <2>2
  <2>4. k[end - g] = cur
    BY <1>1, <1>2 DEF InDivision
  <2>5. \A x \in begin .. begin + p - 1 : k[x] <= cur
    BY <1>1, <1>2 DEF InDivision
  <2>6. \A x \in end - g + 1 .. end : cur <= k[x]
    BY <1>1, <1>2 DEF InDivision
  <2> QED BY <2>1, <2>3, <2>4, <2>5, <2>6
<1>4. PICK u, v : u = <<end - (g - 1), end>> /\ v = <<begin, begin + p - 1>>
  OBVIOUS
<1>5. begin \in Int /\ end \in Int /\ 0 <= begin /\ end <= n - 1
  BY <1>3
<1>6. /\ g > 1 => u \in Intervals(n) /\ begin <= u[1] /\ u[2] <= end
      /\ p > 1 => v \in Intervals(n) /\ begin <= v[1] /\ v[2] <= end
      /\ Before(u, v)
  <2>1. u[1] = end - (g - 1) /\ u[2] = end /\ v[1] = begin /\ v[2] = begin + p - 1
    BY <1>4
  <2>2. g > 1 => end - (g - 1) \in 0 .. n - 1 /\ end - (g - 1) <= end /\ begin <= end - (g - 1)
    BY <1>3, <1>5
  <2>3. p > 1 => begin + p - 1 \in 0 .. n - 1 /\ begin <= begin + p - 1 /\ begin + p - 1 <= end
    BY <1>3, <1>5
  <2>4. g > 1 => u \in Intervals(n)
    BY <1>3, <1>4, <2>1, <2>2 DEF Intervals
  <2>5. p > 1 => v \in Intervals(n)
    BY <1>3, <1>4, <2>1, <2>3 DEF Intervals
  <2>6. begin + p - 1 < end - (g - 1)
    BY <1>3, <1>5
  <2>7. Before(u, v)
    BY <2>1, <2>6 DEF Before
  <2>8. g > 1 => begin <= u[1] /\ u[2] <= end
    BY <1>5, <2>1, <2>2
  <2>9. p > 1 => begin <= v[1] /\ v[2] <= end
    BY <1>5, <2>1, <2>3
  <2> QED BY <2>4, <2>5, <2>7, <2>8, <2>9
<1>7. w = (IF g > 1 THEN <<u>> ELSE << >>) \o (IF p > 1 THEN <<v>> ELSE << >>)
  BY <1>1, <1>4 DEF Sides
<1>8. /\ Inside(n, w, <<begin, end>>)
      /\ g > 1 => \E i \in 1 .. Len(w) : w[i] = u
      /\ p > 1 => \E i \in 1 .. Len(w) : w[i] = v
  <2>1. PICK T : T = Intervals(n)
    OBVIOUS
  <2>2. CASE g > 1 /\ p > 1
    <3>0. w = <<u>> \o <<v>>
      BY <1>7, <2>2, Zenon
    <3>1. w = <<u, v>> /\ u \in T /\ v \in T
      BY <1>6, <2>1, <2>2, <3>0, ShortSequences
    <3>2. w \in Seq(T) /\ Len(w) = 2 /\ w[1] = u /\ w[2] = v
      BY <3>1, ShortSequences
    <3>3. \A i \in 1 .. Len(w) : i = 1 \/ i = 2
      BY <3>2
    <3>4. AllApart(w)
      <4> SUFFICES ASSUME NEW i \in 1 .. Len(w), NEW j \in 1 .. Len(w), i < j PROVE Before(w[i], w[j])
        BY DEF AllApart
      <4>1. i = 1 /\ j = 2
        BY <3>3
      <4> QED BY <1>6, <3>2, <4>1
    <3>5. \A i \in 1 .. Len(w) : begin <= w[i][1] /\ w[i][2] <= end
      BY <1>6, <2>2, <3>2, <3>3
    <3>6. 1 \in 1 .. Len(w) /\ 2 \in 1 .. Len(w)
      BY <3>2
    <3> QED BY <2>1, <3>2, <3>4, <3>5, <3>6 DEF Inside
  <2>3. ASSUME NEW x, x \in T, begin <= x[1], x[2] <= end, w = <<x>>
        PROVE  Inside(n, w, <<begin, end>>) /\ \E i \in 1 .. Len(w) : w[i] = x
    <3>1. w \in Seq(T) /\ Len(w) = 1 /\ w[1] = x
      BY <2>3
    <3>2. \A i \in 1 .. Len(w) : i = 1
      BY <3>1
    <3>3. AllApart(w)
      BY <3>2 DEF AllApart
    <3>4. \A i \in 1 .. Len(w) : begin <= w[i][1] /\ w[i][2] <= end
      BY <2>3, <3>1, <3>2
    <3>5. 1 \in 1 .. Len(w)
      BY <3>1
    <3> QED BY <2>1, <3>1, <3>3, <3>4, <3>5 DEF Inside
  <2>4. CASE g > 1 /\ ~(p > 1)
    <3>0. w = <<u>> \o << >>
      BY <1>7, <2>4, Zenon
    <3>1. w = <<u>>
      BY <3>0, ShortSequences
    <3> QED BY <1>6, <2>1, <2>3, <2>4, <3>1
  <2>5. CASE ~(g > 1) /\ p > 1
    <3>0. w = << >> \o <<v>>
      BY <1>7, <2>5, Zenon
    <3>1. w = <<v>>
      BY <3>0, ShortSequences
    <3> QED BY <1>6, <2>1, <2>3, <2>5, <3>1
  <2>6. CASE ~(g > 1) /\ ~(p > 1)
    <3>0. w = << >> \o << >>
      BY <1>7, <2>6, Zenon
    <3>1. w = << >>
      BY <3>0, ShortSequences
    <3>2. w \in Seq(T) /\ 1 .. Len(w) = {}
      BY <3>1
    <3> QED BY <2>1, <2>6, <3>2 DEF Inside, AllApart
  <2> QED BY <2>2, <2>4, <2>5, <2>6
<1>9. ASSUME NEW x \in begin .. end, NEW y \in begin .. end, x < y,
             \A i \in 1 .. Len(w) : ~Covers(w[i], x, y)
      PROVE  k[x] <= k[y]
  <2>1. x \in Int /\ y \in Int /\ k[x] \in Int /\ k[y] \in Int
    <3>1. x \in 0 .. n - 1 /\ y \in 0 .. n - 1
      BY <1>5
    <3> QED BY <3>1
  <2>2. begin + p = end - g
    BY <1>3, <1>5
  <2>3. CASE y < end - g
    <3>0. p > 1 /\ begin <= x /\ y <= begin + p - 1
      BY <1>3, <1>5, <1>9, <2>1, <2>2, <2>3
    <3>1. p > 1 /\ Covers(v, x, y)
      BY <1>4, <3>0 DEF Covers
    <3> QED BY <1>8, <1>9, <3>1
  <2>4. CASE end - g < x
    <3>0. g > 1 /\ end - (g - 1) <= x /\ y <= end
      BY <1>3, <1>5, <1>9, <2>1, <2>2, <2>4
    <3>1. g > 1 /\ Covers(u, x, y)
      BY <1>4, <3>0 DEF Covers
    <3> QED BY <1>8, <1>9, <3>1
  <2>5. CASE x <= end - g /\ end - g <= y
    <3>1. k[x] <= cur
      <4>1. CASE x = end - g
        BY <1>3, <4>1
      <4>2. CASE x # end - g
        <5>1. x \in begin .. begin + p - 1
          BY <1>3, <1>5, <2>1, <2>2, <2>5, <4>2
        <5> QED BY <1>3, <5>1
      <4> QED BY <4>1, <4>2
    <3>2. cur <= k[y]
      <4>1. CASE y = end - g
        BY <1>3, <4>1
      <4>2. CASE y # end - g
        <5>1. y \in end - g + 1 .. end
          BY <1>3, <1>5, <2>1, <2>2, <2>5, <4>2
        <5> QED BY <1>3, <5>1
      <4> QED BY <4>1, <4>2
    <3> QED BY <1>3, <2>1, <3>1, <3>2
  <2> QED BY <1>3, <1>5, <2>1, <2>3, <2>4, <2>5
<1>10. InOrderBetween(k, w, begin, end)
  BY <1>9 DEF InOrderBetween
<1> QED BY <1>1, <1>8, <1>10
-----------------------------------------------------------------------------
(* A round of a division: where each record comes from. *)

\* The plan of a round: q is the place of the first record not looked at, t the place
\* of the pivot, m the number of records that are read.
Planned(o, n, q, t, m) ==
  /\ n \in Nat /\ q \in Nat /\ t \in 0 .. n - 1 /\ m \in Nat /\ m > 0 /\ q + m <= t
  /\ o.split \in Splits(m) /\ Len(o.split.grands) + Len(o.split.petits) = m
  /\ \A x \in 1 .. m : \/ \E i \in 1 .. Len(o.split.grands) : o.split.grands[i] = x
                       \/ \E i \in 1 .. Len(o.split.petits) : o.split.petits[i] = x
  /\ o.toRead = m /\ o.readAt = t - m
  /\ o.grandsAt = t - Len(o.split.grands) + 1 /\ o.pivotAt = t - Len(o.split.grands)
  /\ o.petitsAt = q
  /\ o.kept = Lesser(t - m - q, Len(o.split.petits))
  /\ o.keptAt = IF t - m - q < Len(o.split.petits) THEN q + Len(o.split.petits) ELSE t - m

\* The place that the record at p has been at before the round.
Source(o, t, p) ==
  IF p = o.pivotAt THEN t
  ELSE IF p \in o.keptAt .. o.keptAt + o.kept - 1 THEN o.petitsAt + (p - o.keptAt)
  ELSE IF p \in o.petitsAt .. o.petitsAt + Len(o.split.petits) - 1
    THEN o.readAt + o.split.petits[p - o.petitsAt + 1] - 1
  ELSE IF p \in o.grandsAt .. o.grandsAt + Len(o.split.grands) - 1
    THEN o.readAt + o.split.grands[p - o.grandsAt + 1] - 1
  ELSE p

\* The numbers of a plan.
PlanNumbers(o, n, q, t, m, ng, np) ==
  /\ n \in Nat /\ q \in Nat /\ t \in Nat /\ t < n /\ m \in Nat /\ m > 0 /\ q + m <= t
  /\ ng \in Nat /\ np \in Nat /\ ng + np = m
  /\ o.toRead = m /\ o.readAt = t - m /\ o.grandsAt = t - ng + 1 /\ o.pivotAt = t - ng
  /\ o.petitsAt = q /\ o.kept \in Nat /\ o.kept <= t - m - q /\ o.kept <= np
  /\ o.keptAt \in Int /\ q + np <= o.keptAt /\ t - m <= o.keptAt /\ o.keptAt + o.kept <= t - ng
  /\ \/ o.kept = t - m - q /\ o.keptAt = q + np
     \/ o.kept = np /\ o.keptAt = t - m

LEMMA NumbersOfPlan ==
  ASSUME NEW o, NEW n, NEW q, NEW t, NEW m, Planned(o, n, q, t, m),
         NEW g, g = o.split.grands, NEW p, p = o.split.petits
  PROVE  /\ PlanNumbers(o, n, q, t, m, Len(g), Len(p))
         /\ g \in Seq(1 .. m) /\ p \in Seq(1 .. m)
<1>1. g \in Seq(1 .. m) /\ p \in Seq(1 .. m)
  BY DEF Planned, Splits
<1>2. PICK ng, np : ng = Len(g) /\ np = Len(p)
  OBVIOUS
<1>3. ng \in Nat /\ np \in Nat
  BY <1>1, <1>2
<1>4. /\ n \in Nat /\ q \in Nat /\ t \in Nat /\ t < n /\ m \in Nat /\ m > 0 /\ q + m <= t
      /\ ng + np = m
      /\ o.toRead = m /\ o.readAt = t - m /\ o.grandsAt = t - ng + 1 /\ o.pivotAt = t - ng
      /\ o.petitsAt = q
  <2>1. n \in Nat /\ q \in Nat /\ t \in 0 .. n - 1 /\ m \in Nat /\ m > 0 /\ q + m <= t
    BY DEF Planned
  <2>2. Len(g) + Len(p) = m
    BY DEF Planned
  <2>3. /\ o.toRead = m /\ o.readAt = t - m /\ o.grandsAt = t - Len(g) + 1 /\ o.pivotAt = t - Len(g)
        /\ o.petitsAt = q
    BY DEF Planned
  <2>4. t \in Nat /\ t < n
    BY <2>1
  <2> QED BY <1>2, <2>1, <2>2, <2>3, <2>4
<1>5. o.kept = (IF t - m - q < np THEN t - m - q ELSE np) /\ o.keptAt = IF t - m - q < np THEN q + np ELSE t - m
  BY <1>2 DEF Planned, Lesser
<1>6. PlanNumbers(o, n, q, t, m, ng, np)
  <2>1. CASE t - m - q < np
    <3>1. o.kept = t - m - q /\ o.keptAt = q + np
      BY <1>5, <2>1
    <3> QED BY <1>3, <1>4, <2>1, <3>1 DEF PlanNumbers
  <2>2. CASE ~(t - m - q < np)
    <3>1. o.kept = np /\ o.keptAt = t - m
      BY <1>5, <2>2
    <3> QED BY <1>3, <1>4, <2>2, <3>1 DEF PlanNumbers
  <2> QED BY <2>1, <2>2
<1> QED BY <1>1, <1>2, <1>6

LEMMA IndexFrom ==
  ASSUME NEW x \in Int, NEW a \in Int, NEW l \in Nat, x \in a .. a + l - 1
  PROVE  x - a + 1 \in 1 .. l
OBVIOUS

\* The file f with the len elements of s from a place on.
IsWritten(w, f, n, from, len, s) ==
  /\ DOMAIN w = 0 .. n - 1
  /\ \A p \in 0 .. n - 1 : w[p] = IF p \in from .. from + len - 1 THEN s[p - from + 1] ELSE f[p]

\* Writing a sequence of length len into a file of n elements.
LEMMA WriteIs ==
  ASSUME NEW n, NEW f, DOMAIN f = 0 .. n - 1, NEW from \in Int, NEW len \in Nat, NEW s, Len(s) = len,
         NEW w, w = Write(f, from, s)
  PROVE  IsWritten(w, f, n, from, len, s)
BY DEF Write, IsWritten

\* One file after a round: each place holds what was at its source.
Rearranged(w, f, n, o, t) ==
  /\ DOMAIN w = 0 .. n - 1 /\ w = [p \in 0 .. n - 1 |-> w[p]]
  /\ \A p \in 0 .. n - 1 : w[p] = f[Source(o, t, p)]

LEMMA AfterRoundIs ==
  ASSUME NEW o, NEW n, NEW q, NEW t, NEW m, Planned(o, n, q, t, m),
         NEW f, DOMAIN f = 0 .. n - 1, NEW w, w = AfterRound(f, o, f[t])
  PROVE  Rearranged(w, f, n, o, t)
<1>1. PICK g, p : g = o.split.grands /\ p = o.split.petits
  OBVIOUS
<1>2. PICK ng, np : ng = Len(g) /\ np = Len(p)
  OBVIOUS
<1>3. PlanNumbers(o, n, q, t, m, ng, np) /\ g \in Seq(1 .. m) /\ p \in Seq(1 .. m)
  BY <1>1, <1>2, NumbersOfPlan
<1>4. /\ n \in Nat /\ q \in Nat /\ t \in Nat /\ t < n /\ m \in Nat /\ m > 0 /\ q + m <= t
      /\ ng \in Nat /\ np \in Nat /\ ng + np = m
      /\ o.toRead = m /\ o.readAt = t - m /\ o.grandsAt = t - ng + 1 /\ o.pivotAt = t - ng
      /\ o.petitsAt = q /\ o.kept \in Nat /\ o.kept <= t - m - q
      /\ o.keptAt \in Int
  BY <1>3 DEF PlanNumbers
<1>5. PICK buf : buf = Read(f, o.readAt, o.toRead)
  OBVIOUS
<1>6. \A i \in 1 .. m : buf[i] = f[o.readAt + i - 1]
  BY <1>4, <1>5 DEF Read
<1>7. PICK gs, ps : gs = [i \in DOMAIN g |-> buf[g[i]]] /\ ps = [i \in DOMAIN p |-> buf[p[i]]]
  OBVIOUS
<1>8. DOMAIN g = 1 .. ng /\ DOMAIN p = 1 .. np
  BY <1>2, <1>3
<1>9. gs = [i \in 1 .. ng |-> buf[g[i]]] /\ ps = [i \in 1 .. np |-> buf[p[i]]]
  BY <1>7, <1>8
<1>10. Len(gs) = ng /\ Len(ps) = np
  BY <1>4, <1>9
<1>11. /\ \A i \in 1 .. ng : gs[i] = f[o.readAt + g[i] - 1]
       /\ \A i \in 1 .. np : ps[i] = f[o.readAt + p[i] - 1]
  <2>1. /\ \A i \in 1 .. ng : g[i] \in 1 .. m
        /\ \A i \in 1 .. np : p[i] \in 1 .. m
    BY <1>2, <1>3, ElementOfSeq
  <2> QED BY <1>6, <1>9, <2>1
<1>12. PICK f1 : f1 = Write(f, o.grandsAt, gs)
  OBVIOUS
<1>13. /\ DOMAIN f1 = 0 .. n - 1
       /\ \A x \in 0 .. n - 1 : f1[x] =
            IF x \in o.grandsAt .. o.grandsAt + ng - 1 THEN gs[x - o.grandsAt + 1] ELSE f[x]
  <2>1. o.grandsAt \in Int
    BY <1>4
  <2>2. IsWritten(f1, f, n, o.grandsAt, ng, gs)
    BY <1>4, <1>10, <1>12, <2>1, WriteIs
  <2> QED BY <2>2 DEF IsWritten
<1>14. PICK kept : kept = Read(f1, o.petitsAt, o.kept)
  OBVIOUS
<1>15. kept = [i \in 1 .. o.kept |-> f1[o.petitsAt + i - 1]] /\ Len(kept) = o.kept
  BY <1>4, <1>14 DEF Read
<1>16. \A i \in 1 .. o.kept : kept[i] = f[o.petitsAt + i - 1]
  <2> TAKE i \in 1 .. o.kept
  <2>1. PICK x : x = o.petitsAt + i - 1
    OBVIOUS
  <2>2. x \in 0 .. n - 1 /\ x < o.grandsAt
    BY <1>4, <2>1
  <2>3. f1[x] = f[x]
    BY <1>4, <1>13, <2>2
  <2> QED BY <1>15, <2>1, <2>3
<1>17. PICK f2 : f2 = Write(f1, o.petitsAt, ps)
  OBVIOUS
<1>18. /\ DOMAIN f2 = 0 .. n - 1
       /\ \A x \in 0 .. n - 1 : f2[x] =
            IF x \in o.petitsAt .. o.petitsAt + np - 1 THEN ps[x - o.petitsAt + 1] ELSE f1[x]
  <2>1. o.petitsAt \in Int
    BY <1>4
  <2>2. IsWritten(f2, f1, n, o.petitsAt, np, ps)
    BY <1>4, <1>10, <1>13, <1>17, <2>1, WriteIs
  <2> QED BY <2>2 DEF IsWritten
<1>19. PICK f3 : f3 = Write(f2, o.keptAt, kept)
  OBVIOUS
<1>20. /\ DOMAIN f3 = 0 .. n - 1
       /\ \A x \in 0 .. n - 1 : f3[x] =
            IF x \in o.keptAt .. o.keptAt + o.kept - 1 THEN kept[x - o.keptAt + 1] ELSE f2[x]
  <2>1. IsWritten(f3, f2, n, o.keptAt, o.kept, kept)
    BY <1>4, <1>15, <1>18, <1>19, WriteIs
  <2> QED BY <2>1 DEF IsWritten
<1>21. PICK f4 : f4 = [f3 EXCEPT ![o.pivotAt] = f[t]]
  OBVIOUS
<1>22. f4 = [x \in 0 .. n - 1 |-> IF x = o.pivotAt THEN f[t] ELSE f3[x]]
  BY <1>20, <1>21
<1>23. AfterRound(f, o, f[t]) = f4
  BY <1>1, <1>5, <1>7, <1>12, <1>14, <1>17, <1>19, <1>21 DEF AfterRound, Moved
<1>24. ASSUME NEW x \in 0 .. n - 1 PROVE f4[x] = f[Source(o, t, x)]
  <2>0. x \in Int
    OBVIOUS
  <2>1. CASE x = o.pivotAt
    <3>1. Source(o, t, x) = t
      BY <2>1 DEF Source
    <3> QED BY <1>22, <2>1, <3>1
  <2>2. CASE x # o.pivotAt /\ x \in o.keptAt .. o.keptAt + o.kept - 1
    <3>1. Source(o, t, x) = o.petitsAt + (x - o.keptAt)
      BY <2>2 DEF Source
    <3>2. f4[x] = kept[x - o.keptAt + 1]
      BY <1>20, <1>22, <2>2
    <3>3. x - o.keptAt + 1 \in 1 .. o.kept /\ o.petitsAt + (x - o.keptAt + 1) - 1 = o.petitsAt + (x - o.keptAt)
      <4>1. x - o.keptAt + 1 \in 1 .. o.kept
        <5>1. PICK a, l : a = o.keptAt /\ l = o.kept
          OBVIOUS
        <5>2. a \in Int /\ l \in Nat /\ x \in Int /\ x \in a .. a + l - 1
          BY <1>4, <2>0, <2>2, <5>1
        <5> QED BY <5>1, <5>2, IndexFrom
      <4>2. q + (x - o.keptAt + 1) - 1 = q + (x - o.keptAt)
        BY <1>4, <2>0
      <4> QED BY <1>4, <4>1, <4>2
    <3>4. kept[x - o.keptAt + 1] = f[o.petitsAt + (x - o.keptAt + 1) - 1]
      BY <1>16, <3>3
    <3> QED BY <3>1, <3>2, <3>3, <3>4
  <2>3. CASE /\ x # o.pivotAt /\ x \notin o.keptAt .. o.keptAt + o.kept - 1
             /\ x \in o.petitsAt .. o.petitsAt + np - 1
    <3>1. Source(o, t, x) = o.readAt + p[x - o.petitsAt + 1] - 1
      BY <1>1, <1>2, <2>3 DEF Source
    <3>2. f4[x] = ps[x - o.petitsAt + 1]
      BY <1>18, <1>20, <1>22, <2>3
    <3>3. x - o.petitsAt + 1 \in 1 .. np
      BY <1>4, <2>0, <2>3
    <3> QED BY <1>11, <3>1, <3>2, <3>3
  <2>4. CASE /\ x # o.pivotAt /\ x \notin o.keptAt .. o.keptAt + o.kept - 1
             /\ x \notin o.petitsAt .. o.petitsAt + np - 1
             /\ x \in o.grandsAt .. o.grandsAt + ng - 1
    <3>1. Source(o, t, x) = o.readAt + g[x - o.grandsAt + 1] - 1
      BY <1>1, <1>2, <2>4 DEF Source
    <3>2. f4[x] = gs[x - o.grandsAt + 1]
      BY <1>13, <1>18, <1>20, <1>22, <2>4
    <3>3. x - o.grandsAt + 1 \in 1 .. ng
      BY <1>4, <2>0, <2>4
    <3> QED BY <1>11, <3>1, <3>2, <3>3
  <2>5. CASE /\ x # o.pivotAt /\ x \notin o.keptAt .. o.keptAt + o.kept - 1
             /\ x \notin o.petitsAt .. o.petitsAt + np - 1
             /\ x \notin o.grandsAt .. o.grandsAt + ng - 1
    <3>1. Source(o, t, x) = x
      BY <1>1, <1>2, <2>5 DEF Source
    <3> QED BY <1>13, <1>18, <1>20, <1>22, <2>5, <3>1
  <2> QED BY <2>1, <2>2, <2>3, <2>4, <2>5
<1>25. DOMAIN f4 = 0 .. n - 1 /\ f4 = [x \in 0 .. n - 1 |-> f4[x]]
  BY <1>22
<1> QED BY <1>23, <1>24, <1>25 DEF Rearranged

\* The sources are places of the round, each of them is one, and the records that have
\* been read come to their sides.
Sources(o, q, t, m, g, p) ==
  /\ \A x \in q .. t : Source(o, t, x) \in q .. t
  /\ \A x \in Int : x \notin q .. t => Source(o, t, x) = x
  /\ \A y \in q .. t : \E x \in q .. t : Source(o, t, x) = y
  /\ Source(o, t, t - Len(g)) = t
  /\ \A x \in q .. q + Len(p) - 1 : \E i \in 1 .. Len(p) : Source(o, t, x) = t - m + p[i] - 1
  /\ \A x \in t - Len(g) + 1 .. t : \E i \in 1 .. Len(g) : Source(o, t, x) = t - m + g[i] - 1

LEMMA SourceIs ==
  ASSUME NEW o, NEW n, NEW q, NEW t, NEW m, Planned(o, n, q, t, m),
         NEW g, g = o.split.grands, NEW p, p = o.split.petits
  PROVE  Sources(o, q, t, m, g, p)
<1>1. PICK ng, np : ng = Len(g) /\ np = Len(p)
  OBVIOUS
<1>2. PICK kAt, kept : kAt = o.keptAt /\ kept = o.kept
  OBVIOUS
<1>3. PlanNumbers(o, n, q, t, m, ng, np) /\ g \in Seq(1 .. m) /\ p \in Seq(1 .. m)
  BY <1>1, NumbersOfPlan
<1>4. /\ n \in Nat /\ q \in Nat /\ t \in Nat /\ t < n /\ m \in Nat /\ m > 0 /\ q + m <= t
      /\ ng \in Nat /\ np \in Nat /\ ng + np = m
      /\ kept \in Nat /\ kept <= t - m - q /\ kept <= np
      /\ kAt \in Int /\ q + np <= kAt /\ t - m <= kAt /\ kAt + kept <= t - ng
      /\ \/ kept = t - m - q /\ kAt = q + np
         \/ kept = np /\ kAt = t - m
  BY <1>2, <1>3 DEF PlanNumbers
<1>5. \A x : Source(o, t, x) =
        IF x = t - ng THEN t
        ELSE IF x \in kAt .. kAt + kept - 1 THEN q + (x - kAt)
        ELSE IF x \in q .. q + np - 1 THEN t - m + p[x - q + 1] - 1
        ELSE IF x \in t - ng + 1 .. t - ng + 1 + ng - 1 THEN t - m + g[x - (t - ng + 1) + 1] - 1
        ELSE x
  BY <1>1, <1>2, <1>3 DEF Source, PlanNumbers
<1>6. t - ng + 1 + ng - 1 = t
  BY <1>4
<1>7. /\ \A i \in 1 .. ng : g[i] \in 1 .. m
      /\ \A i \in 1 .. np : p[i] \in 1 .. m
  BY <1>1, <1>3, ElementOfSeq
<1>8. Source(o, t, t - ng) = t /\ t - ng \in q .. t
  BY <1>4, <1>5
<1>9. ASSUME NEW x \in kAt .. kAt + kept - 1 PROVE Source(o, t, x) = q + (x - kAt)
  <2>1. x # t - ng
    BY <1>4
  <2> QED BY <1>5, <2>1
<1>10. ASSUME NEW x \in q .. q + np - 1
       PROVE  x - q + 1 \in 1 .. np /\ Source(o, t, x) = t - m + p[x - q + 1] - 1 /\ x \in q .. t
  <2>1. x # t - ng /\ x \notin kAt .. kAt + kept - 1 /\ x - q + 1 \in 1 .. np /\ x \in q .. t
    BY <1>4
  <2> QED BY <1>5, <2>1
<1>11. ASSUME NEW x \in t - ng + 1 .. t
       PROVE  /\ x - (t - ng + 1) + 1 \in 1 .. ng /\ x \in q .. t
              /\ Source(o, t, x) = t - m + g[x - (t - ng + 1) + 1] - 1
  <2>1. x # t - ng /\ x \notin kAt .. kAt + kept - 1 /\ x \notin q .. q + np - 1 /\ x \in q .. t
    BY <1>4
  <2>2. x - (t - ng + 1) + 1 \in 1 .. ng
    BY <1>4
  <2> QED BY <1>5, <1>6, <2>1, <2>2
<1>12. ASSUME NEW x \in Int, x # t - ng, x \notin kAt .. kAt + kept - 1, x \notin q .. q + np - 1,
              x \notin t - ng + 1 .. t
       PROVE  Source(o, t, x) = x
  BY <1>5, <1>6, <1>12
<1>13. ASSUME NEW x \in q .. t PROVE Source(o, t, x) \in q .. t
  <2>1. CASE x = t - ng
    BY <1>4, <1>8, <2>1
  <2>2. CASE x \in kAt .. kAt + kept - 1
    <3>1. q + (x - kAt) \in q .. t
      BY <1>4, <2>2
    <3> QED BY <1>9, <2>2, <3>1
  <2>3. CASE x \in q .. q + np - 1
    <3>1. PICK v : v = p[x - q + 1]
      OBVIOUS
    <3>2. v \in 1 .. m
      BY <1>7, <1>10, <2>3, <3>1
    <3>3. t - m + v - 1 \in q .. t
      BY <1>4, <3>2
    <3> QED BY <1>10, <2>3, <3>1, <3>3
  <2>4. CASE x \in t - ng + 1 .. t
    <3>1. PICK v : v = g[x - (t - ng + 1) + 1]
      OBVIOUS
    <3>2. v \in 1 .. m
      BY <1>7, <1>11, <2>4, <3>1
    <3>3. t - m + v - 1 \in q .. t
      BY <1>4, <3>2
    <3> QED BY <1>11, <2>4, <3>1, <3>3
  <2> QED BY <1>12, <2>1, <2>2, <2>3, <2>4
<1>14. ASSUME NEW x \in Int, x \notin q .. t PROVE Source(o, t, x) = x
  <2>1. /\ x # t - ng /\ x \notin kAt .. kAt + kept - 1 /\ x \notin q .. q + np - 1
        /\ x \notin t - ng + 1 .. t
    BY <1>4, <1>14
  <2> QED BY <1>12, <2>1
<1>15. ASSUME NEW y \in q .. t PROVE \E x \in q .. t : Source(o, t, x) = y
  <2>1. CASE y = t
    BY <1>8, <2>1
  <2>2. CASE t - m <= y /\ y # t
    <3>1. PICK v : v = y - (t - m) + 1
      OBVIOUS
    <3>2. v \in 1 .. m /\ t - m + v - 1 = y
      BY <1>4, <2>2, <3>1
    <3>3. \/ \E i \in 1 .. ng : g[i] = v
          \/ \E i \in 1 .. np : p[i] = v
      BY <1>1, <3>2 DEF Planned
    <3>4. CASE \E i \in 1 .. ng : g[i] = v
      <4>1. PICK i \in 1 .. ng : g[i] = v
        BY <3>4
      <4>2. PICK x : x = t - ng + 1 + i - 1
        OBVIOUS
      <4>3. x \in t - ng + 1 .. t /\ x - (t - ng + 1) + 1 = i
        BY <1>4, <4>2
      <4> QED BY <1>11, <3>2, <4>1, <4>3
    <3>5. CASE \E i \in 1 .. np : p[i] = v
      <4>1. PICK i \in 1 .. np : p[i] = v
        BY <3>5
      <4>2. PICK x : x = q + i - 1
        OBVIOUS
      <4>3. x \in q .. q + np - 1 /\ x - q + 1 = i
        BY <1>4, <4>2
      <4> QED BY <1>10, <3>2, <4>1, <4>3
    <3> QED BY <3>3, <3>4, <3>5
  <2>3. CASE y < t - m /\ y < q + kept
    <3>1. PICK x : x = kAt + (y - q)
      OBVIOUS
    <3>2. x \in kAt .. kAt + kept - 1 /\ q + (x - kAt) = y /\ x \in q .. t
      BY <1>4, <2>3, <3>1
    <3> QED BY <1>9, <3>2
  <2>4. CASE y < t - m /\ ~(y < q + kept)
    <3>1. kept = np /\ kAt = t - m
      BY <1>4, <2>4
    <3>2. /\ y # t - ng /\ y \notin kAt .. kAt + kept - 1 /\ y \notin q .. q + np - 1
          /\ y \notin t - ng + 1 .. t /\ y \in Int
      BY <1>4, <2>4, <3>1
    <3> QED BY <1>12, <3>2
  <2>5. y \in Int /\ t - m \in Int /\ q + kept \in Int
    BY <1>4
  <2> QED BY <1>4, <2>1, <2>2, <2>3, <2>4, <2>5
<1>16. ASSUME NEW x \in q .. q + np - 1 PROVE \E i \in 1 .. np : Source(o, t, x) = t - m + p[i] - 1
  BY <1>10
<1>17. ASSUME NEW x \in t - ng + 1 .. t PROVE \E i \in 1 .. ng : Source(o, t, x) = t - m + g[i] - 1
  BY <1>11
<1> QED BY <1>1, <1>8, <1>13, <1>14, <1>15, <1>16, <1>17 DEF Sources

\* What a round reads and where it writes, and the division after it.
RoundPlan(pt, k, size) ==
  LET toRead == Lesser(size, pt.autres)
      readAt == pt.end - (toRead + pt.plusGrands)
      split == Split(Read(k, readAt, toRead), pt.curKey)
      ng == Len(split.grands)
      np == Len(split.petits)
      autres == pt.autres - toRead
      plusGrands == pt.plusGrands + ng
      petitsAt == pt.begin + pt.plusPetits
      few == autres < np
  IN [toRead |-> toRead, readAt |-> readAt, split |-> split,
      grandsAt |-> pt.end - (plusGrands - 1), petitsAt |-> petitsAt,
      kept |-> IF few THEN autres ELSE np,
      keptAt |-> IF few THEN petitsAt + np ELSE pt.end - (plusGrands + np),
      pivotAt |-> pt.end - plusGrands]
RoundPart(pt, o) ==
  [pt EXCEPT !.autres = @ - o.toRead, !.plusGrands = @ + Len(o.split.grands),
             !.plusPetits = @ + Len(o.split.petits)]

\* Where the parts of a division end.
Places(pt, n, q, t) ==
  /\ n \in Nat /\ q = pt.begin + pt.plusPetits /\ t = pt.end - pt.plusGrands
  /\ pt.autres = t - q /\ q \in Nat /\ t \in 0 .. n - 1 /\ q <= t /\ t \in Int /\ pt.curKey \in Int
  /\ pt.begin \in Nat /\ pt.begin <= q /\ pt.end \in 0 .. n - 1 /\ t <= pt.end /\ pt.end \in Int
  /\ pt.plusGrands \in Nat /\ pt.plusPetits \in Nat /\ pt.autres \in Nat

LEMMA PlacesOfDivision ==
  ASSUME NEW n \in Nat, NEW pt, NEW k, NEW it, InDivision(pt, n, k, it),
         NEW q, q = pt.begin + pt.plusPetits, NEW t, t = pt.end - pt.plusGrands
  PROVE  Places(pt, n, q, t)
<1>1. PICK b, e, a, g, p : b = pt.begin /\ e = pt.end /\ a = pt.autres /\ g = pt.plusGrands /\ p = pt.plusPetits
  OBVIOUS
<1>2. /\ b \in 0 .. n - 1 /\ e \in 0 .. n - 1 /\ a \in Nat /\ g \in Nat /\ p \in Nat /\ pt.curKey \in Int
  BY <1>1 DEF InDivision, PartRecords
<1>3. b + p + a + g = e
  BY <1>1 DEF InDivision
<1>4. q = b + p /\ t = e - g
  BY <1>1
<1>5. a = t - q /\ q \in Nat /\ t \in 0 .. n - 1 /\ q <= t /\ t \in Int /\ b \in Nat /\ b <= q /\ t <= e /\ e \in Int
  BY <1>2, <1>3, <1>4
<1> QED BY <1>1, <1>2, <1>4, <1>5 DEF Places

\* The places that are read.
LEMMA ReadInside ==
  ASSUME NEW n \in Nat, NEW q \in Nat, NEW t \in Nat, NEW m \in Nat, NEW i \in Nat,
         t < n, 1 <= i, i <= m, q + m <= t
  PROVE  t - m + i - 1 \in 0 .. n - 1
OBVIOUS

\* The plan of a round is one.
LEMMA RoundIsPlanned ==
  ASSUME NEW n, NEW pt, NEW q, NEW t, Places(pt, n, q, t), pt.autres > 0,
         NEW k \in [0 .. n - 1 -> Int], NEW size \in Nat \ {0},
         NEW o, o = RoundPlan(pt, k, size), NEW m, m = Lesser(size, pt.autres)
  PROVE  /\ Planned(o, n, q, t, m) /\ IsSplit(o.split, Read(k, t - m, m), pt.curKey, 0, m)
<1>1. PICK e, g : e = pt.end /\ g = pt.plusGrands
  OBVIOUS
<1>2. /\ n \in Nat /\ q \in Nat /\ t \in Int /\ e \in Int /\ g \in Nat /\ t = e - g /\ pt.autres = t - q
      /\ q = pt.begin + pt.plusPetits /\ t \in 0 .. n - 1 /\ pt.curKey \in Int /\ pt.autres \in Nat
  BY <1>1 DEF Places
<1>3. m \in Nat /\ m > 0 /\ m <= pt.autres
  BY <1>2 DEF Lesser
<1>4. q + m <= t
  BY <1>2, <1>3
<1>5. PICK s : s = o.split
  OBVIOUS
<1>6. PICK ng, np : ng = Len(s.grands) /\ np = Len(s.petits)
  OBVIOUS
<1>7. e - (m + g) = t - m
  BY <1>2, <1>3
<1>8. /\ s = Split(Read(k, e - (m + g), m), pt.curKey)
      /\ o.toRead = m /\ o.readAt = e - (m + g)
      /\ o.grandsAt = e - ((g + ng) - 1) /\ o.petitsAt = q
      /\ o.kept = (IF pt.autres - m < np THEN pt.autres - m ELSE np)
      /\ o.keptAt = (IF pt.autres - m < np THEN q + np ELSE e - (g + ng + np))
      /\ o.pivotAt = e - (g + ng)
  <2>1. PICK at, sp, au : at = e - (m + g) /\ sp = Split(Read(k, at, m), pt.curKey) /\ au = pt.autres - m
    OBVIOUS
  <2>2. PICK a, b, c, d, f : /\ a = e - ((g + Len(sp.grands)) - 1)
                             /\ b = (IF au < Len(sp.petits) THEN au ELSE Len(sp.petits))
                             /\ c = (IF au < Len(sp.petits) THEN q + Len(sp.petits) ELSE d)
                             /\ d = e - (g + Len(sp.grands) + Len(sp.petits))
                             /\ f = e - (g + Len(sp.grands))
    OBVIOUS
  <2>3. /\ o.toRead = m /\ o.readAt = at /\ o.split = sp
    BY <1>1, <2>1 DEF RoundPlan
  <2>4. o.grandsAt = a
    BY <1>1, <2>1, <2>2 DEF RoundPlan
  <2>5. o.petitsAt = q
    BY <1>2 DEF RoundPlan
  <2>6. o.kept = b
    BY <1>1, <2>1, <2>2 DEF RoundPlan
  <2>7. o.keptAt = c
    BY <1>1, <1>2, <2>1, <2>2 DEF RoundPlan
  <2>8. o.pivotAt = f
    BY <1>1, <2>1, <2>2 DEF RoundPlan
  <2> QED BY <1>5, <1>6, <2>1, <2>2, <2>3, <2>4, <2>5, <2>6, <2>7, <2>8
<1>9. PICK keys : keys = Read(k, t - m, m)
  OBVIOUS
<1>10. keys = [i \in 1 .. m |-> k[t - m + i - 1]]
  BY <1>9 DEF Read
<1>11. Len(keys) = m /\ \A i \in 1 .. m : keys[i] \in Int
  <2>1. Len(keys) = m
    BY <1>3, <1>10
  <2>2. ASSUME NEW i \in 1 .. m PROVE keys[i] \in Int
    <3>1. t \in Nat /\ t < n /\ i \in Nat /\ 1 <= i /\ i <= m
      BY <1>2, <1>3
    <3>2. t - m + i - 1 \in 0 .. n - 1
      BY <1>2, <1>3, <1>4, <3>1, ReadInside
    <3> QED BY <1>10, <3>2
  <2> QED BY <2>1, <2>2
<1>12. IsSplit(s, keys, pt.curKey, 0, m)
  <2>1. s = Split(keys, pt.curKey)
    BY <1>7, <1>8, <1>9
  <2> QED BY <1>2, <1>3, <1>11, <2>1, SplitIs
<1>13. /\ s \in Splits(m) /\ ng + np = m
       /\ \A x \in 1 .. m : \/ \E i \in 1 .. ng : s.grands[i] = x
                            \/ \E i \in 1 .. np : s.petits[i] = x
  <2>1. s \in Splits(m) /\ ng + np = m - 0
    BY <1>6, <1>12 DEF IsSplit
  <2>2. m - 0 = m /\ 0 + 1 = 1
    BY <1>3
  <2>3. \A x \in 0 + 1 .. m : \/ \E i \in 1 .. ng : s.grands[i] = x
                              \/ \E i \in 1 .. np : s.petits[i] = x
    BY <1>6, <1>12 DEF IsSplit
  <2> QED BY <2>1, <2>2, <2>3
<1>14. ng \in Nat /\ np \in Nat
  BY <1>6, <1>13 DEF Splits
<1>15. /\ o.grandsAt = t - ng + 1 /\ o.pivotAt = t - ng
       /\ o.kept = Lesser(t - m - q, np)
       /\ o.keptAt = IF t - m - q < np THEN q + np ELSE t - m
  <2>0. PICK au : au = pt.autres
    OBVIOUS
  <2>1. e \in Int /\ g \in Nat /\ t = e - g /\ au = t - q /\ t \in Int /\ q \in Nat
    BY <1>2, <2>0
  <2>2. e - ((g + ng) - 1) = t - ng + 1 /\ e - (g + ng) = t - ng
    BY <1>14, <2>1
  <2>3. e - (g + ng + np) = t - m
    BY <1>13, <1>14, <2>1
  <2>4. au - m = t - m - q
    BY <1>3, <2>1
  <2> QED BY <1>8, <2>0, <2>2, <2>3, <2>4 DEF Lesser
<1>16. Planned(o, n, q, t, m)
  <2>1. n \in Nat /\ q \in Nat /\ t \in 0 .. n - 1 /\ m \in Nat /\ m > 0 /\ q + m <= t
    BY <1>2, <1>3, <1>4
  <2>2. /\ s \in Splits(m) /\ Len(s.grands) + Len(s.petits) = m
        /\ \A x \in 1 .. m : \/ \E i \in 1 .. Len(s.grands) : s.grands[i] = x
                             \/ \E i \in 1 .. Len(s.petits) : s.petits[i] = x
    BY <1>6, <1>13
  <2>3. o.toRead = m /\ o.readAt = t - m /\ o.petitsAt = q
    BY <1>7, <1>8
  <2>4. /\ o.grandsAt = t - Len(s.grands) + 1 /\ o.pivotAt = t - Len(s.grands)
        /\ o.kept = Lesser(t - m - q, Len(s.petits))
        /\ o.keptAt = IF t - m - q < Len(s.petits) THEN q + Len(s.petits) ELSE t - m
    BY <1>6, <1>15
  <2> QED BY <1>5, <2>1, <2>2, <2>3, <2>4, Zenon DEF Planned
<1> QED BY <1>5, <1>9, <1>12, <1>16

\* A round moves the keys and the items together, within the part.
MovedBy(n, k, it, begin, end, k2, it2) ==
  /\ SameWithin(Both(k, it), Both(k2, it2), begin, end)
  /\ k2 = [p \in 0 .. n - 1 |-> k2[p]] /\ it2 = [p \in 0 .. n - 1 |-> it2[p]]

LEMMA RoundMoves ==
  ASSUME NEW n, NEW in, NEW k, NEW it, Paired(n, in, k, it),
         NEW pt, InDivision(pt, n, k, it), pt.autres > 0, NEW size \in Nat \ {0},
         NEW o, o = RoundPlan(pt, k, size),
         NEW k2, k2 = AfterRound(k, o, pt.curKey), NEW it2, it2 = AfterRound(it, o, pt.curItem)
  PROVE  MovedBy(n, k, it, pt.begin, pt.end, k2, it2) /\ InDivision(RoundPart(pt, o), n, k2, it2)
<1>1. n \in Nat /\ k \in [0 .. n - 1 -> Int] /\ it \in [0 .. n - 1 -> 0 .. n - 1]
  BY DEF Paired
<1>2. PICK q, t, m : q = pt.begin + pt.plusPetits /\ t = pt.end - pt.plusGrands /\ m = Lesser(size, pt.autres)
  OBVIOUS
<1>3. Places(pt, n, q, t)
  BY <1>1, <1>2, PlacesOfDivision
<1>4. Planned(o, n, q, t, m) /\ IsSplit(o.split, Read(k, t - m, m), pt.curKey, 0, m)
  BY <1>1, <1>2, <1>3, RoundIsPlanned
<1>5. k[t] = pt.curKey /\ it[t] = pt.curItem
  BY <1>2 DEF InDivision
<1>6. PICK src : src = [p \in 0 .. n - 1 |-> Source(o, t, p)]
  OBVIOUS
<1>7. /\ k2 = [p \in 0 .. n - 1 |-> k2[p]] /\ DOMAIN k2 = 0 .. n - 1
      /\ \A p \in 0 .. n - 1 : k2[p] = k[src[p]]
  <2>1. DOMAIN k = 0 .. n - 1 /\ k2 = AfterRound(k, o, k[t])
    BY <1>1, <1>5
  <2>2. Rearranged(k2, k, n, o, t)
    BY <1>4, <2>1, AfterRoundIs
  <2> QED BY <1>6, <2>2 DEF Rearranged
<1>8. /\ it2 = [p \in 0 .. n - 1 |-> it2[p]] /\ DOMAIN it2 = 0 .. n - 1
      /\ \A p \in 0 .. n - 1 : it2[p] = it[src[p]]
  <2>1. DOMAIN it = 0 .. n - 1 /\ it2 = AfterRound(it, o, it[t])
    BY <1>1, <1>5
  <2>2. Rearranged(it2, it, n, o, t)
    BY <1>4, <2>1, AfterRoundIs
  <2> QED BY <1>6, <2>2 DEF Rearranged
<1>9. PICK g, p : g = o.split.grands /\ p = o.split.petits
  OBVIOUS
<1>10. PICK ng, np : ng = Len(g) /\ np = Len(p)
  OBVIOUS
<1>11. PICK b, e : b = pt.begin /\ e = pt.end
  OBVIOUS
<1>12. /\ n \in Nat /\ q \in Nat /\ t \in Nat /\ q <= t /\ b \in Nat /\ b <= q /\ t <= e /\ e \in Nat /\ e <= n - 1
  BY <1>3, <1>11 DEF Places
<1>13. /\ \A x \in q .. t : src[x] \in q .. t
       /\ \A x \in 0 .. n - 1 : x \notin q .. t => src[x] = x
       /\ \A y \in q .. t : \E x \in q .. t : src[x] = y
       /\ src[t - ng] = t
       /\ \A x \in q .. q + np - 1 : \E i \in 1 .. np : src[x] = t - m + p[i] - 1
       /\ \A x \in t - ng + 1 .. t : \E i \in 1 .. ng : src[x] = t - m + g[i] - 1
  <2>1. /\ \A x \in q .. t : Source(o, t, x) \in q .. t
        /\ \A x \in Int : x \notin q .. t => Source(o, t, x) = x
        /\ \A y \in q .. t : \E x \in q .. t : Source(o, t, x) = y
        /\ Source(o, t, t - ng) = t
        /\ \A x \in q .. q + np - 1 : \E i \in 1 .. np : Source(o, t, x) = t - m + p[i] - 1
        /\ \A x \in t - ng + 1 .. t : \E i \in 1 .. ng : Source(o, t, x) = t - m + g[i] - 1
    <3>1. Sources(o, q, t, m, g, p)
      BY <1>4, <1>9, SourceIs
    <3> QED BY <1>10, <3>1 DEF Sources
  <2>2. PlanNumbers(o, n, q, t, m, ng, np)
    BY <1>4, <1>9, <1>10, NumbersOfPlan
  <2>3. m \in Nat /\ q + m <= t /\ ng \in Nat /\ np \in Nat /\ ng + np = m
    BY <2>2 DEF PlanNumbers
  <2>4. \A x \in q .. t : x \in 0 .. n - 1
    BY <1>12
  <2>5. t - ng \in 0 .. n - 1
    BY <1>12, <2>3
  <2>6. \A x \in q .. q + np - 1 : x \in 0 .. n - 1
    BY <1>12, <2>3
  <2>7. \A x \in t - ng + 1 .. t : x \in 0 .. n - 1
    BY <1>12, <2>3
  <2>8. \A x \in 0 .. n - 1 : x \in Int
    OBVIOUS
  <2> QED BY <1>6, <2>1, <2>4, <2>5, <2>6, <2>7, <2>8
<1>14. PICK a, c : a = Both(k, it) /\ c = Both(k2, it2)
  OBVIOUS
<1>15. DOMAIN a = 0 .. n - 1 /\ DOMAIN c = 0 .. n - 1
  BY <1>1, <1>7, <1>14 DEF Both
<1>16. \A x \in 0 .. n - 1 : src[x] \in 0 .. n - 1
  <2> TAKE x \in 0 .. n - 1
  <2>1. CASE x \in q .. t
    BY <1>12, <1>13, <2>1
  <2>2. CASE x \notin q .. t
    BY <1>13, <2>2
  <2> QED BY <2>1, <2>2
<1>17. \A x \in 0 .. n - 1 : c[x] = a[src[x]]
  <2> TAKE x \in 0 .. n - 1
  <2>1. k2[x] = k[src[x]] /\ it2[x] = it[src[x]] /\ src[x] \in 0 .. n - 1
    BY <1>7, <1>8, <1>16
  <2>2. c[x] = [key |-> k2[x], item |-> it2[x]]
    BY <1>7, <1>14 DEF Both
  <2>3. a[src[x]] = [key |-> k[src[x]], item |-> it[src[x]]]
    BY <1>1, <1>14, <2>1 DEF Both
  <2> QED BY <2>1, <2>2, <2>3
<1>18. \A x \in b .. e : x \in 0 .. n - 1
  BY <1>12
<1>19. ASSUME NEW x \in b .. e PROVE \E y \in b .. e : c[x] = a[y]
  <2>1. src[x] \in b .. e
    <3>1. CASE x \in q .. t
      BY <1>12, <1>13, <3>1
    <3>2. CASE x \notin q .. t
      BY <1>13, <1>18, <3>2
    <3> QED BY <3>1, <3>2
  <2> QED BY <1>17, <1>18, <2>1
<1>20. ASSUME NEW y \in b .. e PROVE \E x \in b .. e : c[x] = a[y]
  <2>1. CASE y \in q .. t
    <3>1. PICK x \in q .. t : src[x] = y
      BY <1>13, <2>1
    <3>2. x \in b .. e
      BY <1>12
    <3> QED BY <1>17, <1>18, <3>1, <3>2
  <2>2. CASE y \notin q .. t
    BY <1>13, <1>17, <1>18, <2>2
  <2> QED BY <2>1, <2>2
<1>21. ASSUME NEW x \in 0 .. n - 1, x \notin b .. e PROVE c[x] = a[x]
  <2>1. x \notin q .. t
    BY <1>12, <1>21
  <2> QED BY <1>13, <1>17, <2>1
<1>22. SameWithin(a, c, b, e)
  BY <1>15, <1>19, <1>20, <1>21 DEF SameWithin
<1>23. PICK pt2 : pt2 = RoundPart(pt, o)
  OBVIOUS
<1>24. PICK gr, pe, au : gr = pt.plusGrands /\ pe = pt.plusPetits /\ au = pt.autres
  OBVIOUS
<1>25. PlanNumbers(o, n, q, t, m, ng, np) /\ g \in Seq(1 .. m) /\ p \in Seq(1 .. m)
  BY <1>4, <1>9, <1>10, NumbersOfPlan
<1>26. m \in Nat /\ q + m <= t /\ ng \in Nat /\ np \in Nat /\ ng + np = m /\ o.toRead = m
  BY <1>25 DEF PlanNumbers
<1>27. au \in Nat /\ gr \in Nat /\ pe \in Nat /\ au = t - q /\ q = b + pe /\ t = e - gr
  BY <1>3, <1>11, <1>24 DEF Places
<1>28. pt \in PartRecords(n)
  BY DEF InDivision
<1>29. /\ pt2.begin = b /\ pt2.end = e /\ pt2.autres = au - m /\ pt2.plusGrands = gr + ng
       /\ pt2.plusPetits = pe + np /\ pt2.curKey = pt.curKey /\ pt2.curItem = pt.curItem
       /\ pt2 \in PartRecords(n)
  <2>1. au - m \in Nat
    BY <1>12, <1>26, <1>27
  <2>2. gr + ng \in Nat /\ pe + np \in Nat
    BY <1>26, <1>27
  <2> QED BY <1>9, <1>10, <1>11, <1>23, <1>24, <1>26, <1>28, <2>1, <2>2 DEF RoundPart, PartRecords
<1>30. b + (pe + np) + (au - m) + (gr + ng) = e
  BY <1>12, <1>26, <1>27
<1>31. e - (gr + ng) = t - ng /\ t - ng \in 0 .. n - 1
  BY <1>12, <1>26, <1>27
<1>32. k2[t - ng] = pt.curKey /\ it2[t - ng] = pt.curItem
  BY <1>5, <1>7, <1>8, <1>13, <1>31
<1>33. /\ \A i \in 1 .. np : p[i] \in 1 .. m /\ k[t - m + p[i] - 1] <= pt.curKey
       /\ \A i \in 1 .. ng : g[i] \in 1 .. m /\ pt.curKey <= k[t - m + g[i] - 1]
  <2>1. PICK keys : keys = Read(k, t - m, m)
    OBVIOUS
  <2>2. \A i \in 1 .. m : keys[i] = k[t - m + i - 1] /\ keys[i] \in Int
    <3> TAKE i \in 1 .. m
    <3>1. t < n /\ i \in Nat /\ 1 <= i /\ i <= m
      BY <1>12, <1>26
    <3>2. t - m + i - 1 \in 0 .. n - 1
      BY <1>12, <1>26, <3>1, ReadInside
    <3> QED BY <1>1, <2>1, <3>2 DEF Read
  <2>3. /\ \A i \in 1 .. ng : keys[g[i]] >= pt.curKey
        /\ \A i \in 1 .. np : keys[p[i]] <= pt.curKey
    BY <1>4, <1>9, <1>10, <2>1 DEF IsSplit
  <2>4. /\ \A i \in 1 .. ng : g[i] \in 1 .. m
        /\ \A i \in 1 .. np : p[i] \in 1 .. m
    BY <1>10, <1>25, ElementOfSeq
  <2>5. pt.curKey \in Int
    BY <1>28 DEF PartRecords
  <2> QED BY <2>2, <2>3, <2>4, <2>5
<1>34. ASSUME NEW x \in b .. b + (pe + np) - 1 PROVE k2[x] <= pt.curKey
  <2>1. CASE x \in q .. q + np - 1
    <3>1. PICK i \in 1 .. np : src[x] = t - m + p[i] - 1
      BY <1>13, <2>1
    <3>2. x \in 0 .. n - 1
      BY <1>12, <1>26, <2>1
    <3> QED BY <1>7, <1>33, <3>1, <3>2
  <2>2. CASE x \notin q .. q + np - 1
    <3>1. x \in b .. b + pe - 1 /\ x \in 0 .. n - 1 /\ x \notin q .. t
      BY <1>12, <1>26, <1>27, <2>2
    <3>2. k[x] <= pt.curKey
      BY <1>11, <1>24, <3>1 DEF InDivision
    <3> QED BY <1>7, <1>13, <3>1, <3>2
  <2> QED BY <2>1, <2>2
<1>35. ASSUME NEW x \in t - ng + 1 .. e PROVE pt.curKey <= k2[x]
  <2>1. CASE x \in t - ng + 1 .. t
    <3>1. PICK i \in 1 .. ng : src[x] = t - m + g[i] - 1
      BY <1>13, <2>1
    <3>2. x \in 0 .. n - 1
      BY <1>12, <1>26, <2>1
    <3> QED BY <1>7, <1>33, <3>1, <3>2
  <2>2. CASE x \notin t - ng + 1 .. t
    <3>1. x \in e - gr + 1 .. e /\ x \in 0 .. n - 1 /\ x \notin q .. t
      BY <1>12, <1>26, <1>27, <2>2
    <3>2. pt.curKey <= k[x]
      BY <1>11, <1>24, <3>1 DEF InDivision
    <3> QED BY <1>7, <1>13, <3>1, <3>2
  <2> QED BY <2>1, <2>2
<1>36. InDivision(pt2, n, k2, it2)
  BY <1>29, <1>30, <1>31, <1>32, <1>34, <1>35 DEF InDivision
<1>37. MovedBy(n, k, it, b, e, k2, it2)
  BY <1>7, <1>8, <1>14, <1>22 DEF MovedBy
<1> QED BY <1>11, <1>23, <1>36, <1>37
-----------------------------------------------------------------------------
(* The steps. *)

\* Nothing is being divided, or a part is.
LEMMA NothingOpen ==
  ASSUME NEW T, NEW st \in Seq(T)
  PROVE  Open(None, st) = st
BY DEF Open

PartIsFirst(n, pt, st, iv, c) ==
  /\ pt # None /\ iv \in Intervals(n) /\ c = <<iv>> \o st
  /\ c \in Seq(Intervals(n)) /\ Len(c) > 0 /\ c[1] = iv /\ Tail(c) = st

LEMMA PartOpen ==
  ASSUME NEW n \in Nat, NEW pt \in PartRecords(n), pt.begin <= pt.end, NEW st \in Seq(Intervals(n)),
         NEW iv, iv = <<pt.begin, pt.end>>, NEW c, c = Open(pt, st)
  PROVE  PartIsFirst(n, pt, st, iv, c)
<1>1. pt.begin \in 0 .. n - 1 /\ pt.end \in 0 .. n - 1
  BY DEF PartRecords
<1>2. pt # None
  <2>1. pt.begin # -1
    BY <1>1
  <2>2. None.begin = -1
    BY DEF None
  <2> QED BY <2>1, <2>2
<1>3. iv \in Intervals(n)
  BY <1>1 DEF Intervals
<1>4. c = <<iv>> \o st
  BY <1>2 DEF Open
<1>5. PICK T : T = Intervals(n)
  OBVIOUS
<1>6. PICK u : u = <<iv>>
  OBVIOUS
<1>7. u \in Seq(T) /\ Len(u) = 1 /\ u[1] = iv
  BY <1>3, <1>5, <1>6
<1>8. st \in Seq(T) /\ Len(st) \in Nat
  BY <1>5
<1>9. /\ c \in Seq(T) /\ Len(c) = 1 + Len(st)
      /\ \A i \in 1 .. 1 + Len(st) : c[i] = IF i <= 1 THEN u[i] ELSE st[i - 1]
  BY <1>4, <1>6, <1>7, <1>8, ConcatProperties
<1>10. Len(c) > 0 /\ c # << >> /\ c[1] = iv
  BY <1>7, <1>8, <1>9
<1>11. Tail(c) = st
  <2>1. PICK t : t = Tail(c)
    OBVIOUS
  <2>2. t \in Seq(T) /\ Len(t) = Len(st) /\ \A i \in 1 .. Len(t) : t[i] = c[i + 1]
    BY <1>8, <1>9, <1>10, <2>1, HeadTailProperties
  <2>3. ASSUME NEW i \in 1 .. Len(st) PROVE t[i] = st[i]
    <3>1. i + 1 \in 1 .. 1 + Len(st) /\ ~(i + 1 <= 1) /\ i + 1 - 1 = i
      BY <1>8
    <3> QED BY <1>9, <2>2, <3>1
  <2>4. t = st
    BY <1>8, <2>2, <2>3, SeqEqual
  <2> QED BY <2>1, <2>4
<1> QED BY <1>2, <1>3, <1>4, <1>5, <1>9, <1>10, <1>11 DEF PartIsFirst

\* The part that comes next.
NextPart(n, st, begin, end) ==
  /\ begin \in 0 .. n - 1 /\ end \in begin .. n - 1 /\ begin <= end
  /\ Len(st) > 0 /\ Tail(st) \in Seq(Intervals(n))
  /\ st[1] = <<begin, end>> /\ begin = st[1][1] /\ end = st[1][2]

LEMMA NextPartIs ==
  ASSUME NEW n \in Nat, NEW st \in Seq(Intervals(n)), st # << >>,
         NEW begin, begin = Head(st)[1], NEW end, end = Head(st)[2]
  PROVE  NextPart(n, st, begin, end)
<1>1. PICK T : T = Intervals(n)
  OBVIOUS
<1>2. PICK iv : iv = Head(st)
  OBVIOUS
<1>3. iv \in T /\ Tail(st) \in Seq(T)
  BY <1>1, <1>2, HeadTailProperties
<1>4. Len(st) > 0 /\ st[1] = iv
  BY <1>2
<1>5. iv \in (0 .. n - 1) \X (0 .. n - 1) /\ iv[1] <= iv[2]
  BY <1>1, <1>3 DEF Intervals
<1>6. iv = <<begin, end>> /\ begin \in 0 .. n - 1 /\ end \in 0 .. n - 1 /\ begin <= end
  BY <1>2, <1>5
<1>7. end \in begin .. n - 1
  BY <1>6
<1> QED BY <1>1, <1>3, <1>4, <1>6, <1>7 DEF NextPart

\* No part, and a whole part, in place of a part.
LEMMA NoneInside ==
  ASSUME NEW n \in Nat, NEW iv
  PROVE  Inside(n, << >>, iv)
<1>1. << >> \in Seq(Intervals(n)) /\ 1 .. Len(<< >>) = {}
  OBVIOUS
<1> QED BY <1>1 DEF Inside, AllApart

LEMMA WholeInside ==
  ASSUME NEW n \in Nat, NEW iv \in Intervals(n), NEW g, NEW w, w = <<iv>>,
         NEW begin, begin = iv[1], NEW end, end = iv[2]
  PROVE  Inside(n, w, iv) /\ InOrderBetween(g, w, begin, end)
<1>1. PICK T : T = Intervals(n)
  OBVIOUS
<1>2. w \in Seq(T) /\ Len(w) = 1 /\ w[1] = iv
  BY <1>1
<1>3. \A i \in 1 .. Len(w) : i = 1
  BY <1>2
<1>4. AllApart(w)
  BY <1>3 DEF AllApart
<1>5. begin \in Int /\ end \in Int
  BY DEF Intervals
<1>6. \A i \in 1 .. Len(w) : iv[1] <= w[i][1] /\ w[i][2] <= iv[2]
  BY <1>2, <1>3, <1>5
<1>7. Inside(n, w, iv)
  BY <1>1, <1>2, <1>4, <1>6 DEF Inside
<1>8. 1 \in 1 .. Len(w)
  BY <1>2
<1>9. \A p \in begin .. end : \A q \in begin .. end : Covers(w[1], p, q)
  BY <1>2, <1>5 DEF Covers
<1>10. InOrderBetween(g, w, begin, end)
  BY <1>8, <1>9 DEF InOrderBetween
<1> QED BY <1>7, <1>10

\* An array holds what it holds.
LEMMA SameItself ==
  ASSUME NEW a, NEW begin, NEW end
  PROVE  SameWithin(a, a, begin, end)
BY DEF SameWithin

\* What has become of the files.
PartMoved(n, in, k, it, begin, end, k2, it2) ==
  /\ Paired(n, in, k2, it2) /\ SameWithin(k, k2, begin, end)
  /\ k \in [0 .. n - 1 -> Int] /\ k2 \in [0 .. n - 1 -> Int]

LEMMA SortsPartIs ==
  ASSUME NEW n, NEW in, NEW k, NEW it, Paired(n, in, k, it),
         NEW begin \in 0 .. n - 1, NEW end \in begin .. n - 1,
         NEW k2, NEW it2, SortsPart(n, k, it, begin, end, k2, it2)
  PROVE  PartMoved(n, in, k, it, begin, end, k2, it2) /\ InOrderBetween(k2, << >>, begin, end)
<1>1. PartSorted(n, k, it, begin, end, k2, it2)
  BY SortedInMemory
<1>2. /\ SameWithin(Both(k, it), Both(k2, it2), begin, end)
      /\ \A p \in begin .. end : \A q \in begin .. end : p < q => k2[p] <= k2[q]
      /\ k2 = [p \in 0 .. n - 1 |-> k2[p]] /\ it2 = [p \in 0 .. n - 1 |-> it2[p]]
  BY <1>1 DEF PartSorted
<1>3. Paired(n, in, k2, it2) /\ SameWithin(k, k2, begin, end)
  BY <1>2, MovedTogether
<1>4. k \in [0 .. n - 1 -> Int] /\ k2 \in [0 .. n - 1 -> Int]
  BY <1>3 DEF Paired
<1>5. InOrderBetween(k2, << >>, begin, end)
  BY <1>2 DEF InOrderBetween
<1> QED BY <1>3, <1>4, <1>5 DEF PartMoved

\* A part has been sorted in memory.
LEMMA MemoryStep ==
  ASSUME NEW n, NEW in, NEW size, NEW k, NEW it, NEW st, Sorting(n, in, size, k, it, st, None), st # << >>,
         NEW begin, begin = Head(st)[1], NEW end, end = Head(st)[2],
         NEW k2, NEW it2, SortsPart(n, k, it, begin, end, k2, it2)
  PROVE  Sorting(n, in, size, k2, it2, Tail(st), None)
<1>1. /\ n \in Nat /\ size \in Nat \ {0} /\ in \in [0 .. n - 1 -> Keys]
      /\ Paired(n, in, k, it) /\ st \in Seq(Intervals(n)) /\ StillToSort(n, k, Open(None, st))
  BY DEF Sorting
<1>2. StillToSort(n, k, st)
  BY <1>1, NothingOpen
<1>3. NextPart(n, st, begin, end)
  BY <1>1, NextPartIs
<1>4. /\ begin \in 0 .. n - 1 /\ end \in begin .. n - 1 /\ Len(st) > 0
      /\ Tail(st) \in Seq(Intervals(n)) /\ begin = st[1][1] /\ end = st[1][2]
  BY <1>3 DEF NextPart
<1>5. PartMoved(n, in, k, it, begin, end, k2, it2) /\ InOrderBetween(k2, << >>, begin, end)
  BY <1>1, <1>4, SortsPartIs
<1>6. Paired(n, in, k2, it2) /\ SameWithin(k, k2, begin, end)
  BY <1>5 DEF PartMoved
<1>7. k \in [0 .. n - 1 -> Int] /\ k2 \in [0 .. n - 1 -> Int]
  BY <1>5 DEF PartMoved
<1>8. PICK w, c : w = << >> /\ c = w \o Tail(st)
  OBVIOUS
<1>9. Inside(n, w, st[1]) /\ InOrderBetween(k2, w, begin, end)
  BY <1>1, <1>5, <1>8, NoneInside
<1>10. StillToSort(n, k2, c)
  BY <1>1, <1>2, <1>4, <1>6, <1>7, <1>8, <1>9, ReplacedInOrder
<1>11. c = Tail(st)
  BY <1>4, <1>8
<1>12. StillToSort(n, k2, Open(None, Tail(st)))
  BY <1>4, <1>10, <1>11, NothingOpen
<1> QED BY <1>1, <1>4, <1>6, <1>12 DEF Sorting

\* What the beginning of a division does to the files, and the division.
SwapsPivot(k, begin, end, k2) ==
  k2 = IF end - begin > 2 THEN Swapped(k, (begin + end) \div 2, end) ELSE k
NewPart(begin, end, k2, it2) ==
  [begin |-> begin, end |-> end, curKey |-> k2[end], curItem |-> it2[end],
   autres |-> end - begin, plusGrands |-> 0, plusPetits |-> 0]

LEMMA SwapsPivotIs ==
  ASSUME NEW n, NEW in, NEW k, NEW it, Paired(n, in, k, it),
         NEW begin \in 0 .. n - 1, NEW end \in begin .. n - 1,
         NEW k2, NEW it2, SwapsPivot(k, begin, end, k2), SwapsPivot(it, begin, end, it2)
  PROVE  PartMoved(n, in, k, it, begin, end, k2, it2)
<1>1. /\ n \in Nat /\ k \in [0 .. n - 1 -> Int] /\ it \in [0 .. n - 1 -> 0 .. n - 1]
  BY DEF Paired
<1>2. begin \in Int /\ end \in Int /\ begin <= end
  BY <1>1
<1>3. PICK mid : mid = (begin + end) \div 2
  OBVIOUS
<1>4. mid \in begin .. end
  BY <1>2, <1>3
<1>5. CASE end - begin > 2
  <2>1. k2 = Swapped(k, mid, end) /\ it2 = Swapped(it, mid, end)
    BY <1>3, <1>5 DEF SwapsPivot
  <2>2. /\ SameWithin(Both(k, it), Both(k2, it2), begin, end)
        /\ k2 = [p \in 0 .. n - 1 |-> k2[p]] /\ it2 = [p \in 0 .. n - 1 |-> it2[p]]
    BY <1>4, <2>1, SwappedTogether
  <2>3. Paired(n, in, k2, it2) /\ SameWithin(k, k2, begin, end)
    BY <2>2, MovedTogether
  <2>4. k2 \in [0 .. n - 1 -> Int]
    BY <2>3 DEF Paired
  <2> QED BY <1>1, <2>3, <2>4 DEF PartMoved
<1>6. CASE ~(end - begin > 2)
  <2>1. k2 = k /\ it2 = it
    BY <1>6 DEF SwapsPivot
  <2> QED BY <1>1, <2>1, SameItself DEF PartMoved
<1> QED BY <1>5, <1>6

\* A new division.
LEMMA NewPartIs ==
  ASSUME NEW n, NEW in, NEW k2, NEW it2, Paired(n, in, k2, it2),
         NEW begin \in 0 .. n - 1, NEW end \in begin .. n - 1,
         NEW pt, pt = NewPart(begin, end, k2, it2)
  PROVE  InDivision(pt, n, k2, it2) /\ pt.begin = begin /\ pt.end = end
<1>1. /\ n \in Nat /\ k2 \in [0 .. n - 1 -> Int] /\ it2 \in [0 .. n - 1 -> 0 .. n - 1]
  BY DEF Paired
<1>2. begin \in Int /\ end \in Int /\ begin <= end /\ end \in 0 .. n - 1
  BY <1>1
<1>3. PICK d : d = end - begin
  OBVIOUS
<1>4. d \in Nat /\ begin + 0 + d + 0 = end
  BY <1>2, <1>3
<1>5. /\ pt = [begin |-> begin, end |-> end, curKey |-> k2[end], curItem |-> it2[end],
               autres |-> d, plusGrands |-> 0, plusPetits |-> 0]
  BY <1>3 DEF NewPart
<1>6. /\ pt.begin = begin /\ pt.end = end /\ pt.curKey = k2[end] /\ pt.curItem = it2[end]
      /\ pt.autres = d /\ pt.plusGrands = 0 /\ pt.plusPetits = 0
  BY <1>5
<1>7. k2[end] \in Int /\ it2[end] \in 0 .. n - 1
  BY <1>1, <1>2
<1>8. pt \in PartRecords(n)
  BY <1>2, <1>4, <1>5, <1>7 DEF PartRecords
<1>9. end - 0 = end /\ begin .. begin + 0 - 1 = {} /\ end - 0 + 1 .. end = {}
  BY <1>2
<1> QED BY <1>4, <1>6, <1>8, <1>9 DEF InDivision

\* The first of the parts o is changed within, and replaced by the parts w of it.
Replaces(n, o, w, begin, end, c) ==
  /\ Len(o) > 0 /\ begin = o[1][1] /\ end = o[1][2] /\ Inside(n, w, o[1]) /\ c = w \o Tail(o)

LEMMA FirstReplaced ==
  ASSUME NEW n \in Nat, NEW in, NEW k, NEW it, NEW begin, NEW end, NEW k2, NEW it2,
         PartMoved(n, in, k, it, begin, end, k2, it2),
         NEW o, StillToSort(n, k, o), NEW w, NEW c, Replaces(n, o, w, begin, end, c),
         InOrderBetween(k2, w, begin, end)
  PROVE  StillToSort(n, k2, c)
<1>1. SameWithin(k, k2, begin, end) /\ k \in [0 .. n - 1 -> Int] /\ k2 \in [0 .. n - 1 -> Int]
  BY DEF PartMoved
<1>2. Len(o) > 0 /\ begin = o[1][1] /\ end = o[1][2] /\ Inside(n, w, o[1]) /\ c = w \o Tail(o)
  BY DEF Replaces
<1> QED BY <1>1, <1>2, ReplacedInOrder

\* A division has begun.
LEMMA DivisionBegins ==
  ASSUME NEW n, NEW in, NEW size, NEW k, NEW it, NEW st, Sorting(n, in, size, k, it, st, None), st # << >>,
         NEW begin, begin = Head(st)[1], NEW end, end = Head(st)[2],
         NEW k2, NEW it2, SwapsPivot(k, begin, end, k2), SwapsPivot(it, begin, end, it2),
         NEW pt, pt = NewPart(begin, end, k2, it2)
  PROVE  Sorting(n, in, size, k2, it2, Tail(st), pt)
<1>1. /\ n \in Nat /\ size \in Nat \ {0} /\ in \in [0 .. n - 1 -> Keys]
      /\ Paired(n, in, k, it) /\ st \in Seq(Intervals(n)) /\ StillToSort(n, k, Open(None, st))
  BY DEF Sorting
<1>2. StillToSort(n, k, st)
  BY <1>1, NothingOpen
<1>3. NextPart(n, st, begin, end)
  BY <1>1, NextPartIs
<1>4. /\ begin \in 0 .. n - 1 /\ end \in begin .. n - 1 /\ begin <= end /\ Len(st) > 0
      /\ Tail(st) \in Seq(Intervals(n)) /\ begin = st[1][1] /\ end = st[1][2] /\ st[1] = <<begin, end>>
  BY <1>3 DEF NextPart
<1>5. PartMoved(n, in, k, it, begin, end, k2, it2)
  BY <1>1, <1>4, SwapsPivotIs
<1>6. Paired(n, in, k2, it2)
  BY <1>5 DEF PartMoved
<1>7. InDivision(pt, n, k2, it2) /\ pt.begin = begin /\ pt.end = end
  BY <1>4, <1>6, NewPartIs
<1>8. pt \in PartRecords(n)
  BY <1>7 DEF InDivision
<1>9. PICK iv, w, c : iv = <<begin, end>> /\ w = <<iv>> /\ c = Open(pt, Tail(st))
  OBVIOUS
<1>10. PartIsFirst(n, pt, Tail(st), iv, c)
  BY <1>1, <1>4, <1>7, <1>8, <1>9, PartOpen
<1>11. pt # None /\ iv \in Intervals(n) /\ c = w \o Tail(st)
  BY <1>9, <1>10 DEF PartIsFirst
<1>12. begin = iv[1] /\ end = iv[2] /\ st[1] = iv
  BY <1>4, <1>9
<1>13. Inside(n, w, iv) /\ InOrderBetween(k2, w, begin, end)
  BY <1>1, <1>9, <1>11, <1>12, WholeInside
<1>14. StillToSort(n, k2, c)
  <2>1. Replaces(n, st, w, begin, end, c)
    BY <1>4, <1>11, <1>12, <1>13 DEF Replaces
  <2> QED BY <1>1, <1>2, <1>5, <1>13, <2>1, FirstReplaced
<1> QED BY <1>1, <1>4, <1>6, <1>7, <1>9, <1>14 DEF Sorting

\* What is known of a division in progress.
LEMMA DividedPart ==
  ASSUME NEW n, NEW in, NEW size, NEW k, NEW it, NEW st, NEW pt, Sorting(n, in, size, k, it, st, pt), pt # None,
         NEW iv, iv = <<pt.begin, pt.end>>, NEW c, c = Open(pt, st)
  PROVE  /\ n \in Nat /\ size \in Nat \ {0} /\ in \in [0 .. n - 1 -> Keys]
         /\ Paired(n, in, k, it) /\ st \in Seq(Intervals(n)) /\ StillToSort(n, k, c)
         /\ InDivision(pt, n, k, it) /\ pt.begin <= pt.end /\ PartIsFirst(n, pt, st, iv, c)
         /\ pt.begin \in 0 .. n - 1 /\ pt.end \in pt.begin .. n - 1
<1>1. /\ n \in Nat /\ size \in Nat \ {0} /\ in \in [0 .. n - 1 -> Keys]
      /\ Paired(n, in, k, it) /\ st \in Seq(Intervals(n)) /\ StillToSort(n, k, c)
      /\ InDivision(pt, n, k, it)
  BY DEF Sorting
<1>2. pt \in PartRecords(n) /\ pt.begin + pt.plusPetits + pt.autres + pt.plusGrands = pt.end
  BY <1>1 DEF InDivision
<1>3. PICK b, e, a, g, p : b = pt.begin /\ e = pt.end /\ a = pt.autres /\ g = pt.plusGrands /\ p = pt.plusPetits
  OBVIOUS
<1>4. b \in 0 .. n - 1 /\ e \in 0 .. n - 1 /\ a \in Nat /\ g \in Nat /\ p \in Nat
  BY <1>2, <1>3 DEF PartRecords
<1>5. b <= e /\ e \in b .. n - 1
  BY <1>1, <1>2, <1>3, <1>4
<1>6. PartIsFirst(n, pt, st, iv, c)
  BY <1>1, <1>2, <1>3, <1>5, PartOpen
<1> QED BY <1>1, <1>3, <1>4, <1>5, <1>6

\* A round has been made.
LEMMA MovedPart ==
  ASSUME NEW n, NEW in, NEW k, NEW it, Paired(n, in, k, it),
         NEW begin \in 0 .. n - 1, NEW end \in begin .. n - 1,
         NEW k2, NEW it2, MovedBy(n, k, it, begin, end, k2, it2)
  PROVE  PartMoved(n, in, k, it, begin, end, k2, it2)
<1>1. /\ SameWithin(Both(k, it), Both(k2, it2), begin, end)
      /\ k2 = [p \in 0 .. n - 1 |-> k2[p]] /\ it2 = [p \in 0 .. n - 1 |-> it2[p]]
  BY DEF MovedBy
<1>2. Paired(n, in, k2, it2) /\ SameWithin(k, k2, begin, end)
  BY <1>1, MovedTogether
<1>3. k \in [0 .. n - 1 -> Int] /\ k2 \in [0 .. n - 1 -> Int]
  BY <1>2 DEF Paired
<1> QED BY <1>2, <1>3 DEF PartMoved

LEMMA RoundStep ==
  ASSUME NEW n, NEW in, NEW size, NEW k, NEW it, NEW st, NEW pt, Sorting(n, in, size, k, it, st, pt), pt # None,
         pt.autres > 0, NEW o, o = RoundPlan(pt, k, size),
         NEW k2, k2 = AfterRound(k, o, pt.curKey), NEW it2, it2 = AfterRound(it, o, pt.curItem),
         NEW pt2, pt2 = RoundPart(pt, o)
  PROVE  Sorting(n, in, size, k2, it2, st, pt2)
<1>1. PICK iv, c : iv = <<pt.begin, pt.end>> /\ c = Open(pt, st)
  OBVIOUS
<1>2. /\ n \in Nat /\ size \in Nat \ {0} /\ in \in [0 .. n - 1 -> Keys]
      /\ Paired(n, in, k, it) /\ st \in Seq(Intervals(n)) /\ StillToSort(n, k, c)
      /\ InDivision(pt, n, k, it) /\ pt.begin <= pt.end /\ PartIsFirst(n, pt, st, iv, c)
      /\ pt.begin \in 0 .. n - 1 /\ pt.end \in pt.begin .. n - 1
  BY <1>1, DividedPart
<1>3. PartMoved(n, in, k, it, pt.begin, pt.end, k2, it2) /\ InDivision(pt2, n, k2, it2)
  <2>1. MovedBy(n, k, it, pt.begin, pt.end, k2, it2) /\ InDivision(pt2, n, k2, it2)
    BY <1>2, RoundMoves
  <2> QED BY <1>2, <2>1, MovedPart
<1>4. Paired(n, in, k2, it2)
  BY <1>3 DEF PartMoved
<1>5. pt \in PartRecords(n) /\ pt2 \in PartRecords(n)
  BY <1>2, <1>3 DEF InDivision
<1>6. pt2.begin = pt.begin /\ pt2.end = pt.end
  BY <1>5 DEF RoundPart, PartRecords
<1>7. PICK c2, w : c2 = Open(pt2, st) /\ w = <<iv>>
  OBVIOUS
<1>8. PartIsFirst(n, pt2, st, iv, c2)
  BY <1>1, <1>2, <1>5, <1>6, <1>7, PartOpen
<1>9. iv \in Intervals(n) /\ Len(c) > 0 /\ c[1] = iv /\ Tail(c) = st /\ c2 = w \o st
  BY <1>2, <1>7, <1>8 DEF PartIsFirst
<1>10. PICK b, e : b = pt.begin /\ e = pt.end
  OBVIOUS
<1>11. iv[1] = b /\ iv[2] = e /\ b = c[1][1] /\ e = c[1][2]
  BY <1>1, <1>9, <1>10
<1>12. Inside(n, w, iv) /\ InOrderBetween(k2, w, b, e)
  BY <1>2, <1>7, <1>9, <1>11, WholeInside
<1>13. StillToSort(n, k2, c2)
  <2>1. PartMoved(n, in, k, it, b, e, k2, it2)
    BY <1>3, <1>10
  <2>2. Replaces(n, c, w, b, e, c2)
    BY <1>9, <1>11, <1>12 DEF Replaces
  <2> QED BY <1>2, <1>12, <2>1, <2>2, FirstReplaced
<1> QED BY <1>2, <1>3, <1>4, <1>7, <1>13 DEF Sorting

\* A division has ended.
LEMMA DivisionEnds ==
  ASSUME NEW n, NEW in, NEW size, NEW k, NEW it, NEW st, NEW pt, Sorting(n, in, size, k, it, st, pt), pt # None,
         pt.autres = 0, NEW st2, st2 = Sides(pt) \o st
  PROVE  Sorting(n, in, size, k, it, st2, None)
<1>1. PICK iv, c : iv = <<pt.begin, pt.end>> /\ c = Open(pt, st)
  OBVIOUS
<1>2. /\ n \in Nat /\ size \in Nat \ {0} /\ in \in [0 .. n - 1 -> Keys]
      /\ Paired(n, in, k, it) /\ st \in Seq(Intervals(n)) /\ StillToSort(n, k, c)
      /\ InDivision(pt, n, k, it) /\ PartIsFirst(n, pt, st, iv, c)
  BY <1>1, DividedPart
<1>3. k \in [0 .. n - 1 -> Int]
  BY <1>2 DEF Paired
<1>4. PICK w, b, e : w = Sides(pt) /\ b = pt.begin /\ e = pt.end
  OBVIOUS
<1>5. Inside(n, w, iv) /\ InOrderBetween(k, w, b, e)
  BY <1>1, <1>2, <1>3, <1>4, SidesInside
<1>6. Len(c) > 0 /\ c[1] = iv /\ Tail(c) = st /\ b = c[1][1] /\ e = c[1][2] /\ Inside(n, w, c[1])
  BY <1>1, <1>2, <1>4, <1>5 DEF PartIsFirst
<1>7. PartMoved(n, in, k, it, b, e, k, it)
  BY <1>2, <1>3, SameItself DEF PartMoved
<1>8. st2 = w \o Tail(c)
  BY <1>4, <1>6
<1>9. StillToSort(n, k, st2)
  <2>1. Replaces(n, c, w, b, e, st2)
    BY <1>6, <1>8 DEF Replaces
  <2> QED BY <1>2, <1>5, <1>7, <2>1, FirstReplaced
<1>10. st2 \in Seq(Intervals(n))
  BY <1>9 DEF StillToSort
<1>11. StillToSort(n, k, Open(None, st2))
  BY <1>9, <1>10, NothingOpen
<1> QED BY <1>2, <1>10, <1>11 DEF Sorting

\* The whole files are the first part.
LEMMA InitSorting ==
  ASSUME Init
  PROVE  SortInv
<1>1. PICK n \in 0 .. MaxItems : input \in [0 .. n - 1 -> Keys]
  BY DEF Init
<1>2. n \in Nat
  BY SortAssumption
<1>3. Count = n
  <2>1. Count = Cardinality(0 .. n - 1)
    BY <1>1 DEF Count
  <2>2. 0 \in Int /\ n - 1 \in Int
    BY <1>2
  <2>3. Cardinality(0 .. n - 1) = IF 0 > n - 1 THEN 0 ELSE n - 1 - 0 + 1
    BY <2>2, FS_Interval
  <2> QED BY <1>2, <2>1, <2>3
<1>4. keyFile = input /\ itemFile = [i \in 0 .. n - 1 |-> i] /\ buffer_size \in Nat \ {0} /\ part = None
      /\ stack = IF n = 0 THEN << >> ELSE << <<0, n - 1>> >>
  BY <1>1, <1>3, SortAssumption DEF Init
<1>5. Paired(n, input, keyFile, itemFile)
  <2>1. keyFile \in [0 .. n - 1 -> Int] /\ itemFile \in [0 .. n - 1 -> 0 .. n - 1]
    BY <1>1, <1>4, SortAssumption
  <2>2. \A p \in 0 .. n - 1 : itemFile[p] = p
    BY <1>4
  <2> QED BY <1>2, <1>4, <2>1, <2>2 DEF Paired
<1>6. stack \in Seq(Intervals(n)) /\ StillToSort(n, keyFile, stack)
  <2>1. CASE n = 0
    <3>1. stack = << >> /\ stack \in Seq(Intervals(n)) /\ 1 .. Len(stack) = {} /\ 0 .. n - 1 = {}
      BY <1>4, <2>1
    <3> QED BY <3>1 DEF StillToSort, AllApart, InOrderOutside
  <2>2. CASE n # 0
    <3>1. PICK iv : iv = <<0, n - 1>>
      OBVIOUS
    <3>2. stack = <<iv>>
      BY <1>4, <2>2, <3>1
    <3>3. iv \in Intervals(n) /\ iv[1] = 0 /\ iv[2] = n - 1
      BY <1>2, <2>2, <3>1 DEF Intervals
    <3>4. Inside(n, stack, iv) /\ InOrderBetween(keyFile, stack, 0, n - 1)
      BY <1>2, <3>2, <3>3, WholeInside
    <3>5. stack \in Seq(Intervals(n)) /\ AllApart(stack)
      BY <3>4 DEF Inside
    <3>6. InOrderOutside(n, keyFile, stack)
      BY <3>4 DEF InOrderBetween, InOrderOutside
    <3> QED BY <3>5, <3>6 DEF StillToSort
  <2> QED BY <2>1, <2>2
<1>7. StillToSort(n, keyFile, Open(part, stack))
  BY <1>4, <1>6, NothingOpen
<1> QED BY <1>1, <1>2, <1>3, <1>4, <1>5, <1>6, <1>7 DEF SortInv, Sorting

\* Every step keeps the invariant.
LEMMA NextSorting ==
  ASSUME SortInv, [Next]_vars
  PROVE  SortInv'
<1>1. PICK n, in, size, k, it, st : /\ n = Count /\ in = input /\ size = buffer_size
                                    /\ k = keyFile /\ it = itemFile /\ st = stack
  OBVIOUS
<1>2. PICK pt, k2, it2, st2, pt2 : /\ pt = part /\ k2 = keyFile' /\ it2 = itemFile'
                                   /\ st2 = stack' /\ pt2 = part'
  OBVIOUS
<1>3. Sorting(n, in, size, k, it, st, pt)
  BY <1>1, <1>2 DEF SortInv
<1>4. ASSUME input' = input, buffer_size' = buffer_size, Sorting(n, in, size, k2, it2, st2, pt2)
      PROVE  SortInv'
  <2>1. Count' = n
    BY <1>1, <1>4 DEF Count
  <2>2. input' = in /\ buffer_size' = size
    BY <1>1, <1>4
  <2> QED BY <1>2, <1>4, <2>1, <2>2 DEF SortInv
<1>5. DOMAIN keyFile = 0 .. n - 1 /\ DOMAIN itemFile = 0 .. n - 1
  <2>1. Paired(n, in, k, it)
    BY <1>3 DEF Sorting
  <2> QED BY <1>1, <2>1 DEF Paired
<1>6. CASE SortInMemory
  <2>1. pt = None /\ st # << >> /\ pt2 = None /\ st2 = Tail(st) /\ input' = input /\ buffer_size' = buffer_size
    BY <1>1, <1>2, <1>6 DEF SortInMemory
  <2>2. PICK begin, end : begin = Head(st)[1] /\ end = Head(st)[2]
    OBVIOUS
  <2>3. SortsPart(n, k, it, begin, end, k2, it2)
    BY <1>1, <1>2, <1>5, <1>6, <2>2 DEF SortInMemory, SortsPart
  <2>4. Sorting(n, in, size, k2, it2, st2, pt2)
    BY <1>3, <2>1, <2>2, <2>3, MemoryStep
  <2> QED BY <1>4, <2>1, <2>4
<1>7. CASE StartDividing
  <2>1. pt = None /\ st # << >> /\ st2 = Tail(st) /\ input' = input /\ buffer_size' = buffer_size
    BY <1>1, <1>2, <1>7 DEF StartDividing
  <2>2. PICK begin, end : begin = Head(st)[1] /\ end = Head(st)[2]
    OBVIOUS
  <2>3. SwapsPivot(k, begin, end, k2) /\ SwapsPivot(it, begin, end, it2)
    <3>1. SwapsPivot(k, begin, end, k2)
      BY <1>1, <1>2, <1>7, <2>2 DEF StartDividing, SwapsPivot
    <3>2. SwapsPivot(it, begin, end, it2)
      BY <1>1, <1>2, <1>7, <2>2 DEF StartDividing, SwapsPivot
    <3> QED BY <3>1, <3>2
  <2>4. pt2 = NewPart(begin, end, k2, it2)
    BY <1>1, <1>2, <1>7, <2>2 DEF StartDividing, NewPart
  <2>5. Sorting(n, in, size, k2, it2, st2, pt2)
    BY <1>3, <2>1, <2>2, <2>3, <2>4, DivisionBegins
  <2> QED BY <1>4, <2>1, <2>5
<1>8. CASE Round
  <2>1. pt # None /\ pt.autres > 0 /\ st2 = st /\ input' = input /\ buffer_size' = buffer_size
    BY <1>1, <1>2, <1>8 DEF Round
  <2>2. PICK o : o = RoundPlan(pt, k, size)
    OBVIOUS
  <2>3. k2 = AfterRound(k, o, pt.curKey) /\ it2 = AfterRound(it, o, pt.curItem)
    <3>1. keyFile' = AfterRound(keyFile, RoundPlan(part, keyFile, buffer_size), part.curKey)
      BY <1>8, Zenon DEF Round, RoundPlan
    <3>2. itemFile' = AfterRound(itemFile, RoundPlan(part, keyFile, buffer_size), part.curItem)
      BY <1>8, Zenon DEF Round, RoundPlan
    <3> QED BY <1>1, <1>2, <2>2, <3>1, <3>2
  <2>4. pt2 = RoundPart(pt, o)
    BY <1>1, <1>2, <1>8, <2>2 DEF Round, RoundPlan, RoundPart
  <2>5. Sorting(n, in, size, k2, it2, st2, pt2)
    BY <1>3, <2>1, <2>2, <2>3, <2>4, RoundStep
  <2> QED BY <1>4, <2>1, <2>5
<1>9. CASE EndDividing
  <2>1. /\ pt # None /\ pt.autres = 0 /\ k2 = k /\ it2 = it /\ pt2 = None
        /\ input' = input /\ buffer_size' = buffer_size
    BY <1>1, <1>2, <1>9 DEF EndDividing
  <2>2. st2 = Sides(pt) \o st
    BY <1>1, <1>2, <1>9 DEF EndDividing, Sides
  <2>3. Sorting(n, in, size, k2, it2, st2, pt2)
    BY <1>3, <2>1, <2>2, DivisionEnds
  <2> QED BY <1>4, <2>1, <2>3
<1>10. CASE UNCHANGED vars
  <2>1. /\ k2 = k /\ it2 = it /\ st2 = st /\ pt2 = pt
        /\ input' = input /\ buffer_size' = buffer_size
    BY <1>1, <1>2, <1>10 DEF vars
  <2> QED BY <1>3, <1>4, <2>1
<1> QED BY <1>6, <1>7, <1>8, <1>9, <1>10 DEF Next, Returned

\* The inductive invariant of the sort holds after every read and write of it.
THEOREM SortInvariance == Spec => []SortInv
<1>1. Init => SortInv
  BY InitSorting
<1>2. SortInv /\ [Next]_vars => SortInv'
  BY NextSorting
<1> QED BY <1>1, <1>2, PTL DEF Spec

\* The files after every round: each item once, and under its own key.
THEOREM ItemsStayUnderTheirKeys == Spec => []PairsAreKept
<1>1. ASSUME SortInv PROVE PairsAreKept
  <2>1. PICK n, in, k, it : n = Count /\ in = input /\ k = keyFile /\ it = itemFile
    OBVIOUS
  <2>2. Paired(n, in, k, it) /\ in \in [0 .. n - 1 -> Keys]
    BY <1>1, <2>1 DEF SortInv, Sorting
  <2>3. /\ k \in [0 .. n - 1 -> Int] /\ it \in [0 .. n - 1 -> 0 .. n - 1]
        /\ \A p \in 0 .. n - 1 : k[p] = in[it[p]]
        /\ \A y \in 0 .. n - 1 : \E p \in 0 .. n - 1 : it[p] = y
    BY <2>2 DEF Paired
  <2>4. {it[p] : p \in DOMAIN it} = DOMAIN in
    <3>1. DOMAIN it = 0 .. n - 1 /\ DOMAIN in = 0 .. n - 1
      BY <2>2, <2>3
    <3>2. \A p \in DOMAIN it : it[p] \in DOMAIN in
      BY <2>3, <3>1
    <3>3. \A y \in DOMAIN in : \E p \in DOMAIN it : it[p] = y
      BY <2>3, <3>1
    <3> QED BY <3>2, <3>3
  <2>5. \A p \in DOMAIN it : k[p] = in[it[p]]
    BY <2>3
  <2> QED BY <2>1, <2>4, <2>5 DEF PairsAreKept
<1> QED BY <1>1, SortInvariance, PTL

\* The ends of a part.
LEMMA EndsOfPart ==
  ASSUME NEW a \in Int, NEW b \in Int, a <= b
  PROVE  Least({a, b}) = a /\ Greatest({a, b}) = b
<1>1. PICK S : S = {a, b}
  OBVIOUS
<1>2. S \in SUBSET (a .. b) /\ S # {}
  BY <1>1
<1>3. /\ Least(S) \in S /\ \A y \in S : Least(S) <= y
      /\ Greatest(S) \in S /\ \A y \in S : y <= Greatest(S)
  BY <1>2, LeastIs, GreatestIs
<1> QED BY <1>1, <1>3

\* What lies in different parts, or in none, is in order; and so is what has been
\* divided, around the pivot.
THEOREM PartsStayIndependent == Spec => []PartsAreIndependent
<1>1. ASSUME SortInv PROVE PartsAreIndependent
  <2>1. PICK n, k, it, st, pt : n = Count /\ k = keyFile /\ it = itemFile /\ st = stack /\ pt = part
    OBVIOUS
  <2>2. PICK o : o = Open(pt, st)
    OBVIOUS
  <2>3. /\ n \in Nat
        /\ pt # None => InDivision(pt, n, k, it)
        /\ st \in Seq(Intervals(n)) /\ StillToSort(n, k, o)
    BY <1>1, <2>1, <2>2 DEF SortInv, Sorting
  <2>4. k \in [0 .. n - 1 -> Int]
    BY <1>1, <2>1 DEF SortInv, Sorting, Paired
  <2>5. InOrderOutside(n, k, o)
    BY <2>3 DEF StillToSort
  <2>6. PICK parts : parts = {{st[i][1], st[i][2]} : i \in DOMAIN st}
                             \cup (IF pt = None THEN {} ELSE {{pt.begin, pt.end}})
    OBVIOUS
  <2>7. ASSUME NEW i \in 1 .. Len(o)
        PROVE  \E s \in parts : Least(s) = o[i][1] /\ Greatest(s) = o[i][2]
    <3>1. ASSUME NEW iv \in Intervals(n) PROVE Least({iv[1], iv[2]}) = iv[1] /\ Greatest({iv[1], iv[2]}) = iv[2]
      <4>1. iv[1] \in Int /\ iv[2] \in Int /\ iv[1] <= iv[2]
        BY DEF Intervals
      <4> QED BY <4>1, EndsOfPart
    <3>2. o[i] \in Intervals(n)
      BY <2>3, ElementOfSeq DEF StillToSort
    <3>3. {o[i][1], o[i][2]} \in parts
      <4>1. ASSUME NEW j \in 1 .. Len(st), o[i] = st[j] PROVE {o[i][1], o[i][2]} \in parts
        <5>1. j \in DOMAIN st
          BY <2>3
        <5> QED BY <2>6, <4>1, <5>1
      <4>2. CASE pt = None
        <5>1. o = st
          BY <2>2, <2>3, <4>2, NothingOpen
        <5> QED BY <4>1, <5>1
      <4>3. CASE pt # None
        <5>1. PICK iv : iv = <<pt.begin, pt.end>>
          OBVIOUS
        <5>2. PartIsFirst(n, pt, st, iv, o)
          <6>1. PICK in, size : in = input /\ size = buffer_size
            OBVIOUS
          <6>2. Sorting(n, in, size, k, it, st, pt)
            BY <1>1, <2>1, <6>1 DEF SortInv
          <6> QED BY <2>2, <4>3, <5>1, <6>2, DividedPart
        <5>3. o[1] = iv /\ o \in Seq(Intervals(n)) /\ o # << >> /\ Tail(o) = st
          BY <5>2 DEF PartIsFirst
        <5>4. CASE i = 1
          <6>1. {pt.begin, pt.end} \in parts
            BY <2>6, <4>3
          <6>2. o[i][1] = pt.begin /\ o[i][2] = pt.end
            BY <5>1, <5>3, <5>4
          <6> QED BY <6>1, <6>2
        <5>5. CASE i # 1
          <6>1. PICK T : T = Intervals(n)
            OBVIOUS
          <6>2. o \in Seq(T) /\ Len(st) = Len(o) - 1 /\ Len(o) \in Nat /\ \A j \in 1 .. Len(st) : st[j] = o[j + 1]
            BY <5>3, <6>1, HeadTailProperties
          <6>3. i - 1 \in 1 .. Len(st) /\ i - 1 + 1 = i
            BY <5>5, <6>2
          <6>4. o[i] = st[i - 1]
            BY <6>2, <6>3
          <6> QED BY <4>1, <6>3, <6>4
        <5> QED BY <5>4, <5>5
      <4> QED BY <4>2, <4>3
    <3> QED BY <3>1, <3>2, <3>3
  <2>8. ASSUME NEW p \in 0 .. n - 1, NEW q \in 0 .. n - 1, p < q,
               ~\E s \in parts : Least(s) <= p /\ q <= Greatest(s)
        PROVE  k[p] <= k[q]
    <3>1. ASSUME NEW i \in 1 .. Len(o) PROVE ~Covers(o[i], p, q)
      BY <2>7, <2>8 DEF Covers
    <3> QED BY <2>5, <2>8, <3>1 DEF InOrderOutside
  <2>9. ASSUME pt # None
        PROVE  LET pivotAt == pt.end - pt.plusGrands IN
               /\ k[pivotAt] = pt.curKey
               /\ \A p \in pt.begin .. pt.begin + pt.plusPetits - 1 : k[p] <= pt.curKey
               /\ \A p \in pivotAt + 1 .. pt.end : k[p] >= pt.curKey
    <3>1. PICK a : a = pt.end - pt.plusGrands
      OBVIOUS
    <3>2. /\ k[a] = pt.curKey
          /\ \A p \in pt.begin .. pt.begin + pt.plusPetits - 1 : k[p] <= pt.curKey
          /\ \A p \in a + 1 .. pt.end : pt.curKey <= k[p]
      <4>1. InDivision(pt, n, k, it)
        BY <2>3, <2>9
      <4>2. k[a] = pt.curKey
        BY <3>1, <4>1 DEF InDivision
      <4>3. \A p \in pt.begin .. pt.begin + pt.plusPetits - 1 : k[p] <= pt.curKey
        BY <4>1 DEF InDivision
      <4>4. \A p \in a + 1 .. pt.end : pt.curKey <= k[p]
        BY <3>1, <4>1 DEF InDivision
      <4> QED BY <4>2, <4>3, <4>4
    <3>3. pt.curKey \in Int /\ \A p \in a + 1 .. pt.end : k[p] \in Int
      <4>1. InDivision(pt, n, k, it) /\ pt \in PartRecords(n)
        BY <2>3, <2>9 DEF InDivision
      <4>2. PICK e, g : e = pt.end /\ g = pt.plusGrands
        OBVIOUS
      <4>3. pt.curKey \in Int /\ e \in 0 .. n - 1 /\ g \in Nat
        BY <4>1, <4>2 DEF PartRecords
      <4>4. a = e - g /\ 0 <= a
        <5>1. PICK b, c, d : b = pt.begin /\ c = pt.plusPetits /\ d = pt.autres
          OBVIOUS
        <5>2. b + c + d + g = e
          BY <4>1, <4>2, <5>1 DEF InDivision
        <5>3. b \in Nat /\ c \in Nat /\ d \in Nat
          BY <4>1, <5>1 DEF PartRecords
        <5>4. b \in Nat /\ e \in Int
          BY <4>3, <5>3
        <5> QED BY <3>1, <4>2, <4>3, <5>2, <5>3, <5>4
      <4>5. \A p \in a + 1 .. e : p \in 0 .. n - 1
        BY <2>3, <4>3, <4>4
      <4> QED BY <2>4, <4>2, <4>3, <4>5
    <3> QED BY <3>1, <3>2, <3>3
  <2>10. DOMAIN k = 0 .. n - 1
    BY <2>4
  <2> QED BY <2>1, <2>6, <2>8, <2>9, <2>10 DEF PartsAreIndependent
<1> QED BY <1>1, SortInvariance, PTL

KeysInOrder == \A p, q \in DOMAIN keyFile : p < q => keyFile[p] <= keyFile[q]

\* When the sort has ended, the keys of the file are in order.
THEOREM SortedWhenDone == Spec => [](Done => KeysInOrder)
<1>1. ASSUME SortInv, Done PROVE KeysInOrder
  <2>1. PICK n, k : n = Count /\ k = keyFile
    OBVIOUS
  <2>2. StillToSort(n, k, << >>) /\ k \in [0 .. n - 1 -> Int]
    <3>1. Open(None, << >>) = << >>
      BY DEF Open
    <3>2. StillToSort(n, k, Open(None, << >>))
      BY <1>1, <2>1 DEF SortInv, Sorting, Done
    <3>3. k \in [0 .. n - 1 -> Int]
      BY <1>1, <2>1 DEF SortInv, Sorting, Paired
    <3> QED BY <3>1, <3>2, <3>3
  <2>3. 1 .. Len(<< >>) = {}
    OBVIOUS
  <2>4. \A p \in 0 .. n - 1 : \A q \in 0 .. n - 1 : p < q => k[p] <= k[q]
    BY <2>2, <2>3 DEF StillToSort, InOrderOutside
  <2>5. DOMAIN k = 0 .. n - 1
    BY <2>2
  <2> QED BY <2>1, <2>4, <2>5 DEF KeysInOrder
<1>2. SortInv => (Done => KeysInOrder)
  BY <1>1
<1> QED BY <1>2, SortInvariance, PTL
=============================================================================
