-------------------------- MODULE MapCompiler_proofs --------------------------
(***************************************************************************)
(* Theorems about the map compiler, for documents and shape files of any    *)
(* length, every limit of the counts and every size of the write buffers:   *)
(*                                                                          *)
(*   RecordsOwn                  records have the tags of their elements    *)
(*   ShapesHaveTheirAttributes   shapes have those of their dbf records     *)
(*   ShapesKeepTheirSegments     shapes are made up by their ways           *)
(*                                                                          *)
(* DocumentInv says what has been read, TagsInv whose bytes are in the raw  *)
(* file of the tags, RecordsInv what the records delimit and CountsInv how  *)
(* many of them there are.  The sequences and shapes of the specification   *)
(* are folds; the first part of the module is about those: a fold is a      *)
(* function of the beginnings of its sequence, and what holds of it is      *)
(* shown by StepInduction over how much of the sequence has been taken.     *)
(***************************************************************************)
EXTENDS MapCompiler, WellFoundedInduction, FiniteSetTheorems, SequenceTheorems, TLAPS

(* Induction over indices, and the folds of the community modules, which     *)
(* recur over sets of indices and take the greatest of them first.           *)

\* The least element of a set of natural numbers.
LEMMA LeastElement ==
  ASSUME NEW T \in SUBSET Nat, T # {}
  PROVE  \E n \in T : \A m \in T : n <= m
<1>1. PICK n \in T : \A m \in T : ~(<<m, n>> \in OpToRel(<, Nat))
  BY NatLessThanWellFounded, WFMin
<1>2. ASSUME NEW m \in T PROVE n <= m
  <2>1. m < n => <<m, n>> \in OpToRel(<, Nat)
    BY DEF OpToRel
  <2>2. ~(m < n)
    BY <1>1, <2>1, Zenon
  <2> QED BY <2>2
<1> QED BY <1>2

\* Induction over the first natural numbers, for a set in place of a predicate.
LEMMA StepInduction ==
  ASSUME NEW N \in Nat, NEW S, 0 \in S, \A n \in 1 .. N : n - 1 \in S => n \in S
  PROVE  \A n \in 0 .. N : n \in S
<1>1. PICK T : T = {n \in 0 .. N : n \notin S}
  OBVIOUS
<1> SUFFICES ASSUME T # {} PROVE FALSE
  BY <1>1
<1>2. T \in SUBSET Nat
  BY <1>1
<1>3. PICK n \in T : \A m \in T : n <= m
  BY <1>2, LeastElement
<1>4. n \in 1 .. N /\ n - 1 \in 0 .. N /\ ~(n <= n - 1)
  <2>1. n \in 0 .. N /\ n \notin S
    BY <1>1
  <2>2. n # 0
    BY <2>1
  <2> QED BY <2>1, <2>2
<1>5. n - 1 \in S
  BY <1>1, <1>3, <1>4
<1> QED BY <1>1, <1>4, <1>5

\* The greatest element of a set, as FiniteSetsExt has it.
Greatest(s) == CHOOSE x \in s : \A y \in s : x >= y

\* A set of indices has a greatest one.
LEMMA GreatestIs ==
  ASSUME NEW N \in Nat, NEW s \in SUBSET (1 .. N), s # {}
  PROVE  Greatest(s) \in s /\ \A y \in s : Greatest(s) >= y
<1>1. PICK T : T = {N - y : y \in s}
  OBVIOUS
<1>2. T \in SUBSET Nat /\ T # {}
  <2>1. \A y \in s : N - y \in Nat
    OBVIOUS
  <2> QED BY <1>1, <2>1
<1>3. PICK n \in T : \A m \in T : n <= m
  BY <1>2, LeastElement
<1>4. PICK x \in s : n = N - x
  BY <1>1, <1>3
<1>5. \A y \in s : x >= y
  <2> TAKE y \in s
  <2>1. n <= N - y /\ x \in Int /\ y \in Int
    BY <1>1, <1>3
  <2> QED BY <1>4, <2>1
<1>6. \E z \in s : \A y \in s : z >= y
  BY <1>5
<1> QED BY <1>6, Zenon DEF Greatest

\* The first n indices, without the last of them.
LEMMA GreatestOfFirst ==
  ASSUME NEW N \in Nat, NEW n \in 1 .. N
  PROVE  /\ 1 .. n \in SUBSET (1 .. N) /\ 1 .. n # {}
         /\ Greatest(1 .. n) = n /\ (1 .. n) \ {n} = 1 .. n - 1
<1>1. 1 .. n \in SUBSET (1 .. N) /\ n \in 1 .. n
  OBVIOUS
<1>2. Greatest(1 .. n) \in 1 .. n /\ \A y \in 1 .. n : Greatest(1 .. n) >= y
  BY <1>1, GreatestIs
<1>3. Greatest(1 .. n) = n
  BY <1>1, <1>2
<1> QED BY <1>1, <1>3

\* g goes through sets of indices, from v on: H gives what a fold makes of the index
\* taken last and of the value for the others.
Folds(g, N, v, H) ==
  g = [s \in SUBSET (1 .. N) |->
         IF s = {} THEN v ELSE H[<<Greatest(s), g[s \ {Greatest(s)}]>>]]

\* A fold goes through some sets more: the value for a set with n is what H makes of n and
\* of the value for the others.
FoldMore(g, h, n, H) ==
  h = [s \in SUBSET (1 .. n) |-> IF n \in s THEN H[<<n, g[s \ {n}]>>] ELSE g[s]]

\* It still is a fold.
LEMMA FoldsOn ==
  ASSUME NEW V, NEW n \in Nat \ {0}, NEW v \in V, NEW H,
         \A z \in (1 .. n) \X V : H[z] \in V,
         NEW g \in [SUBSET (1 .. n - 1) -> V], Folds(g, n - 1, v, H), NEW h, FoldMore(g, h, n, H)
  PROVE  h \in [SUBSET (1 .. n) -> V] /\ Folds(h, n, v, H)
<1>1. PICK m : m = n - 1 /\ m \in Nat /\ 1 .. m = (1 .. n) \ {n}
  OBVIOUS
<1>2. ASSUME NEW s \in SUBSET (1 .. n)
      PROVE  /\ s \ {n} \in SUBSET (1 .. m) /\ n \notin s \ {n}
             /\ n \notin s => s \in SUBSET (1 .. m)
             /\ n \in s => s # {} /\ Greatest(s) = n
  <2>1. s \ {n} \in SUBSET (1 .. m) /\ (n \notin s => s \in SUBSET (1 .. m))
    BY <1>1
  <2>2. ASSUME n \in s PROVE Greatest(s) = n
    <3>1. Greatest(s) \in s /\ \A y \in s : Greatest(s) >= y
      BY <2>2, GreatestIs
    <3>2. Greatest(s) \in 1 .. n /\ Greatest(s) >= n
      BY <2>2, <3>1
    <3> QED BY <3>2
  <2> QED BY <2>1, <2>2
<1>3. ASSUME NEW s \in SUBSET (1 .. n) PROVE h[s] = IF n \in s THEN H[<<n, g[s \ {n}]>>] ELSE g[s]
  BY DEF FoldMore
<1>4. h \in [SUBSET (1 .. n) -> V]
  <2>1. ASSUME NEW s \in SUBSET (1 .. n) PROVE h[s] \in V
    <3>1. CASE n \in s
      <4>1. g[s \ {n}] \in V
        BY <1>1, <1>2
      <4>2. <<n, g[s \ {n}]>> \in (1 .. n) \X V
        BY <4>1
      <4> QED BY <1>3, <3>1, <4>2
    <3>2. CASE n \notin s
      <4>1. g[s] \in V
        BY <1>1, <1>2, <3>2
      <4> QED BY <1>3, <3>2, <4>1
    <3> QED BY <3>1, <3>2
  <2> QED BY <2>1 DEF FoldMore
<1>5. ASSUME NEW s \in SUBSET (1 .. n), s # {}
      PROVE  h[s] = H[<<Greatest(s), h[s \ {Greatest(s)}]>>]
  <2>1. CASE n \in s
    <3>1. s \ {n} \in SUBSET (1 .. n)
      OBVIOUS
    <3>2. h[s \ {n}] = g[s \ {n}]
      BY <1>3, <3>1
    <3>3. h[s] = H[<<n, h[s \ {n}]>>]
      BY <1>3, <2>1, <3>2
    <3> QED BY <1>2, <2>1, <3>3
  <2>2. CASE n \notin s
    <3>1. PICK x : x = Greatest(s)
      OBVIOUS
    <3>2. s \ {x} \in SUBSET (1 .. n) /\ n \notin s \ {x}
      BY <2>2
    <3>3. h[s] = g[s] /\ h[s \ {x}] = g[s \ {x}]
      BY <1>3, <2>2, <3>2
    <3>4. s \in SUBSET (1 .. n - 1)
      BY <1>1, <1>2, <2>2
    <3>5. g[s] = H[<<x, g[s \ {x}]>>]
      BY <1>5, <3>1, <3>4 DEF Folds
    <3> QED BY <3>1, <3>3, <3>5
  <2> QED BY <2>1, <2>2
<1>6. h[{}] = v
  <2>1. {} \in SUBSET (1 .. n) /\ n \notin {} /\ {} \in SUBSET (1 .. n - 1)
    OBVIOUS
  <2>2. g[{}] = v
    BY <2>1 DEF Folds
  <2> QED BY <1>3, <2>1, <2>2
<1>7. h = [s \in SUBSET (1 .. n) |-> IF s = {} THEN v ELSE H[<<Greatest(s), h[s \ {Greatest(s)}]>>]]
  <2>1. \A s \in SUBSET (1 .. n) :
          h[s] = IF s = {} THEN v ELSE H[<<Greatest(s), h[s \ {Greatest(s)}]>>]
    BY <1>5, <1>6
  <2>2. DOMAIN h = SUBSET (1 .. n) /\ h = [s \in SUBSET (1 .. n) |-> h[s]]
    BY <1>4
  <2> QED BY <2>1, <2>2, Zenon
<1> QED BY <1>4, <1>7 DEF Folds

\* The function over sets of indices by which a fold is defined exists.
LEMMA FoldExists ==
  ASSUME NEW V, NEW N \in Nat, NEW v \in V, NEW H \in [(1 .. N) \X V -> V]
  PROVE  \E g \in [SUBSET (1 .. N) -> V] : Folds(g, N, v, H)
<1>1. PICK S : S = {n \in Nat : \E g \in [SUBSET (1 .. n) -> V] : Folds(g, n, v, H)}
  OBVIOUS
<1>2. 0 \in S
  <2>1. PICK g : g = [s \in SUBSET (1 .. 0) |-> v]
    OBVIOUS
  <2>2. SUBSET (1 .. 0) = {{}}
    OBVIOUS
  <2>3. g = [s \in SUBSET (1 .. 0) |-> IF s = {} THEN v ELSE H[<<Greatest(s), g[s \ {Greatest(s)}]>>]]
    <3>1. \A s \in SUBSET (1 .. 0) : s = {}
      BY <2>2
    <3> QED BY <2>1, <3>1
  <2>4. g \in [SUBSET (1 .. 0) -> V] /\ Folds(g, 0, v, H)
    BY <2>1, <2>3 DEF Folds
  <2> QED BY <1>1, <2>4
<1>3. ASSUME NEW n \in 1 .. N, n - 1 \in S PROVE n \in S
  <2>1. PICK g \in [SUBSET (1 .. n - 1) -> V] : Folds(g, n - 1, v, H)
    BY <1>1, <1>3
  <2>2. PICK h : FoldMore(g, h, n, H)
    BY DEF FoldMore
  <2>3. \A z \in (1 .. n) \X V : H[z] \in V
    OBVIOUS
  <2>4. n \in Nat \ {0}
    OBVIOUS
  <2>5. h \in [SUBSET (1 .. n) -> V] /\ Folds(h, n, v, H)
    BY <2>1, <2>2, <2>3, <2>4, FoldsOn
  <2> QED BY <1>1, <2>4, <2>5
<1>4. N \in S
  BY <1>2, <1>3, StepInduction
<1> QED BY <1>1, <1>4
-----------------------------------------------------------------------------

(* The elements of a sequence that are in a set. *)

\* One step of Those.
Keep(kept, e, S) == IF e \in S THEN Append(kept, e) ELSE kept

\* What Those has kept after each of the elements.
Keeps(f, s, S) ==
  /\ f[0] = << >>
  /\ \A n \in 1 .. Len(s) : f[n] = Keep(f[n - 1], s[n], S)

\* Those goes through the sequence from its first element to its last.
LEMMA ThoseSteps ==
  ASSUME NEW V, NEW s \in Seq(V), NEW S
  PROVE  \E f \in [0 .. Len(s) -> Seq(V)] : Keeps(f, s, S) /\ Those(s, S) = f[Len(s)]
<1>1. PICK N : N = Len(s)
  OBVIOUS
<1>2. N \in Nat /\ DOMAIN s = 1 .. N /\ \A i \in 1 .. N : s[i] \in V
  BY <1>1, LenProperties, ElementOfSeq
<1>3. PICK H : H = [z \in (1 .. N) \X Seq(V) |-> Keep(z[2], s[z[1]], S)]
  OBVIOUS
<1>4. ASSUME NEW n \in 1 .. N, NEW kept \in Seq(V) PROVE Keep(kept, s[n], S) \in Seq(V)
  BY <1>2, AppendProperties DEF Keep
<1>5. H \in [(1 .. N) \X Seq(V) -> Seq(V)]
  BY <1>3, <1>4
<1>6. << >> \in Seq(V)
  OBVIOUS
<1>7. PICK g \in [SUBSET (1 .. N) -> Seq(V)] : Folds(g, N, << >>, H)
  BY <1>2, <1>5, <1>6, FoldExists
<1>8. ASSUME NEW t \in SUBSET (1 .. N), t # {}
      PROVE  H[<<Greatest(t), g[t \ {Greatest(t)}]>>]
               = Keep(g[t \ {Greatest(t)}], s[Greatest(t)], S)
  <2>1. Greatest(t) \in 1 .. N /\ t \ {Greatest(t)} \in SUBSET (1 .. N)
    BY <1>2, <1>8, GreatestIs
  <2>2. g[t \ {Greatest(t)}] \in Seq(V)
    BY <2>1
  <2> QED BY <1>3, <2>1, <2>2
<1>9. g = [t \in SUBSET (1 .. N) |->
             IF t = {} THEN << >> ELSE Keep(g[t \ {Greatest(t)}], s[Greatest(t)], S)]
  BY <1>7, <1>8, Zenon DEF Folds
<1>10. PICK h : h = CHOOSE iter : iter =
                      [t \in SUBSET (1 .. N) |->
                        IF t = {} THEN << >>
                        ELSE Keep(iter[t \ {Greatest(t)}], s[Greatest(t)], S)]
  OBVIOUS
<1>11. h = [t \in SUBSET (1 .. N) |->
              IF t = {} THEN << >> ELSE Keep(h[t \ {Greatest(t)}], s[Greatest(t)], S)]
  BY <1>9, <1>10
<1>12. Those(s, S) = h[1 .. N]
  BY <1>2, <1>10, Zenon DEF Those, FoldLeft, MapThenFoldSet, Max, Greatest, Keep
<1>13. PICK f : f = [n \in 0 .. N |-> h[1 .. n]]
  OBVIOUS
<1>14. f[0] = << >>
  <2>1. 1 .. 0 = {} /\ {} \in SUBSET (1 .. N) /\ 0 \in 0 .. N
    BY <1>2
  <2> QED BY <1>11, <1>13, <2>1
<1>15. ASSUME NEW n \in 1 .. N PROVE f[n] = Keep(f[n - 1], s[n], S)
  <2>1. /\ 1 .. n \in SUBSET (1 .. N) /\ 1 .. n # {}
        /\ Greatest(1 .. n) = n /\ (1 .. n) \ {n} = 1 .. n - 1
    BY <1>2, GreatestOfFirst
  <2>2. h[1 .. n] = Keep(h[1 .. n - 1], s[n], S)
    BY <1>11, <2>1
  <2>3. n \in 0 .. N /\ n - 1 \in 0 .. N
    BY <1>2
  <2> QED BY <1>13, <2>2, <2>3
<1>16. \A n \in 0 .. N : f[n] \in Seq(V)
  <2>1. PICK T : T = {n \in 0 .. N : f[n] \in Seq(V)}
    OBVIOUS
  <2>2. 0 \in T
    <3>1. 0 \in 0 .. N /\ f[0] \in Seq(V)
      BY <1>2, <1>6, <1>14
    <3> QED BY <2>1, <3>1
  <2>3. \A n \in 1 .. N : n - 1 \in T => n \in T
    BY <1>2, <1>4, <1>15, <2>1
  <2>4. \A n \in 0 .. N : n \in T
    BY <1>2, <2>2, <2>3, StepInduction
  <2> QED BY <2>1, <2>4
<1>17. f \in [0 .. N -> Seq(V)] /\ f[N] = h[1 .. N]
  BY <1>2, <1>13, <1>16
<1> QED BY <1>1, <1>12, <1>14, <1>15, <1>17 DEF Keeps

\* Two sequences that agree, also on what is kept of them, are kept the same of.
LEMMA KeepsAgree ==
  ASSUME NEW N \in Nat, NEW s, NEW t, NEW S, NEW T, NEW f, NEW g, Keeps(f, s, S), Keeps(g, t, T),
         Len(s) \in Nat, Len(t) \in Nat, N <= Len(s), N <= Len(t),
         \A i \in 1 .. N : s[i] = t[i] /\ (s[i] \in S <=> t[i] \in T)
  PROVE  \A n \in 0 .. N : f[n] = g[n]
<1>1. PICK X : X = {n \in 0 .. N : f[n] = g[n]}
  OBVIOUS
<1>2. 0 \in X
  BY <1>1 DEF Keeps
<1>3. ASSUME NEW n \in 1 .. N, n - 1 \in X PROVE n \in X
  <2>1. f[n - 1] = g[n - 1] /\ n \in 0 .. N /\ n \in 1 .. Len(s) /\ n \in 1 .. Len(t)
    BY <1>1, <1>3
  <2>2. f[n] = Keep(f[n - 1], s[n], S) /\ g[n] = Keep(g[n - 1], t[n], T)
    BY <2>1 DEF Keeps
  <2>3. f[n] = g[n]
    BY <2>1, <2>2 DEF Keep
  <2> QED BY <1>1, <2>1, <2>3
<1>4. \A n \in 0 .. N : n \in X
  BY <1>2, <1>3, StepInduction
<1> QED BY <1>1, <1>4

\* What is kept of nothing.
LEMMA ThoseEmpty ==
  ASSUME NEW S
  PROVE  Those(<< >>, S) = << >>
<1>1. << >> \in Seq({}) /\ Len(<< >>) = 0
  OBVIOUS
<1>2. PICK f : Keeps(f, << >>, S) /\ Those(<< >>, S) = f[Len(<< >>)]
  BY <1>1, ThoseSteps
<1> QED BY <1>1, <1>2 DEF Keeps

\* What is kept depends on the elements of the sequence only.
LEMMA ThoseAgree ==
  ASSUME NEW V, NEW s \in Seq(V), NEW S, NEW T,
         \A i \in 1 .. Len(s) : s[i] \in S <=> s[i] \in T
  PROVE  Those(s, S) = Those(s, T)
<1>1. Len(s) \in Nat
  OBVIOUS
<1>2. PICK f : Keeps(f, s, S) /\ Those(s, S) = f[Len(s)]
  BY ThoseSteps
<1>3. PICK g : Keeps(g, s, T) /\ Those(s, T) = g[Len(s)]
  BY ThoseSteps
<1>4. \A n \in 0 .. Len(s) : f[n] = g[n]
  BY <1>1, <1>2, <1>3, KeepsAgree
<1>5. Len(s) \in 0 .. Len(s)
  BY <1>1
<1> QED BY <1>2, <1>3, <1>4, <1>5

\* One element more.
LEMMA ThoseAppend ==
  ASSUME NEW V, NEW s \in Seq(V), NEW e \in V, NEW S
  PROVE  Those(Append(s, e), S) = Keep(Those(s, S), e, S)
<1>1. PICK t : t = Append(s, e)
  OBVIOUS
<1>2. /\ t \in Seq(V) /\ Len(s) \in Nat /\ Len(t) = Len(s) + 1 /\ t[Len(s) + 1] = e
      /\ \A i \in 1 .. Len(s) : t[i] = s[i]
  BY <1>1, AppendProperties, LenProperties
<1>3. PICK f : Keeps(f, s, S) /\ Those(s, S) = f[Len(s)]
  BY ThoseSteps
<1>4. PICK g : Keeps(g, t, S) /\ Those(t, S) = g[Len(t)]
  BY <1>2, ThoseSteps
<1>5. Len(t) \in Nat /\ Len(s) <= Len(s) /\ Len(s) <= Len(t)
  BY <1>2
<1>6. \A n \in 0 .. Len(s) : f[n] = g[n]
  BY <1>2, <1>3, <1>4, <1>5, KeepsAgree
<1>7. Len(s) \in 0 .. Len(s) /\ Len(t) \in 1 .. Len(t) /\ Len(t) - 1 = Len(s)
  BY <1>2
<1>8. g[Len(t)] = Keep(g[Len(s)], e, S)
  BY <1>2, <1>4, <1>7 DEF Keeps
<1> QED BY <1>1, <1>3, <1>4, <1>6, <1>7, <1>8

\* What is kept are the elements that are in the set.
LEMMA ThoseAre ==
  ASSUME NEW V, NEW s \in Seq(V), NEW S
  PROVE  Those(s, S) \in Seq(V \cap S) /\ ToSet(Those(s, S)) = ToSet(s) \cap S
<1>1. Len(s) \in Nat /\ DOMAIN s = 1 .. Len(s) /\ \A i \in 1 .. Len(s) : s[i] \in V
  BY LenProperties, ElementOfSeq
<1>2. PICK f : Keeps(f, s, S) /\ Those(s, S) = f[Len(s)]
  BY ThoseSteps
<1> DEFINE Right(n) == /\ f[n] \in Seq(V \cap S)
                       /\ \A x : (\E j \in 1 .. Len(f[n]) : f[n][j] = x) <=>
                                 (\E i \in 1 .. n : s[i] = x) /\ x \in S
<1>3. PICK X : X = {n \in 0 .. Len(s) : Right(n)}
  OBVIOUS
<1>4. Right(0)
  <2>1. f[0] = << >> /\ << >> \in Seq(V \cap S) /\ Len(<< >>) = 0
    BY <1>2 DEF Keeps
  <2> QED BY <2>1
<1>5. ASSUME NEW n \in 1 .. Len(s), Right(n - 1) PROVE Right(n)
  <2>1. f[n] = Keep(f[n - 1], s[n], S) /\ n - 1 \in Nat /\ s[n] \in V
    BY <1>1, <1>2 DEF Keeps
  <2>2. PICK m, k, e : m = f[n - 1] /\ k = n - 1 /\ e = s[n]
    OBVIOUS
  <2>3. /\ m \in Seq(V \cap S)
        /\ \A x : (\E j \in 1 .. Len(m) : m[j] = x) <=> (\E i \in 1 .. k : s[i] = x) /\ x \in S
    BY <1>5, <2>2
  <2>4. \A x : (\E i \in 1 .. n : s[i] = x) <=> (\E i \in 1 .. k : s[i] = x) \/ x = e
    <3>1. \A i : i \in 1 .. n <=> i \in 1 .. k \/ i = n
      BY <1>1, <2>2
    <3> QED BY <2>2, <3>1
  <2>5. CASE e \in S
    <3>1. f[n] = Append(m, e) /\ e \in V \cap S
      BY <2>1, <2>2, <2>5 DEF Keep
    <3>2. PICK q : q = Append(m, e)
      OBVIOUS
    <3>3. /\ q \in Seq(V \cap S) /\ Len(q) = Len(m) + 1 /\ q[Len(m) + 1] = e /\ Len(m) \in Nat
          /\ \A j \in 1 .. Len(m) : q[j] = m[j]
      BY <2>3, <3>1, <3>2, AppendProperties, LenProperties
    <3>4. \A j : j \in 1 .. Len(q) <=> j \in 1 .. Len(m) \/ j = Len(m) + 1
      BY <3>3
    <3>5. \A x : (\E j \in 1 .. Len(q) : q[j] = x) <=> (\E j \in 1 .. Len(m) : m[j] = x) \/ x = e
      BY <3>3, <3>4
    <3>6. \A x : (\E j \in 1 .. Len(q) : q[j] = x) <=> (\E i \in 1 .. n : s[i] = x) /\ x \in S
      BY <2>3, <2>4, <2>5, <3>5
    <3> QED BY <3>1, <3>2, <3>3, <3>6
  <2>6. CASE e \notin S
    <3>1. f[n] = m
      BY <2>1, <2>2, <2>6 DEF Keep
    <3>2. \A x : (\E j \in 1 .. Len(m) : m[j] = x) <=> (\E i \in 1 .. n : s[i] = x) /\ x \in S
      BY <2>3, <2>4, <2>6
    <3> QED BY <2>3, <3>1, <3>2
  <2> QED BY <2>5, <2>6
<1> HIDE DEF Right
<1>6. \A n \in 0 .. Len(s) : n \in X
  <2>1. 0 \in X
    BY <1>1, <1>3, <1>4
  <2>2. \A n \in 1 .. Len(s) : n - 1 \in X => n \in X
    BY <1>1, <1>3, <1>5
  <2> QED BY <1>1, <2>1, <2>2, StepInduction
<1>7. Right(Len(s))
  BY <1>1, <1>3, <1>6
<1>8. PICK r : r = Those(s, S)
  OBVIOUS
<1>9. /\ r \in Seq(V \cap S) /\ DOMAIN r = 1 .. Len(r)
      /\ \A x : (\E j \in 1 .. Len(r) : r[j] = x) <=> (\E i \in 1 .. Len(s) : s[i] = x) /\ x \in S
  BY <1>2, <1>7, <1>8, LenProperties DEF Right
<1>10. \A x : x \in ToSet(r) <=> x \in ToSet(s) /\ x \in S
  BY <1>1, <1>9 DEF ToSet
<1> QED BY <1>8, <1>9, <1>10

\* Two sequences of which the same places are kept, with elements that are related.
LEMMA ThoseParallel ==
  ASSUME NEW V, NEW W, NEW s \in Seq(V), NEW t \in Seq(W), NEW S, NEW T, NEW R, Len(s) = Len(t),
         \A i \in 1 .. Len(s) : /\ s[i] \in S <=> t[i] \in T
                                /\ s[i] \in S => <<s[i], t[i]>> \in R
  PROVE  LET a == Those(s, S)  b == Those(t, T) IN
         Len(a) = Len(b) /\ \A j \in 1 .. Len(a) : <<a[j], b[j]>> \in R
<1>1. Len(s) \in Nat /\ \A i \in 1 .. Len(s) : s[i] \in V /\ t[i] \in W
  BY LenProperties, ElementOfSeq
<1>2. PICK f \in [0 .. Len(s) -> Seq(V)] : Keeps(f, s, S) /\ Those(s, S) = f[Len(s)]
  BY ThoseSteps
<1>3. PICK g \in [0 .. Len(t) -> Seq(W)] : Keeps(g, t, T) /\ Those(t, T) = g[Len(t)]
  BY ThoseSteps
<1> DEFINE Related(a, b) == Len(a) = Len(b) /\ \A j \in 1 .. Len(a) : <<a[j], b[j]>> \in R
<1>4. PICK X : X = {n \in 0 .. Len(s) : Related(f[n], g[n])}
  OBVIOUS
<1>5. Related(f[0], g[0])
  <2>1. f[0] = << >> /\ g[0] = << >> /\ Len(<< >>) = 0
    BY <1>2, <1>3 DEF Keeps
  <2> QED BY <2>1
<1>6. ASSUME NEW n \in 1 .. Len(s), Related(f[n - 1], g[n - 1]) PROVE Related(f[n], g[n])
  <2>1. /\ f[n] = Keep(f[n - 1], s[n], S) /\ g[n] = Keep(g[n - 1], t[n], T)
        /\ n - 1 \in 0 .. Len(s)
    BY <1>1, <1>2, <1>3 DEF Keeps
  <2>2. PICK a, b, d, e : a = f[n - 1] /\ b = g[n - 1] /\ d = s[n] /\ e = t[n]
    OBVIOUS
  <2>3. /\ a \in Seq(V) /\ b \in Seq(W) /\ Related(a, b) /\ d \in V /\ e \in W
        /\ d \in S <=> e \in T
        /\ d \in S => <<d, e>> \in R
    BY <1>1, <1>6, <2>1, <2>2
  <2>4. CASE d \in S
    <3>1. f[n] = Append(a, d) /\ g[n] = Append(b, e)
      BY <2>1, <2>2, <2>3, <2>4 DEF Keep
    <3>2. PICK p, q : p = Append(a, d) /\ q = Append(b, e)
      OBVIOUS
    <3>3. /\ Len(p) = Len(a) + 1 /\ p[Len(a) + 1] = d /\ Len(a) \in Nat
          /\ \A j \in 1 .. Len(a) : p[j] = a[j]
      BY <2>3, <3>2, AppendProperties, LenProperties
    <3>4. /\ Len(q) = Len(b) + 1 /\ q[Len(b) + 1] = e
          /\ \A j \in 1 .. Len(b) : q[j] = b[j]
      BY <2>3, <3>2, AppendProperties, LenProperties
    <3>5. \A j : j \in 1 .. Len(p) => j \in 1 .. Len(a) \/ j = Len(a) + 1
      BY <3>3
    <3>6. Related(p, q)
      BY <2>3, <2>4, <3>3, <3>4, <3>5
    <3> QED BY <3>1, <3>2, <3>6
  <2>5. CASE d \notin S
    <3>1. f[n] = a /\ g[n] = b
      BY <2>1, <2>2, <2>3, <2>5 DEF Keep
    <3> QED BY <2>3, <3>1
  <2> QED BY <2>4, <2>5
<1> HIDE DEF Related
<1>7. \A n \in 0 .. Len(s) : n \in X
  <2>1. 0 \in X
    BY <1>1, <1>4, <1>5
  <2>2. \A n \in 1 .. Len(s) : n - 1 \in X => n \in X
    <3> TAKE n \in 1 .. Len(s)
    <3>1. n \in 0 .. Len(s)
      BY <1>1
    <3>2. n - 1 \in X => Related(f[n - 1], g[n - 1])
      BY <1>4
    <3> QED BY <1>4, <1>6, <3>1, <3>2
  <2> QED BY <1>1, <2>1, <2>2, StepInduction
<1>8. Related(f[Len(s)], g[Len(s)])
  BY <1>1, <1>4, <1>7
<1> QED BY <1>2, <1>3, <1>8 DEF Related
-----------------------------------------------------------------------------
(* The document. *)

\* What the program can read.
Named == [type : {"point", "way", "relation"}, named : References]
Parts == Seq(Seq(Int \X Int) \ {<< >>})
ShapeRecords == [type : {"point", "lines", "other"}, parts : Parts]
Nodes == [id : NodeIds]
Ways == [id : WayIds, refs : Seq(References)]
Relations == [id : RelationIds, members : Seq(Named)]
Documents ==
  [nodes : Seq(Nodes), ways : Seq(Ways), relations : Seq(Relations),
   members : Seq(Named), shapes : Seq(ShapeRecords)]

Elements ==
  [kind : {"node"}, id : NodeIds] \cup [kind : {"way"}, id : WayIds]
    \cup [kind : {"relation"}, id : RelationIds]

\* The ids of a sequence of elements rise, and another id is beyond them.
Ascending(s) == \A i, j \in DOMAIN s : i < j => s[i].id < s[j].id
Below(s, id) == \A i \in DOMAIN s : s[i].id < id

\* What is known of an element while it is open.
OpenInv ==
  /\ open \in Elements \cup {Nothing}
  /\ open # Nothing => ~closed /\ document.shapes = << >>
  /\ open.kind = "node" => ~waysStarted /\ ~relsStarted /\ Below(document.nodes, open.id)
  /\ open.kind = "way" => waysStarted /\ ~relsStarted /\ Below(document.ways, open.id)
  /\ open.kind = "relation" => relsStarted /\ Below(document.relations, open.id)

\* The inductive invariant of reading: nodes, ways and relations come in this order,
\* each by ascending ids, and the shapes after them.
DocumentInv ==
  /\ document \in Documents
  /\ refs \in Seq(References)
  /\ shapesRead = Len(document.shapes)
  /\ closed \in BOOLEAN /\ waysStarted \in BOOLEAN /\ relsStarted \in BOOLEAN
  /\ waysStarted => document.nodes # << >>
  /\ document.ways # << >> => waysStarted
  /\ document.relations # << >> => relsStarted
  /\ Ascending(document.nodes) /\ Ascending(document.ways) /\ Ascending(document.relations)
  /\ OpenInv

\* An element behind the others.
LEMMA AscendingAppend ==
  ASSUME NEW R, NEW s \in Seq(R), NEW e \in R, Ascending(s), Below(s, e.id)
  PROVE  Ascending(Append(s, e))
<1>1. PICK t : t = Append(s, e)
  OBVIOUS
<1>2. /\ DOMAIN t = 1 .. Len(s) + 1 /\ DOMAIN s = 1 .. Len(s) /\ Len(s) \in Nat
      /\ t[Len(s) + 1] = e /\ \A i \in 1 .. Len(s) : t[i] = s[i]
  BY <1>1, AppendProperties, LenProperties
<1>3. ASSUME NEW i \in DOMAIN t, NEW j \in DOMAIN t, i < j PROVE t[i].id < t[j].id
  <2>1. i \in 1 .. Len(s)
    BY <1>2, <1>3
  <2>2. CASE j = Len(s) + 1
    BY <1>2, <2>1, <2>2 DEF Below
  <2>3. CASE j \in 1 .. Len(s)
    BY <1>2, <1>3, <2>1, <2>3 DEF Ascending
  <2> QED BY <1>2, <2>2, <2>3
<1> QED BY <1>1, <1>3 DEF Ascending

\* A document with other nodes.
LEMMA OtherNodes ==
  ASSUME NEW d \in Documents, NEW x \in Seq(Nodes), NEW e, e = [d EXCEPT !.nodes = x]
  PROVE  /\ e \in Documents /\ e.nodes = x
         /\ e.ways = d.ways /\ e.relations = d.relations /\ e.members = d.members /\ e.shapes = d.shapes
BY DEF Documents

\* A document with other ways.
LEMMA OtherWays ==
  ASSUME NEW d \in Documents, NEW x \in Seq(Ways), NEW e, e = [d EXCEPT !.ways = x]
  PROVE  /\ e \in Documents /\ e.ways = x
         /\ e.nodes = d.nodes /\ e.relations = d.relations /\ e.members = d.members /\ e.shapes = d.shapes
BY DEF Documents

\* A document with other relations.
LEMMA OtherRelations ==
  ASSUME NEW d \in Documents, NEW x \in Seq(Relations), NEW e, e = [d EXCEPT !.relations = x]
  PROVE  /\ e \in Documents /\ e.relations = x
         /\ e.nodes = d.nodes /\ e.ways = d.ways /\ e.members = d.members /\ e.shapes = d.shapes
BY DEF Documents

\* A document with other members.
LEMMA OtherMembers ==
  ASSUME NEW d \in Documents, NEW x \in Seq(Named), NEW e, e = [d EXCEPT !.members = x]
  PROVE  /\ e \in Documents /\ e.members = x
         /\ e.nodes = d.nodes /\ e.ways = d.ways /\ e.relations = d.relations /\ e.shapes = d.shapes
BY DEF Documents

\* A document with other shapes.
LEMMA OtherShapes ==
  ASSUME NEW d \in Documents, NEW x \in Seq(ShapeRecords), NEW e, e = [d EXCEPT !.shapes = x]
  PROVE  /\ e \in Documents /\ e.shapes = x
         /\ e.nodes = d.nodes /\ e.ways = d.ways /\ e.relations = d.relations /\ e.members = d.members
BY DEF Documents

\* What the kind of the open element says of its id.
LEMMA OpenIds ==
  ASSUME OpenInv
  PROVE  /\ open.kind = "node" => open.id \in NodeIds /\ open = [kind |-> "node", id |-> open.id]
         /\ open.kind = "way" => open.id \in WayIds /\ open = [kind |-> "way", id |-> open.id]
         /\ open.kind = "relation" =>
              open.id \in RelationIds /\ open = [kind |-> "relation", id |-> open.id]
         /\ open.kind \in {"node", "way", "relation"} => open # Nothing
         /\ open # Nothing => open \in Elements /\ open.kind \in {"node", "way", "relation"}
<1>1. Nothing.kind = "none"
  BY DEF Nothing
<1>2. CASE open = Nothing
  BY <1>1, <1>2
<1>3. CASE open \in [kind : {"node"}, id : NodeIds]
  BY <1>1, <1>3 DEF Elements
<1>4. CASE open \in [kind : {"way"}, id : WayIds]
  BY <1>1, <1>4 DEF Elements
<1>5. CASE open \in [kind : {"relation"}, id : RelationIds]
  BY <1>1, <1>5 DEF Elements
<1> QED BY <1>2, <1>3, <1>4, <1>5 DEF OpenInv, Elements

\* The node that ends is the last one of the document.
LEMMA EndNodeReads ==
  ASSUME CompilerAssumption, DocumentInv, EndNode
  PROVE  /\ document' \in Documents /\ document'.nodes = Append(document.nodes, [id |-> open.id])
         /\ document'.ways = document.ways /\ document'.relations = document.relations /\ document'.members = document.members /\ document'.shapes = document.shapes
<1>1. document \in Documents /\ document' = [document EXCEPT !.nodes = Append(document.nodes, [id |-> open.id])]
  BY DEF DocumentInv, EndNode
<1>2. PICK d, e, x : d = document /\ e = document' /\ x = Append(document.nodes, [id |-> open.id])
  OBVIOUS
<1>3. x \in Seq(Nodes)
  <2>1. open.id \in NodeIds
    BY OpenIds DEF EndNode, DocumentInv
  <2>2. document.nodes \in Seq(Nodes) /\ [id |-> open.id] \in Nodes
    BY <1>1, <2>1 DEF Documents, Nodes, Ways, Relations
  <2> QED BY <1>2, <2>2, AppendProperties
<1>4. d \in Documents /\ e = [d EXCEPT !.nodes = x]
  BY <1>1, <1>2
<1>5. /\ e \in Documents /\ e.nodes = x
      /\ e.ways = d.ways /\ e.relations = d.relations /\ e.members = d.members /\ e.shapes = d.shapes
  BY <1>3, <1>4, OtherNodes
<1> QED BY <1>2, <1>5

\* The way that ends is the last one of the document.
LEMMA WayReads ==
  ASSUME CompilerAssumption, DocumentInv, NEW keys, WayRead(keys)
  PROVE  /\ document' \in Documents /\ document'.ways = Append(document.ways, [id |-> open.id, refs |-> refs])
         /\ document'.nodes = document.nodes /\ document'.relations = document.relations /\ document'.members = document.members /\ document'.shapes = document.shapes
<1>1. document \in Documents /\ document' = [document EXCEPT !.ways = Append(document.ways, [id |-> open.id, refs |-> refs])]
  BY DEF DocumentInv, WayRead
<1>2. PICK d, e, x : d = document /\ e = document' /\ x = Append(document.ways, [id |-> open.id, refs |-> refs])
  OBVIOUS
<1>3. x \in Seq(Ways)
  <2>1. open.id \in WayIds /\ refs \in Seq(References)
    BY OpenIds DEF WayRead, DocumentInv
  <2>2. /\ document.ways \in Seq(Ways)
        /\ [id |-> open.id, refs |-> refs] \in Ways
    BY <1>1, <2>1 DEF Documents, Nodes, Ways, Relations
  <2> QED BY <1>2, <2>2, AppendProperties
<1>4. d \in Documents /\ e = [d EXCEPT !.ways = x]
  BY <1>1, <1>2
<1>5. /\ e \in Documents /\ e.ways = x
      /\ e.nodes = d.nodes /\ e.relations = d.relations /\ e.members = d.members /\ e.shapes = d.shapes
  BY <1>3, <1>4, OtherWays
<1> QED BY <1>2, <1>5

\* The relation that ends is the last one of the document.
LEMMA EndRelationReads ==
  ASSUME CompilerAssumption, DocumentInv, EndRelation
  PROVE  /\ document' \in Documents /\ document'.relations = Append(document.relations, [id |-> open.id, members |-> document.members])
         /\ document'.nodes = document.nodes /\ document'.ways = document.ways /\ document'.members = document.members /\ document'.shapes = document.shapes
<1>1. document \in Documents /\ document' = [document EXCEPT !.relations = Append(document.relations, [id |-> open.id, members |-> document.members])]
  BY DEF DocumentInv, EndRelation
<1>2. PICK d, e, x : d = document /\ e = document' /\ x = Append(document.relations, [id |-> open.id, members |-> document.members])
  OBVIOUS
<1>3. x \in Seq(Relations)
  <2>1. open.id \in RelationIds /\ document.members \in Seq(Named)
    BY <1>1, OpenIds DEF EndRelation, DocumentInv, Documents
  <2>2. /\ document.relations \in Seq(Relations)
        /\ [id |-> open.id, members |-> document.members] \in Relations
    BY <1>1, <2>1 DEF Documents, Nodes, Ways, Relations
  <2> QED BY <1>2, <2>2, AppendProperties
<1>4. d \in Documents /\ e = [d EXCEPT !.relations = x]
  BY <1>1, <1>2
<1>5. /\ e \in Documents /\ e.relations = x
      /\ e.nodes = d.nodes /\ e.ways = d.ways /\ e.members = d.members /\ e.shapes = d.shapes
  BY <1>3, <1>4, OtherRelations
<1> QED BY <1>2, <1>5

\* A relation begins without members.
LEMMA StartRelationReads ==
  ASSUME CompilerAssumption, DocumentInv, StartRelation
  PROVE  /\ document' \in Documents /\ document'.members = << >>
         /\ document'.nodes = document.nodes /\ document'.ways = document.ways /\ document'.relations = document.relations /\ document'.shapes = document.shapes
<1>1. document \in Documents /\ document' = [document EXCEPT !.members = << >>]
  BY DEF DocumentInv, StartRelation
<1>2. PICK d, e, x : d = document /\ e = document' /\ x = << >>
  OBVIOUS
<1>3. x \in Seq(Named)
  BY <1>2
<1>4. d \in Documents /\ e = [d EXCEPT !.members = x]
  BY <1>1, <1>2
<1>5. /\ e \in Documents /\ e.members = x
      /\ e.nodes = d.nodes /\ e.ways = d.ways /\ e.relations = d.relations /\ e.shapes = d.shapes
  BY <1>3, <1>4, OtherMembers
<1> QED BY <1>2, <1>5

\* A member is the last one of its relation.
LEMMA MemberReads ==
  ASSUME CompilerAssumption, DocumentInv, NEW type \in {"point", "way", "relation"}, NEW ref \in References,
         Member(type, ref)
  PROVE  /\ document' \in Documents /\ document'.members = Append(document.members, [type |-> type, named |-> ref])
         /\ document'.nodes = document.nodes /\ document'.ways = document.ways /\ document'.relations = document.relations /\ document'.shapes = document.shapes
<1>1. document \in Documents /\ document' = [document EXCEPT !.members = Append(document.members, [type |-> type, named |-> ref])]
  BY DEF DocumentInv, Member
<1>2. PICK d, e, x : d = document /\ e = document' /\ x = Append(document.members, [type |-> type, named |-> ref])
  OBVIOUS
<1>3. x \in Seq(Named)
  <2>1. document.members \in Seq(Named) /\ [type |-> type, named |-> ref] \in Named
    BY <1>1 DEF Documents, Named
  <2> QED BY <1>2, <2>1, AppendProperties
<1>4. d \in Documents /\ e = [d EXCEPT !.members = x]
  BY <1>1, <1>2
<1>5. /\ e \in Documents /\ e.members = x
      /\ e.nodes = d.nodes /\ e.ways = d.ways /\ e.relations = d.relations /\ e.shapes = d.shapes
  BY <1>3, <1>4, OtherMembers
<1> QED BY <1>2, <1>5

\* A shape is the last one of its file.
LEMMA ShapeReads ==
  ASSUME CompilerAssumption, DocumentInv, NEW shape \in ShapeRecords, NEW n, ShapeRead(shape, n)
  PROVE  /\ document' \in Documents /\ document'.shapes = Append(document.shapes, shape)
         /\ document'.nodes = document.nodes /\ document'.ways = document.ways /\ document'.relations = document.relations /\ document'.members = document.members
<1>1. document \in Documents /\ document' = [document EXCEPT !.shapes = Append(document.shapes, shape)]
  BY DEF DocumentInv, ShapeRead
<1>2. PICK d, e, x : d = document /\ e = document' /\ x = Append(document.shapes, shape)
  OBVIOUS
<1>3. x \in Seq(ShapeRecords)
  <2>1. document.shapes \in Seq(ShapeRecords)
    BY <1>1 DEF Documents
  <2> QED BY <1>2, <2>1, AppendProperties
<1>4. d \in Documents /\ e = [d EXCEPT !.shapes = x]
  BY <1>1, <1>2
<1>5. /\ e \in Documents /\ e.shapes = x
      /\ e.nodes = d.nodes /\ e.ways = d.ways /\ e.relations = d.relations /\ e.members = d.members
  BY <1>3, <1>4, OtherShapes
<1> QED BY <1>2, <1>5

\* Only what is open, and how far the document has come, is new.
LEMMA StartDocument ==
  ASSUME CompilerAssumption, DocumentInv, StartNode \/ StartWay \/ StartRelation
  PROVE  DocumentInv'
<1>1. document \in Documents /\ Len(document.shapes) = shapesRead /\ document.shapes \in Seq(ShapeRecords)
  BY DEF DocumentInv, Documents
<1>2. ASSUME NEW kind, NEW id, StartElement(kind, id)
      PROVE  /\ open' = [kind |-> kind, id |-> id] /\ open'.kind = kind /\ open'.id = id
             /\ ~closed' /\ closed' = closed /\ document.shapes = << >> /\ shapesRead' = shapesRead
             /\ open = Nothing
  <2>1. open' = [kind |-> kind, id |-> id] /\ shapesRead = 0 /\ ~closed /\ closed' = closed
        /\ shapesRead' = shapesRead /\ open = Nothing
    BY <1>2 DEF StartElement, InDocument, shapeVars
  <2>2. document.shapes = << >>
    BY <1>1, <2>1, EmptySeq
  <2> QED BY <2>1, <2>2
<1>3. CASE StartNode
  <2>1. PICK id \in NextId("nodes", NodeIds) : StartElement("node", id)
    BY <1>3 DEF StartNode
  <2>2. id \in NodeIds /\ Below(document.nodes, id)
    BY DEF NextId, Ended, Below
  <2>3. ~waysStarted /\ ~relsStarted /\ UNCHANGED <<refs, waysStarted, relsStarted, document>>
    BY <1>3 DEF StartNode
  <2>4. open' \in Elements
    BY <1>2, <2>1, <2>2 DEF Elements
  <2>5. OpenInv'
    BY <1>2, <2>1, <2>2, <2>3, <2>4 DEF OpenInv
  <2> QED BY <1>2, <2>1, <2>3, <2>5 DEF DocumentInv
<1>4. CASE StartWay
  <2>1. PICK id \in NextId("ways", WayIds) : StartElement("way", id)
    BY <1>4 DEF StartWay
  <2>2. id \in WayIds /\ Below(document.ways, id)
    BY DEF NextId, Ended, Below
  <2>3. /\ ~relsStarted /\ waysStarted' = TRUE /\ refs' = << >> /\ UNCHANGED <<relsStarted, document>>
        /\ document.nodes # << >>
    BY <1>4 DEF StartWay
  <2>4. open' \in Elements
    BY <1>2, <2>1, <2>2 DEF Elements
  <2>5. OpenInv'
    BY <1>2, <2>1, <2>2, <2>3, <2>4 DEF OpenInv
  <2>6. refs' \in Seq(References)
    BY <2>3
  <2> QED BY <1>2, <2>1, <2>3, <2>5, <2>6 DEF DocumentInv
<1>5. CASE StartRelation
  <2>1. PICK id \in NextId("relations", RelationIds) : StartElement("relation", id)
    BY <1>5 DEF StartRelation
  <2>2. id \in RelationIds /\ Below(document.relations, id)
    BY DEF NextId, Ended, Below
  <2>3. /\ relsStarted' = TRUE /\ UNCHANGED <<refs, waysStarted>>
        /\ document' = [document EXCEPT !.members = << >>]
    BY <1>5 DEF StartRelation
  <2>4. /\ document' \in Documents
        /\ document'.nodes = document.nodes /\ document'.ways = document.ways
        /\ document'.relations = document.relations /\ document'.shapes = document.shapes
    BY <1>5, StartRelationReads
  <2>5. open' \in Elements
    BY <1>2, <2>1, <2>2 DEF Elements
  <2>6. OpenInv'
    BY <1>2, <2>1, <2>2, <2>3, <2>4, <2>5 DEF OpenInv
  <2> QED BY <1>2, <2>1, <2>3, <2>4, <2>6 DEF DocumentInv
<1> QED BY <1>3, <1>4, <1>5

\* An element that ends is read.
LEMMA EndDocument ==
  ASSUME CompilerAssumption, DocumentInv, EndNode \/ EndWay \/ EndRelation
  PROVE  DocumentInv'
<1>1. /\ document \in Documents /\ document.nodes \in Seq(Nodes)
      /\ document.ways \in Seq(Ways) /\ document.relations \in Seq(Relations)
      /\ OpenInv
  BY DEF DocumentInv, Documents
<1>2. ASSUME open' = Nothing PROVE OpenInv'
  <2>1. Nothing.kind = "none"
    BY DEF Nothing
  <2> QED BY <1>2, <2>1 DEF OpenInv
<1>3. CASE EndNode
  <2>1. /\ open.kind = "node" /\ open' = Nothing
        /\ UNCHANGED <<refs, shapesRead, closed, waysStarted, relsStarted>>
    BY <1>3 DEF EndNode, shapeVars
  <2>2. /\ document' \in Documents /\ document'.nodes = Append(document.nodes, [id |-> open.id])
        /\ document'.ways = document.ways /\ document'.relations = document.relations
        /\ document'.shapes = document.shapes
    BY <1>3, EndNodeReads
  <2>3. Ascending(document'.nodes)
    <3>1. [id |-> open.id] \in Nodes /\ [id |-> open.id].id = open.id
      BY <1>1, <2>1, OpenIds DEF Nodes
    <3>2. Ascending(document.nodes) /\ Below(document.nodes, open.id)
      BY <2>1 DEF DocumentInv, OpenInv
    <3> QED BY <1>1, <2>2, <3>1, <3>2, AscendingAppend
  <2>4. ~waysStarted /\ document'.nodes # << >>
    BY <1>1, <2>1, <2>2 DEF OpenInv
  <2> QED BY <1>2, <2>1, <2>2, <2>3, <2>4 DEF DocumentInv
<1>4. CASE EndWay
  <2>0. PICK keys : WayRead(keys)
    BY <1>4 DEF EndWay
  <2>1. /\ open.kind = "way" /\ open' = Nothing
        /\ UNCHANGED <<refs, shapesRead, closed, waysStarted, relsStarted>>
    BY <2>0 DEF WayRead, shapeVars
  <2>2. /\ document' \in Documents
        /\ document'.ways = Append(document.ways, [id |-> open.id, refs |-> refs])
        /\ document'.nodes = document.nodes /\ document'.relations = document.relations
        /\ document'.shapes = document.shapes
    BY <2>0, WayReads
  <2>3. Ascending(document'.ways)
    <3>1. PICK e : e = [id |-> open.id, refs |-> refs]
      OBVIOUS
    <3>2. e \in Ways /\ e.id = open.id
      BY <1>1, <2>1, <3>1, OpenIds DEF Ways, DocumentInv
    <3>3. Ascending(document.ways) /\ Below(document.ways, open.id)
      BY <2>1 DEF DocumentInv, OpenInv
    <3> QED BY <1>1, <2>2, <3>1, <3>2, <3>3, AscendingAppend
  <2>4. waysStarted
    BY <1>1, <2>1 DEF OpenInv
  <2> QED BY <1>2, <2>1, <2>2, <2>3, <2>4 DEF DocumentInv
<1>5. CASE EndRelation
  <2>1. /\ open.kind = "relation" /\ open' = Nothing
        /\ UNCHANGED <<refs, shapesRead, closed, waysStarted, relsStarted>>
    BY <1>5 DEF EndRelation, shapeVars
  <2>2. /\ document' \in Documents
        /\ document'.relations
             = Append(document.relations, [id |-> open.id, members |-> document.members])
        /\ document'.nodes = document.nodes /\ document'.ways = document.ways
        /\ document'.shapes = document.shapes
    BY <1>5, EndRelationReads
  <2>3. Ascending(document'.relations)
    <3>1. PICK e : e = [id |-> open.id, members |-> document.members]
      OBVIOUS
    <3>2. e \in Relations /\ e.id = open.id
      BY <1>1, <2>1, <3>1, OpenIds DEF Relations, Documents
    <3>3. Ascending(document.relations) /\ Below(document.relations, open.id)
      BY <2>1 DEF DocumentInv, OpenInv
    <3> QED BY <1>1, <2>2, <3>1, <3>2, <3>3, AscendingAppend
  <2>4. relsStarted
    BY <1>1, <2>1 DEF OpenInv
  <2> QED BY <1>2, <2>1, <2>2, <2>3, <2>4 DEF DocumentInv
<1> QED BY <1>3, <1>4, <1>5

\* The shapes that are read: points, lines and others.
LEMMA ShapesReadAre ==
  ASSUME CompilerAssumption, ShapePoint \/ ShapeLines \/ ShapeOther
  PROVE  \E shape \in ShapeRecords, n \in {0, 1} :
           ShapeRead(shape, n) /\ (n = 0 <=> shape.type = "other")
<1>1. CASE ShapePoint
  <2>1. PICK p \in ShapePlaces : ShapeRead([type |-> "point", parts |-> << <<p>> >>], 1)
    BY <1>1 DEF ShapePoint
  <2>2. << <<p>> >> \in Parts
    <3>1. p \in Int \X Int
      BY DEF CompilerAssumption
    <3>2. <<p>> \in Seq(Int \X Int) /\ <<p>> # << >>
      BY <3>1
    <3> QED BY <3>2 DEF Parts
  <2>3. [type |-> "point", parts |-> << <<p>> >>] \in ShapeRecords
    BY <2>2 DEF ShapeRecords
  <2>4. [type |-> "point", parts |-> << <<p>> >>].type = "point"
    OBVIOUS
  <2> QED BY <2>1, <2>3, <2>4
<1>2. CASE ShapeLines
  <2>1. PICK parts \in ShapeParts : ShapeRead([type |-> "lines", parts |-> parts], 1)
    BY <1>2, Zenon DEF ShapeLines
  <2>2. parts \in Parts
    BY DEF CompilerAssumption, Parts
  <2>3. [type |-> "lines", parts |-> parts] \in ShapeRecords
    BY <2>2 DEF ShapeRecords
  <2>4. [type |-> "lines", parts |-> parts].type = "lines"
    OBVIOUS
  <2> QED BY <2>1, <2>3, <2>4
<1>3. CASE ShapeOther
  <2>1. ShapeRead([type |-> "other", parts |-> << >>], 0)
    BY <1>3 DEF ShapeOther
  <2>2. << >> \in Parts
    BY DEF Parts
  <2>3. [type |-> "other", parts |-> << >>] \in ShapeRecords
    BY <2>2 DEF ShapeRecords
  <2>4. [type |-> "other", parts |-> << >>].type = "other"
    OBVIOUS
  <2> QED BY <2>1, <2>3, <2>4
<1> QED BY <1>1, <1>2, <1>3

\* Shapes come when no element is open.
LEMMA ShapeDocument ==
  ASSUME CompilerAssumption, DocumentInv, NEW shape \in ShapeRecords, NEW n, ShapeRead(shape, n)
  PROVE  DocumentInv'
<1>1. document.shapes \in Seq(ShapeRecords)
  BY DEF DocumentInv, Documents
<1>2. /\ open = Nothing /\ shapesRead' = shapesRead + 1
      /\ UNCHANGED <<refs, closed, open, waysStarted, relsStarted>>
  BY DEF ShapeRead
<1>3. /\ document' \in Documents /\ document'.shapes = Append(document.shapes, shape)
      /\ document'.nodes = document.nodes /\ document'.ways = document.ways
      /\ document'.relations = document.relations
  BY ShapeReads
<1>4. Len(document'.shapes) = Len(document.shapes) + 1
  BY <1>1, <1>3, AppendProperties
<1>5. OpenInv'
  <2>1. Nothing.kind = "none"
    BY DEF Nothing
  <2> QED BY <1>2, <2>1 DEF OpenInv
<1> QED BY <1>2, <1>3, <1>4, <1>5 DEF DocumentInv

\* What a step reads within an element.
LEMMA WithinDocument ==
  ASSUME CompilerAssumption, DocumentInv, StartTag \/ Nd \/ StartMember \/ Close \/ UNCHANGED vars
  PROVE  DocumentInv'
<1>1. CASE StartTag \/ UNCHANGED vars
  <2>1. UNCHANGED <<document, refs, open, closed, waysStarted, relsStarted, shapesRead>>
    BY <1>1 DEF StartTag, vars, shapeVars
  <2> QED BY <2>1 DEF DocumentInv, OpenInv
<1>2. CASE Nd
  <2>1. UNCHANGED <<document, open, closed, waysStarted, relsStarted, shapesRead>>
    BY <1>2 DEF Nd, shapeVars
  <2>2. refs' \in Seq(References)
    <3>1. PICK ref \in References : refs' = Append(refs, ref)
      BY <1>2 DEF Nd
    <3> QED BY <3>1, AppendProperties DEF DocumentInv
  <2> QED BY <2>1, <2>2 DEF DocumentInv, OpenInv
<1>3. CASE StartMember
  <2>1. PICK type \in {"point", "way", "relation"}, ref \in References : Member(type, ref)
    BY <1>3 DEF StartMember
  <2>2. /\ document' \in Documents /\ document'.nodes = document.nodes
        /\ document'.ways = document.ways /\ document'.relations = document.relations
        /\ document'.shapes = document.shapes
    BY <2>1, MemberReads
  <2>3. UNCHANGED <<refs, open, closed, waysStarted, relsStarted, shapesRead>>
    BY <2>1 DEF Member, shapeVars
  <2> QED BY <2>2, <2>3 DEF DocumentInv, OpenInv
<1>4. CASE Close
  <2>1. /\ open = Nothing /\ closed' = TRUE
        /\ UNCHANGED <<document, refs, open, waysStarted, relsStarted, shapesRead>>
    BY <1>4 DEF Close, shapeVars
  <2>2. OpenInv'
    <3>1. Nothing.kind = "none"
      BY DEF Nothing
    <3> QED BY <2>1, <3>1 DEF OpenInv
  <2> QED BY <2>1, <2>2 DEF DocumentInv
<1> QED BY <1>1, <1>2, <1>3, <1>4

\* Nodes, ways, relations and shapes come one after the other, each by rising ids.
LEMMA DocumentInvariance ==
  ASSUME CompilerAssumption
  PROVE  Spec => []DocumentInv
<1>1. Init => DocumentInv
  <2> SUFFICES ASSUME Init PROVE DocumentInv
    OBVIOUS
  <2>1. /\ document = [nodes |-> << >>, ways |-> << >>, relations |-> << >>,
                       members |-> << >>, shapes |-> << >>]
        /\ refs = << >> /\ shapesRead = 0 /\ open = Nothing
    BY DEF Init
  <2>2. waysStarted = FALSE /\ relsStarted = FALSE /\ closed = FALSE
    BY DEF Init, nodeIds!Init, wayIds!Init, relationIds!Init
  <2>3. document \in Documents
    BY <2>1 DEF Documents
  <2>4. /\ document.nodes = << >> /\ document.ways = << >> /\ document.relations = << >>
        /\ document.shapes = << >> /\ Len(<< >>) = 0
    BY <2>1
  <2>5. Ascending(<< >>)
    BY DEF Ascending
  <2>6. OpenInv
    <3>1. Nothing.kind = "none"
      BY DEF Nothing
    <3> QED BY <2>1, <3>1 DEF OpenInv
  <2>7. refs \in Seq(References)
    BY <2>1
  <2> QED BY <2>1, <2>2, <2>3, <2>4, <2>5, <2>6, <2>7 DEF DocumentInv
<1>2. DocumentInv /\ [Next]_vars => DocumentInv'
  <2> SUFFICES ASSUME DocumentInv, [Next]_vars PROVE DocumentInv'
    OBVIOUS
  <2>1. CASE StartNode \/ StartWay \/ StartRelation
    BY <2>1, StartDocument
  <2>2. CASE EndNode \/ EndWay \/ EndRelation
    BY <2>2, EndDocument
  <2>3. CASE ShapePoint \/ ShapeLines \/ ShapeOther
    BY <2>3, ShapesReadAre, ShapeDocument
  <2>4. CASE StartTag \/ Nd \/ StartMember \/ Close \/ UNCHANGED vars
    BY <2>4, WithinDocument
  <2> QED BY <2>1, <2>2, <2>3, <2>4 DEF Next
<1> QED BY <1>1, <1>2, PTL DEF Spec
-----------------------------------------------------------------------------
(* The bytes of the tags. *)

Owners == Elements \cup [kind : {"shape"}, id : Nat]

\* Has this element ended, or this shape been read?
Past(owner) ==
  \/ owner.kind = "node" /\ \E i \in DOMAIN document.nodes : document.nodes[i].id = owner.id
  \/ owner.kind = "way" /\ \E i \in DOMAIN document.ways : document.ways[i].id = owner.id
  \/ owner.kind = "relation" /\
       \E i \in DOMAIN document.relations : document.relations[i].id = owner.id
  \/ owner.kind = "shape" /\ owner.id \in 1 .. attributesRead

\* The inductive invariant of the tags: the bytes behind tagStart are those of the
\* element that is open, and no others are; what has not come yet has no bytes.
TagsInv ==
  /\ baliseTags \in Seq(Owners)
  /\ tagStart \in 0 .. Len(baliseTags)
  /\ attributesRead \in Nat
  /\ open # Nothing => \A b \in 1 .. Len(baliseTags) : baliseTags[b] = open <=> tagStart < b
  /\ \A b \in 1 .. Len(baliseTags) : baliseTags[b] = open \/ Past(baliseTags[b])

\* The ids are numbers.
LEMMA IdsAreNumbers ==
  ASSUME CompilerAssumption
  PROVE  /\ NodeIds \subseteq Int /\ WayIds \subseteq Int /\ RelationIds \subseteq Int
         /\ References \subseteq Int
BY DEF CompilerAssumption

\* A sequence goes on where another ends.
Extends(s, t) == \A i \in DOMAIN s : i \in DOMAIN t /\ t[i] = s[i]

\* With one more element a sequence goes on.
LEMMA AppendExtends ==
  ASSUME NEW R, NEW s \in Seq(R), NEW e \in R
  PROVE  LET t == Append(s, e) IN
         /\ Extends(s, t) /\ t \in Seq(R) /\ Len(t) = Len(s) + 1 /\ Len(s) \in Nat
         /\ DOMAIN t = 1 .. Len(s) + 1 /\ DOMAIN s = 1 .. Len(s)
         /\ Len(s) + 1 \in DOMAIN t /\ t[Len(s) + 1] = e
<1>0. PICK t : t = Append(s, e)
  OBVIOUS
<1>1. /\ t \in Seq(R) /\ Len(t) = Len(s) + 1 /\ Len(s) \in Nat
      /\ t[Len(s) + 1] = e /\ \A i \in 1 .. Len(s) : t[i] = s[i]
  BY <1>0, AppendProperties, LenProperties
<1>2. DOMAIN t = 1 .. Len(s) + 1 /\ DOMAIN s = 1 .. Len(s)
  BY <1>1, LenProperties
<1> QED BY <1>0, <1>1, <1>2 DEF Extends

\* What is past remains so.
LEMMA PastStays ==
  ASSUME NEW owner, Past(owner), attributesRead \in Nat, attributesRead' \in Nat,
         attributesRead <= attributesRead',
         Extends(document.nodes, document'.nodes), Extends(document.ways, document'.ways),
         Extends(document.relations, document'.relations)
  PROVE  Past(owner)'
BY DEF Past, Extends

\* A step that adds no bytes and ends no element.
LEMMA TagsStay ==
  ASSUME DocumentInv, TagsInv, UNCHANGED <<baliseTags, tagStart, attributesRead, open>>,
         document'.nodes = document.nodes, document'.ways = document.ways,
         document'.relations = document.relations
  PROVE  TagsInv'
<1>1. \A b \in 1 .. Len(baliseTags) : Past(baliseTags[b]) => Past(baliseTags[b])'
  BY DEF Past
<1> QED BY <1>1 DEF TagsInv

\* The elements that have not begun own nothing.
LEMMA StartTags ==
  ASSUME CompilerAssumption, DocumentInv, TagsInv, StartNode \/ StartWay \/ StartRelation
  PROVE  TagsInv'
<1>1. PICK kind, id : /\ StartElement(kind, id) /\ ~Past([kind |-> kind, id |-> id])
                      /\ document'.nodes = document.nodes /\ document'.ways = document.ways
                      /\ document'.relations = document.relations
  <2>1. CASE StartNode
    <3>1. PICK id \in NextId("nodes", NodeIds) : StartElement("node", id)
      BY <2>1 DEF StartNode
    <3>2. \A i \in DOMAIN document.nodes : document.nodes[i].id < id
      BY DEF NextId, Ended
    <3>3. id \in Int
      BY IdsAreNumbers DEF NextId
    <3>4. \A i \in DOMAIN document.nodes : document.nodes[i].id # id
      BY <3>2, <3>3
    <3>5. ~Past([kind |-> "node", id |-> id])
      BY <3>4 DEF Past
    <3> QED BY <2>1, <3>1, <3>5 DEF StartNode
  <2>2. CASE StartWay
    <3>1. PICK id \in NextId("ways", WayIds) : StartElement("way", id)
      BY <2>2 DEF StartWay
    <3>2. \A i \in DOMAIN document.ways : document.ways[i].id < id
      BY DEF NextId, Ended
    <3>3. id \in Int
      BY IdsAreNumbers DEF NextId
    <3>4. \A i \in DOMAIN document.ways : document.ways[i].id # id
      BY <3>2, <3>3
    <3>5. ~Past([kind |-> "way", id |-> id])
      BY <3>4 DEF Past
    <3> QED BY <2>2, <3>1, <3>5 DEF StartWay
  <2>3. CASE StartRelation
    <3>1. PICK id \in NextId("relations", RelationIds) : StartElement("relation", id)
      BY <2>3 DEF StartRelation
    <3>2. \A i \in DOMAIN document.relations : document.relations[i].id < id
      BY DEF NextId, Ended
    <3>3. id \in Int
      BY IdsAreNumbers DEF NextId
    <3>4. \A i \in DOMAIN document.relations : document.relations[i].id # id
      BY <3>2, <3>3
    <3>5. ~Past([kind |-> "relation", id |-> id])
      BY <3>4 DEF Past
    <3> QED BY <2>3, <3>1, <3>5, StartRelationReads
  <2> QED BY <2>1, <2>2, <2>3
<1>2. /\ open = Nothing /\ open' = [kind |-> kind, id |-> id] /\ tagStart' = Len(baliseTags)
      /\ UNCHANGED <<baliseTags, attributesRead>>
  BY <1>1 DEF StartElement, shapeVars
<1>3. Len(baliseTags) \in Nat /\ \A b \in 1 .. Len(baliseTags) : baliseTags[b] \in Owners
  BY LenProperties, ElementOfSeq DEF TagsInv
<1>4. Nothing \notin Owners
  BY DEF Owners, Elements, Nothing
<1>5. \A b \in 1 .. Len(baliseTags) : Past(baliseTags[b])
  BY <1>2, <1>3, <1>4 DEF TagsInv
<1>6. \A b \in 1 .. Len(baliseTags) : baliseTags[b] # open'
  BY <1>1, <1>2, <1>5
<1>7. \A b \in 1 .. Len(baliseTags) : Past(baliseTags[b])'
  BY <1>1, <1>2, <1>5 DEF Past
<1>8. \A b \in 1 .. Len(baliseTags) : ~(Len(baliseTags) < b)
  BY <1>3
<1> QED BY <1>2, <1>3, <1>6, <1>7, <1>8 DEF TagsInv

\* The bytes of a tag belong to the element that is open.
Grown(bytes, more, n, owner) ==
  /\ more \in Seq(Owners) /\ Len(more) = Len(bytes) + n /\ Len(bytes) \in Nat
  /\ \A b \in 1 .. Len(bytes) : more[b] = bytes[b]
  /\ \A b \in Len(bytes) + 1 .. Len(more) : more[b] = owner

\* Tags are written behind each other.
LEMMA BytesAppended ==
  ASSUME NEW bytes \in Seq(Owners), NEW n \in Nat, NEW owner \in Owners
  PROVE  Grown(bytes, bytes \o Bytes(n, owner), n, owner)
<1>1. PICK q, more : q = Bytes(n, owner) /\ more = bytes \o q
  OBVIOUS
<1>2. q \in Seq(Owners) /\ Len(q) = n /\ \A i \in 1 .. n : q[i] = owner
  <2>1. q = [i \in 1 .. n |-> owner]
    BY <1>1 DEF Bytes
  <2> QED BY <2>1
<1>3. /\ more \in Seq(Owners) /\ Len(more) = Len(bytes) + n /\ Len(bytes) \in Nat
      /\ \A i \in 1 .. Len(bytes) + n :
           more[i] = IF i <= Len(bytes) THEN bytes[i] ELSE q[i - Len(bytes)]
  <2>1. Len(bytes) \in Nat
    OBVIOUS
  <2> QED BY <1>1, <1>2, <2>1, ConcatProperties
<1>4. \A b \in 1 .. Len(bytes) : more[b] = bytes[b]
  BY <1>3
<1>5. \A b \in Len(bytes) + 1 .. Len(more) : more[b] = owner
  <2> TAKE b \in Len(bytes) + 1 .. Len(more)
  <2>1. b \in 1 .. Len(bytes) + n /\ ~(b <= Len(bytes)) /\ b - Len(bytes) \in 1 .. n
    BY <1>3
  <2> QED BY <1>2, <1>3, <2>1
<1> QED BY <1>1, <1>3, <1>4, <1>5 DEF Grown

\* A tag.
LEMMA TagTags ==
  ASSUME CompilerAssumption, DocumentInv, TagsInv, StartTag
  PROVE  TagsInv'
<1>1. PICK k \in Strings, v \in Strings : baliseTags' = baliseTags \o Bytes(k + v, open)
  BY DEF StartTag
<1>2. k + v \in Nat
  BY DEF CompilerAssumption
<1>3. open # Nothing /\ UNCHANGED <<tagStart, attributesRead, open, document>>
  BY DEF StartTag, shapeVars
<1>4. open \in Owners
  BY <1>3 DEF DocumentInv, OpenInv, Owners
<1>5. baliseTags \in Seq(Owners) /\ Len(baliseTags) \in Nat
  BY DEF TagsInv
<1>6. /\ baliseTags' \in Seq(Owners) /\ Len(baliseTags') = Len(baliseTags) + (k + v)
      /\ \A b \in 1 .. Len(baliseTags) : baliseTags'[b] = baliseTags[b]
      /\ \A b \in Len(baliseTags) + 1 .. Len(baliseTags') : baliseTags'[b] = open
  <2>1. PICK bytes, more, n, owner :
          bytes = baliseTags /\ more = baliseTags' /\ n = k + v /\ owner = open
    OBVIOUS
  <2>2. bytes \in Seq(Owners) /\ n \in Nat /\ owner \in Owners /\ more = bytes \o Bytes(n, owner)
    BY <1>1, <1>2, <1>4, <1>5, <2>1
  <2>3. Grown(bytes, more, n, owner)
    BY <2>2, BytesAppended
  <2> QED BY <2>1, <2>3 DEF Grown
<1>7. ASSUME NEW b \in 1 .. Len(baliseTags')
      PROVE  /\ baliseTags'[b] = open <=> tagStart < b
             /\ baliseTags'[b] = open \/ Past(baliseTags'[b])
  <2>1. CASE b \in 1 .. Len(baliseTags)
    BY <1>3, <1>6, <2>1 DEF TagsInv
  <2>2. CASE b \in Len(baliseTags) + 1 .. Len(baliseTags')
    <3>1. tagStart < b
      BY <1>5, <2>2 DEF TagsInv
    <3> QED BY <1>6, <2>2, <3>1
  <2> QED BY <1>2, <1>5, <1>6, <2>1, <2>2
<1>8. \A b \in 1 .. Len(baliseTags') : Past(baliseTags'[b]) => Past(baliseTags[b])'
  BY <1>3 DEF Past
<1>9. tagStart' \in 0 .. Len(baliseTags')
  BY <1>2, <1>3, <1>5, <1>6 DEF TagsInv
<1>10. \A b \in 1 .. Len(baliseTags') : baliseTags'[b] = open' \/ Past(baliseTags[b])'
  BY <1>3, <1>7, <1>8
<1> QED BY <1>3, <1>6, <1>7, <1>9, <1>10 DEF TagsInv

\* What ends is past.
LEMMA EndTags ==
  ASSUME CompilerAssumption, DocumentInv, TagsInv, EndNode \/ EndWay \/ EndRelation
  PROVE  TagsInv'
<1>0. PICK o : o = open
  OBVIOUS
<1>1. /\ document.nodes \in Seq(Nodes) /\ document.ways \in Seq(Ways)
      /\ document.relations \in Seq(Relations) /\ document.members \in Seq(Named)
      /\ refs \in Seq(References) /\ OpenInv
  BY DEF DocumentInv, Documents
<1>2. /\ UNCHANGED <<baliseTags, tagStart, attributesRead>> /\ open' = Nothing /\ Past(o)'
      /\ Extends(document.nodes, document'.nodes) /\ Extends(document.ways, document'.ways)
      /\ Extends(document.relations, document'.relations)
  <2>1. CASE EndNode
    <3>1. /\ open.kind = "node" /\ open' = Nothing
          /\ UNCHANGED <<baliseTags, tagStart, attributesRead>>
      BY <2>1 DEF EndNode, tagVars, shapeVars
    <3>2. /\ document'.nodes = Append(document.nodes, [id |-> open.id])
          /\ document'.ways = document.ways /\ document'.relations = document.relations
      BY <2>1, EndNodeReads
    <3>3. PICK e, s, t : e = [id |-> open.id] /\ s = document.nodes /\ t = document'.nodes
      OBVIOUS
    <3>4. e \in Nodes /\ e.id = open.id
      BY <1>1, <3>1, <3>3, OpenIds DEF Nodes
    <3>5. Extends(s, t) /\ Len(s) + 1 \in DOMAIN t /\ t[Len(s) + 1] = e
      <4>1. s \in Seq(Nodes) /\ t = Append(s, e)
        BY <1>1, <3>2, <3>3
      <4> QED BY <3>4, <4>1, AppendExtends
    <3>6. Past(o)'
      <4>1. \E j \in DOMAIN document'.nodes : document'.nodes[j].id = o.id
        BY <1>0, <3>3, <3>4, <3>5
      <4> QED BY <1>0, <3>1, <4>1 DEF Past
    <3> QED BY <3>1, <3>2, <3>3, <3>5, <3>6 DEF Extends
  <2>2. CASE EndWay
    <3>0. PICK keys : WayRead(keys)
      BY <2>2 DEF EndWay
    <3>1. /\ open.kind = "way" /\ open' = Nothing
          /\ UNCHANGED <<baliseTags, tagStart, attributesRead>>
      BY <3>0 DEF WayRead, tagVars, shapeVars
    <3>2. /\ document'.ways = Append(document.ways, [id |-> open.id, refs |-> refs])
          /\ document'.nodes = document.nodes /\ document'.relations = document.relations
      BY <3>0, WayReads
    <3>3. PICK e, s, t : e = [id |-> open.id, refs |-> refs] /\ s = document.ways /\ t = document'.ways
      OBVIOUS
    <3>4. e \in Ways /\ e.id = open.id
      BY <1>1, <3>1, <3>3, OpenIds DEF Ways
    <3>5. Extends(s, t) /\ Len(s) + 1 \in DOMAIN t /\ t[Len(s) + 1] = e
      <4>1. s \in Seq(Ways) /\ t = Append(s, e)
        BY <1>1, <3>2, <3>3
      <4> QED BY <3>4, <4>1, AppendExtends
    <3>6. Past(o)'
      <4>1. \E j \in DOMAIN document'.ways : document'.ways[j].id = o.id
        BY <1>0, <3>3, <3>4, <3>5
      <4> QED BY <1>0, <3>1, <4>1 DEF Past
    <3> QED BY <3>1, <3>2, <3>3, <3>5, <3>6 DEF Extends
  <2>3. CASE EndRelation
    <3>1. /\ open.kind = "relation" /\ open' = Nothing
          /\ UNCHANGED <<baliseTags, tagStart, attributesRead>>
      BY <2>3 DEF EndRelation, tagVars, shapeVars
    <3>2. /\ document'.relations = Append(document.relations, [id |-> open.id, members |-> document.members])
          /\ document'.nodes = document.nodes /\ document'.ways = document.ways
      BY <2>3, EndRelationReads
    <3>3. PICK e, s, t : e = [id |-> open.id, members |-> document.members] /\ s = document.relations /\ t = document'.relations
      OBVIOUS
    <3>4. e \in Relations /\ e.id = open.id
      BY <1>1, <3>1, <3>3, OpenIds DEF Relations
    <3>5. Extends(s, t) /\ Len(s) + 1 \in DOMAIN t /\ t[Len(s) + 1] = e
      <4>1. s \in Seq(Relations) /\ t = Append(s, e)
        BY <1>1, <3>2, <3>3
      <4> QED BY <3>4, <4>1, AppendExtends
    <3>6. Past(o)'
      <4>1. \E j \in DOMAIN document'.relations : document'.relations[j].id = o.id
        BY <1>0, <3>3, <3>4, <3>5
      <4> QED BY <1>0, <3>1, <4>1 DEF Past
    <3> QED BY <3>1, <3>2, <3>3, <3>5, <3>6 DEF Extends
  <2> QED BY <2>1, <2>2, <2>3
<1>3. ASSUME NEW b \in 1 .. Len(baliseTags) PROVE \E q : q = baliseTags[b] /\ Past(q)'
  <2>1. PICK q : q = baliseTags[b]
    OBVIOUS
  <2>2. q = o \/ Past(q)
    BY <1>0, <2>1 DEF TagsInv
  <2>3. attributesRead \in Nat /\ attributesRead' = attributesRead /\ attributesRead <= attributesRead'
    BY <1>2 DEF TagsInv
  <2>4. Past(q) => Past(q)'
    BY <1>2, <2>3, PastStays
  <2> QED BY <1>2, <2>1, <2>2, <2>4
<1>4. \A b \in 1 .. Len(baliseTags') : Past(baliseTags[b])'
  <2> TAKE b \in 1 .. Len(baliseTags')
  <2>1. PICK q : q = baliseTags[b] /\ Past(q)'
    BY <1>2, <1>3
  <2>2. q = baliseTags'[b]
    BY <1>2, <2>1
  <2> QED BY <2>1, <2>2 DEF Past
<1> QED BY <1>2, <1>4 DEF TagsInv

\* The bytes of a shape are those of its record in the dbf file.
LEMMA ShapeTagsInv ==
  ASSUME CompilerAssumption, DocumentInv, TagsInv,
         NEW shape \in ShapeRecords, NEW n \in {0, 1}, ShapeRead(shape, n)
  PROVE  TagsInv'
<1>1. /\ open = Nothing /\ open' = Nothing /\ attributesRead' = attributesRead + n
      /\ baliseTags' = IF n = 0 THEN baliseTags
           ELSE baliseTags \o Bytes(ShapeTags, [kind |-> "shape", id |-> attributesRead'])
      /\ tagStart' = IF n = 0 THEN tagStart ELSE Len(baliseTags)
  BY DEF ShapeRead
<1>2. /\ document'.nodes = document.nodes /\ document'.ways = document.ways
      /\ document'.relations = document.relations
  BY ShapeReads
<1>3. /\ attributesRead \in Nat /\ attributesRead' \in Nat /\ attributesRead <= attributesRead'
      /\ baliseTags \in Seq(Owners) /\ Len(baliseTags) \in Nat
  BY <1>1 DEF TagsInv
<1>4. \A b \in 1 .. Len(baliseTags) : baliseTags[b] \in Owners /\ baliseTags[b] # Nothing
  <2>1. Nothing \notin Owners
    BY DEF Owners, Elements, Nothing
  <2> QED BY <1>3, <2>1, ElementOfSeq
<1>5. ASSUME NEW q, Past(q) PROVE Past(q)'
  <2>1. /\ Extends(document.nodes, document'.nodes) /\ Extends(document.ways, document'.ways)
        /\ Extends(document.relations, document'.relations)
    BY <1>2 DEF Extends
  <2> QED BY <1>3, <1>5, <2>1, PastStays
<1>6. CASE n = 0
  <2>1. baliseTags' = baliseTags /\ tagStart' = tagStart /\ attributesRead' = attributesRead
    BY <1>1, <1>3, <1>6
  <2> QED BY <1>1, <1>2, <2>1, TagsStay
<1>7. CASE n = 1
  <2>1. PICK bytes, more, owner : /\ bytes = baliseTags /\ more = baliseTags'
                                  /\ owner = [kind |-> "shape", id |-> attributesRead']
    OBVIOUS
  <2>2. owner \in Owners /\ owner.kind = "shape" /\ owner.id = attributesRead'
    BY <1>3, <2>1 DEF Owners
  <2>3. ShapeTags \in Nat
    BY DEF CompilerAssumption
  <2>4. bytes \in Seq(Owners) /\ more = bytes \o Bytes(ShapeTags, owner) /\ tagStart' = Len(bytes)
    BY <1>1, <1>3, <1>7, <2>1
  <2>5. Grown(bytes, more, ShapeTags, owner)
    BY <2>2, <2>3, <2>4, BytesAppended
  <2>6. Past(owner)'
    <3>1. attributesRead' \in 1 .. attributesRead'
      BY <1>1, <1>3, <1>7
    <3> QED BY <2>2, <3>1 DEF Past
  <2>7. ASSUME NEW b \in 1 .. Len(more) PROVE \E q : q = more[b] /\ Past(q)'
    <3>1. CASE b \in 1 .. Len(bytes)
      <4>1. PICK q : q = bytes[b]
        OBVIOUS
      <4>2. Past(q)
        BY <1>1, <1>4, <2>1, <3>1, <4>1 DEF TagsInv
      <4> QED BY <1>5, <2>5, <3>1, <4>1, <4>2 DEF Grown
    <3>2. CASE b \in Len(bytes) + 1 .. Len(more)
      BY <2>5, <2>6, <3>2 DEF Grown
    <3> QED BY <2>3, <2>5, <3>1, <3>2 DEF Grown
  <2>8. \A b \in 1 .. Len(baliseTags') : Past(baliseTags[b])'
    <3> TAKE b \in 1 .. Len(baliseTags')
    <3>1. PICK q : q = more[b] /\ Past(q)'
      BY <2>1, <2>7
    <3>2. q = baliseTags'[b]
      BY <2>1, <3>1
    <3> QED BY <3>1, <3>2 DEF Past
  <2>9. baliseTags' \in Seq(Owners) /\ tagStart' \in 0 .. Len(baliseTags')
    BY <1>3, <2>1, <2>3, <2>4, <2>5 DEF Grown
  <2> QED BY <1>1, <1>3, <2>8, <2>9 DEF TagsInv
<1> QED BY <1>6, <1>7

\* Every byte of the tags is of the element that is open, or of one that has ended.
LEMMA TagsInvariance ==
  ASSUME CompilerAssumption
  PROVE  Spec => []TagsInv
<1>1. Init => TagsInv
  <2> SUFFICES ASSUME Init PROVE TagsInv
    OBVIOUS
  <2>1. baliseTags = << >> /\ tagStart = 0 /\ attributesRead = 0 /\ open = Nothing
    BY DEF Init
  <2>2. << >> \in Seq(Owners) /\ Len(<< >>) = 0
    OBVIOUS
  <2> QED BY <2>1, <2>2 DEF TagsInv
<1>2. DocumentInv /\ TagsInv /\ [Next]_vars => TagsInv'
  <2> SUFFICES ASSUME DocumentInv, TagsInv, [Next]_vars PROVE TagsInv'
    OBVIOUS
  <2>1. CASE StartNode \/ StartWay \/ StartRelation
    BY <2>1, StartTags
  <2>2. CASE EndNode \/ EndWay \/ EndRelation
    BY <2>2, EndTags
  <2>3. CASE ShapePoint \/ ShapeLines \/ ShapeOther
    BY <2>3, ShapesReadAre, ShapeTagsInv
  <2>4. CASE StartTag
    BY <2>4, TagTags
  <2>5. CASE StartMember
    <3>1. PICK type \in {"point", "way", "relation"}, ref \in References : Member(type, ref)
      BY <2>5 DEF StartMember
    <3>2. /\ document'.nodes = document.nodes /\ document'.ways = document.ways
          /\ document'.relations = document.relations
      BY <3>1, MemberReads
    <3>3. UNCHANGED <<baliseTags, tagStart, attributesRead, open>>
      BY <3>1 DEF Member, tagVars, shapeVars
    <3> QED BY <3>2, <3>3, TagsStay
  <2>6. CASE Nd \/ Close \/ UNCHANGED vars
    <3>1. UNCHANGED <<baliseTags, tagStart, attributesRead, open, document>>
      BY <2>6 DEF Nd, Close, vars, tagVars, shapeVars
    <3> QED BY <3>1, TagsStay
  <2> QED BY <2>1, <2>2, <2>3, <2>4, <2>5, <2>6 DEF Next
<1> QED BY <1>1, <1>2, DocumentInvariance, PTL DEF Spec
-----------------------------------------------------------------------------
(* What is past gets no more bytes. *)

\* The bytes of an element.
OwnedIn(bytes, owner) == {b \in DOMAIN bytes : bytes[b] = owner}

\* The bytes of an owner are as many as before if others are written.
LEMMA OthersGrow ==
  ASSUME NEW bytes, NEW more, NEW n \in Nat, NEW owner, NEW other, Grown(bytes, more, n, owner),
         bytes \in Seq(Owners), other # owner
  PROVE  OwnedIn(more, other) = OwnedIn(bytes, other)
<1>1. /\ DOMAIN bytes = 1 .. Len(bytes) /\ DOMAIN more = 1 .. Len(more) /\ Len(bytes) \in Nat
      /\ Len(more) = Len(bytes) + n
      /\ \A b \in 1 .. Len(bytes) : more[b] = bytes[b]
      /\ \A b \in Len(bytes) + 1 .. Len(more) : more[b] = owner
  BY LenProperties DEF Grown
<1>2. ASSUME NEW b, b \in OwnedIn(more, other) PROVE b \in OwnedIn(bytes, other)
  <2>1. b \in 1 .. Len(bytes) \/ b \in Len(bytes) + 1 .. Len(more)
    BY <1>1, <1>2 DEF OwnedIn
  <2> QED BY <1>1, <1>2, <2>1 DEF OwnedIn
<1>3. ASSUME NEW b, b \in OwnedIn(bytes, other) PROVE b \in OwnedIn(more, other)
  <2>1. b \in 1 .. Len(bytes) /\ b \in 1 .. Len(more)
    BY <1>1, <1>3 DEF OwnedIn
  <2> QED BY <1>1, <1>3, <2>1 DEF OwnedIn
<1> QED BY <1>2, <1>3

\* What is open is not past.
LEMMA OpenIsNotPast ==
  ASSUME CompilerAssumption, DocumentInv, open # Nothing
  PROVE  open \in Elements /\ ~Past(open)
<1>1. open \in Elements /\ open.kind \in {"node", "way", "relation"}
  BY OpenIds DEF DocumentInv
<1>2. CASE open.kind = "node"
  <2>1. \A i \in DOMAIN document.nodes : document.nodes[i].id < open.id
    BY <1>2 DEF DocumentInv, OpenInv, Below
  <2>2. open.id \in Int
    BY <1>2, IdsAreNumbers, OpenIds DEF DocumentInv
  <2>3. \A i \in DOMAIN document.nodes : document.nodes[i].id # open.id
    BY <2>1, <2>2
  <2> QED BY <1>1, <1>2, <2>3 DEF Past
<1>3. CASE open.kind = "way"
  <2>1. \A i \in DOMAIN document.ways : document.ways[i].id < open.id
    BY <1>3 DEF DocumentInv, OpenInv, Below
  <2>2. open.id \in Int
    BY <1>3, IdsAreNumbers, OpenIds DEF DocumentInv
  <2>3. \A i \in DOMAIN document.ways : document.ways[i].id # open.id
    BY <2>1, <2>2
  <2> QED BY <1>1, <1>3, <2>3 DEF Past
<1>4. CASE open.kind = "relation"
  <2>1. \A i \in DOMAIN document.relations : document.relations[i].id < open.id
    BY <1>4 DEF DocumentInv, OpenInv, Below
  <2>2. open.id \in Int
    BY <1>4, IdsAreNumbers, OpenIds DEF DocumentInv
  <2>3. \A i \in DOMAIN document.relations : document.relations[i].id # open.id
    BY <2>1, <2>2
  <2> QED BY <1>1, <1>4, <2>3 DEF Past
<1> QED BY <1>1, <1>2, <1>3, <1>4

\* A step writes no bytes, or those of an element that is not past.
LEMMA BytesGrow ==
  ASSUME CompilerAssumption, DocumentInv, TagsInv, [Next]_vars
  PROVE  \/ baliseTags' = baliseTags
         \/ \E n \in Nat, owner \in Owners : Grown(baliseTags, baliseTags', n, owner) /\ ~Past(owner)
<1>1. baliseTags \in Seq(Owners) /\ attributesRead \in Nat
  BY DEF TagsInv
<1>2. CASE StartTag
  <2>1. PICK k \in Strings, v \in Strings : baliseTags' = baliseTags \o Bytes(k + v, open)
    BY <1>2 DEF StartTag
  <2>2. k + v \in Nat
    BY DEF CompilerAssumption
  <2>3. open \in Owners /\ ~Past(open)
    BY <1>2, OpenIsNotPast DEF StartTag, Owners
  <2>4. PICK bytes, more, n, owner :
          bytes = baliseTags /\ more = baliseTags' /\ n = k + v /\ owner = open
    OBVIOUS
  <2>5. bytes \in Seq(Owners) /\ n \in Nat /\ owner \in Owners /\ more = bytes \o Bytes(n, owner)
    BY <1>1, <2>1, <2>2, <2>3, <2>4
  <2>6. Grown(bytes, more, n, owner)
    BY <2>5, BytesAppended
  <2> QED BY <2>3, <2>4, <2>5, <2>6
<1>3. ASSUME NEW shape \in ShapeRecords, NEW n \in {0, 1}, ShapeRead(shape, n)
      PROVE  \/ baliseTags' = baliseTags
             \/ \E m \in Nat, owner \in Owners :
                  Grown(baliseTags, baliseTags', m, owner) /\ ~Past(owner)
  <2>1. /\ attributesRead' = attributesRead + n
        /\ baliseTags' = IF n = 0 THEN baliseTags
             ELSE baliseTags \o Bytes(ShapeTags, [kind |-> "shape", id |-> attributesRead'])
    BY <1>3 DEF ShapeRead
  <2>2. CASE n = 1
    <3>1. PICK bytes, more, owner : /\ bytes = baliseTags /\ more = baliseTags'
                                    /\ owner = [kind |-> "shape", id |-> attributesRead']
      OBVIOUS
    <3>2. owner \in Owners /\ owner.kind = "shape" /\ owner.id = attributesRead + 1
      BY <1>1, <2>1, <2>2, <3>1 DEF Owners
    <3>3. ShapeTags \in Nat
      BY DEF CompilerAssumption
    <3>4. bytes \in Seq(Owners) /\ more = bytes \o Bytes(ShapeTags, owner)
      BY <1>1, <2>1, <2>2, <3>1
    <3>5. Grown(bytes, more, ShapeTags, owner)
      BY <3>2, <3>3, <3>4, BytesAppended
    <3>6. ~Past(owner)
      <4>1. ~(attributesRead + 1 \in 1 .. attributesRead)
        BY <1>1
      <4> QED BY <3>2, <4>1 DEF Past
    <3> QED BY <3>1, <3>2, <3>3, <3>5, <3>6
  <2> QED BY <2>1, <2>2
<1>4. CASE ShapePoint \/ ShapeLines \/ ShapeOther
  BY <1>3, <1>4, ShapesReadAre
<1>5. CASE StartNode \/ StartWay \/ StartRelation
  BY <1>5 DEF StartNode, StartWay, StartRelation, StartElement
<1>6. CASE EndNode \/ EndRelation \/ Nd \/ Close \/ UNCHANGED vars
  BY <1>6 DEF EndNode, EndRelation, Nd, Close, vars, tagVars
<1>7. CASE EndWay
  BY <1>7 DEF EndWay, WayRead, tagVars
<1>8. CASE StartMember
  BY <1>8 DEF StartMember, Member, tagVars
<1> QED BY <1>2, <1>4, <1>5, <1>6, <1>7, <1>8 DEF Next

\* What is past has the bytes that it has.
LEMMA PastKeepsBytes ==
  ASSUME CompilerAssumption, DocumentInv, TagsInv, [Next]_vars
  PROVE  \A owner : Past(owner) => OwnedIn(baliseTags', owner) = OwnedIn(baliseTags, owner)
<1>1. PICK bytes, more : bytes = baliseTags /\ more = baliseTags'
  OBVIOUS
<1>2. bytes \in Seq(Owners)
  BY <1>1 DEF TagsInv
<1>3. CASE more = bytes
  BY <1>1, <1>3
<1>4. CASE \E n \in Nat, owner \in Owners : Grown(bytes, more, n, owner) /\ ~Past(owner)
  <2>1. PICK n \in Nat, owner \in Owners : Grown(bytes, more, n, owner) /\ ~Past(owner)
    BY <1>4
  <2>2. ASSUME NEW other, Past(other) PROVE OwnedIn(more, other) = OwnedIn(bytes, other)
    <3>1. other # owner
      BY <2>1, <2>2
    <3> QED BY <1>2, <2>1, <3>1, OthersGrow
  <2> QED BY <1>1, <2>2
<1> QED BY <1>1, <1>3, <1>4, BytesGrow

-----------------------------------------------------------------------------
(* The nodes with tags. *)

NodeOwner(n) == [kind |-> "node", id |-> n.id]

\* The nodes with tags, for a document and the bytes of its tags.
TaggedIn(nodes, bytes) ==
  Those(nodes, {n \in ToSet(nodes) : OwnedIn(bytes, NodeOwner(n)) # {}})

\* The two definitions are one.
LEMMA TaggedAre ==
  TaggedNodes = TaggedIn(document.nodes, baliseTags)
BY DEF TaggedNodes, TaggedIn, BytesOf, OwnedIn, NodeOwner

\* Which nodes have tags depends on their own bytes only.
LEMMA TaggedAgree ==
  ASSUME NEW nodes \in Seq(Nodes), NEW bytes, NEW more,
         \A i \in 1 .. Len(nodes) :
           OwnedIn(more, NodeOwner(nodes[i])) = OwnedIn(bytes, NodeOwner(nodes[i]))
  PROVE  TaggedIn(nodes, more) = TaggedIn(nodes, bytes)
<1>1. PICK S, T : /\ S = {n \in ToSet(nodes) : OwnedIn(bytes, NodeOwner(n)) # {}}
                  /\ T = {n \in ToSet(nodes) : OwnedIn(more, NodeOwner(n)) # {}}
  OBVIOUS
<1>2. \A i \in 1 .. Len(nodes) : nodes[i] \in S <=> nodes[i] \in T
  BY <1>1
<1>3. Those(nodes, S) = Those(nodes, T)
  BY <1>2, ThoseAgree
<1> QED BY <1>1, <1>3 DEF TaggedIn

\* One node more.
LEMMA TaggedAppend ==
  ASSUME NEW nodes \in Seq(Nodes), NEW n \in Nodes, NEW bytes
  PROVE  TaggedIn(Append(nodes, n), bytes)
           = IF OwnedIn(bytes, NodeOwner(n)) = {} THEN TaggedIn(nodes, bytes)
             ELSE Append(TaggedIn(nodes, bytes), n)
<1>1. PICK more, S, T : /\ more = Append(nodes, n)
                        /\ S = {e \in ToSet(nodes) : OwnedIn(bytes, NodeOwner(e)) # {}}
                        /\ T = {e \in ToSet(more) : OwnedIn(bytes, NodeOwner(e)) # {}}
  OBVIOUS
<1>2. /\ DOMAIN more = 1 .. Len(nodes) + 1 /\ DOMAIN nodes = 1 .. Len(nodes) /\ Len(nodes) \in Nat
      /\ more[Len(nodes) + 1] = n /\ \A i \in 1 .. Len(nodes) : more[i] = nodes[i]
  BY <1>1, AppendProperties, LenProperties
<1>3. \A i \in 1 .. Len(nodes) : nodes[i] \in ToSet(nodes) /\ nodes[i] \in ToSet(more)
  <2> TAKE i \in 1 .. Len(nodes)
  <2>1. i \in DOMAIN nodes /\ i \in DOMAIN more /\ more[i] = nodes[i]
    BY <1>2
  <2> QED BY <2>1 DEF ToSet
<1>4. n \in ToSet(more)
  <2>1. Len(nodes) + 1 \in DOMAIN more
    BY <1>2
  <2> QED BY <1>2, <2>1 DEF ToSet
<1>5. Those(nodes, S) = Those(nodes, T)
  <2>1. \A i \in 1 .. Len(nodes) : nodes[i] \in S <=> nodes[i] \in T
    BY <1>1, <1>3
  <2> QED BY <2>1, ThoseAgree
<1>6. Those(more, T) = Keep(Those(nodes, T), n, T)
  BY <1>1, ThoseAppend
<1>7. n \in T <=> OwnedIn(bytes, NodeOwner(n)) # {}
  BY <1>1, <1>4
<1> QED BY <1>1, <1>5, <1>6, <1>7 DEF TaggedIn, Keep

\* The nodes of the document are past.
LEMMA NodesArePast ==
  \A i \in DOMAIN document.nodes : Past(NodeOwner(document.nodes[i]))
BY DEF Past, NodeOwner

\* A step that ends no node leaves the nodes with tags.
LEMMA TaggedStay ==
  ASSUME CompilerAssumption, DocumentInv, TagsInv, [Next]_vars, document'.nodes = document.nodes
  PROVE  TaggedNodes' = TaggedNodes
<1>1. PICK nodes, bytes, more : nodes = document.nodes /\ bytes = baliseTags /\ more = baliseTags'
  OBVIOUS
<1>2. nodes \in Seq(Nodes) /\ DOMAIN nodes = 1 .. Len(nodes)
  BY <1>1, LenProperties DEF DocumentInv, Documents
<1>3. \A i \in 1 .. Len(nodes) :
        OwnedIn(more, NodeOwner(nodes[i])) = OwnedIn(bytes, NodeOwner(nodes[i]))
  BY <1>1, <1>2, NodesArePast, PastKeepsBytes
<1>4. TaggedIn(nodes, more) = TaggedIn(nodes, bytes)
  BY <1>2, <1>3, TaggedAgree
<1>5. TaggedNodes' = TaggedIn(document'.nodes, baliseTags')
  BY DEF TaggedNodes, TaggedIn, BytesOf, OwnedIn, NodeOwner
<1> QED BY <1>1, <1>4, <1>5, TaggedAre

\* Nothing has been written if the size of what has been written is 0.
LEMMA SizesFrom ==
  ASSUME NEW n \in Nat, NEW start \in 0 .. n, NEW limit \in Nat \ {0}
  PROVE  start + 1 .. n = {} <=> Lesser(n - start, limit) = 0
<1>1. CASE start = n
  <2>1. start + 1 .. n = {}
    BY <1>1
  <2> QED BY <1>1, <2>1 DEF Lesser
<1>2. CASE start # n
  <2>1. n \in start + 1 .. n /\ n - start # 0
    BY <1>2
  <2> QED BY <2>1 DEF Lesser
<1> QED BY <1>1, <1>2

\* The bytes behind the start of a batch.
LEMMA OpenBytes ==
  ASSUME CompilerAssumption, DocumentInv, TagsInv, open # Nothing
  PROVE  /\ OwnedIn(baliseTags, open) = tagStart + 1 .. Len(baliseTags)
         /\ OwnedIn(baliseTags, open) = {} <=> SizeFrom(tagStart, baliseTags) = 0
<1>1. /\ DOMAIN baliseTags = 1 .. Len(baliseTags) /\ Len(baliseTags) \in Nat
      /\ tagStart \in 0 .. Len(baliseTags)
      /\ \A b \in 1 .. Len(baliseTags) : baliseTags[b] = open <=> tagStart < b
  BY LenProperties DEF TagsInv
<1>2. OwnedIn(baliseTags, open) = tagStart + 1 .. Len(baliseTags)
  <2>1. ASSUME NEW b \in OwnedIn(baliseTags, open) PROVE b \in tagStart + 1 .. Len(baliseTags)
    BY <1>1 DEF OwnedIn
  <2>2. ASSUME NEW b \in tagStart + 1 .. Len(baliseTags) PROVE b \in OwnedIn(baliseTags, open)
    <3>1. b \in 1 .. Len(baliseTags) /\ tagStart < b
      BY <1>1
    <3> QED BY <1>1, <3>1 DEF OwnedIn
  <2> QED BY Zenon, <2>1, <2>2
<1>3. CountLimit \in Nat \ {0}
  BY DEF CompilerAssumption
<1>4. tagStart + 1 .. Len(baliseTags) = {} <=> SizeFrom(tagStart, baliseTags) = 0
  BY <1>1, <1>3, SizesFrom DEF SizeFrom
<1> QED BY <1>2, <1>4

\* The node that ends is among the nodes with tags if something has been written.
LEMMA TaggedEnd ==
  ASSUME CompilerAssumption, DocumentInv, TagsInv, EndNode
  PROVE  TaggedNodes' = IF SizeFrom(tagStart, baliseTags) = 0 THEN TaggedNodes
                        ELSE Append(TaggedNodes, [id |-> open.id])
<1>1. PICK nodes, bytes, n : nodes = document.nodes /\ bytes = baliseTags /\ n = [id |-> open.id]
  OBVIOUS
<1>2. open.kind = "node" /\ baliseTags' = baliseTags
  BY DEF EndNode, tagVars
<1>3. open.id \in NodeIds /\ open = [kind |-> "node", id |-> open.id] /\ open # Nothing
  BY <1>2, OpenIds DEF DocumentInv
<1>4. nodes \in Seq(Nodes) /\ n \in Nodes /\ NodeOwner(n) = open
  BY <1>1, <1>3 DEF DocumentInv, Documents, Nodes, NodeOwner
<1>5. document'.nodes = Append(nodes, n)
  BY <1>1, EndNodeReads
<1>6. TaggedNodes' = TaggedIn(Append(nodes, n), bytes)
  <2>1. TaggedNodes' = TaggedIn(document'.nodes, baliseTags')
    BY DEF TaggedNodes, TaggedIn, BytesOf, OwnedIn, NodeOwner
  <2> QED BY <1>1, <1>2, <1>5, <2>1
<1>7. TaggedIn(Append(nodes, n), bytes)
        = IF OwnedIn(bytes, NodeOwner(n)) = {} THEN TaggedIn(nodes, bytes)
          ELSE Append(TaggedIn(nodes, bytes), n)
  BY <1>4, TaggedAppend
<1>8. OwnedIn(bytes, NodeOwner(n)) = {} <=> SizeFrom(tagStart, baliseTags) = 0
  BY <1>1, <1>3, <1>4, OpenBytes
<1> QED BY <1>1, <1>6, <1>7, <1>8, TaggedAre

\* The nodes with tags are nodes of the document.
LEMMA TaggedNodesAre ==
  ASSUME DocumentInv
  PROVE  /\ TaggedNodes \in Seq(Nodes)
         /\ \A i \in 1 .. Len(TaggedNodes) : \E j \in DOMAIN document.nodes :
              document.nodes[j] = TaggedNodes[i]
<1>1. PICK nodes, S, t : /\ nodes = document.nodes
                         /\ S = {n \in ToSet(nodes) : BytesOf([kind |-> "node", id |-> n.id]) # {}}
                         /\ t = Those(nodes, S) /\ t = TaggedNodes
  BY Zenon DEF TaggedNodes
<1>2. nodes \in Seq(Nodes)
  BY <1>1 DEF DocumentInv, Documents
<1>3. Those(nodes, S) \in Seq(Nodes \cap S)
  BY <1>2, ThoseAre
<1>4. t \in Seq(Nodes) /\ \A i \in 1 .. Len(t) : t[i] \in S
  <2>1. t \in Seq(Nodes \cap S)
    BY <1>1, <1>3
  <2>2. Nodes \cap S \subseteq Nodes /\ Nodes \cap S \subseteq S
    OBVIOUS
  <2> QED BY <2>1, <2>2, ElementOfSeq
<1> QED BY Zenon, <1>1, <1>4 DEF ToSet

-----------------------------------------------------------------------------
(* The tags of a record. *)

\* HasTagsOf, for any bytes.
HasTags(r, bytes, owner) ==
  LET own == OwnedIn(bytes, owner) IN
  /\ r.tsize = Lesser(Cardinality(own), CountLimit)
  /\ r.tstart + 1 .. r.tstart + r.tsize \subseteq own
  /\ r.tsize > 0 => r.tstart + 1 = Min(own)

\* The two definitions are one.
LEMMA TagsOfAre ==
  ASSUME NEW r, NEW owner
  PROVE  HasTagsOf(r, owner) <=> HasTags(r, baliseTags, owner)
BY Zenon DEF HasTagsOf, HasTags, BytesOf, OwnedIn

\* The same bytes are the same tags.
LEMMA TagsAgree ==
  ASSUME NEW r, NEW bytes, NEW more, NEW owner, OwnedIn(more, owner) = OwnedIn(bytes, owner),
         HasTags(r, bytes, owner)
  PROVE  HasTags(r, more, owner)
BY DEF HasTags

\* The least number of an interval.
LEMMA MinOfInterval ==
  ASSUME NEW a \in Int, NEW b \in Int, a <= b
  PROVE  Min(a .. b) = a
<1>1. a \in a .. b /\ \A y \in a .. b : a <= y
  OBVIOUS
<1>2. \A x \in a .. b : (\A y \in a .. b : x <= y) => x = a
  OBVIOUS
<1> QED BY <1>1, <1>2, Zenon DEF Min

\* What has been written since a batch began are the tags that its record delimits.
LEMMA FreshTags ==
  ASSUME CompilerAssumption, NEW bytes, NEW owner, NEW n \in Nat, NEW start \in 0 .. n,
         OwnedIn(bytes, owner) = start + 1 .. n,
         NEW r, r.tstart = start, r.tsize = Lesser(n - start, CountLimit)
  PROVE  HasTags(r, bytes, owner)
<1>1. CountLimit \in Nat
  BY DEF CompilerAssumption
<1>2. Cardinality(start + 1 .. n) = n - start
  <2>1. start + 1 \in Int /\ n \in Int
    OBVIOUS
  <2>2. Cardinality(start + 1 .. n) = IF start + 1 > n THEN 0 ELSE n - (start + 1) + 1
    BY <2>1, FS_Interval
  <2> QED BY <2>2
<1>3. r.tsize \in 0 .. n - start
  BY <1>1 DEF Lesser
<1>4. start + 1 .. start + r.tsize \subseteq start + 1 .. n
  BY <1>3
<1>5. r.tsize > 0 => start + 1 = Min(start + 1 .. n)
  <2>1. r.tsize > 0 => start + 1 <= n
    BY <1>3
  <2> QED BY <2>1, MinOfInterval
<1> QED BY <1>2, <1>4, <1>5 DEF HasTags

\* A record of an element that has ended keeps its tags.
LEMMA TagsKept ==
  ASSUME CompilerAssumption, DocumentInv, TagsInv, [Next]_vars, NEW r, NEW owner, Past(owner),
         HasTags(r, baliseTags, owner)
  PROVE  HasTags(r, baliseTags', owner)
<1>1. PICK bytes, more : bytes = baliseTags /\ more = baliseTags'
  OBVIOUS
<1>2. OwnedIn(more, owner) = OwnedIn(bytes, owner)
  BY <1>1, PastKeepsBytes
<1> QED BY <1>1, <1>2, TagsAgree

\* The tags of the element that ends.
LEMMA EndsWithTags ==
  ASSUME CompilerAssumption, DocumentInv, TagsInv, open # Nothing, NEW r,
         r.tstart = tagStart, r.tsize = SizeFrom(tagStart, baliseTags)
  PROVE  HasTags(r, baliseTags, open)
<1>1. PICK bytes, start, n, o : bytes = baliseTags /\ start = tagStart /\ n = Len(baliseTags) /\ o = open
  OBVIOUS
<1>2. n \in Nat /\ start \in 0 .. n
  BY <1>1 DEF TagsInv
<1>3. OwnedIn(bytes, o) = start + 1 .. n
  BY <1>1, OpenBytes
<1>4. r.tstart = start /\ r.tsize = Lesser(n - start, CountLimit)
  BY <1>1 DEF SizeFrom
<1>5. HasTags(r, bytes, o)
  BY <1>2, <1>3, <1>4, FreshTags
<1> QED BY <1>1, <1>5
-----------------------------------------------------------------------------
(* The ways of a shape. *)

Points == Int \X Int
Boxes == [x0 : Int, y0 : Int, x1 : Int, y1 : Int]

\* A sequence, of anything.
IsList(s) == \E R : s \in Seq(R)

\* The numbers of its elements.
LEMMA ListIs ==
  ASSUME NEW s, IsList(s)
  PROVE  Len(s) \in Nat /\ DOMAIN s = 1 .. Len(s)
BY LenProperties DEF IsList

\* One element more.
LEMMA ListAppend ==
  ASSUME NEW s, IsList(s), NEW e
  PROVE  LET t == Append(s, e) IN
         /\ IsList(t) /\ Extends(s, t) /\ Len(t) = Len(s) + 1 /\ Len(s) \in Nat
         /\ DOMAIN t = 1 .. Len(s) + 1 /\ DOMAIN s = 1 .. Len(s)
         /\ \A i \in 1 .. Len(s) : t[i] = s[i]
         /\ t[Len(s) + 1] = e
<1>1. PICK R : s \in Seq(R)
  BY DEF IsList
<1>2. PICK Q : Q = R \cup {e}
  OBVIOUS
<1>3. s \in Seq(Q) /\ e \in Q
  <2>1. \A i \in 1 .. Len(s) : s[i] \in Q
    BY <1>1, <1>2, ElementOfSeq
  <2>2. Len(s) \in Nat /\ DOMAIN s = 1 .. Len(s)
    BY <1>1, LenProperties
  <2>3. s \in [1 .. Len(s) -> Q]
    BY <1>1, <2>1, <2>2
  <2>4. PICK n : n = Len(s)
    OBVIOUS
  <2>5. n \in Nat /\ s \in [1 .. n -> Q]
    BY <2>2, <2>3, <2>4
  <2>6. s \in Seq(Q)
    BY <2>5
  <2> QED BY <1>2, <2>6
<1>4. PICK t : t = Append(s, e)
  OBVIOUS
<1>5. /\ Extends(s, t) /\ t \in Seq(Q) /\ Len(t) = Len(s) + 1 /\ Len(s) \in Nat
      /\ DOMAIN t = 1 .. Len(s) + 1 /\ DOMAIN s = 1 .. Len(s)
      /\ Len(s) + 1 \in DOMAIN t /\ t[Len(s) + 1] = e
  BY <1>3, <1>4, AppendExtends
<1> QED BY <1>4, <1>5 DEF IsList, Extends

\* One list behind another.
LEMMA ListConcat ==
  ASSUME NEW s, IsList(s), NEW u, IsList(u)
  PROVE  LET t == s \o u IN
         /\ IsList(t) /\ Extends(s, t) /\ Len(t) = Len(s) + Len(u)
         /\ \A i \in 1 .. Len(s) : t[i] = s[i]
         /\ \A i \in 1 .. Len(u) : t[Len(s) + i] = u[i]
<1>1. PICK R : s \in Seq(R)
  BY DEF IsList
<1>2. PICK Q : u \in Seq(Q)
  BY DEF IsList
<1>3. PICK m, n : m = Len(s) /\ n = Len(u)
  OBVIOUS
<1>4. m \in Nat /\ n \in Nat /\ DOMAIN s = 1 .. m /\ DOMAIN u = 1 .. n
  BY <1>1, <1>2, <1>3, LenProperties
<1>5. PICK V : V = R \cup Q
  OBVIOUS
<1>6. (\A i \in 1 .. m : s[i] \in V) /\ (\A i \in 1 .. n : u[i] \in V)
  BY <1>1, <1>2, <1>3, <1>5, ElementOfSeq
<1>7. s \in [1 .. m -> V] /\ u \in [1 .. n -> V]
  BY <1>1, <1>2, <1>4, <1>6
<1>8. s \in Seq(V) /\ u \in Seq(V)
  BY <1>4, <1>7
<1>9. PICK t : t = s \o u
  OBVIOUS
<1>10. /\ t \in Seq(V) /\ Len(t) = m + n
       /\ \A i \in 1 .. m + n : t[i] = IF i <= m THEN s[i] ELSE u[i - m]
  BY <1>3, <1>8, <1>9, ConcatProperties
<1>11. DOMAIN t = 1 .. m + n
  BY <1>10, LenProperties
<1>12. \A i \in 1 .. m : i \in 1 .. m + n /\ t[i] = s[i]
  BY <1>4, <1>10
<1>13. ASSUME NEW i \in 1 .. n PROVE t[m + i] = u[i]
  <2>1. m + i \in 1 .. m + n /\ ~(m + i <= m) /\ (m + i) - m = i
    BY <1>4
  <2> QED BY <1>10, <2>1
<1> QED BY <1>3, <1>4, <1>9, <1>10, <1>11, <1>12, <1>13 DEF IsList, Extends

\* What goes on twice goes on.
LEMMA ExtendsTwice ==
  ASSUME NEW s, NEW t, NEW u, Extends(s, t), Extends(t, u)
  PROVE  Extends(s, u)
BY DEF Extends

\* The segments between two places of a sequence of points.
Joins(points, a, b) == {<<points[j], points[j + 1]>> : j \in a .. b - 1}

\* The segments of the same points.
LEMMA JoinsAgree ==
  ASSUME NEW p, NEW q, NEW a \in Int, NEW b \in Int, \A j \in a .. b : p[j] = q[j]
  PROVE  Joins(p, a, b) = Joins(q, a, b)
<1>1. \A j \in a .. b - 1 : <<p[j], p[j + 1]>> = <<q[j], q[j + 1]>>
  <2> TAKE j \in a .. b - 1
  <2>1. j \in a .. b /\ j + 1 \in a .. b
    OBVIOUS
  <2> QED BY <2>1
<1> QED BY <1>1 DEF Joins

\* The segment to one point more.
LEMMA JoinsMore ==
  ASSUME NEW q, NEW a \in Int, NEW b \in Int
  PROVE  /\ a <= b => Joins(q, a, b + 1) = Joins(q, a, b) \cup {<<q[b], q[b + 1]>>}
         /\ b <= a => Joins(q, a, b) = {}
<1>1. ASSUME a <= b PROVE Joins(q, a, b + 1) = Joins(q, a, b) \cup {<<q[b], q[b + 1]>>}
  <2>1. \A j : j \in a .. (b + 1) - 1 <=> j \in a .. b - 1 \/ j = b
    BY <1>1
  <2> QED BY <2>1 DEF Joins
<1>2. ASSUME b <= a PROVE Joins(q, a, b) = {}
  <2>1. a .. b - 1 = {}
    BY <1>2
  <2> QED BY <2>1 DEF Joins
<1> QED BY <1>1, <1>2

\* The rectangle around the points between two places.
Covers(r, points, a, b) ==
  /\ r \in Boxes
  /\ \A j \in a .. b : /\ points[j] \in Points
                       /\ r.x0 <= points[j][1] /\ points[j][1] <= r.x1
                       /\ r.y0 <= points[j][2] /\ points[j][2] <= r.y1
  /\ \E j \in a .. b : points[j][1] = r.x0
  /\ \E j \in a .. b : points[j][1] = r.x1
  /\ \E j \in a .. b : points[j][2] = r.y0
  /\ \E j \in a .. b : points[j][2] = r.y1

\* The rectangle of the same points.
LEMMA CoversAgree ==
  ASSUME NEW r, NEW p, NEW q, NEW a \in Int, NEW b \in Int, \A j \in a .. b : p[j] = q[j],
         Covers(r, p, a, b)
  PROVE  Covers(r, q, a, b)
BY DEF Covers

\* The rectangle of one point, and that of one point more.
LEMMA CoversMore ==
  ASSUME NEW q, NEW a \in Int, NEW b \in Int, a <= b + 1, q[b + 1] \in Points
  PROVE  /\ a = b + 1 => Covers(Box(q[b + 1]), q, a, b + 1)
         /\ \A r : Covers(r, q, a, b) => Covers(AddPoint(r, q[b + 1]), q, a, b + 1)
<1>1. PICK x, y : x = q[b + 1][1] /\ y = q[b + 1][2] /\ x \in Int /\ y \in Int
  BY DEF Points
<1>2. ASSUME a = b + 1 PROVE Covers(Box(q[b + 1]), q, a, b + 1)
  <2>1. PICK c : c = Box(q[b + 1])
    OBVIOUS
  <2>2. c \in Boxes /\ c.x0 = x /\ c.y0 = y /\ c.x1 = x /\ c.y1 = y
    BY <1>1, <2>1 DEF Box, Boxes
  <2>3. \A j : j \in a .. b + 1 <=> j = b + 1
    BY <1>2
  <2> QED BY <1>1, <2>1, <2>2, <2>3 DEF Covers
<1>3. ASSUME NEW r, Covers(r, q, a, b) PROVE Covers(AddPoint(r, q[b + 1]), q, a, b + 1)
  <2>1. PICK c : c = AddPoint(r, q[b + 1])
    OBVIOUS
  <2>2. r.x0 \in Int /\ r.y0 \in Int /\ r.x1 \in Int /\ r.y1 \in Int
    BY <1>3 DEF Covers, Boxes
  <2>3. /\ c \in Boxes /\ c.x0 = Lesser(r.x0, x) /\ c.y0 = Lesser(r.y0, y)
        /\ c.x1 = -Lesser(-r.x1, -x) /\ c.y1 = -Lesser(-r.y1, -y)
    BY <1>1, <2>1, <2>2 DEF AddPoint, Boxes, Lesser
  <2>4. /\ c.x0 \in Int /\ c.y0 \in Int /\ c.x1 \in Int /\ c.y1 \in Int
        /\ c.x0 <= r.x0 /\ c.x0 <= x /\ c.y0 <= r.y0 /\ c.y0 <= y
        /\ r.x1 <= c.x1 /\ x <= c.x1 /\ r.y1 <= c.y1 /\ y <= c.y1
        /\ c.x0 = r.x0 \/ c.x0 = x
        /\ c.y0 = r.y0 \/ c.y0 = y
        /\ c.x1 = r.x1 \/ c.x1 = x
        /\ c.y1 = r.y1 \/ c.y1 = y
    BY <1>1, <2>2, <2>3 DEF Lesser
  <2>5. /\ b + 1 \in a .. b + 1
        /\ \A j \in a .. b : j \in a .. b + 1
        /\ \A j \in a .. b + 1 : j \in a .. b \/ j = b + 1
    OBVIOUS
  <2>6. ASSUME NEW j \in a .. b + 1
        PROVE  /\ q[j] \in Points
               /\ c.x0 <= q[j][1] /\ q[j][1] <= c.x1
               /\ c.y0 <= q[j][2] /\ q[j][2] <= c.y1
    <3>1. CASE j = b + 1
      BY <1>1, <2>4, <3>1
    <3>2. CASE j \in a .. b
      <4>1. /\ q[j] \in Points
            /\ r.x0 <= q[j][1] /\ q[j][1] <= r.x1
            /\ r.y0 <= q[j][2] /\ q[j][2] <= r.y1
        BY <1>3, <3>2 DEF Covers
      <4>2. q[j][1] \in Int /\ q[j][2] \in Int
        BY <4>1 DEF Points
      <4> QED BY <2>2, <2>4, <4>1, <4>2
    <3> QED BY <2>5, <3>1, <3>2
  <2>7. /\ \E j \in a .. b + 1 : q[j][1] = c.x0
        /\ \E j \in a .. b + 1 : q[j][1] = c.x1
        /\ \E j \in a .. b + 1 : q[j][2] = c.y0
        /\ \E j \in a .. b + 1 : q[j][2] = c.y1
    BY <1>1, <1>3, <2>4, <2>5 DEF Covers
  <2> QED BY <2>1, <2>3, <2>6, <2>7 DEF Covers
<1> QED BY <1>2, <1>3

\* A rectangle around points is their hull.
LEMMA CoversHull ==
  ASSUME NEW r, NEW q, NEW a \in Int, NEW b \in Int, Covers(r, q, a, b)
  PROVE  r = Hull({q[j] : j \in a .. b})
<1>1. PICK S : S = {q[j] : j \in a .. b}
  OBVIOUS
<1>2. PICK xs, ys : xs = {p[1] : p \in S} /\ ys = {p[2] : p \in S}
  OBVIOUS
<1>3. /\ r \in Boxes
      /\ \A x \in xs : r.x0 <= x /\ x <= r.x1 /\ x \in Int
      /\ \A y \in ys : r.y0 <= y /\ y <= r.y1 /\ y \in Int
      /\ r.x0 \in xs /\ r.x1 \in xs /\ r.y0 \in ys /\ r.y1 \in ys
  BY <1>1, <1>2 DEF Covers, Points
<1>4. r.x0 \in Int /\ r.y0 \in Int /\ r.x1 \in Int /\ r.y1 \in Int
  BY <1>3 DEF Boxes
<1>5. /\ \A x \in xs : (\A y \in xs : x <= y) => x = r.x0
      /\ \A x \in xs : (\A y \in xs : x >= y) => x = r.x1
      /\ \A x \in ys : (\A y \in ys : x <= y) => x = r.y0
      /\ \A x \in ys : (\A y \in ys : x >= y) => x = r.y1
  BY <1>3, <1>4
<1>6. (\A y \in xs : r.x1 >= y) /\ (\A y \in ys : r.y1 >= y)
  BY <1>3, <1>4
<1>7. Min(xs) = r.x0 /\ Min(ys) = r.y0
  BY <1>3, <1>5, Zenon DEF Min
<1>8. Max(xs) = r.x1 /\ Max(ys) = r.y1
  BY <1>3, <1>5, <1>6, Zenon DEF Max
<1>9. r = [x0 |-> r.x0, y0 |-> r.y0, x1 |-> r.x1, y1 |-> r.y1]
  BY <1>3 DEF Boxes
<1>10. Hull(S) = [x0 |-> Min(xs), y0 |-> Min(ys), x1 |-> Max(xs), y1 |-> Max(ys)]
  BY <1>2, Zenon DEF Hull
<1> QED BY <1>1, <1>7, <1>8, <1>9, <1>10, Zenon

\* What the ways of a shape become: the points that the walk has come to, from which
\* the next way begins, and the ways that are complete.
ShapeWays ==
  [rect : Boxes \cup {NoRect}, pstart : Nat, psize : Int, tstart : {0}, tsize : {0}]
Walks(R, W) ==
  {s \in [points : Seq(R), start : Nat, rect : Boxes \cup {NoRect}, isFirstNd : BOOLEAN,
          ways : Seq(W)] : s.isFirstNd \/ s.rect \in Boxes}

\* The rectangle with a point more.
Grow(s, p) == IF s.isFirstNd THEN Box(p) ELSE AddPoint(s.rect, p)

\* A rectangle grows to a rectangle.
LEMMA GrowIs ==
  ASSUME NEW R, NEW W, NEW s \in Walks(R, W), NEW p \in Points
  PROVE  Grow(s, p) \in Boxes /\ Box(p) \in Boxes
<1>1. PICK x, y : x = p[1] /\ y = p[2] /\ x \in Int /\ y \in Int
  BY DEF Points
<1>2. Box(p) \in Boxes
  BY <1>1 DEF Box, Boxes
<1>3. ASSUME NEW r \in Boxes PROVE AddPoint(r, p) \in Boxes
  <2>1. r.x0 \in Int /\ r.y0 \in Int /\ r.x1 \in Int /\ r.y1 \in Int
    BY DEF Boxes
  <2> QED BY <1>1, <2>1 DEF AddPoint, Boxes, Lesser
<1> QED BY <1>2, <1>3 DEF Walks, Grow

\* One point more: the way goes on, or it is ended and the next one begins with the
\* same point.
PointAdded(R, W, s, p, t) ==
  LET points == Append(s.points, p)
      size == Len(s.points) + 1 - s.start IN
  /\ t \in Walks(R, W) /\ t.isFirstNd = FALSE /\ Len(s.points) \in Nat
  /\ size <= CountLimit - 2 =>
       t.points = points /\ t.start = s.start /\ t.ways = s.ways /\ t.rect = Grow(s, p)
  /\ ~(size <= CountLimit - 2) =>
       /\ t.points = Append(points, p) /\ t.start = Len(s.points) + 1 /\ t.rect = Box(p)
       /\ \E w : /\ t.ways = Append(s.ways, w)
                 /\ w = [rect |-> Grow(s, p), pstart |-> s.start, psize |-> size,
                         tstart |-> 0, tsize |-> 0]

\* That is what AddShapePoint does.
LEMMA PointStep ==
  ASSUME CompilerAssumption, NEW R, NEW W, Points \subseteq R, ShapeWays \subseteq W,
         NEW s \in Walks(R, W), NEW p \in Points
  PROVE  PointAdded(R, W, s, p, AddShapePoint(s, p))
<1>1. PICK S : S = [points : Seq(R), start : Nat, rect : Boxes \cup {NoRect}, isFirstNd : BOOLEAN,
                    ways : Seq(W)]
  OBVIOUS
<1>2. /\ s \in S /\ s.points \in Seq(R) /\ s.start \in Nat /\ s.ways \in Seq(W)
      /\ Len(s.points) \in Nat /\ p \in R
  <2>1. s \in S
    BY <1>1 DEF Walks
  <2>2. s.points \in Seq(R) /\ s.start \in Nat /\ s.ways \in Seq(W)
    BY <1>1, <2>1
  <2> QED BY <2>1, <2>2, LenProperties
<1>3. PICK points, box, size : /\ points = Append(s.points, p) /\ box = Grow(s, p)
                               /\ size = Len(s.points) + 1 - s.start
  OBVIOUS
<1>4. points \in Seq(R) /\ Len(points) = Len(s.points) + 1 /\ size \in Int
  BY <1>2, <1>3, AppendProperties
<1>5. box \in Boxes /\ Box(p) \in Boxes
  BY <1>3, GrowIs
<1>6. PICK w : w = [rect |-> box, pstart |-> s.start, psize |-> size, tstart |-> 0, tsize |-> 0]
  OBVIOUS
<1>7. w \in W
  BY <1>2, <1>4, <1>5, <1>6 DEF ShapeWays
<1>8. PICK t : t = AddShapePoint(s, p)
  OBVIOUS
<1>9. t = IF size <= CountLimit - 2
          THEN [s EXCEPT !.points = points, !.rect = box, !.isFirstNd = FALSE]
          ELSE [s EXCEPT !.points = points \o <<p>>, !.rect = Box(p), !.isFirstNd = FALSE,
                         !.start = Len(points), !.ways = Append(s.ways, w)]
  <2>1. w = [rect |-> box, pstart |-> s.start, psize |-> Len(points) - s.start, tstart |-> 0, tsize |-> 0]
    <3>1. Len(points) - s.start = size
      <4>1. Len(points) = Len(s.points) + 1
        BY <1>4
      <4>2. size = Len(s.points) + 1 - s.start
        BY <1>3
      <4>3. Len(s.points) \in Int /\ s.start \in Int
        BY <1>2
      <4> QED BY <4>1, <4>2, <4>3
    <3> QED BY <1>6, <3>1
  <2>2. w.psize = size
    BY <1>6
  <2>3. AddShapePoint(s, p) =
          IF w.psize <= CountLimit - 2
          THEN [s EXCEPT !.points = points, !.rect = box, !.isFirstNd = FALSE]
          ELSE [s EXCEPT !.points = points \o <<p>>, !.rect = Box(p), !.isFirstNd = FALSE,
                         !.start = Len(points), !.ways = Append(s.ways, w)]
    BY <1>3, <2>1, Zenon DEF AddShapePoint, GluePoint, Grow
  <2> QED BY <1>8, <2>2, <2>3, Zenon
<1>10. CASE size <= CountLimit - 2
  <2>1. t = [s EXCEPT !.points = points, !.rect = box, !.isFirstNd = FALSE]
    BY <1>9, <1>10
  <2>2. /\ t \in S /\ t.points = points /\ t.rect = box /\ t.isFirstNd = FALSE
        /\ t.start = s.start /\ t.ways = s.ways
    BY <1>1, <1>2, <1>4, <1>5, <2>1
  <2>3. t \in Walks(R, W)
    BY <1>1, <1>5, <2>2 DEF Walks
  <2> QED BY <1>2, <1>3, <1>8, <1>10, <2>2, <2>3 DEF PointAdded
<1>11. CASE ~(size <= CountLimit - 2)
  <2>1. PICK q : q = points \o <<p>>
    OBVIOUS
  <2>2. q = Append(points, p) /\ q \in Seq(R)
    <3>1. points \o <<p>> = Append(points, p)
      BY <1>2, <1>4, AppendIsConcat
    <3> QED BY <1>2, <1>4, <2>1, <3>1, AppendProperties
  <2>3. PICK v : v = Append(s.ways, w)
    OBVIOUS
  <2>4. v \in Seq(W)
    BY <1>2, <1>7, <2>3, AppendProperties
  <2>5. PICK n, b : n = Len(points) /\ b = Box(p)
    OBVIOUS
  <2>8. n \in Nat /\ b \in Boxes \cup {NoRect}
    BY <1>2, <1>4, <1>5, <2>5
  <2>9. t = [s EXCEPT !.points = q, !.rect = b, !.isFirstNd = FALSE, !.start = n, !.ways = v]
    BY <1>9, <1>11, <2>1, <2>3, <2>5
  <2>10. t \in S
    BY <1>1, <1>2, <2>2, <2>4, <2>8, <2>9
  <2>11. t.points = q /\ t.rect = b /\ t.isFirstNd = FALSE /\ t.start = n /\ t.ways = v
    BY <1>1, <1>2, <2>9
  <2>6. /\ t \in S /\ t.points = q /\ t.rect = Box(p) /\ t.isFirstNd = FALSE
        /\ t.start = Len(s.points) + 1 /\ t.ways = v
    BY <1>4, <2>5, <2>10, <2>11
  <2>7. t \in Walks(R, W)
    BY <1>1, <1>5, <2>6 DEF Walks
  <2> QED BY <1>2, <1>3, <1>6, <1>8, <1>11, <2>2, <2>3, <2>6, <2>7 DEF PointAdded
<1> QED BY <1>10, <1>11

\* A way of a shape: its points are among those from a place to another, its rectangle
\* is theirs, and it has no tags.
WayWhole(w, points, a, b) ==
  /\ w.pstart \in a .. b /\ w.psize \in 1 .. CountLimit /\ w.pstart + w.psize <= b
  /\ w.tstart = 0 /\ w.tsize = 0
  /\ Covers(w.rect, points, w.pstart + 1, w.pstart + w.psize)
JoinsOf(w, points) == Joins(points, w.pstart + 1, w.pstart + w.psize)

\* A way remains what it is when more points follow.
LEMMA WholeStays ==
  ASSUME CompilerAssumption, NEW w, NEW p, NEW q, Extends(p, q), DOMAIN p = 1 .. Len(p), Len(p) \in Nat,
         NEW a \in Nat, NEW b \in Nat, Len(p) <= b, WayWhole(w, p, a, Len(p))
  PROVE  WayWhole(w, q, a, b) /\ JoinsOf(w, q) = JoinsOf(w, p)
<1>0. CountLimit \in Nat
  BY DEF CompilerAssumption
<1>1. PICK c, d, n : c = w.pstart + 1 /\ d = w.pstart + w.psize /\ n = Len(p)
  OBVIOUS
<1>2. /\ w.pstart \in a .. n /\ w.psize \in 1 .. CountLimit /\ d <= n
      /\ w.tstart = 0 /\ w.tsize = 0 /\ Covers(w.rect, p, c, d)
  BY <1>1 DEF WayWhole
<1>3. c \in Int /\ d \in Int /\ c .. d \subseteq 1 .. n /\ w.pstart \in a .. b /\ d <= b
  BY <1>0, <1>1, <1>2
<1>4. \A j \in c .. d : p[j] = q[j]
  BY <1>1, <1>3 DEF Extends
<1>5. Joins(p, c, d) = Joins(q, c, d)
  <2>1. c \in Int /\ d \in Int
    BY <1>3
  <2> QED BY <1>4, <2>1, JoinsAgree
<1>6. Covers(w.rect, q, c, d)
  BY <1>2, <1>3, <1>4, CoversAgree
<1> QED BY <1>1, <1>2, <1>3, <1>5, <1>6 DEF WayWhole, JoinsOf

\* The ways that a walk has ended since s, and their segments.
NewWays(s, t) == {t.ways[k] : k \in Len(s.ways) + 1 .. Len(t.ways)}
NewJoins(s, t) == UNION {JoinsOf(w, t.points) : w \in NewWays(s, t)}

\* No way more.
LEMMA NoNewWays ==
  ASSUME NEW s, NEW t, NEW u, u.ways = t.ways
  PROVE  NewWays(s, u) = NewWays(s, t)
BY DEF NewWays

\* One way more.
WayAdded(s, t, u, w) ==
  /\ NewWays(s, u) = NewWays(s, t) \cup {w}
  /\ Extends(t.ways, u.ways) /\ Extends(s.ways, u.ways)

\* The way that is appended is the one that is new.
LEMMA OneNewWay ==
  ASSUME NEW s, NEW t, NEW u, NEW w, IsList(s.ways), IsList(t.ways), u.ways = Append(t.ways, w),
         Extends(s.ways, t.ways)
  PROVE  WayAdded(s, t, u, w)
<1>1. PICK a, v, m, n : a = t.ways /\ v = u.ways /\ m = Len(s.ways) /\ n = Len(a)
  OBVIOUS
<1>2. /\ IsList(a) /\ v = Append(a, w)
  BY <1>1
<1>3. /\ Extends(a, v) /\ Len(v) = n + 1 /\ n \in Nat
      /\ \A i \in 1 .. n : v[i] = a[i]
      /\ v[n + 1] = w
  BY <1>1, <1>2, ListAppend
<1>4. m \in Nat /\ DOMAIN s.ways = 1 .. m /\ DOMAIN a = 1 .. n
  BY <1>1, <1>2, ListIs
<1>5. m <= n
  <2>1. \A i \in 1 .. m : i \in 1 .. n
    BY <1>1, <1>4 DEF Extends
  <2> QED BY <1>3, <1>4, <2>1
<1>6. \A k : k \in m + 1 .. n + 1 <=> k \in m + 1 .. n \/ k = n + 1
  BY <1>3, <1>4, <1>5
<1>7. \A k \in m + 1 .. n : v[k] = a[k]
  BY <1>3, <1>4
<1>8. {v[k] : k \in m + 1 .. n + 1} = {a[k] : k \in m + 1 .. n} \cup {w}
  BY <1>3, <1>6, <1>7
<1>9. Extends(s.ways, v)
  BY <1>1, <1>3, ExtendsTwice
<1>10. NewWays(s, u) = {v[k] : k \in m + 1 .. n + 1} /\ NewWays(s, t) = {a[k] : k \in m + 1 .. n}
  BY <1>1, <1>3, Zenon DEF NewWays
<1> QED BY <1>1, <1>3, <1>8, <1>9, <1>10 DEF WayAdded

\* The points since the last way, the last of which is that of a part.
Rest(t, part, i) ==
  LET n == Len(t.points) IN
  /\ t.isFirstNd <=> i = 0
  /\ i = 0 => n = t.start
  /\ i > 0 => /\ n > t.start /\ t.points[n] = part[i]
              /\ Covers(t.rect, t.points, t.start + 1, n)

\* What is known after some points of a part: the ways that have been ended and the
\* points since the last of them have the segments of the part so far.
PartInv(s, part, i, t) ==
  LET m == Len(s.points)  n == Len(t.points) IN
  /\ Extends(s.points, t.points) /\ Extends(s.ways, t.ways)
  /\ t.start \in m .. n /\ n - t.start <= CountLimit - 2
  /\ Rest(t, part, i)
  /\ \A w \in NewWays(s, t) : WayWhole(w, t.points, m, n)
  /\ NewJoins(s, t) \cup Joins(t.points, t.start + 1, n) = Joins(part, 1, i)

\* The points since the last way, with one more.
RestGrown(t, p, q, part, i) ==
  LET n == Len(t.points) IN
  /\ Covers(Grow(t, p), q, t.start + 1, n + 1)
  /\ \A old : old \cup Joins(t.points, t.start + 1, n) = Joins(part, 1, i) =>
       old \cup Joins(q, t.start + 1, n + 1) = Joins(part, 1, i + 1)

\* The rectangle grows with them, and they have a segment more.
LEMMA RestGrows ==
  ASSUME CompilerAssumption, NEW t, NEW p \in Points,
         Len(t.points) \in Nat, t.start \in 0 .. Len(t.points), NEW i \in Nat, NEW part,
         Rest(t, part, i), part[i + 1] = p,
         NEW q, \A j \in 1 .. Len(t.points) : q[j] = t.points[j],
         q[Len(t.points) + 1] = p
  PROVE  RestGrown(t, p, q, part, i)
<1>1. PICK a, n, r, o : a = t.start + 1 /\ n = Len(t.points) /\ r = t.rect /\ o = t.points
  OBVIOUS
<1>2. /\ n \in Nat /\ a \in 1 .. n + 1
      /\ \A j \in 1 .. n : q[j] = o[j]
      /\ q[n + 1] = p
  BY <1>1
<1>5. /\ t.isFirstNd <=> i = 0
      /\ i = 0 => n = t.start
      /\ i > 0 => /\ n > t.start /\ o[n] = part[i]
                  /\ Covers(r, o, a, n)
  BY <1>1 DEF Rest
<1>3. CASE i = 0
  <2>1. a = n + 1 /\ Grow(t, p) = Box(p)
    BY <1>1, <1>3, <1>5 DEF Grow
  <2>2. Covers(Box(p), q, a, n + 1)
    <3>1. q[n + 1] \in Points /\ a \in Int /\ n \in Int /\ a <= n + 1
      BY <1>2, <2>1
    <3>2. Covers(Box(q[n + 1]), q, a, n + 1)
      BY <2>1, <3>1, CoversMore, Zenon
    <3> QED BY <1>2, <3>2
  <2>3. Joins(o, a, n) = {} /\ Joins(q, a, n + 1) = {}
    <3>1. a \in Int /\ n \in Int /\ n + 1 \in Int /\ n <= a /\ n + 1 <= a
      BY <1>2, <2>1
    <3> QED BY <3>1, JoinsMore
  <2>4. Joins(part, 1, i) = {} /\ Joins(part, 1, i + 1) = {}
    <3>1. 1 \in Int /\ i \in Int /\ i + 1 \in Int /\ i <= 1 /\ i + 1 <= 1
      BY <1>3
    <3> QED BY <3>1, JoinsMore
  <2> QED BY <1>1, <2>1, <2>2, <2>3, <2>4 DEF RestGrown
<1>4. CASE i # 0
  <2>1. a <= n /\ o[n] = part[i] /\ Covers(r, o, a, n) /\ Grow(t, p) = AddPoint(r, p)
    BY <1>1, <1>2, <1>4, <1>5 DEF Grow
  <2>2. \A j \in a .. n : o[j] = q[j]
    BY <1>2
  <2>3. Covers(r, q, a, n) /\ Joins(o, a, n) = Joins(q, a, n)
    BY <1>2, <2>1, <2>2, CoversAgree, JoinsAgree
  <2>4. Covers(AddPoint(r, p), q, a, n + 1)
    BY <1>2, <2>1, <2>3, CoversMore
  <2>5. Joins(q, a, n + 1) = Joins(o, a, n) \cup {<<part[i], p>>}
    <3>1. Joins(q, a, n + 1) = Joins(q, a, n) \cup {<<q[n], q[n + 1]>>}
      <4>1. a \in Int /\ n \in Int /\ a <= n
        BY <1>2, <2>1
      <4> QED BY <4>1, JoinsMore, Zenon
    <3>2. q[n] = part[i] /\ q[n + 1] = p
      BY <1>2, <2>1
    <3> QED BY <2>3, <3>1, <3>2
  <2>6. Joins(part, 1, i + 1) = Joins(part, 1, i) \cup {<<part[i], p>>}
    <3>1. 1 <= i /\ 1 \in Int /\ i \in Int
      BY <1>4
    <3>2. Joins(part, 1, i + 1) = Joins(part, 1, i) \cup {<<part[i], part[i + 1]>>}
      BY <3>1, JoinsMore, Zenon
    <3> QED BY <3>2
  <2> QED BY <1>1, <2>1, <2>4, <2>5, <2>6 DEF RestGrown
<1> QED BY <1>3, <1>4

\* The segments of the ways that have been ended stay when points follow.
LEMMA NewJoinsStay ==
  ASSUME CompilerAssumption, NEW s, NEW t, NEW u, Extends(t.points, u.points),
         DOMAIN t.points = 1 .. Len(t.points), Len(t.points) \in Nat,
         NEW m \in Nat, NEW b \in Nat, Len(t.points) <= b,
         \A w \in NewWays(s, t) : WayWhole(w, t.points, m, Len(t.points))
  PROVE  /\ \A w \in NewWays(s, t) : WayWhole(w, u.points, m, b)
         /\ UNION {JoinsOf(w, u.points) : w \in NewWays(s, t)} = NewJoins(s, t)
<1>1. PICK p, q : p = t.points /\ q = u.points
  OBVIOUS
<1>2. ASSUME NEW w \in NewWays(s, t)
      PROVE  WayWhole(w, q, m, b) /\ JoinsOf(w, q) = JoinsOf(w, p)
  BY <1>1, WholeStays
<1>3. {JoinsOf(w, q) : w \in NewWays(s, t)} = {JoinsOf(w, p) : w \in NewWays(s, t)}
  BY <1>2
<1> QED BY <1>1, <1>2, <1>3 DEF NewJoins

\* What is known after one point more.
LEMMA PartStep ==
  ASSUME CompilerAssumption, NEW R, NEW W, Points \subseteq R, ShapeWays \subseteq W,
         NEW s \in Walks(R, W), NEW part \in Seq(Points), NEW i \in 1 .. Len(part),
         NEW t \in Walks(R, W), PartInv(s, part, i - 1, t)
  PROVE  /\ AddShapePoint(t, part[i]) \in Walks(R, W)
         /\ PartInv(s, part, i, AddShapePoint(t, part[i]))
<1>0. CountLimit \in Nat \ {0, 1, 2}
  BY DEF CompilerAssumption
<1>1. PICK p : p = part[i] /\ p \in Points
  BY ElementOfSeq
<1>2. PICK k, m, n : k = i - 1 /\ m = Len(s.points) /\ n = Len(t.points)
  OBVIOUS
<1>3. /\ s.points \in Seq(R) /\ t.points \in Seq(R) /\ s.ways \in Seq(W) /\ t.ways \in Seq(W)
      /\ t.start \in Nat
  BY DEF Walks
<1>4. /\ IsList(t.points) /\ IsList(s.ways) /\ IsList(t.ways)
      /\ m \in Nat /\ n \in Nat /\ DOMAIN t.points = 1 .. n
      /\ k \in Nat /\ k + 1 = i
  <2>1. Len(part) \in Nat
    BY LenProperties
  <2> QED BY <1>2, <1>3, <2>1, LenProperties DEF IsList
<1>5. /\ Extends(s.points, t.points) /\ Extends(s.ways, t.ways)
      /\ t.start \in m .. n /\ n - t.start <= CountLimit - 2
      /\ Rest(t, part, k)
      /\ \A w \in NewWays(s, t) : WayWhole(w, t.points, m, n)
      /\ NewJoins(s, t) \cup Joins(t.points, t.start + 1, n) = Joins(part, 1, k)
  BY <1>2 DEF PartInv
<1>6. PICK u : u = AddShapePoint(t, p)
  OBVIOUS
<1>7. PICK q : q = Append(t.points, p)
  OBVIOUS
<1>8. /\ IsList(q) /\ Extends(t.points, q) /\ Len(q) = n + 1
      /\ DOMAIN q = 1 .. n + 1
      /\ \A j \in 1 .. n : q[j] = t.points[j]
      /\ q[n + 1] = p
  BY <1>2, <1>4, <1>7, ListAppend
<1>9. PICK size : size = Len(t.points) + 1 - t.start
  OBVIOUS
<1>10. size = (n + 1) - t.start /\ size \in 1 .. CountLimit
  <2>1. PICK a, c : a = t.start /\ c = CountLimit
    OBVIOUS
  <2>2. a \in m .. n /\ n - a <= c - 2 /\ c \in Nat
    BY <1>0, <1>5, <2>1
  <2>3. size = n + 1 - a
    BY <1>2, <1>9, <2>1
  <2> QED BY <1>4, <2>1, <2>2, <2>3
<1>15. PointAdded(R, W, t, p, u)
  BY <1>1, <1>6, PointStep
<1>11. /\ u \in Walks(R, W) /\ u.isFirstNd = FALSE
       /\ size <= CountLimit - 2 =>
            u.points = q /\ u.start = t.start /\ u.ways = t.ways /\ u.rect = Grow(t, p)
       /\ ~(size <= CountLimit - 2) =>
            /\ u.points = Append(q, p) /\ u.start = n + 1 /\ u.rect = Box(p)
            /\ \E w : /\ u.ways = Append(t.ways, w)
                      /\ w = [rect |-> Grow(t, p), pstart |-> t.start, psize |-> size,
                              tstart |-> 0, tsize |-> 0]
  BY <1>2, <1>7, <1>9, <1>15 DEF PointAdded
<1>12. ASSUME NEW o, \A j \in 1 .. n : o[j] = t.points[j], o[n + 1] = p
       PROVE  /\ Covers(Grow(t, p), o, t.start + 1, n + 1)
              /\ NewJoins(s, t) \cup Joins(o, t.start + 1, n + 1) = Joins(part, 1, i)
  <2>1. /\ Len(t.points) \in Nat /\ t.start \in 0 .. Len(t.points)
        /\ part[k + 1] = p
        /\ \A j \in 1 .. Len(t.points) : o[j] = t.points[j]
        /\ o[Len(t.points) + 1] = p
    BY <1>1, <1>2, <1>4, <1>5, <1>12
  <2>2. RestGrown(t, p, o, part, k)
    BY <1>1, <1>4, <1>5, <2>1, RestGrows
  <2> QED BY <1>2, <1>4, <1>5, <2>2 DEF RestGrown
<1>13. CASE size <= CountLimit - 2
  <2>1. /\ u.points = q /\ u.start = t.start /\ u.ways = t.ways /\ u.rect = Grow(t, p)
    BY <1>11, <1>13
  <2>2. /\ Covers(u.rect, u.points, u.start + 1, n + 1)
        /\ NewJoins(s, t) \cup Joins(u.points, u.start + 1, n + 1) = Joins(part, 1, i)
    BY <1>8, <1>12, <2>1
  <2>3. NewWays(s, u) = NewWays(s, t)
    BY <2>1, NoNewWays
  <2>4. /\ \A w \in NewWays(s, t) : WayWhole(w, u.points, m, n + 1)
        /\ UNION {JoinsOf(w, u.points) : w \in NewWays(s, t)} = NewJoins(s, t)
    <3>1. n + 1 \in Nat /\ n <= n + 1 /\ Extends(t.points, u.points)
      BY <1>4, <1>8, <2>1
    <3> QED BY <1>2, <1>4, <1>5, <3>1, NewJoinsStay
  <2>5. NewJoins(s, u) = NewJoins(s, t)
    BY <2>3, <2>4, Zenon DEF NewJoins
  <2>6. Extends(s.points, u.points) /\ Extends(s.ways, u.ways)
    <3>1. Extends(s.points, q)
      BY <1>5, <1>8, ExtendsTwice
    <3> QED BY <1>5, <2>1, <3>1
  <2>7. /\ Len(u.points) = n + 1 /\ u.start \in m .. n + 1 /\ (n + 1) - u.start <= CountLimit - 2
        /\ i # 0 /\ n + 1 > u.start /\ u.points[n + 1] = part[i]
    BY <1>1, <1>4, <1>5, <1>8, <1>10, <1>13, <2>1
  <2>8. PartInv(s, part, i, u)
    <3>1. Rest(u, part, i)
      BY <1>11, <2>2, <2>7 DEF Rest
    <3>2. \A w \in NewWays(s, u) : WayWhole(w, u.points, m, n + 1)
      BY <2>3, <2>4
    <3> QED BY <1>2, <2>2, <2>5, <2>6, <2>7, <3>1, <3>2 DEF PartInv
  <2> QED BY <1>1, <1>6, <1>11, <2>8
<1>14. CASE ~(size <= CountLimit - 2)
  <2>1. PICK w : /\ u.points = Append(q, p) /\ u.start = n + 1 /\ u.rect = Box(p)
                 /\ u.ways = Append(t.ways, w)
                 /\ w = [rect |-> Grow(t, p), pstart |-> t.start, psize |-> size,
                         tstart |-> 0, tsize |-> 0]
    BY <1>11, <1>14
  <2>2. PICK o : o = u.points
    OBVIOUS
  <2>3. /\ Extends(q, o) /\ Len(o) = n + 2
        /\ \A j \in 1 .. n + 1 : o[j] = q[j]
        /\ o[n + 2] = p
    <3>1. /\ Extends(q, o) /\ Len(o) = Len(q) + 1
          /\ \A j \in 1 .. Len(q) : o[j] = q[j]
          /\ o[Len(q) + 1] = p
      BY <1>8, <2>1, <2>2, ListAppend
    <3>2. (n + 1) + 1 = n + 2
      BY <1>4
    <3> QED BY <1>8, <3>1, <3>2
  <2>4. /\ Covers(Grow(t, p), o, t.start + 1, n + 1)
        /\ NewJoins(s, t) \cup Joins(o, t.start + 1, n + 1) = Joins(part, 1, i)
    <3>1. (\A j \in 1 .. n : o[j] = t.points[j]) /\ o[n + 1] = p
      BY <1>4, <1>8, <2>3
    <3> QED BY <1>12, <3>1
  <2>5. /\ w.rect = Grow(t, p) /\ w.pstart = t.start /\ w.psize = size /\ w.tstart = 0 /\ w.tsize = 0
        /\ w.pstart + w.psize = n + 1
    BY <1>4, <1>5, <1>10, <2>1
  <2>6. WayWhole(w, o, m, n + 2) /\ JoinsOf(w, o) = Joins(o, t.start + 1, n + 1)
    <3>1. t.start \in m .. n + 2 /\ n + 1 <= n + 2
      BY <1>4, <1>5
    <3> QED BY <1>10, <2>4, <2>5, <3>1 DEF WayWhole, JoinsOf
  <2>7. NewWays(s, u) = NewWays(s, t) \cup {w} /\ Extends(s.ways, u.ways)
    <3>1. IsList(s.ways) /\ IsList(t.ways) /\ u.ways = Append(t.ways, w) /\ Extends(s.ways, t.ways)
      BY <1>4, <1>5, <2>1
    <3>2. WayAdded(s, t, u, w)
      BY <3>1, OneNewWay
    <3> QED BY <3>2 DEF WayAdded
  <2>8. Extends(t.points, o) /\ Extends(s.points, o)
    <3>1. Extends(t.points, o)
      BY <1>8, <2>3, ExtendsTwice
    <3> QED BY <1>5, <3>1, ExtendsTwice
  <2>9. /\ \A x \in NewWays(s, t) : WayWhole(x, o, m, n + 2)
        /\ UNION {JoinsOf(x, o) : x \in NewWays(s, t)} = NewJoins(s, t)
    <3>1. PICK b : b = n + 2
      OBVIOUS
    <3>2. b \in Nat /\ Len(t.points) <= b /\ Len(t.points) \in Nat /\ DOMAIN t.points = 1 .. Len(t.points)
      BY <1>2, <1>4, <3>1
    <3>3. /\ Extends(t.points, u.points)
          /\ \A x \in NewWays(s, t) : WayWhole(x, t.points, m, Len(t.points))
      BY <1>2, <1>5, <2>2, <2>8
    <3>4. /\ \A x \in NewWays(s, t) : WayWhole(x, u.points, m, b)
          /\ UNION {JoinsOf(x, u.points) : x \in NewWays(s, t)} = NewJoins(s, t)
      BY <1>4, <3>2, <3>3, NewJoinsStay
    <3> QED BY <2>2, <3>1, <3>4
  <2>10. NewJoins(s, u) = Joins(part, 1, i)
    <3>1. NewJoins(s, u) = NewJoins(s, t) \cup JoinsOf(w, o)
      <4>1. UNION {JoinsOf(x, o) : x \in NewWays(s, t) \cup {w}}
              = (UNION {JoinsOf(x, o) : x \in NewWays(s, t)}) \cup JoinsOf(w, o)
        OBVIOUS
      <4> QED BY <2>2, <2>7, <2>9, <4>1 DEF NewJoins
    <3> QED BY <2>4, <2>6, <3>1
  <2>11. Joins(o, u.start + 1, n + 2) = {}
    <3>1. u.start + 1 \in Int /\ n + 2 \in Int /\ n + 2 <= u.start + 1
      BY <1>4, <2>1
    <3> QED BY <3>1, JoinsMore
  <2>12. Covers(u.rect, o, u.start + 1, n + 2)
    <3>1. PICK b : b = n + 1
      OBVIOUS
    <3>2. b \in Int /\ b + 1 \in Int /\ b + 1 <= b + 1 /\ b + 1 = n + 2 /\ o[b + 1] \in Points
      BY <1>1, <1>4, <2>3, <3>1
    <3>3. Covers(Box(o[b + 1]), o, b + 1, b + 1)
      BY <3>2, CoversMore, Zenon
    <3> QED BY <2>1, <2>3, <3>1, <3>2, <3>3
  <2>13. /\ u.start \in m .. n + 2 /\ (n + 2) - u.start <= CountLimit - 2
         /\ i # 0 /\ n + 2 > u.start /\ o[n + 2] = part[i]
    BY <1>0, <1>1, <1>4, <1>5, <2>1, <2>3
  <2>14. \A x \in NewWays(s, u) : WayWhole(x, o, m, n + 2)
    BY <2>6, <2>7, <2>9
  <2>15. PartInv(s, part, i, u)
    <3>1. Rest(u, part, i)
      BY <1>11, <2>2, <2>3, <2>12, <2>13 DEF Rest
    <3> QED BY <1>2, <2>2, <2>3, <2>7, <2>8, <2>10, <2>11, <2>13, <2>14, <3>1 DEF PartInv
  <2> QED BY <1>1, <1>6, <1>11, <2>15
<1> QED BY <1>13, <1>14

\* What is known after a part.
LEMMA PartWalk ==
  ASSUME CompilerAssumption, NEW R, NEW W, Points \subseteq R, ShapeWays \subseteq W,
         NEW s \in Walks(R, W), NEW part \in Seq(Points),
         s.start = Len(s.points), s.isFirstNd = TRUE
  PROVE  /\ FoldLeft(AddShapePoint, s, part) \in Walks(R, W)
         /\ PartInv(s, part, Len(part), FoldLeft(AddShapePoint, s, part))
<1>1. PICK N, V : N = Len(part) /\ V = Walks(R, W)
  OBVIOUS
<1>2. N \in Nat /\ DOMAIN part = 1 .. N /\ \A i \in 1 .. N : part[i] \in Points
  BY <1>1, LenProperties, ElementOfSeq
<1>3. PICK H : H = [z \in (1 .. N) \X V |-> AddShapePoint(z[2], part[z[1]])]
  OBVIOUS
<1>4. ASSUME NEW n \in 1 .. N, NEW t \in V PROVE AddShapePoint(t, part[n]) \in V
  <2>1. PointAdded(R, W, t, part[n], AddShapePoint(t, part[n]))
    BY <1>1, <1>2, PointStep
  <2> QED BY <1>1, <2>1 DEF PointAdded
<1>5. H \in [(1 .. N) \X V -> V]
  BY <1>3, <1>4
<1>6. s \in V
  BY <1>1
<1>7. PICK g \in [SUBSET (1 .. N) -> V] : Folds(g, N, s, H)
  BY <1>2, <1>5, <1>6, FoldExists
<1>8. ASSUME NEW t \in SUBSET (1 .. N), t # {}
      PROVE  H[<<Greatest(t), g[t \ {Greatest(t)}]>>]
               = AddShapePoint(g[t \ {Greatest(t)}], part[Greatest(t)])
  <2>1. Greatest(t) \in 1 .. N /\ t \ {Greatest(t)} \in SUBSET (1 .. N)
    BY <1>2, <1>8, GreatestIs
  <2>2. g[t \ {Greatest(t)}] \in V
    BY <2>1
  <2> QED BY <1>3, <2>1, <2>2
<1>9. g = [t \in SUBSET (1 .. N) |->
             IF t = {} THEN s ELSE AddShapePoint(g[t \ {Greatest(t)}], part[Greatest(t)])]
  BY <1>7, <1>8, Zenon DEF Folds
<1>10. PICK h : h = CHOOSE iter : iter =
                      [t \in SUBSET (1 .. N) |->
                        IF t = {} THEN s
                        ELSE AddShapePoint(iter[t \ {Greatest(t)}], part[Greatest(t)])]
  OBVIOUS
<1>11. h = [t \in SUBSET (1 .. N) |->
              IF t = {} THEN s ELSE AddShapePoint(h[t \ {Greatest(t)}], part[Greatest(t)])]
  BY <1>9, <1>10
<1>12. FoldLeft(AddShapePoint, s, part) = h[1 .. N]
  BY <1>2, <1>10, Zenon DEF FoldLeft, MapThenFoldSet, Max, Greatest
<1>13. h[1 .. 0] = s
  <2>1. 1 .. 0 = {} /\ {} \in SUBSET (1 .. N)
    BY <1>2
  <2> QED BY <1>11, <2>1
<1>14. ASSUME NEW n \in 1 .. N PROVE h[1 .. n] = AddShapePoint(h[1 .. n - 1], part[n])
  <2>1. /\ 1 .. n \in SUBSET (1 .. N) /\ 1 .. n # {}
        /\ Greatest(1 .. n) = n /\ (1 .. n) \ {n} = 1 .. n - 1
    BY <1>2, GreatestOfFirst
  <2> QED BY <1>11, <2>1
<1>15. PICK T : T = {n \in 0 .. N : h[1 .. n] \in V /\ PartInv(s, part, n, h[1 .. n])}
  OBVIOUS
<1>16. 0 \in T
  <2>1. /\ s.points \in Seq(R) /\ s.ways \in Seq(W) /\ Len(s.points) \in Nat /\ Len(s.ways) \in Nat
    <3>1. s.points \in Seq(R) /\ s.ways \in Seq(W)
      BY DEF Walks
    <3> QED BY <3>1, LenProperties
  <2>2. NewWays(s, s) = {}
    BY <2>1 DEF NewWays
  <2>3. NewJoins(s, s) = {}
    BY <2>2 DEF NewJoins
  <2>4. Joins(s.points, s.start + 1, Len(s.points)) = {} /\ Joins(part, 1, 0) = {}
    <3>1. /\ s.start + 1 \in Int /\ Len(s.points) \in Int /\ Len(s.points) <= s.start + 1
          /\ 1 \in Int /\ 0 \in Int /\ 0 <= 1
      BY <2>1
    <3> QED BY <3>1, JoinsMore
  <2>5. Rest(s, part, 0) /\ Extends(s.points, s.points) /\ Extends(s.ways, s.ways)
    BY DEF Rest, Extends
  <2>6. s.start \in Len(s.points) .. Len(s.points) /\ Len(s.points) - s.start <= CountLimit - 2
    BY <2>1 DEF CompilerAssumption
  <2>7. PartInv(s, part, 0, s)
    BY <2>2, <2>3, <2>4, <2>5, <2>6 DEF PartInv
  <2> QED BY <1>2, <1>6, <1>13, <1>15, <2>7
<1>17. ASSUME NEW n \in 1 .. N, n - 1 \in T PROVE n \in T
  <2>1. PICK t : t = h[1 .. n - 1] /\ t \in V /\ PartInv(s, part, n - 1, t)
    BY <1>15, <1>17
  <2>2. n \in 1 .. Len(part) /\ t \in Walks(R, W)
    BY <1>1, <2>1
  <2>3. /\ AddShapePoint(t, part[n]) \in Walks(R, W)
        /\ PartInv(s, part, n, AddShapePoint(t, part[n]))
    BY <2>1, <2>2, PartStep
  <2>4. n \in 0 .. N
    BY <1>2
  <2> QED BY <1>1, <1>14, <1>15, <2>1, <2>3, <2>4
<1>18. N \in T
  <2>1. \A n \in 0 .. N : n \in T
    BY <1>2, <1>16, <1>17, StepInduction
  <2>2. N \in 0 .. N
    BY <1>2
  <2> QED BY <2>1, <2>2
<1> QED BY <1>1, <1>12, <1>15, <1>18

\* What a part has added to a walk.
PartDone(R, W, s, part, u) ==
  /\ u \in Walks(R, W) /\ u.start \in 0 .. Len(u.points)
  /\ Extends(s.points, u.points) /\ Extends(s.ways, u.ways)
  /\ \A w \in NewWays(s, u) : WayWhole(w, u.points, Len(s.points), Len(u.points))
  /\ NewJoins(s, u) = Joins(part, 1, Len(part))

\* That is what AddPart does.
LEMMA PartAdds ==
  ASSUME CompilerAssumption, NEW R, NEW W, Points \subseteq R, ShapeWays \subseteq W,
         NEW s \in Walks(R, W), NEW part \in Seq(Points), part # << >>
  PROVE  PartDone(R, W, s, part, AddPart(s, part))
<1>1. PICK S : S = [points : Seq(R), start : Nat, rect : Boxes \cup {NoRect}, isFirstNd : BOOLEAN,
                    ways : Seq(W)]
  OBVIOUS
<1>2. s \in S /\ s.points \in Seq(R) /\ s.ways \in Seq(W)
  <2>1. s \in S
    BY <1>1 DEF Walks
  <2> QED BY <1>1, <2>1
<1>3. PICK m : m = Len(s.points)
  OBVIOUS
<1>4. m \in Nat
  BY <1>2, <1>3, LenProperties
<1>5. PICK b : b = [s EXCEPT !.start = m, !.isFirstNd = TRUE]
  OBVIOUS
<1>6. /\ b \in S /\ b.points = s.points /\ b.ways = s.ways /\ b.start = m /\ b.isFirstNd = TRUE
  BY <1>1, <1>2, <1>4, <1>5
<1>7. b \in Walks(R, W)
  BY <1>1, <1>6 DEF Walks
<1>8. PICK t : t = FoldLeft(AddShapePoint, b, part)
  OBVIOUS
<1>9. t \in Walks(R, W) /\ PartInv(b, part, Len(part), t)
  BY <1>3, <1>6, <1>7, <1>8, PartWalk
<1>10. PICK i, n : i = Len(part) /\ n = Len(t.points)
  OBVIOUS
<1>11. i \in Nat /\ i > 0
  <2>1. Len(part) \in Nat /\ Len(part) # 0
    BY LenProperties, EmptySeq
  <2> QED BY <1>10, <2>1
<1>12. t \in S /\ t.points \in Seq(R) /\ t.ways \in Seq(W) /\ n \in Nat /\ DOMAIN t.points = 1 .. n
  <2>1. t \in S
    BY <1>1, <1>9 DEF Walks
  <2>2. t.points \in Seq(R) /\ t.ways \in Seq(W)
    BY <1>1, <2>1
  <2> QED BY <1>10, <2>1, <2>2, LenProperties
<1>13. /\ Extends(s.points, t.points) /\ Extends(b.ways, t.ways)
       /\ t.start \in m .. n /\ n - t.start <= CountLimit - 2 /\ n > t.start
       /\ Covers(t.rect, t.points, t.start + 1, n)
       /\ \A w \in NewWays(b, t) : WayWhole(w, t.points, m, n)
       /\ NewJoins(b, t) \cup Joins(t.points, t.start + 1, n) = Joins(part, 1, i)
  BY <1>3, <1>6, <1>9, <1>10, <1>11 DEF PartInv, Rest
<1>14. PICK w : w = [rect |-> t.rect, pstart |-> t.start, psize |-> n - t.start,
                     tstart |-> 0, tsize |-> 0]
  OBVIOUS
<1>15. /\ w.rect = t.rect /\ w.pstart = t.start /\ w.psize = n - t.start
       /\ w.tstart = 0 /\ w.tsize = 0
  BY <1>14
<1>16. /\ w.psize \in 1 .. CountLimit /\ w.pstart + w.psize = n
  <2>1. PICK a, c : a = t.start /\ c = CountLimit /\ c \in Nat
    BY DEF CompilerAssumption
  <2>2. a \in m .. n /\ n - a <= c - 2 /\ n > a
    BY <1>13, <2>1
  <2> QED BY <1>4, <1>12, <1>15, <2>1, <2>2
<1>17. w \in W
  <2>1. t.rect \in Boxes /\ t.start \in Nat /\ n - t.start \in Int
    BY <1>4, <1>12, <1>13 DEF Covers
  <2>2. w \in ShapeWays
    BY <1>14, <2>1 DEF ShapeWays
  <2> QED BY <2>2
<1>18. WayWhole(w, t.points, m, n) /\ JoinsOf(w, t.points) = Joins(t.points, t.start + 1, n)
  BY <1>4, <1>12, <1>13, <1>15, <1>16 DEF WayWhole, JoinsOf
<1>19. PICK u : u = AddPart(s, part)
  OBVIOUS
<1>20. PICK v : v = Append(t.ways, w)
  OBVIOUS
<1>21. v \in Seq(W)
  BY <1>12, <1>17, <1>20, AppendProperties
<1>22. u = [t EXCEPT !.ways = v]
  BY <1>3, <1>5, <1>8, <1>10, <1>14, <1>19, <1>20, Zenon DEF AddPart
<1>23. /\ u \in S /\ u.points = t.points /\ u.ways = v /\ u.start = t.start
       /\ u.isFirstNd = t.isFirstNd /\ u.rect = t.rect
  BY <1>1, <1>12, <1>21, <1>22
<1>24. u \in Walks(R, W)
  BY <1>1, <1>9, <1>23 DEF Walks
<1>25. WayAdded(b, t, u, w)
  <2>1. IsList(b.ways) /\ IsList(t.ways) /\ u.ways = Append(t.ways, w) /\ Extends(b.ways, t.ways)
    BY <1>2, <1>6, <1>12, <1>13, <1>20, <1>23 DEF IsList
  <2> QED BY <2>1, OneNewWay
<1>26. NewWays(s, u) = NewWays(b, t) \cup {w} /\ Extends(s.ways, u.ways)
  <2>1. NewWays(b, u) = NewWays(b, t) \cup {w} /\ Extends(b.ways, u.ways)
    BY <1>25 DEF WayAdded
  <2>2. NewWays(s, u) = NewWays(b, u)
    BY <1>6 DEF NewWays
  <2> QED BY <1>6, <2>1, <2>2
<1>27. NewJoins(s, u) = Joins(part, 1, i)
  <2>1. NewJoins(s, u) = UNION {JoinsOf(x, t.points) : x \in NewWays(b, t) \cup {w}}
    BY <1>23, <1>26 DEF NewJoins
  <2>2. UNION {JoinsOf(x, t.points) : x \in NewWays(b, t) \cup {w}}
          = (UNION {JoinsOf(x, t.points) : x \in NewWays(b, t)}) \cup JoinsOf(w, t.points)
    OBVIOUS
  <2>3. UNION {JoinsOf(x, t.points) : x \in NewWays(b, t)} = NewJoins(b, t)
    BY DEF NewJoins
  <2> QED BY <1>13, <1>18, <2>1, <2>2, <2>3
<1>28. \A x \in NewWays(s, u) : WayWhole(x, u.points, m, n)
  BY <1>13, <1>18, <1>23, <1>26
<1>29. u.start \in 0 .. n
  BY <1>4, <1>12, <1>13, <1>23
<1> QED BY <1>3, <1>10, <1>13, <1>19, <1>23, <1>24, <1>26, <1>27, <1>28, <1>29 DEF PartDone

\* What is known after some parts of a shape: the ways that have been written for it
\* have the segments of the parts so far.
ShapeInv(s, parts, i, u) ==
  /\ u.start \in 0 .. Len(u.points)
  /\ Extends(s.points, u.points) /\ Extends(s.ways, u.ways)
  /\ \A w \in NewWays(s, u) : WayWhole(w, u.points, Len(s.points), Len(u.points))
  /\ NewJoins(s, u) = UNION {Joins(parts[k], 1, Len(parts[k])) : k \in 1 .. i}

\* The ways that are new from one state to a third.
LEMMA NewWaysTwice ==
  ASSUME NEW s, NEW t, NEW u, IsList(s.ways), IsList(t.ways), IsList(u.ways),
         Extends(s.ways, t.ways), Extends(t.ways, u.ways)
  PROVE  NewWays(s, u) = NewWays(s, t) \cup NewWays(t, u)
<1>1. PICK p, q, r, a, b, c : /\ p = s.ways /\ q = t.ways /\ r = u.ways
                              /\ a = Len(p) /\ b = Len(q) /\ c = Len(r)
  OBVIOUS
<1>2. /\ a \in Nat /\ b \in Nat /\ c \in Nat
      /\ DOMAIN p = 1 .. a /\ DOMAIN q = 1 .. b /\ DOMAIN r = 1 .. c
  BY <1>1, ListIs
<1>3. /\ \A i \in 1 .. a : i \in 1 .. b
      /\ \A i \in 1 .. b : i \in 1 .. c /\ r[i] = q[i]
  BY <1>1, <1>2 DEF Extends
<1>4. a <= b /\ b <= c
  BY <1>2, <1>3
<1>5. \A k : k \in a + 1 .. c <=> k \in a + 1 .. b \/ k \in b + 1 .. c
  BY <1>2, <1>4
<1>6. \A k \in a + 1 .. b : r[k] = q[k]
  BY <1>2, <1>3
<1>7. {r[k] : k \in a + 1 .. c} = {q[k] : k \in a + 1 .. b} \cup {r[k] : k \in b + 1 .. c}
  BY <1>5, <1>6
<1>8. NewWays(s, u) = {r[k] : k \in a + 1 .. c}
  BY <1>1, Zenon DEF NewWays
<1>9. NewWays(s, t) = {q[k] : k \in a + 1 .. b}
  BY <1>1, Zenon DEF NewWays
<1>10. NewWays(t, u) = {r[k] : k \in b + 1 .. c}
  BY <1>1, Zenon DEF NewWays
<1> QED BY <1>7, <1>8, <1>9, <1>10

\* What is known after one part more.
LEMMA ShapeStep ==
  ASSUME CompilerAssumption, NEW R, NEW W, NEW s \in Walks(R, W), NEW t \in Walks(R, W),
         NEW parts, NEW i \in Nat \ {0}, ShapeInv(s, parts, i - 1, t),
         NEW u, PartDone(R, W, t, parts[i], u)
  PROVE  ShapeInv(s, parts, i, u)
<1>1. PICK l, m, n : l = Len(s.points) /\ m = Len(t.points) /\ n = Len(u.points)
  OBVIOUS
<1>2. u \in Walks(R, W)
  BY DEF PartDone
<1>3. /\ IsList(s.ways) /\ IsList(t.ways) /\ IsList(u.ways)
      /\ l \in Nat /\ m \in Nat /\ n \in Nat
      /\ DOMAIN s.points = 1 .. l /\ DOMAIN t.points = 1 .. m /\ DOMAIN u.points = 1 .. n
  <2>1. /\ s.points \in Seq(R) /\ t.points \in Seq(R) /\ u.points \in Seq(R)
        /\ s.ways \in Seq(W) /\ t.ways \in Seq(W) /\ u.ways \in Seq(W)
    BY <1>2 DEF Walks
  <2> QED BY <1>1, <2>1, LenProperties DEF IsList
<1>4. /\ Extends(s.points, t.points) /\ Extends(s.ways, t.ways)
      /\ \A w \in NewWays(s, t) : WayWhole(w, t.points, l, m)
      /\ NewJoins(s, t) = UNION {Joins(parts[k], 1, Len(parts[k])) : k \in 1 .. i - 1}
  BY <1>1 DEF ShapeInv
<1>5. /\ u.start \in 0 .. n
      /\ Extends(t.points, u.points) /\ Extends(t.ways, u.ways)
      /\ \A w \in NewWays(t, u) : WayWhole(w, u.points, m, n)
      /\ NewJoins(t, u) = Joins(parts[i], 1, Len(parts[i]))
  BY <1>1 DEF PartDone
<1>6. l <= m /\ m <= n
  <2>1. /\ \A j \in 1 .. l : j \in 1 .. m
        /\ \A j \in 1 .. m : j \in 1 .. n
    BY <1>3, <1>4, <1>5 DEF Extends
  <2> QED BY <1>3, <2>1
<1>7. NewWays(s, u) = NewWays(s, t) \cup NewWays(t, u)
  BY <1>3, <1>4, <1>5, NewWaysTwice
<1>8. /\ \A w \in NewWays(s, t) : WayWhole(w, u.points, l, n)
      /\ UNION {JoinsOf(w, u.points) : w \in NewWays(s, t)} = NewJoins(s, t)
  <2>1. /\ Extends(t.points, u.points) /\ DOMAIN t.points = 1 .. Len(t.points)
        /\ Len(t.points) \in Nat /\ Len(t.points) <= n
        /\ \A w \in NewWays(s, t) : WayWhole(w, t.points, l, Len(t.points))
    BY <1>1, <1>3, <1>4, <1>5, <1>6
  <2> QED BY <1>3, <2>1, NewJoinsStay
<1>9. \A w \in NewWays(t, u) : WayWhole(w, u.points, l, n)
  <2> TAKE w \in NewWays(t, u)
  <2>1. WayWhole(w, u.points, m, n)
    BY <1>5
  <2>2. w.pstart \in m .. n => w.pstart \in l .. n
    BY <1>3, <1>6
  <2> QED BY <2>1, <2>2 DEF WayWhole
<1>10. NewJoins(s, u) = NewJoins(s, t) \cup NewJoins(t, u)
  <2>1. NewJoins(s, u) = UNION {JoinsOf(w, u.points) : w \in NewWays(s, t) \cup NewWays(t, u)}
    BY <1>7 DEF NewJoins
  <2>2. UNION {JoinsOf(w, u.points) : w \in NewWays(s, t) \cup NewWays(t, u)}
          = (UNION {JoinsOf(w, u.points) : w \in NewWays(s, t)})
              \cup (UNION {JoinsOf(w, u.points) : w \in NewWays(t, u)})
    OBVIOUS
  <2>3. NewJoins(t, u) = UNION {JoinsOf(w, u.points) : w \in NewWays(t, u)}
    BY DEF NewJoins
  <2> QED BY <1>8, <2>1, <2>2, <2>3
<1>11. NewJoins(s, u) = UNION {Joins(parts[k], 1, Len(parts[k])) : k \in 1 .. i}
  <2>1. \A k : k \in 1 .. i <=> k \in 1 .. i - 1 \/ k = i
    OBVIOUS
  <2>2. UNION {Joins(parts[k], 1, Len(parts[k])) : k \in 1 .. i}
          = (UNION {Joins(parts[k], 1, Len(parts[k])) : k \in 1 .. i - 1})
              \cup Joins(parts[i], 1, Len(parts[i]))
    BY <2>1
  <2> QED BY <1>4, <1>5, <1>10, <2>2
<1>12. Extends(s.points, u.points) /\ Extends(s.ways, u.ways)
  BY <1>4, <1>5, ExtendsTwice
<1> QED BY <1>1, <1>5, <1>7, <1>8, <1>9, <1>11, <1>12 DEF ShapeInv

\* What is known after all the parts of a shape.
LEMMA ShapeWalk ==
  ASSUME CompilerAssumption, NEW R, NEW W, Points \subseteq R, ShapeWays \subseteq W,
         NEW s \in Walks(R, W), s.start \in 0 .. Len(s.points),
         NEW parts \in Seq(Seq(Points) \ {<< >>})
  PROVE  /\ FoldLeft(AddPart, s, parts) \in Walks(R, W)
         /\ ShapeInv(s, parts, Len(parts), FoldLeft(AddPart, s, parts))
<1>1. PICK N, V : N = Len(parts) /\ V = Walks(R, W)
  OBVIOUS
<1>2. N \in Nat /\ DOMAIN parts = 1 .. N /\ \A i \in 1 .. N : parts[i] \in Seq(Points) \ {<< >>}
  BY <1>1, LenProperties, ElementOfSeq
<1>3. PICK H : H = [z \in (1 .. N) \X V |-> AddPart(z[2], parts[z[1]])]
  OBVIOUS
<1>19. ASSUME NEW n \in 1 .. N, NEW t \in V PROVE PartDone(R, W, t, parts[n], AddPart(t, parts[n]))
  <2>1. parts[n] \in Seq(Points) /\ parts[n] # << >> /\ t \in Walks(R, W)
    BY <1>1, <1>2
  <2> QED BY <2>1, PartAdds
<1>4. ASSUME NEW n \in 1 .. N, NEW t \in V PROVE AddPart(t, parts[n]) \in V
  BY <1>1, <1>19 DEF PartDone
<1>5. H \in [(1 .. N) \X V -> V]
  BY <1>3, <1>4
<1>6. s \in V
  BY <1>1
<1>7. PICK g \in [SUBSET (1 .. N) -> V] : Folds(g, N, s, H)
  BY <1>2, <1>5, <1>6, FoldExists
<1>8. ASSUME NEW t \in SUBSET (1 .. N), t # {}
      PROVE  H[<<Greatest(t), g[t \ {Greatest(t)}]>>]
               = AddPart(g[t \ {Greatest(t)}], parts[Greatest(t)])
  <2>1. Greatest(t) \in 1 .. N /\ t \ {Greatest(t)} \in SUBSET (1 .. N)
    BY <1>2, <1>8, GreatestIs
  <2>2. g[t \ {Greatest(t)}] \in V
    BY <2>1
  <2> QED BY <1>3, <2>1, <2>2
<1>9. g = [t \in SUBSET (1 .. N) |->
             IF t = {} THEN s ELSE AddPart(g[t \ {Greatest(t)}], parts[Greatest(t)])]
  BY <1>7, <1>8, Zenon DEF Folds
<1>10. PICK h : h = CHOOSE iter : iter =
                      [t \in SUBSET (1 .. N) |->
                        IF t = {} THEN s ELSE AddPart(iter[t \ {Greatest(t)}], parts[Greatest(t)])]
  OBVIOUS
<1>11. h = [t \in SUBSET (1 .. N) |->
              IF t = {} THEN s ELSE AddPart(h[t \ {Greatest(t)}], parts[Greatest(t)])]
  BY <1>9, <1>10
<1>12. FoldLeft(AddPart, s, parts) = h[1 .. N]
  BY <1>2, <1>10, Zenon DEF FoldLeft, MapThenFoldSet, Max, Greatest
<1>13. h[1 .. 0] = s
  <2>1. 1 .. 0 = {} /\ {} \in SUBSET (1 .. N)
    BY <1>2
  <2> QED BY <1>11, <2>1
<1>14. ASSUME NEW n \in 1 .. N PROVE h[1 .. n] = AddPart(h[1 .. n - 1], parts[n])
  <2>1. /\ 1 .. n \in SUBSET (1 .. N) /\ 1 .. n # {}
        /\ Greatest(1 .. n) = n /\ (1 .. n) \ {n} = 1 .. n - 1
    BY <1>2, GreatestOfFirst
  <2> QED BY <1>11, <2>1
<1>15. PICK T : T = {n \in 0 .. N : h[1 .. n] \in V /\ ShapeInv(s, parts, n, h[1 .. n])}
  OBVIOUS
<1>16. 0 \in T
  <2>1. Len(s.ways) \in Nat
    <3>1. s.ways \in Seq(W)
      BY DEF Walks
    <3> QED BY <3>1, LenProperties
  <2>2. NewWays(s, s) = {}
    BY <2>1 DEF NewWays
  <2>3. NewJoins(s, s) = {} /\ UNION {Joins(parts[k], 1, Len(parts[k])) : k \in 1 .. 0} = {}
    BY <2>2 DEF NewJoins
  <2>4. ShapeInv(s, parts, 0, s)
    BY <2>2, <2>3 DEF ShapeInv, Extends
  <2> QED BY <1>2, <1>6, <1>13, <1>15, <2>4
<1>17. ASSUME NEW n \in 1 .. N, n - 1 \in T PROVE n \in T
  <2>1. PICK t : t = h[1 .. n - 1] /\ t \in V /\ ShapeInv(s, parts, n - 1, t)
    BY <1>15, <1>17
  <2>2. PICK u : u = AddPart(t, parts[n])
    OBVIOUS
  <2>3. PartDone(R, W, t, parts[n], u) /\ n \in Nat \ {0} /\ n \in 0 .. N
    BY <1>2, <1>19, <2>1, <2>2
  <2>4. ShapeInv(s, parts, n, u)
    BY <1>1, <2>1, <2>3, ShapeStep
  <2> QED BY <1>4, <1>14, <1>15, <2>1, <2>2, <2>3, <2>4
<1>18. N \in T
  <2>1. \A n \in 0 .. N : n \in T
    BY <1>2, <1>16, <1>17, StepInduction
  <2>2. N \in 0 .. N
    BY <1>2
  <2> QED BY <2>1, <2>2
<1> QED BY <1>1, <1>12, <1>15, <1>18
-----------------------------------------------------------------------------
(* What the records delimit. *)

\* The part of a raw file, of n entries, that a record delimits is in it.
TagsWithin(r, n) == r.tstart \in Nat /\ r.tsize \in 0 .. CountLimit /\ r.tstart + r.tsize <= n
PointsWithin(w, n) == w.pstart \in Nat /\ w.psize \in 0 .. CountLimit /\ w.pstart + w.psize <= n
MembersWithin(r, n) == r.mstart \in Nat /\ r.msize \in 0 .. CountLimit /\ r.mstart + r.msize <= n

\* The indexes, for b bytes of tags, p points and m members.
NodesWithin(s, b) == IsList(s) /\ \A i \in DOMAIN s : TagsWithin(s[i], b)
WaysWithin(s, b, p) ==
  IsList(s) /\ \A i \in DOMAIN s : TagsWithin(s[i], b) /\ PointsWithin(s[i], p)
RelationsWithin(s, b, m) ==
  IsList(s) /\ \A i \in DOMAIN s : TagsWithin(s[i], b) /\ MembersWithin(s[i], m)

\* The invariant of the records.
RecordsInv ==
  /\ NodesWithin(nodeIndex, Len(baliseTags))
  /\ WaysWithin(wayIndex, Len(baliseTags), Len(wayPoints))
  /\ RelationsWithin(relationIndex, Len(baliseTags), Len(relMembers))
  /\ IsList(wayPoints) /\ pointStart \in 0 .. Len(wayPoints)
  /\ IsList(relMembers) /\ memberStart \in 0 .. Len(relMembers)

\* A part of a raw file is in it when it has become longer.
LEMMA WithinMore ==
  ASSUME CompilerAssumption, NEW b \in Nat, NEW c \in Nat, b <= c
  PROVE  /\ \A r : TagsWithin(r, b) => TagsWithin(r, c)
         /\ \A r : PointsWithin(r, b) => PointsWithin(r, c)
         /\ \A r : MembersWithin(r, b) => MembersWithin(r, c)
<1>1. CountLimit \in Nat
  BY DEF CompilerAssumption
<1> QED BY <1>1 DEF TagsWithin, PointsWithin, MembersWithin

\* The indexes, when the raw files have become longer.
LEMMA IndexesWithinMore ==
  ASSUME CompilerAssumption, NEW b \in Nat, NEW c \in Nat, b <= c,
         NEW p \in Nat, NEW q \in Nat, p <= q, NEW s
  PROVE  /\ NodesWithin(s, b) => NodesWithin(s, c)
         /\ WaysWithin(s, b, p) => WaysWithin(s, c, q)
         /\ RelationsWithin(s, b, p) => RelationsWithin(s, c, q)
<1>1. /\ \A r : TagsWithin(r, b) => TagsWithin(r, c)
      /\ \A r : PointsWithin(r, p) => PointsWithin(r, q)
      /\ \A r : MembersWithin(r, p) => MembersWithin(r, q)
  BY WithinMore
<1> QED BY <1>1 DEF NodesWithin, WaysWithin, RelationsWithin

\* The indexes, with one record more.
LEMMA IndexesWithinAppend ==
  ASSUME NEW s, NEW e, NEW t, t = Append(s, e), NEW b, NEW p
  PROVE  /\ NodesWithin(s, b) /\ TagsWithin(e, b) => NodesWithin(t, b)
         /\ WaysWithin(s, b, p) /\ TagsWithin(e, b) /\ PointsWithin(e, p) => WaysWithin(t, b, p)
         /\ RelationsWithin(s, b, p) /\ TagsWithin(e, b) /\ MembersWithin(e, p) =>
              RelationsWithin(t, b, p)
<1>1. ASSUME IsList(s)
      PROVE  /\ IsList(t) /\ Len(s) \in Nat /\ DOMAIN t = 1 .. Len(s) + 1 /\ DOMAIN s = 1 .. Len(s)
             /\ \A i \in 1 .. Len(s) : t[i] = s[i]
             /\ t[Len(s) + 1] = e
  BY <1>1, ListAppend
<1>2. ASSUME IsList(s) PROVE \A i \in DOMAIN t : (i \in DOMAIN s /\ t[i] = s[i]) \/ t[i] = e
  <2> TAKE i \in DOMAIN t
  <2>1. i \in 1 .. Len(s) \/ i = Len(s) + 1
    BY <1>1, <1>2
  <2> QED BY <1>1, <1>2, <2>1
<1>3. NodesWithin(s, b) /\ TagsWithin(e, b) => NodesWithin(t, b)
  BY <1>1, <1>2, Zenon DEF NodesWithin
<1>4. WaysWithin(s, b, p) /\ TagsWithin(e, b) /\ PointsWithin(e, p) => WaysWithin(t, b, p)
  BY <1>1, <1>2, Zenon DEF WaysWithin
<1>5. RelationsWithin(s, b, p) /\ TagsWithin(e, b) /\ MembersWithin(e, p) => RelationsWithin(t, b, p)
  BY <1>1, <1>2, Zenon DEF RelationsWithin
<1> QED BY <1>3, <1>4, <1>5

\* The size of a batch fits its record.
LEMMA SizeFits ==
  ASSUME CompilerAssumption, NEW n \in Nat, NEW start \in 0 .. n, NEW size,
         size = Lesser(n - start, CountLimit)
  PROVE  start \in Nat /\ size \in 0 .. CountLimit /\ start + size <= n
<1>1. CountLimit \in Nat
  BY DEF CompilerAssumption
<1> QED BY <1>1 DEF Lesser

\* The tags never become shorter.
LEMMA BytesLonger ==
  ASSUME CompilerAssumption, DocumentInv, TagsInv, [Next]_vars
  PROVE  Len(baliseTags) \in Nat /\ Len(baliseTags') \in Nat /\ Len(baliseTags) <= Len(baliseTags')
<1>1. PICK bytes, more : bytes = baliseTags /\ more = baliseTags'
  OBVIOUS
<1>2. bytes \in Seq(Owners) /\ Len(bytes) \in Nat
  BY <1>1 DEF TagsInv
<1>3. more = bytes \/ \E n \in Nat, owner \in Owners : Grown(bytes, more, n, owner)
  BY <1>1, BytesGrow
<1>4. ASSUME NEW n \in Nat, NEW owner \in Owners, Grown(bytes, more, n, owner)
      PROVE  Len(more) \in Nat /\ Len(bytes) <= Len(more)
  BY <1>4 DEF Grown
<1> QED BY <1>1, <1>2, <1>3, <1>4

\* A function on the first numbers is a sequence.
LEMMA ListOf ==
  ASSUME NEW n \in Nat, NEW f, f = [i \in 1 .. n |-> f[i]]
  PROVE  IsList(f) /\ Len(f) = n
<1>1. PICK R : R = {f[i] : i \in 1 .. n}
  OBVIOUS
<1>2. f \in [1 .. n -> R]
  BY <1>1
<1>3. f \in Seq(R) /\ Len(f) = n
  BY <1>2
<1> QED BY <1>3 DEF IsList

\* What a way writes.
LEMMA WayWrites ==
  ASSUME CompilerAssumption, DocumentInv, NEW keys, WayRead(keys)
  PROVE  /\ \E points : IsList(points) /\ wayPoints' = wayPoints \o points
         /\ \E w : /\ wayIndex' = Append(wayIndex, w)
                   /\ w.pstart = pointStart
                   /\ w.psize = Lesser(Len(wayPoints') - pointStart, CountLimit)
                   /\ w.tstart = tagStart /\ w.tsize = SizeFrom(tagStart, baliseTags)
         /\ open.kind = "way"
         /\ UNCHANGED <<nodeIndex, relationIndex, pointStart, relMembers, memberStart, tagStart,
                        baliseTags>>
<1>1. PICK f : f = [i \in DOMAIN refs |-> nodeIds!FindKeys(keys).result
                                            [CHOOSE j \in DOMAIN keys : keys[j] = refs[i]]]
  OBVIOUS
<1>2. PICK ranks : ranks = Those(f, Int \ {nodeIds!IdxNotFound})
  OBVIOUS
<1>3. PICK points : points = PlacesFound(ranks)
  OBVIOUS
<1>4. wayPoints' = wayPoints \o points
  BY <1>1, <1>2, <1>3, Zenon DEF WayRead
<1>5. IsList(points)
  <2>1. Len(refs) \in Nat /\ DOMAIN refs = 1 .. Len(refs)
    BY LenProperties DEF DocumentInv
  <2>2. f = [i \in 1 .. Len(refs) |-> f[i]]
    BY <1>1, <2>1
  <2>3. PICK R : f \in Seq(R)
    BY <2>1, <2>2, ListOf DEF IsList
  <2>4. ranks \in Seq(R \cap (Int \ {nodeIds!IdxNotFound}))
    BY <1>2, <2>3, ThoseAre
  <2>5. Len(ranks) \in Nat /\ DOMAIN ranks = 1 .. Len(ranks)
    BY <2>4, LenProperties
  <2>6. points = [i \in 1 .. Len(ranks) |-> points[i]]
    BY <1>3, <2>5 DEF PlacesFound
  <2> QED BY <2>5, <2>6, ListOf
<1>6. PICK w : w = [rect |-> rect', pstart |-> pointStart,
                    psize |-> SizeFrom(pointStart, wayPoints'),
                    tstart |-> tagStart, tsize |-> SizeFrom(tagStart, baliseTags)]
  OBVIOUS
<1>7. wayIndex' = Append(wayIndex, w)
  BY <1>6, Zenon DEF WayRead
<1>8. /\ w.pstart = pointStart /\ w.psize = Lesser(Len(wayPoints') - pointStart, CountLimit)
      /\ w.tstart = tagStart /\ w.tsize = SizeFrom(tagStart, baliseTags)
  BY <1>6 DEF SizeFrom
<1>9. /\ open.kind = "way"
      /\ UNCHANGED <<nodeIndex, relationIndex, pointStart, relMembers, memberStart, tagStart,
                     baliseTags>>
  BY DEF WayRead, memberVars, tagVars
<1> QED BY <1>4, <1>5, <1>7, <1>8, <1>9

\* The walk through the parts of a shape, from s to u.
ShapeWalked(s, parts, u) ==
  /\ parts \in Seq(Seq(Points) \ {<< >>})
  /\ s.points = wayPoints /\ s.start = pointStart /\ s.ways = wayIndex
  /\ IsList(u.points) /\ IsList(u.ways) /\ ShapeInv(s, parts, Len(parts), u)

\* What a shape of lines writes.
LEMMA LinesWrite ==
  ASSUME CompilerAssumption, RecordsInv, ShapeLines
  PROVE  \E s, u, parts, added, r, more :
           /\ ShapeWalked(s, parts, u)
           /\ ShapeRead([type |-> "lines", parts |-> parts], 1)
           /\ wayPoints' = u.points /\ pointStart' = u.start /\ wayIndex' = u.ways
           /\ added = Len(u.ways) - Len(wayIndex)
           /\ memberStart' = Len(relMembers)
           /\ relMembers' = relMembers \o more
           /\ more = [i \in 1 .. added |-> [type |-> "way", id |-> Len(wayIndex) + i - 1, named |-> 0]]
           /\ relationIndex' = Append(relationIndex, r)
           /\ r = [tstart |-> tagStart', tsize |-> (Len(baliseTags') - tagStart') % (CountLimit + 1),
                   mstart |-> memberStart', msize |-> added % (CountLimit + 1)]
           /\ nodeIndex' = nodeIndex
<1>1. PICK s : s = [points |-> wayPoints, start |-> pointStart, rect |-> NoRect,
                    isFirstNd |-> TRUE, ways |-> wayIndex]
  OBVIOUS
<1>2. PICK parts \in ShapeParts :
        LET u == FoldLeft(AddPart, s, parts)
            added == Len(u.ways) - Len(wayIndex)
        IN
        /\ ShapeRead([type |-> "lines", parts |-> parts], 1)
        /\ wayPoints' = u.points /\ pointStart' = u.start
        /\ wayIndex' = u.ways
        /\ memberStart' = Len(relMembers)
        /\ relMembers' = relMembers \o
             [i \in 1 .. added |-> [type |-> "way", id |-> Len(wayIndex) + i - 1, named |-> 0]]
        /\ relationIndex' = Append(relationIndex,
             [tstart |-> tagStart', tsize |-> (Len(baliseTags') - tagStart') % (CountLimit + 1),
              mstart |-> memberStart', msize |-> added % (CountLimit + 1)])
        /\ UNCHANGED nodeIndex
  BY <1>1, Zenon DEF ShapeLines
<1>3. PICK u : u = FoldLeft(AddPart, s, parts)
  OBVIOUS
<1>4. PICK added : added = Len(u.ways) - Len(wayIndex)
  OBVIOUS
<1>5. PICK r : r = [tstart |-> tagStart', tsize |-> (Len(baliseTags') - tagStart') % (CountLimit + 1),
                    mstart |-> memberStart', msize |-> added % (CountLimit + 1)]
  OBVIOUS
<1>6. PICK more : more = [i \in 1 .. added |->
                            [type |-> "way", id |-> Len(wayIndex) + i - 1, named |-> 0]]
  OBVIOUS
<1>7. /\ ShapeRead([type |-> "lines", parts |-> parts], 1)
      /\ wayPoints' = u.points /\ pointStart' = u.start /\ wayIndex' = u.ways
      /\ memberStart' = Len(relMembers)
      /\ relMembers' = relMembers \o more
      /\ relationIndex' = Append(relationIndex, r)
      /\ nodeIndex' = nodeIndex
  BY <1>2, <1>3, <1>4, <1>5, <1>6, Zenon
<1>8. ShapeWalked(s, parts, u)
  <2>1. parts \in Seq(Seq(Points) \ {<< >>})
    BY DEF CompilerAssumption, Points
  <2>2. PICK Q : wayPoints \in Seq(Q)
    BY DEF RecordsInv, IsList
  <2>3. PICK V : wayIndex \in Seq(V)
    BY DEF RecordsInv, WaysWithin, IsList
  <2>4. PICK R, W : R = Q \cup Points /\ W = V \cup ShapeWays
    OBVIOUS
  <2>5. wayPoints \in Seq(R) /\ wayIndex \in Seq(W)
    <3>1. PICK p, w, m, n : p = wayPoints /\ w = wayIndex /\ m = Len(p) /\ n = Len(w)
      OBVIOUS
    <3>2. /\ m \in Nat /\ n \in Nat /\ DOMAIN p = 1 .. m /\ DOMAIN w = 1 .. n
          /\ p \in Seq(Q) /\ w \in Seq(V)
      BY <2>2, <2>3, <3>1, LenProperties
    <3>3. p \in [1 .. m -> R] /\ w \in [1 .. n -> W]
      <4>1. (\A i \in 1 .. m : p[i] \in R) /\ (\A i \in 1 .. n : w[i] \in W)
        BY <2>4, <3>1, <3>2, ElementOfSeq
      <4> QED BY <3>2, <4>1
    <3>4. p \in Seq(R)
      BY <3>2, <3>3
    <3>5. w \in Seq(W)
      BY <3>2, <3>3
    <3> QED BY <3>1, <3>4, <3>5
  <2>6. s.points = wayPoints /\ s.start = pointStart /\ s.ways = wayIndex
    BY <1>1
  <2>7. pointStart \in 0 .. Len(wayPoints) /\ Len(wayPoints) \in Nat
    BY <2>2, LenProperties DEF RecordsInv
  <2>8. s \in Walks(R, W)
    <3>1. PICK p, n, w, e : p = wayPoints /\ n = pointStart /\ w = wayIndex /\ e = NoRect
      OBVIOUS
    <3>2. s = [points |-> p, start |-> n, rect |-> e, isFirstNd |-> TRUE, ways |-> w]
      BY <1>1, <3>1
    <3>3. p \in Seq(R) /\ n \in Nat /\ w \in Seq(W) /\ e \in Boxes \cup {NoRect}
      BY <2>5, <2>7, <3>1
    <3> QED BY <3>2, <3>3 DEF Walks
  <2>9. u \in Walks(R, W) /\ ShapeInv(s, parts, Len(parts), u)
    <3>1. Points \subseteq R /\ ShapeWays \subseteq W /\ s.start \in 0 .. Len(s.points)
      BY <2>4, <2>6, <2>7
    <3> QED BY <1>3, <2>1, <2>8, <3>1, ShapeWalk
  <2>10. u.points \in Seq(R) /\ u.ways \in Seq(W)
    BY <2>9 DEF Walks
  <2> QED BY <2>1, <2>6, <2>9, <2>10 DEF ShapeWalked, IsList
<1> QED BY <1>4, <1>5, <1>6, <1>7, <1>8

\* What the ways that a walk has written delimit.
LEMMA WalkWithin ==
  ASSUME CompilerAssumption, NEW s, NEW parts, NEW u, ShapeWalked(s, parts, u),
         NEW b \in Nat, RecordsInv, WaysWithin(wayIndex, b, Len(wayPoints))
  PROVE  /\ WaysWithin(u.ways, b, Len(u.points)) /\ u.start \in 0 .. Len(u.points)
         /\ Len(u.ways) - Len(wayIndex) \in Nat
         /\ Len(wayPoints) <= Len(u.points) /\ Len(wayPoints) \in Nat /\ Len(u.points) \in Nat
<1>1. PICK p, w, l, m, n, k : /\ p = wayPoints /\ w = wayIndex /\ l = Len(p) /\ m = Len(u.points)
                              /\ n = Len(w) /\ k = Len(u.ways)
  OBVIOUS
<1>2. /\ Extends(p, u.points) /\ Extends(w, u.ways) /\ u.start \in 0 .. m
      /\ \A x \in NewWays(s, u) : WayWhole(x, u.points, l, m)
      /\ s.ways = w
  BY <1>1 DEF ShapeWalked, ShapeInv
<1>3. /\ l \in Nat /\ m \in Nat /\ n \in Nat /\ k \in Nat
      /\ DOMAIN p = 1 .. l /\ DOMAIN u.points = 1 .. m /\ DOMAIN w = 1 .. n /\ DOMAIN u.ways = 1 .. k
  BY <1>1, ListIs DEF ShapeWalked, RecordsInv, WaysWithin
<1>4. l <= m /\ n <= k
  <2>1. (\A i \in 1 .. l : i \in 1 .. m) /\ (\A i \in 1 .. n : i \in 1 .. k)
    BY <1>2, <1>3 DEF Extends
  <2>2. l = 0 \/ l \in 1 .. l
    BY <1>3
  <2>3. n = 0 \/ n \in 1 .. n
    BY <1>3
  <2>4. l <= m
    BY <1>3, <2>1, <2>2
  <2>5. n <= k
    BY <1>3, <2>1, <2>3
  <2> QED BY <2>4, <2>5
<1>5. ASSUME NEW i \in 1 .. k PROVE TagsWithin(u.ways[i], b) /\ PointsWithin(u.ways[i], m)
  <2>1. CASE i \in 1 .. n
    <3>1. TagsWithin(w[i], b) /\ PointsWithin(w[i], l) /\ u.ways[i] = w[i]
      BY <1>1, <1>2, <1>3, <2>1 DEF WaysWithin, Extends
    <3>2. PointsWithin(w[i], m)
      BY <1>3, <1>4, <3>1, WithinMore
    <3> QED BY <3>1, <3>2
  <2>2. CASE i \notin 1 .. n
    <3>1. i \in n + 1 .. k
      BY <1>3, <2>2
    <3>2. u.ways[i] \in NewWays(s, u)
      BY <1>1, <1>2, <3>1 DEF NewWays
    <3>3. WayWhole(u.ways[i], u.points, l, m)
      BY <1>2, <3>2
    <3> QED BY <1>3, <3>3 DEF WayWhole, TagsWithin, PointsWithin, CompilerAssumption
  <2> QED BY <2>1, <2>2
<1>6. WaysWithin(u.ways, b, m)
  BY <1>3, <1>5 DEF WaysWithin, ShapeWalked
<1> QED BY <1>1, <1>2, <1>3, <1>4, <1>6

\* The lengths of the raw files.
LEMMA RawLengths ==
  ASSUME TagsInv, RecordsInv
  PROVE  /\ Len(baliseTags) \in Nat /\ Len(wayPoints) \in Nat /\ Len(relMembers) \in Nat
         /\ tagStart \in 0 .. Len(baliseTags) /\ pointStart \in 0 .. Len(wayPoints)
         /\ memberStart \in 0 .. Len(relMembers)
BY ListIs, LenProperties DEF TagsInv, RecordsInv

\* A step that writes no record, point or member.
LEMMA RecordsStay ==
  ASSUME CompilerAssumption, DocumentInv, TagsInv, RecordsInv, [Next]_vars,
         UNCHANGED <<nodeIndex, wayIndex, relationIndex, wayPoints, relMembers>>,
         pointStart' \in 0 .. Len(wayPoints), memberStart' \in 0 .. Len(relMembers)
  PROVE  RecordsInv'
<1>1. PICK b, c, p, m : /\ b = Len(baliseTags) /\ c = Len(baliseTags')
                        /\ p = Len(wayPoints) /\ m = Len(relMembers)
  OBVIOUS
<1>2. b \in Nat /\ c \in Nat /\ b <= c /\ p \in Nat /\ m \in Nat /\ p <= p /\ m <= m
  BY <1>1, BytesLonger, RawLengths
<1>3. /\ NodesWithin(nodeIndex, b) /\ WaysWithin(wayIndex, b, p)
      /\ RelationsWithin(relationIndex, b, m)
  BY <1>1 DEF RecordsInv
<1>4. /\ NodesWithin(nodeIndex, c) /\ WaysWithin(wayIndex, c, p)
      /\ RelationsWithin(relationIndex, c, m)
  BY <1>2, <1>3, IndexesWithinMore
<1> QED BY <1>1, <1>4 DEF RecordsInv

\* A node.
LEMMA EndNodeRecords ==
  ASSUME CompilerAssumption, DocumentInv, TagsInv, RecordsInv, EndNode
  PROVE  RecordsInv'
<1>1. UNCHANGED <<wayIndex, relationIndex, wayPoints, pointStart, relMembers, memberStart, baliseTags>>
  BY DEF EndNode, pointVars, memberVars, tagVars
<1>2. PICK b, e : b = Len(baliseTags)
                  /\ e = [place |-> Place[open.id], tstart |-> tagStart,
                          tsize |-> SizeFrom(tagStart, baliseTags)]
  OBVIOUS
<1>3. nodeIndex' = nodeIndex \/ nodeIndex' = Append(nodeIndex, e)
  BY <1>2 DEF EndNode
<1>4. TagsWithin(e, b)
  <2>1. b \in Nat /\ tagStart \in 0 .. b
    BY <1>2, RawLengths
  <2>2. e.tstart = tagStart /\ e.tsize = Lesser(b - tagStart, CountLimit)
    BY <1>2 DEF SizeFrom
  <2>3. tagStart \in Nat /\ e.tsize \in 0 .. CountLimit /\ tagStart + e.tsize <= b
    BY <2>1, <2>2, SizeFits
  <2> QED BY <2>2, <2>3 DEF TagsWithin
<1>5. NodesWithin(nodeIndex', b)
  <2>1. NodesWithin(nodeIndex, b)
    BY <1>2 DEF RecordsInv
  <2>2. PICK t : t = Append(nodeIndex, e)
    OBVIOUS
  <2>3. NodesWithin(t, b)
    BY <1>4, <2>1, <2>2, IndexesWithinAppend
  <2> QED BY <1>3, <2>1, <2>2, <2>3
<1> QED BY <1>1, <1>2, <1>5 DEF RecordsInv

\* A way.
LEMMA EndWayRecords ==
  ASSUME CompilerAssumption, DocumentInv, TagsInv, RecordsInv, EndWay
  PROVE  RecordsInv'
<1>1. PICK keys \in SortedRefs : WayRead(keys)
  BY DEF EndWay
<1>2. /\ \E points : IsList(points) /\ wayPoints' = wayPoints \o points
      /\ \E w : /\ wayIndex' = Append(wayIndex, w)
                /\ w.pstart = pointStart
                /\ w.psize = Lesser(Len(wayPoints') - pointStart, CountLimit)
                /\ w.tstart = tagStart /\ w.tsize = SizeFrom(tagStart, baliseTags)
      /\ UNCHANGED <<nodeIndex, relationIndex, pointStart, relMembers, memberStart, baliseTags>>
  BY <1>1, WayWrites
<1>3. PICK points : IsList(points) /\ wayPoints' = wayPoints \o points
  BY <1>2
<1>4. PICK b, p, q, o : b = Len(baliseTags) /\ p = Len(wayPoints) /\ q = Len(o) /\ o = wayPoints'
  OBVIOUS
<1>5. /\ b \in Nat /\ p \in Nat /\ tagStart \in 0 .. b /\ pointStart \in 0 .. p
  BY <1>4, RawLengths
<1>6. IsList(o) /\ q \in Nat /\ p <= q
  <2>1. IsList(o) /\ q = p + Len(points)
    BY <1>3, <1>4, ListConcat DEF RecordsInv
  <2>2. Len(points) \in Nat
    BY <1>3, ListIs
  <2> QED BY <1>5, <2>1, <2>2
<1>7. PICK w, v : /\ v = wayIndex' /\ v = Append(wayIndex, w)
                  /\ w.pstart = pointStart /\ w.psize = Lesser(q - pointStart, CountLimit)
                  /\ w.tstart = tagStart /\ w.tsize = Lesser(b - tagStart, CountLimit)
  BY <1>2, <1>4 DEF SizeFrom
<1>8. TagsWithin(w, b)
  <2>1. tagStart \in Nat /\ w.tsize \in 0 .. CountLimit /\ tagStart + w.tsize <= b
    BY <1>5, <1>7, SizeFits
  <2> QED BY <1>7, <2>1 DEF TagsWithin
<1>9. PointsWithin(w, q)
  <2>1. pointStart \in 0 .. q
    BY <1>5, <1>6
  <2>2. pointStart \in Nat /\ w.psize \in 0 .. CountLimit /\ pointStart + w.psize <= q
    BY <1>6, <1>7, <2>1, SizeFits
  <2> QED BY <1>7, <2>2 DEF PointsWithin
<1>10. WaysWithin(v, b, q)
  <2>1. WaysWithin(wayIndex, b, p)
    BY <1>4 DEF RecordsInv
  <2>2. WaysWithin(wayIndex, b, q)
    <3>1. b <= b
      BY <1>5
    <3> QED BY <1>5, <1>6, <2>1, <3>1, IndexesWithinMore
  <2> QED BY <1>7, <1>8, <1>9, <2>2, IndexesWithinAppend
<1>11. pointStart' \in 0 .. q
  BY <1>2, <1>5, <1>6
<1> QED BY <1>2, <1>4, <1>6, <1>7, <1>10, <1>11 DEF RecordsInv

\* A relation.
LEMMA EndRelationRecords ==
  ASSUME CompilerAssumption, DocumentInv, TagsInv, RecordsInv, EndRelation
  PROVE  RecordsInv'
<1>1. UNCHANGED <<nodeIndex, wayIndex, wayPoints, pointStart, relMembers, memberStart, baliseTags>>
  BY DEF EndRelation, pointVars, memberVars, tagVars
<1>2. PICK b, m, e : /\ b = Len(baliseTags) /\ m = Len(relMembers)
                     /\ e = [tstart |-> tagStart, tsize |-> SizeFrom(tagStart, baliseTags),
                             mstart |-> memberStart, msize |-> SizeFrom(memberStart, relMembers)]
  OBVIOUS
<1>3. PICK t : t = relationIndex' /\ t = Append(relationIndex, e)
  BY <1>2 DEF EndRelation
<1>4. /\ b \in Nat /\ m \in Nat /\ tagStart \in 0 .. b /\ memberStart \in 0 .. m
  BY <1>2, RawLengths
<1>5. /\ e.tstart = tagStart /\ e.tsize = Lesser(b - tagStart, CountLimit)
      /\ e.mstart = memberStart /\ e.msize = Lesser(m - memberStart, CountLimit)
  BY <1>2 DEF SizeFrom
<1>6. TagsWithin(e, b)
  <2>1. tagStart \in Nat /\ e.tsize \in 0 .. CountLimit /\ tagStart + e.tsize <= b
    BY <1>4, <1>5, SizeFits
  <2> QED BY <1>5, <2>1 DEF TagsWithin
<1>7. MembersWithin(e, m)
  <2>1. memberStart \in Nat /\ e.msize \in 0 .. CountLimit /\ memberStart + e.msize <= m
    BY <1>4, <1>5, SizeFits
  <2> QED BY <1>5, <2>1 DEF MembersWithin
<1>8. RelationsWithin(t, b, m)
  <2>1. RelationsWithin(relationIndex, b, m)
    BY <1>2 DEF RecordsInv
  <2> QED BY <1>3, <1>6, <1>7, <2>1, IndexesWithinAppend
<1> QED BY <1>1, <1>2, <1>3, <1>8 DEF RecordsInv

\* A member.
LEMMA MemberRecords ==
  ASSUME CompilerAssumption, DocumentInv, TagsInv, RecordsInv, StartMember
  PROVE  RecordsInv'
<1>1. PICK type \in {"point", "way", "relation"}, ref \in References : Member(type, ref)
  BY DEF StartMember
<1>2. /\ UNCHANGED <<nodeIndex, wayIndex, relationIndex, wayPoints, pointStart, memberStart, baliseTags>>
      /\ relMembers' = relMembers \/ \E e : relMembers' = Append(relMembers, e)
  BY <1>1, Zenon DEF Member, recordVars, pointVars, tagVars
<1>3. PICK b, m, n, o, s : /\ b = Len(baliseTags) /\ m = Len(s) /\ o = relMembers' /\ n = Len(o)
                           /\ s = relMembers
  OBVIOUS
<1>4. b \in Nat /\ m \in Nat /\ memberStart \in 0 .. m /\ IsList(s)
  BY <1>3, RawLengths DEF RecordsInv
<1>5. IsList(o) /\ n \in Nat /\ m <= n
  <2>1. CASE o = s
    BY <1>3, <1>4, <2>1
  <2>2. CASE \E e : o = Append(s, e)
    <3>1. IsList(o) /\ n = m + 1
      BY <1>3, <1>4, <2>2, ListAppend
    <3> QED BY <1>4, <3>1
  <2> QED BY <1>2, <1>3, <2>1, <2>2
<1>6. RelationsWithin(relationIndex, b, n)
  <2>1. RelationsWithin(relationIndex, b, m) /\ b <= b
    BY <1>3, <1>4 DEF RecordsInv
  <2> QED BY <1>4, <1>5, <2>1, IndexesWithinMore
<1>7. memberStart' \in 0 .. n
  BY <1>2, <1>4, <1>5
<1> QED BY <1>2, <1>3, <1>5, <1>6, <1>7 DEF RecordsInv

\* The remainder of a division.
LEMMA Remainder ==
  ASSUME NEW n \in Nat, NEW k \in Nat \ {0}
  PROVE  n % k \in 0 .. k - 1 /\ n % k <= n /\ (n < k => n % k = n)
<1>1. n % k \in 0 .. k - 1
  OBVIOUS
<1>2. n % k <= n
  OBVIOUS
<1>3. n < k => n % k = n
  OBVIOUS
<1> QED BY <1>1, <1>2, <1>3

\* A size that is cut to the width of its field.
LEMMA CutFits ==
  ASSUME CompilerAssumption, NEW n \in Nat
  PROVE  /\ n % (CountLimit + 1) \in 0 .. CountLimit /\ n % (CountLimit + 1) <= n
         /\ n <= CountLimit => n % (CountLimit + 1) = n
<1>1. PICK k : k = CountLimit + 1 /\ k \in Nat \ {0}
  BY DEF CompilerAssumption
<1>2. n % k \in 0 .. k - 1 /\ n % k <= n /\ (n < k => n % k = n)
  BY <1>1, Remainder
<1>3. CountLimit \in Nat
  BY DEF CompilerAssumption
<1> QED BY <1>1, <1>2, <1>3

\* The tags of a shape are written where it says.
LEMMA ShapeTagsFit ==
  ASSUME CompilerAssumption, TagsInv', NEW r, r.tstart = tagStart',
         r.tsize = (Len(baliseTags') - tagStart') % (CountLimit + 1)
  PROVE  TagsWithin(r, Len(baliseTags'))
<1>1. PICK b, s : b = Len(baliseTags') /\ s = tagStart'
  OBVIOUS
<1>2. b \in Nat /\ s \in 0 .. b
  BY <1>1, LenProperties DEF TagsInv
<1>3. PICK n : n = b - s /\ n \in Nat
  BY <1>2
<1>4. n % (CountLimit + 1) \in 0 .. CountLimit /\ n % (CountLimit + 1) <= n
  BY <1>3, CutFits
<1>5. r.tstart = s /\ r.tsize = n % (CountLimit + 1)
  BY <1>1, <1>3
<1>6. r.tsize \in 0 .. CountLimit /\ r.tsize <= n
  BY <1>4, <1>5
<1>7. CountLimit \in Nat
  BY DEF CompilerAssumption
<1>8. s \in Nat /\ s + r.tsize <= b
  BY <1>2, <1>3, <1>6, <1>7
<1> QED BY <1>1, <1>5, <1>6, <1>8 DEF TagsWithin

\* A shape that is a point.
LEMMA ShapePointRecords ==
  ASSUME CompilerAssumption, DocumentInv, TagsInv, TagsInv', RecordsInv, ShapePoint
  PROVE  RecordsInv'
<1>1. PICK p, r :
        /\ p \in ShapePlaces
        /\ nodeIndex' = Append(nodeIndex, r)
        /\ r = [place |-> p, tstart |-> tagStart', tsize |-> (Len(baliseTags') - tagStart') % (CountLimit + 1)]
        /\ UNCHANGED <<wayIndex, relationIndex, pointVars, memberVars>>
  BY Zenon DEF ShapePoint
<1>2. UNCHANGED <<wayIndex, relationIndex, wayPoints, pointStart, relMembers, memberStart>>
  BY <1>1 DEF pointVars, memberVars
<1>3. PICK b, c, l, m, t : /\ b = Len(baliseTags) /\ c = Len(baliseTags') /\ l = Len(wayPoints)
                           /\ m = Len(relMembers) /\ t = nodeIndex'
  OBVIOUS
<1>4. b \in Nat /\ c \in Nat /\ b <= c /\ l \in Nat /\ m \in Nat /\ l <= l /\ m <= m
  <2>1. [Next]_vars
    BY DEF Next
  <2> QED BY <1>3, <2>1, BytesLonger, RawLengths
<1>5. TagsWithin(r, c)
  <2>1. r.tstart = tagStart' /\ r.tsize = (Len(baliseTags') - tagStart') % (CountLimit + 1)
    BY <1>1
  <2> QED BY <1>3, <2>1, ShapeTagsFit
<1>6. /\ NodesWithin(nodeIndex, b) /\ WaysWithin(wayIndex, b, l)
      /\ RelationsWithin(relationIndex, b, m)
  BY <1>3 DEF RecordsInv
<1>7. /\ NodesWithin(nodeIndex, c) /\ WaysWithin(wayIndex, c, l)
      /\ RelationsWithin(relationIndex, c, m)
  BY <1>4, <1>6, IndexesWithinMore
<1>8. NodesWithin(t, c)
  <2>1. PICK s : s = nodeIndex
    OBVIOUS
  <2>2. t = Append(s, r)
    BY <1>1, <1>3, <2>1
  <2>3. NodesWithin(s, c) /\ TagsWithin(r, c) => NodesWithin(t, c)
    BY <2>2, IndexesWithinAppend
  <2> QED BY <1>5, <1>7, <2>1, <2>3
<1> QED BY <1>2, <1>3, <1>7, <1>8 DEF RecordsInv

\* A shape of lines.
LEMMA ShapeLinesRecords ==
  ASSUME CompilerAssumption, DocumentInv, TagsInv, TagsInv', RecordsInv, ShapeLines
  PROVE  RecordsInv'
<1>1. PICK s, u, parts, added, r, more :
        /\ ShapeWalked(s, parts, u)
        /\ wayPoints' = u.points /\ pointStart' = u.start /\ wayIndex' = u.ways
        /\ added = Len(u.ways) - Len(wayIndex)
        /\ memberStart' = Len(relMembers)
        /\ relMembers' = relMembers \o more
        /\ more = [i \in 1 .. added |-> [type |-> "way", id |-> Len(wayIndex) + i - 1, named |-> 0]]
        /\ relationIndex' = Append(relationIndex, r)
        /\ r = [tstart |-> tagStart', tsize |-> (Len(baliseTags') - tagStart') % (CountLimit + 1),
                mstart |-> memberStart', msize |-> added % (CountLimit + 1)]
        /\ nodeIndex' = nodeIndex
  BY LinesWrite
<1>2. PICK b, c, l, q, m, n, o, t : /\ b = Len(baliseTags) /\ c = Len(baliseTags')
                                    /\ l = Len(wayPoints) /\ q = Len(u.points)
                                    /\ m = Len(relMembers) /\ o = relMembers' /\ n = Len(o)
                                    /\ t = relationIndex'
  OBVIOUS
<1>3. b \in Nat /\ c \in Nat /\ b <= c /\ l \in Nat /\ m \in Nat /\ l <= l /\ m <= m
  <2>1. [Next]_vars
    BY DEF Next
  <2> QED BY <1>2, <2>1, BytesLonger, RawLengths
<1>4. /\ NodesWithin(nodeIndex, b) /\ WaysWithin(wayIndex, b, l)
      /\ RelationsWithin(relationIndex, b, m)
  BY <1>2 DEF RecordsInv
<1>5. /\ NodesWithin(nodeIndex, c) /\ WaysWithin(wayIndex, c, l)
  BY <1>3, <1>4, IndexesWithinMore
<1>6. WaysWithin(u.ways, c, q) /\ u.start \in 0 .. q /\ added \in Nat
  BY <1>1, <1>2, <1>3, <1>5, WalkWithin
<1>7. IsList(o) /\ n = m + added /\ n \in Nat /\ m <= n
  <2>1. IsList(more) /\ Len(more) = added
    <3>1. more = [i \in 1 .. added |-> more[i]]
      BY <1>1
    <3> QED BY <1>6, <3>1, ListOf
  <2>2. PICK old : old = relMembers
    OBVIOUS
  <2>3. IsList(old) /\ o = old \o more
    BY <1>1, <1>2, <2>2 DEF RecordsInv
  <2>4. IsList(old \o more) /\ Len(old \o more) = Len(old) + Len(more)
    BY <2>1, <2>3, ListConcat
  <2>5. IsList(o) /\ n = m + added
    BY <1>2, <2>1, <2>2, <2>3, <2>4
  <2> QED BY <1>3, <1>6, <2>5
<1>8. TagsWithin(r, c)
  <2>1. r.tstart = tagStart' /\ r.tsize = (Len(baliseTags') - tagStart') % (CountLimit + 1)
    BY <1>1
  <2> QED BY <1>2, <2>1, ShapeTagsFit
<1>9. MembersWithin(r, n)
  <2>1. r.mstart = m /\ r.msize = added % (CountLimit + 1)
    BY <1>1, <1>2
  <2>2. added % (CountLimit + 1) \in 0 .. CountLimit /\ added % (CountLimit + 1) <= added
    BY <1>6, CutFits
  <2>3. CountLimit \in Nat
    BY DEF CompilerAssumption
  <2>4. m + r.msize <= n
    BY <1>3, <1>6, <1>7, <2>1, <2>2, <2>3
  <2> QED BY <1>3, <2>1, <2>2, <2>4 DEF MembersWithin
<1>10. RelationsWithin(t, c, n)
  <2>1. RelationsWithin(relationIndex, c, n)
    BY <1>3, <1>4, <1>7, IndexesWithinMore
  <2>2. PICK old : old = relationIndex
    OBVIOUS
  <2>3. t = Append(old, r)
    BY <1>1, <1>2, <2>2
  <2>4. RelationsWithin(old, c, n) /\ TagsWithin(r, c) /\ MembersWithin(r, n) =>
          RelationsWithin(t, c, n)
    BY <2>3, IndexesWithinAppend
  <2> QED BY <1>8, <1>9, <2>1, <2>2, <2>4
<1>11. memberStart' \in 0 .. n /\ IsList(u.points)
  BY <1>1, <1>2, <1>3, <1>7 DEF ShapeWalked
<1> QED BY <1>1, <1>2, <1>5, <1>6, <1>7, <1>10, <1>11 DEF RecordsInv

\* The records delimit parts of the raw files.
LEMMA RecordsInvariance ==
  ASSUME CompilerAssumption
  PROVE  Spec => []RecordsInv
<1>1. Init => RecordsInv
  <2> SUFFICES ASSUME Init PROVE RecordsInv
    OBVIOUS
  <2>1. /\ nodeIndex = << >> /\ wayIndex = << >> /\ relationIndex = << >> /\ wayPoints = << >>
        /\ relMembers = << >> /\ pointStart = 0 /\ memberStart = 0
    BY DEF Init
  <2>2. IsList(<< >>) /\ Len(<< >>) = 0 /\ DOMAIN << >> = {}
    <3>1. << >> \in Seq({})
      OBVIOUS
    <3> QED BY <3>1 DEF IsList
  <2> QED BY <2>1, <2>2 DEF RecordsInv, NodesWithin, WaysWithin, RelationsWithin
<1>2. DocumentInv /\ TagsInv /\ TagsInv' /\ RecordsInv /\ [Next]_vars => RecordsInv'
  <2> SUFFICES ASSUME DocumentInv, TagsInv, TagsInv', RecordsInv, [Next]_vars PROVE RecordsInv'
    OBVIOUS
  <2>0. /\ pointStart \in 0 .. Len(wayPoints) /\ memberStart \in 0 .. Len(relMembers)
        /\ Len(wayPoints) \in 0 .. Len(wayPoints) /\ Len(relMembers) \in 0 .. Len(relMembers)
    BY RawLengths
  <2>1. CASE StartNode \/ StartWay \/ StartRelation
    <3>1. /\ UNCHANGED <<nodeIndex, wayIndex, relationIndex, wayPoints, relMembers>>
          /\ pointStart' = pointStart \/ pointStart' = Len(wayPoints)
          /\ memberStart' = memberStart \/ memberStart' = Len(relMembers)
      BY <2>1 DEF StartNode, StartWay, StartRelation, StartElement, recordVars, pointVars
    <3> QED BY <2>0, <3>1, RecordsStay
  <2>2. CASE StartTag \/ Nd \/ Close \/ ShapeOther \/ UNCHANGED vars
    <3>1. UNCHANGED <<nodeIndex, wayIndex, relationIndex, wayPoints, relMembers, pointStart, memberStart>>
      BY <2>2 DEF StartTag, Nd, Close, ShapeOther, vars, recordVars, pointVars, memberVars
    <3> QED BY <2>0, <3>1, RecordsStay
  <2> QED BY <2>1, <2>2, EndNodeRecords, EndWayRecords, EndRelationRecords, MemberRecords,
             ShapePointRecords, ShapeLinesRecords DEF Next
<1> QED BY <1>1, <1>2, DocumentInvariance, TagsInvariance, PTL DEF Spec
-----------------------------------------------------------------------------
(* The shapes of a type, and how many records there are. *)

\* ShapesOf, for any shapes.
ShapesIn(shapes, type) ==
  Those([i \in DOMAIN shapes |-> i], {i \in DOMAIN shapes : shapes[i].type = type})

\* The two definitions are one.
LEMMA ShapesOfAre ==
  ASSUME NEW type
  PROVE  ShapesOf(type) = ShapesIn(document.shapes, type)
BY DEF ShapesOf, ShapesIn

\* There are none of a file that has none.
LEMMA ShapesInNone ==
  ASSUME NEW type
  PROVE  ShapesIn(<< >>, type) = << >>
<1>1. PICK S, e : S = {i \in DOMAIN << >> : << >>[i].type = type} /\ e = [i \in DOMAIN << >> |-> i]
  OBVIOUS
<1>2. e = << >>
  BY <1>1
<1>3. Those(<< >>, S) = << >>
  BY ThoseEmpty
<1> QED BY <1>1, <1>2, <1>3 DEF ShapesIn

\* The numbers of the shapes of a type.
LEMMA ShapesInAre ==
  ASSUME NEW shapes \in Seq(ShapeRecords), NEW type
  PROVE  /\ ShapesIn(shapes, type) \in Seq(1 .. Len(shapes))
         /\ \A n \in 1 .. Len(ShapesIn(shapes, type)) :
              shapes[ShapesIn(shapes, type)[n]].type = type
<1>1. PICK N, a, S, t : /\ N = Len(shapes) /\ a = [i \in DOMAIN shapes |-> i]
                        /\ S = {i \in DOMAIN shapes : shapes[i].type = type}
                        /\ t = Those(a, S) /\ t = ShapesIn(shapes, type)
  BY DEF ShapesIn
<1>2. N \in Nat /\ DOMAIN shapes = 1 .. N
  BY <1>1, LenProperties
<1>3. a \in [1 .. N -> 1 .. N]
  BY <1>1, <1>2
<1>8. PICK V, Q : V = 1 .. N /\ Q = V \cap S
  OBVIOUS
<1>4. a \in Seq(V)
  BY <1>2, <1>3, <1>8
<1>5. t \in Seq(Q)
  <2>1. Those(a, S) \in Seq(V \cap S)
    BY <1>4, ThoseAre
  <2> QED BY <1>1, <1>8, <2>1
<1>6. Q \subseteq V /\ \A i \in Q : shapes[i].type = type
  BY <1>1, <1>8
<1>7. t \in Seq(V) /\ \A n \in 1 .. Len(t) : t[n] \in Q
  BY <1>5, <1>6, ElementOfSeq
<1> QED BY <1>1, <1>6, <1>7, <1>8

\* One shape more.
LEMMA ShapesInAppend ==
  ASSUME NEW shapes \in Seq(ShapeRecords), NEW e \in ShapeRecords, NEW type
  PROVE  ShapesIn(Append(shapes, e), type)
           = IF e.type = type THEN Append(ShapesIn(shapes, type), Len(shapes) + 1)
             ELSE ShapesIn(shapes, type)
<1>1. PICK N, more, a, b, S, T :
        /\ N = Len(shapes) /\ more = Append(shapes, e)
        /\ a = [i \in DOMAIN shapes |-> i] /\ b = [i \in DOMAIN more |-> i]
        /\ S = {i \in DOMAIN shapes : shapes[i].type = type}
        /\ T = {i \in DOMAIN more : more[i].type = type}
  OBVIOUS
<1>2. /\ N \in Nat /\ DOMAIN shapes = 1 .. N /\ DOMAIN more = 1 .. N + 1
      /\ more[N + 1] = e /\ \A i \in 1 .. N : more[i] = shapes[i]
  BY <1>1, AppendProperties, LenProperties
<1>3. a = [i \in 1 .. N |-> i] /\ b = [i \in 1 .. N + 1 |-> i]
  BY <1>1, <1>2
<1>4. a \in Seq(Nat) /\ Len(a) = N
  BY <1>2, <1>3
<1>5. b = Append(a, N + 1)
  BY <1>2, <1>3, <1>4
<1>6. Those(a, S) = Those(a, T)
  <2>1. \A i \in 1 .. Len(a) : a[i] \in S <=> a[i] \in T
    <3> TAKE i \in 1 .. Len(a)
    <3>1. i \in 1 .. N /\ i \in 1 .. N + 1 /\ a[i] = i
      BY <1>2, <1>3, <1>4
    <3> QED BY <1>1, <1>2, <3>1
  <2> QED BY <1>4, <2>1, ThoseAgree
<1>7. Those(b, T) = Keep(Those(a, T), N + 1, T)
  <2>1. N + 1 \in Nat
    BY <1>2
  <2> QED BY <1>4, <1>5, <2>1, ThoseAppend
<1>8. N + 1 \in T <=> e.type = type
  BY <1>1, <1>2
<1>9. ShapesIn(more, type) = Those(b, T) /\ ShapesIn(shapes, type) = Those(a, S)
  BY <1>1 DEF ShapesIn
<1> QED BY <1>1, <1>6, <1>7, <1>8, <1>9 DEF Keep

\* The shapes of a type after another shape has been read.
LEMMA ShapesOfRead ==
  ASSUME CompilerAssumption, DocumentInv, NEW shape \in ShapeRecords, NEW n, ShapeRead(shape, n),
         NEW type
  PROVE  ShapesOf(type)' = IF shape.type = type
                           THEN Append(ShapesOf(type), Len(document.shapes) + 1)
                           ELSE ShapesOf(type)
<1>1. PICK shapes, more : shapes = document.shapes /\ more = document'.shapes
  OBVIOUS
<1>2. shapes \in Seq(ShapeRecords)
  BY <1>1 DEF DocumentInv, Documents
<1>3. more = Append(shapes, shape)
  BY <1>1, ShapeReads
<1>4. ShapesOf(type)' = ShapesIn(document'.shapes, type)
  BY DEF ShapesOf, ShapesIn
<1>5. ShapesIn(Append(shapes, shape), type)
        = IF shape.type = type THEN Append(ShapesIn(shapes, type), Len(shapes) + 1)
          ELSE ShapesIn(shapes, type)
  BY <1>2, ShapesInAppend
<1> QED BY <1>1, <1>3, <1>4, <1>5, ShapesOfAre

\* They are as before if none has been read.
LEMMA ShapesOfStay ==
  ASSUME document'.shapes = document.shapes, NEW type
  PROVE  ShapesOf(type)' = ShapesOf(type)
BY DEF ShapesOf

\* The shapes of a type are a list.
LEMMA ShapesOfList ==
  ASSUME DocumentInv, NEW type
  PROVE  /\ ShapesOf(type) \in Seq(1 .. Len(document.shapes)) /\ Len(document.shapes) \in Nat
         /\ \A n \in 1 .. Len(ShapesOf(type)) : document.shapes[ShapesOf(type)[n]].type = type
         /\ document.shapes = << >> => ShapesOf(type) = << >>
<1>1. PICK shapes, t : shapes = document.shapes /\ t = ShapesIn(shapes, type) /\ t = ShapesOf(type)
  BY ShapesOfAre
<1>2. shapes \in Seq(ShapeRecords) /\ Len(shapes) \in Nat
  BY <1>1, LenProperties DEF DocumentInv, Documents
<1>3. /\ t \in Seq(1 .. Len(shapes))
      /\ \A n \in 1 .. Len(t) : shapes[t[n]].type = type
  <2>1. /\ ShapesIn(shapes, type) \in Seq(1 .. Len(shapes))
        /\ \A n \in 1 .. Len(ShapesIn(shapes, type)) : shapes[ShapesIn(shapes, type)[n]].type = type
    BY <1>2, ShapesInAre
  <2> QED BY <1>1, <2>1, Zenon
<1>4. shapes = << >> => t = << >>
  BY <1>1, ShapesInNone
<1> QED BY <1>1, <1>2, <1>3, <1>4

\* A step that writes no record and ends no element.
Quiet ==
  /\ UNCHANGED <<nodeIndex, wayIndex, relationIndex>>
  /\ document'.nodes = document.nodes /\ document'.ways = document.ways
  /\ document'.relations = document.relations /\ document'.shapes = document.shapes

\* Most steps are so.
LEMMA QuietSteps ==
  ASSUME CompilerAssumption, DocumentInv, [Next]_vars
  PROVE  \/ EndNode \/ EndWay \/ EndRelation \/ ShapePoint \/ ShapeLines \/ ShapeOther
         \/ Quiet
<1>1. CASE StartNode \/ StartWay
  BY <1>1 DEF StartNode, StartWay, StartElement, recordVars, Quiet
<1>2. CASE StartRelation
  <2>1. UNCHANGED <<nodeIndex, wayIndex, relationIndex>>
    BY <1>2 DEF StartRelation, StartElement, recordVars
  <2> QED BY <1>2, <2>1, StartRelationReads DEF Quiet
<1>3. CASE StartMember
  <2>1. PICK type \in {"point", "way", "relation"}, ref \in References : Member(type, ref)
    BY <1>3 DEF StartMember
  <2>2. UNCHANGED <<nodeIndex, wayIndex, relationIndex>>
    BY <2>1 DEF Member, recordVars
  <2> QED BY <2>1, <2>2, MemberReads DEF Quiet
<1>4. CASE StartTag \/ Nd \/ Close \/ UNCHANGED vars
  BY <1>4 DEF StartTag, Nd, Close, vars, recordVars, Quiet
<1> QED BY <1>1, <1>2, <1>3, <1>4 DEF Next

\* What the end of a node writes.
NodeWritten(n, r) ==
  \/ TaggedNodes' = TaggedNodes /\ nodeIndex' = nodeIndex
  \/ /\ TaggedNodes' = Append(TaggedNodes, n) /\ nodeIndex' = Append(nodeIndex, r)
     /\ r.place = Place[n.id] /\ HasTags(r, baliseTags', NodeOwner(n))

\* It writes the record of the node if it has tags.
LEMMA EndNodeWrites ==
  ASSUME CompilerAssumption, DocumentInv, TagsInv, EndNode
  PROVE  /\ \E n, r : n \in Nodes /\ NodeWritten(n, r)
         /\ UNCHANGED <<wayIndex, relationIndex>>
<1>1. PICK n, r, size : /\ n = [id |-> open.id] /\ size = SizeFrom(tagStart, baliseTags)
                        /\ r = [place |-> Place[open.id], tstart |-> tagStart, tsize |-> size]
  OBVIOUS
<1>2. open.kind = "node" /\ baliseTags' = baliseTags /\ UNCHANGED <<wayIndex, relationIndex>>
  BY DEF EndNode, tagVars
<1>3. open.id \in NodeIds /\ open = [kind |-> "node", id |-> open.id] /\ open # Nothing
  BY <1>2, OpenIds DEF DocumentInv, Nothing
<1>4. n \in Nodes /\ NodeOwner(n) = open /\ n.id = open.id
  BY <1>1, <1>3 DEF Nodes, NodeOwner
<1>5. nodeIndex' = IF size = 0 THEN nodeIndex ELSE Append(nodeIndex, r)
  BY <1>1 DEF EndNode
<1>6. TaggedNodes' = IF size = 0 THEN TaggedNodes ELSE Append(TaggedNodes, n)
  BY <1>1, TaggedEnd
<1>7. HasTags(r, baliseTags', NodeOwner(n))
  <2>1. r.tstart = tagStart /\ r.tsize = SizeFrom(tagStart, baliseTags)
    BY <1>1
  <2>2. HasTags(r, baliseTags, open)
    BY <1>3, <2>1, EndsWithTags
  <2> QED BY <1>2, <1>4, <2>2
<1>8. r.place = Place[n.id]
  BY <1>1, <1>4
<1>9. NodeWritten(n, r)
  BY <1>5, <1>6, <1>7, <1>8 DEF NodeWritten
<1> QED BY <1>2, <1>4, <1>9

\* What the end of a relation writes.
LEMMA EndRelationWrites ==
  ASSUME CompilerAssumption, DocumentInv, TagsInv, EndRelation
  PROVE  /\ open.kind = "relation"
         /\ UNCHANGED <<nodeIndex, wayIndex, relMembers, memberStart, wayPoints, baliseTags>>
         /\ \E r : /\ relationIndex' = Append(relationIndex, r)
                   /\ r.tstart = tagStart /\ r.tsize = SizeFrom(tagStart, baliseTags)
                   /\ r.mstart = memberStart /\ r.msize = SizeFrom(memberStart, relMembers)
<1>1. PICK r : r = [tstart |-> tagStart, tsize |-> SizeFrom(tagStart, baliseTags),
                    mstart |-> memberStart, msize |-> SizeFrom(memberStart, relMembers)]
  OBVIOUS
<1>2. relationIndex' = Append(relationIndex, r)
  BY <1>1 DEF EndRelation
<1>3. /\ r.tstart = tagStart /\ r.tsize = SizeFrom(tagStart, baliseTags)
      /\ r.mstart = memberStart /\ r.msize = SizeFrom(memberStart, relMembers)
  BY <1>1
<1>4. /\ open.kind = "relation"
      /\ UNCHANGED <<nodeIndex, wayIndex, relMembers, memberStart, wayPoints, baliseTags>>
  BY DEF EndRelation, pointVars, memberVars, tagVars
<1> QED BY <1>2, <1>3, <1>4

\* What a shape that is a point writes.
LEMMA PointWrites ==
  ASSUME CompilerAssumption, ShapePoint
  PROVE  \E shape, r :
           /\ shape \in ShapeRecords
           /\ shape.type = "point" /\ ShapeRead(shape, 1) /\ nodeIndex' = Append(nodeIndex, r)
           /\ r.tstart = tagStart' /\ r.tsize = (Len(baliseTags') - tagStart') % (CountLimit + 1)
           /\ UNCHANGED <<wayIndex, relationIndex, wayPoints, relMembers>>
<1>1. PICK p, shape, r :
        /\ p \in ShapePlaces
        /\ ShapeRead(shape, 1)
        /\ shape = [type |-> "point", parts |-> << <<p>> >>]
        /\ nodeIndex' = Append(nodeIndex, r)
        /\ r = [place |-> p, tstart |-> tagStart', tsize |-> (Len(baliseTags') - tagStart') % (CountLimit + 1)]
        /\ UNCHANGED <<wayIndex, relationIndex, pointVars, memberVars>>
  BY Zenon DEF ShapePoint
<1>2. << <<p>> >> \in Parts
  <2>1. p \in Int \X Int
    BY <1>1 DEF CompilerAssumption
  <2>2. <<p>> \in Seq(Int \X Int) /\ <<p>> # << >>
    BY <2>1
  <2> QED BY <2>2 DEF Parts
<1>3. shape \in ShapeRecords /\ shape.type = "point"
  BY <1>1, <1>2 DEF ShapeRecords
<1>4. r.tstart = tagStart' /\ r.tsize = (Len(baliseTags') - tagStart') % (CountLimit + 1)
  BY <1>1
<1>5. UNCHANGED <<wayIndex, relationIndex, wayPoints, relMembers>>
  BY <1>1 DEF pointVars, memberVars
<1> QED BY <1>1, <1>3, <1>4, <1>5

\* A shape of another type.
LEMMA OtherWrites ==
  ASSUME CompilerAssumption, ShapeOther
  PROVE  /\ \E shape \in ShapeRecords : shape.type = "other" /\ ShapeRead(shape, 0)
         /\ UNCHANGED <<nodeIndex, wayIndex, relationIndex, wayPoints, relMembers>>
<1>1. PICK shape : shape = [type |-> "other", parts |-> << >>]
  OBVIOUS
<1>2. ShapeRead(shape, 0)
  BY <1>1 DEF ShapeOther
<1>3. << >> \in Parts
  BY DEF Parts
<1>4. shape \in ShapeRecords /\ shape.type = "other"
  BY <1>1, <1>3 DEF ShapeRecords
<1>5. UNCHANGED <<nodeIndex, wayIndex, relationIndex, wayPoints, relMembers>>
  BY DEF ShapeOther, recordVars, pointVars, memberVars
<1> QED BY <1>2, <1>4, <1>5

\* A shape of lines is one.
LEMMA LinesAre ==
  ASSUME CompilerAssumption, NEW s, NEW parts, NEW u, ShapeWalked(s, parts, u),
         NEW shape, shape = [type |-> "lines", parts |-> parts]
  PROVE  shape \in ShapeRecords /\ shape.type = "lines" /\ shape.parts = parts
<1>1. parts \in Parts
  BY DEF ShapeWalked, Points, Parts
<1> QED BY <1>1 DEF ShapeRecords

\* The invariant of the numbers of records.
CountsInv ==
  /\ Len(nodeIndex) = Len(TaggedNodes) + Len(ShapesOf("point"))
  /\ Len(document.ways) <= Len(wayIndex)
  /\ document.shapes = << >> => Len(document.ways) = Len(wayIndex)
  /\ Len(relationIndex) = Len(document.relations) + Len(ShapesOf("lines"))

\* All of them are lists.
LEMMA Lists ==
  ASSUME DocumentInv, RecordsInv
  PROVE  /\ IsList(nodeIndex) /\ IsList(wayIndex) /\ IsList(relationIndex)
         /\ IsList(document.nodes) /\ IsList(document.ways) /\ IsList(document.relations)
         /\ IsList(document.shapes)
         /\ IsList(TaggedNodes) /\ \A type : IsList(ShapesOf(type))
BY TaggedNodesAre, ShapesOfList
   DEF RecordsInv, NodesWithin, WaysWithin, RelationsWithin, IsList, DocumentInv, Documents

\* The length of a list with one element more.
LEMMA OneMore ==
  ASSUME NEW s, IsList(s), NEW e, NEW t, t = Append(s, e)
  PROVE  Len(t) = Len(s) + 1 /\ Len(s) \in Nat
BY ListAppend

\* The numbers after the end of an element.
LEMMA EndCounts ==
  ASSUME CompilerAssumption, DocumentInv, TagsInv, RecordsInv, CountsInv,
         EndNode \/ EndWay \/ EndRelation
  PROVE  CountsInv'
<1>1. PICK x, w, r, t, v, q, a, b :
        /\ x = nodeIndex /\ w = wayIndex /\ r = relationIndex /\ t = TaggedNodes
        /\ v = document.ways /\ q = document.relations /\ a = ShapesOf("point") /\ b = ShapesOf("lines")
  OBVIOUS
<1>2. IsList(x) /\ IsList(w) /\ IsList(r) /\ IsList(t) /\ IsList(v) /\ IsList(q) /\ IsList(a) /\ IsList(b)
  BY <1>1, Lists
<1>3. /\ Len(x) = Len(t) + Len(a) /\ Len(v) <= Len(w) /\ Len(r) = Len(q) + Len(b)
      /\ document.shapes = << >> => Len(v) = Len(w)
  BY <1>1 DEF CountsInv
<1>4. /\ Len(x) \in Nat /\ Len(w) \in Nat /\ Len(r) \in Nat /\ Len(t) \in Nat /\ Len(v) \in Nat
      /\ Len(q) \in Nat /\ Len(a) \in Nat /\ Len(b) \in Nat
  BY <1>2, ListIs
<1>5. [Next]_vars
  BY DEF Next
<1>6. CASE EndNode
  <2>1. /\ document'.ways = v /\ document'.relations = q /\ document'.shapes = document.shapes
    BY <1>1, <1>6, EndNodeReads
  <2>2. ShapesOf("point")' = a /\ ShapesOf("lines")' = b
    BY <1>1, <2>1, ShapesOfStay
  <2>3. wayIndex' = w /\ relationIndex' = r
    BY <1>1, <1>6, EndNodeWrites
  <2>4. PICK n, e : n \in Nodes /\ NodeWritten(n, e)
    BY <1>6, EndNodeWrites
  <2>5. \/ TaggedNodes' = t /\ nodeIndex' = x
        \/ TaggedNodes' = Append(t, n) /\ nodeIndex' = Append(x, e)
    BY <1>1, <2>4 DEF NodeWritten
  <2>6. Len(nodeIndex') = Len(TaggedNodes') + Len(a)
    <3>1. Len(Append(t, n)) = Len(t) + 1 /\ Len(Append(x, e)) = Len(x) + 1
      BY <1>2, OneMore
    <3> QED BY <1>3, <1>4, <2>5, <3>1
  <2> QED BY <1>3, <2>1, <2>2, <2>3, <2>6 DEF CountsInv
<1>7. CASE EndWay
  <2>1. PICK keys : WayRead(keys)
    BY <1>7 DEF EndWay
  <2>2. PICK n : document'.ways = Append(v, n)
    BY <1>1, <2>1, WayReads
  <2>3. /\ document'.nodes = document.nodes /\ document'.relations = q
        /\ document'.shapes = document.shapes
    BY <1>1, <2>1, WayReads
  <2>4. ShapesOf("point")' = a /\ ShapesOf("lines")' = b
    BY <1>1, <2>3, ShapesOfStay
  <2>5. nodeIndex' = x /\ relationIndex' = r /\ open.kind = "way" /\ \E e : wayIndex' = Append(w, e)
    BY <1>1, <2>1, WayWrites
  <2>6. PICK e : wayIndex' = Append(w, e)
    BY <2>5
  <2>7. TaggedNodes' = t
    BY <1>1, <1>5, <2>3, TaggedStay
  <2>8. /\ Len(document'.ways) <= Len(wayIndex')
        /\ document'.shapes = << >> => Len(document'.ways) = Len(wayIndex')
    <3>1. Len(Append(v, n)) = Len(v) + 1 /\ Len(Append(w, e)) = Len(w) + 1
      BY <1>2, OneMore
    <3> QED BY <1>3, <1>4, <2>2, <2>3, <2>6, <3>1
  <2> QED BY <1>3, <2>3, <2>4, <2>5, <2>7, <2>8 DEF CountsInv
<1>8. CASE EndRelation
  <2>1. PICK n : document'.relations = Append(q, n)
    BY <1>1, <1>8, EndRelationReads
  <2>2. /\ document'.nodes = document.nodes /\ document'.ways = v
        /\ document'.shapes = document.shapes
    BY <1>1, <1>8, EndRelationReads
  <2>3. ShapesOf("point")' = a /\ ShapesOf("lines")' = b
    BY <1>1, <2>2, ShapesOfStay
  <2>4. PICK e : relationIndex' = Append(r, e)
    BY <1>1, <1>8, EndRelationWrites
  <2>5. nodeIndex' = x /\ wayIndex' = w
    BY <1>1, <1>8, EndRelationWrites
  <2>6. TaggedNodes' = t
    BY <1>1, <1>5, <2>2, TaggedStay
  <2>7. Len(relationIndex') = Len(document'.relations) + Len(b)
    <3>1. Len(Append(q, n)) = Len(q) + 1 /\ Len(Append(r, e)) = Len(r) + 1
      BY <1>2, OneMore
    <3> QED BY <1>3, <1>4, <2>1, <2>4, <3>1
  <2> QED BY <1>3, <2>2, <2>3, <2>5, <2>6, <2>7 DEF CountsInv
<1> QED BY <1>6, <1>7, <1>8

\* The numbers after a shape.
LEMMA ShapeCounts ==
  ASSUME CompilerAssumption, DocumentInv, TagsInv, RecordsInv, CountsInv,
         ShapePoint \/ ShapeLines \/ ShapeOther
  PROVE  CountsInv'
<1>1. PICK x, w, r, t, v, q, a, b :
        /\ x = nodeIndex /\ w = wayIndex /\ r = relationIndex /\ t = TaggedNodes
        /\ v = document.ways /\ q = document.relations /\ a = ShapesOf("point") /\ b = ShapesOf("lines")
  OBVIOUS
<1>2. IsList(x) /\ IsList(w) /\ IsList(r) /\ IsList(t) /\ IsList(v) /\ IsList(q) /\ IsList(a) /\ IsList(b)
  BY <1>1, Lists
<1>3. /\ Len(x) = Len(t) + Len(a) /\ Len(v) <= Len(w) /\ Len(r) = Len(q) + Len(b)
  BY <1>1 DEF CountsInv
<1>4. /\ Len(x) \in Nat /\ Len(w) \in Nat /\ Len(r) \in Nat /\ Len(t) \in Nat /\ Len(v) \in Nat
      /\ Len(q) \in Nat /\ Len(a) \in Nat /\ Len(b) \in Nat
  BY <1>2, ListIs
<1>5. [Next]_vars
  BY DEF Next
<1>6. ASSUME NEW shape \in ShapeRecords, NEW n, ShapeRead(shape, n)
      PROVE  /\ TaggedNodes' = t /\ document'.ways = v /\ document'.relations = q
             /\ document'.shapes # << >>
             /\ ShapesOf("point")' = IF shape.type = "point" THEN Append(a, Len(document.shapes) + 1) ELSE a
             /\ ShapesOf("lines")' = IF shape.type = "lines" THEN Append(b, Len(document.shapes) + 1) ELSE b
  <2>1. /\ document'.shapes = Append(document.shapes, shape)
        /\ document'.nodes = document.nodes /\ document'.ways = v /\ document'.relations = q
    BY <1>1, <1>6, ShapeReads
  <2>2. TaggedNodes' = t
    BY <1>1, <1>5, <2>1, TaggedStay
  <2>3. document'.shapes # << >>
    <3>1. PICK s : s = document.shapes /\ s \in Seq(ShapeRecords)
      BY DEF DocumentInv, Documents
    <3>2. Len(Append(s, shape)) = Len(s) + 1 /\ Len(s) \in Nat
      BY <3>1
    <3>3. Append(s, shape) # << >>
      BY <3>2
    <3> QED BY <2>1, <3>1, <3>3
  <2> QED BY <1>1, <1>6, <2>1, <2>2, <2>3, ShapesOfRead
<1>7. CASE ShapePoint
  <2>1. PICK shape, e : /\ shape \in ShapeRecords /\ shape.type = "point" /\ ShapeRead(shape, 1)
                          /\ nodeIndex' = Append(x, e)
                          /\ wayIndex' = w /\ relationIndex' = r
    BY <1>1, <1>7, PointWrites
  <2>2. PICK n : ShapesOf("point")' = Append(a, n)
    BY <1>6, <2>1
  <2>3. /\ TaggedNodes' = t /\ document'.ways = v /\ document'.relations = q
        /\ document'.shapes # << >> /\ ShapesOf("lines")' = b
    <3>1. "point" # "lines"
      OBVIOUS
    <3> QED BY <1>6, <2>1, <3>1
  <2>4. Len(nodeIndex') = Len(t) + Len(ShapesOf("point")')
    <3>1. Len(Append(a, n)) = Len(a) + 1 /\ Len(Append(x, e)) = Len(x) + 1
      BY <1>2, OneMore
    <3>2. Len(nodeIndex') = Len(x) + 1 /\ Len(ShapesOf("point")') = Len(a) + 1
      BY ONLY <2>1, <2>2, <3>1
    <3> QED BY <1>3, <1>4, <3>2
  <2> QED BY <1>3, <2>1, <2>3, <2>4 DEF CountsInv
<1>8. CASE ShapeLines
  <2>1. PICK s, u, parts, e : /\ ShapeWalked(s, parts, u)
                              /\ ShapeRead([type |-> "lines", parts |-> parts], 1)
                              /\ wayIndex' = u.ways /\ relationIndex' = Append(r, e)
                              /\ nodeIndex' = x
    BY <1>1, <1>8, LinesWrite
  <2>2. PICK shape : shape = [type |-> "lines", parts |-> parts]
    OBVIOUS
  <2>3. shape \in ShapeRecords /\ shape.type = "lines" /\ ShapeRead(shape, 1)
    BY <2>1, <2>2, LinesAre
  <2>4. PICK n : ShapesOf("lines")' = Append(b, n)
    BY <1>6, <2>3
  <2>5. /\ TaggedNodes' = t /\ document'.ways = v /\ document'.relations = q
        /\ document'.shapes # << >> /\ ShapesOf("point")' = a
    <3>1. "point" # "lines"
      OBVIOUS
    <3> QED BY <1>6, <2>3, <3>1
  <2>6. Len(relationIndex') = Len(q) + Len(ShapesOf("lines")')
    <3>1. Len(Append(b, n)) = Len(b) + 1 /\ Len(Append(r, e)) = Len(r) + 1
      BY <1>2, OneMore
    <3> QED BY <1>3, <1>4, <2>1, <2>4, <3>1
  <2>7. Len(v) <= Len(wayIndex')
    <3>1. PICK k : k = Len(baliseTags)
      OBVIOUS
    <3>2. k \in Nat /\ WaysWithin(wayIndex, k, Len(wayPoints))
      BY <3>1, RawLengths DEF RecordsInv
    <3>3. Len(u.ways) - Len(wayIndex) \in Nat
      BY <2>1, <3>2, WalkWithin
    <3>4. Len(u.ways) \in Nat
      <4>1. IsList(u.ways)
        BY <2>1 DEF ShapeWalked
      <4> QED BY <4>1, ListIs
    <3> QED BY <1>1, <1>3, <1>4, <2>1, <3>3, <3>4
  <2> QED BY <1>3, <2>1, <2>5, <2>6, <2>7 DEF CountsInv
<1>9. CASE ShapeOther
  <2>1. PICK shape \in ShapeRecords : shape.type = "other" /\ ShapeRead(shape, 0)
    BY <1>9, OtherWrites
  <2>2. nodeIndex' = x /\ wayIndex' = w /\ relationIndex' = r
    BY <1>1, <1>9, OtherWrites
  <2>3. /\ TaggedNodes' = t /\ document'.ways = v /\ document'.relations = q
        /\ document'.shapes # << >> /\ ShapesOf("lines")' = b /\ ShapesOf("point")' = a
    <3>1. "other" # "lines" /\ "other" # "point"
      OBVIOUS
    <3> QED BY <1>6, <2>1, <3>1
  <2> QED BY <1>3, <2>2, <2>3 DEF CountsInv
<1> QED BY <1>7, <1>8, <1>9

\* The numbers are those of the elements that have ended and the shapes.
LEMMA CountsInvariance ==
  ASSUME CompilerAssumption
  PROVE  Spec => []CountsInv
<1>1. Init => CountsInv
  <2> SUFFICES ASSUME Init PROVE CountsInv
    OBVIOUS
  <2>1. /\ nodeIndex = << >> /\ wayIndex = << >> /\ relationIndex = << >>
        /\ document.nodes = << >> /\ document.ways = << >> /\ document.relations = << >>
        /\ document.shapes = << >>
    BY DEF Init
  <2>2. ShapesOf("point") = << >> /\ ShapesOf("lines") = << >>
    BY <2>1, ShapesInNone, ShapesOfAre
  <2>3. TaggedNodes = << >>
    BY <2>1, ThoseEmpty DEF TaggedNodes
  <2>4. Len(<< >>) = 0
    OBVIOUS
  <2> QED BY <2>1, <2>2, <2>3, <2>4 DEF CountsInv
<1>2. DocumentInv /\ TagsInv /\ RecordsInv /\ CountsInv /\ [Next]_vars => CountsInv'
  <2> SUFFICES ASSUME DocumentInv, TagsInv, RecordsInv, CountsInv, [Next]_vars PROVE CountsInv'
    OBVIOUS
  <2>1. CASE Quiet
    <3>1. TaggedNodes' = TaggedNodes
      BY <2>1, TaggedStay DEF Quiet
    <3>2. ShapesOf("point")' = ShapesOf("point") /\ ShapesOf("lines")' = ShapesOf("lines")
      BY <2>1, ShapesOfStay DEF Quiet
    <3> QED BY <2>1, <3>1, <3>2 DEF Quiet, CountsInv
  <2> QED BY <2>1, QuietSteps, EndCounts, ShapeCounts
<1> QED BY <1>1, <1>2, DocumentInvariance, TagsInvariance, RecordsInvariance, PTL DEF Spec
-----------------------------------------------------------------------------
(* The records of the elements. *)

\* Two lists and two that go on from them: what stands in both at one place has stood
\* there before, or it is new in both.
Beside(s, x, t, y, new) ==
  \A i \in DOMAIN t : \/ i \in DOMAIN s /\ t[i] = s[i] /\ y[i] = x[i]
                      \/ <<t[i], y[i]>> \in new

\* One of the lists stays.
LEMMA BesideStays ==
  ASSUME NEW s, IsList(s), NEW x, IsList(x), NEW y, Extends(x, y), Len(s) <= Len(x)
  PROVE  Beside(s, x, s, y, {})
<1>1. /\ DOMAIN s = 1 .. Len(s) /\ Len(s) \in Nat /\ DOMAIN x = 1 .. Len(x) /\ Len(x) \in Nat
  BY ListIs
<1>2. \A i \in DOMAIN s : i \in DOMAIN x
  BY <1>1
<1> QED BY <1>2 DEF Beside, Extends

\* Both lists become longer.
LEMMA BesideGrows ==
  ASSUME NEW s, IsList(s), NEW x, IsList(x), NEW e, NEW r, Len(s) = Len(x),
         NEW t, t = Append(s, e), NEW y, y = Append(x, r)
  PROVE  Beside(s, x, t, y, {<<e, r>>})
<1>1. /\ DOMAIN t = 1 .. Len(s) + 1 /\ DOMAIN s = 1 .. Len(s) /\ Len(s) \in Nat
      /\ \A i \in 1 .. Len(s) : t[i] = s[i]
      /\ t[Len(s) + 1] = e
  BY ListAppend
<1>2. /\ \A i \in 1 .. Len(x) : y[i] = x[i]
      /\ y[Len(x) + 1] = r
  BY ListAppend
<1>3. \A i \in DOMAIN t : i \in 1 .. Len(s) \/ i = Len(s) + 1
  BY <1>1
<1> QED BY <1>1, <1>2, <1>3 DEF Beside

\* What a record says of a node, of a way and of a relation.
NodeRight(n, r, bytes) == r.place = Place[n.id] /\ HasTags(r, bytes, NodeOwner(n))
WayRight(w, r, bytes) == HasTags(r, bytes, [kind |-> "way", id |-> w.id])
RelationRight(n, r, bytes) == HasTags(r, bytes, [kind |-> "relation", id |-> n.id])

\* RecordsAreTheirOwn, by these.
LEMMA OwnRecords ==
  RecordsAreTheirOwn <=>
    /\ \A i \in DOMAIN TaggedNodes : NodeRight(TaggedNodes[i], nodeIndex[i], baliseTags)
    /\ \A i \in DOMAIN document.ways : WayRight(document.ways[i], wayIndex[i], baliseTags)
    /\ \A i \in DOMAIN document.relations :
         RelationRight(document.relations[i], relationIndex[i], baliseTags)
<1>1. \A r, n : HasTagsOf(r, [kind |-> "node", id |-> n.id]) <=> HasTags(r, baliseTags, NodeOwner(n))
  BY TagsOfAre DEF NodeOwner
<1>2. \A r, w : HasTagsOf(r, [kind |-> "way", id |-> w.id])
                  <=> HasTags(r, baliseTags, [kind |-> "way", id |-> w.id])
  BY TagsOfAre
<1>3. \A r, n : HasTagsOf(r, [kind |-> "relation", id |-> n.id])
                  <=> HasTags(r, baliseTags, [kind |-> "relation", id |-> n.id])
  BY TagsOfAre
<1> QED BY <1>1, <1>2, <1>3, Zenon DEF RecordsAreTheirOwn, NodeRight, WayRight, RelationRight

\* The same of the next state.
LEMMA OwnRecordsNext ==
  RecordsAreTheirOwn' <=>
    /\ \A i \in DOMAIN TaggedNodes' : NodeRight(TaggedNodes'[i], nodeIndex'[i], baliseTags')
    /\ \A i \in DOMAIN document'.ways : WayRight(document'.ways[i], wayIndex'[i], baliseTags')
    /\ \A i \in DOMAIN document'.relations :
         RelationRight(document'.relations[i], relationIndex'[i], baliseTags')
<1>1. \A r, owner : HasTagsOf(r, owner)' <=> HasTags(r, baliseTags', owner)
  BY Zenon DEF HasTagsOf, HasTags, BytesOf, OwnedIn
<1> QED BY <1>1, Zenon DEF RecordsAreTheirOwn, NodeRight, WayRight, RelationRight, NodeOwner

\* The nodes with tags are past.
LEMMA TaggedArePast ==
  ASSUME DocumentInv
  PROVE  \A i \in DOMAIN TaggedNodes : Past(NodeOwner(TaggedNodes[i]))
<1>1. DOMAIN TaggedNodes = 1 .. Len(TaggedNodes)
  BY TaggedNodesAre, LenProperties
<1> QED BY <1>1, TaggedNodesAre, NodesArePast

\* The records that there were remain right.
LEMMA OldRecords ==
  ASSUME CompilerAssumption, DocumentInv, TagsInv, RecordsAreTheirOwn, [Next]_vars
  PROVE  /\ \A i \in DOMAIN TaggedNodes : NodeRight(TaggedNodes[i], nodeIndex[i], baliseTags')
         /\ \A i \in DOMAIN document.ways : WayRight(document.ways[i], wayIndex[i], baliseTags')
         /\ \A i \in DOMAIN document.relations :
              RelationRight(document.relations[i], relationIndex[i], baliseTags')
<1>1. ASSUME NEW i \in DOMAIN TaggedNodes
      PROVE  NodeRight(TaggedNodes[i], nodeIndex[i], baliseTags')
  <2>1. PICK n, r, o : n = TaggedNodes[i] /\ r = nodeIndex[i] /\ o = NodeOwner(n)
    OBVIOUS
  <2>2. Past(o)
    BY <2>1, TaggedArePast
  <2>3. r.place = Place[n.id] /\ HasTags(r, baliseTags, o)
    BY <2>1, OwnRecords DEF NodeRight
  <2>4. HasTags(r, baliseTags', o)
    BY <2>2, <2>3, TagsKept
  <2> QED BY <2>1, <2>3, <2>4 DEF NodeRight
<1>2. ASSUME NEW i \in DOMAIN document.ways
      PROVE  WayRight(document.ways[i], wayIndex[i], baliseTags')
  <2>1. PICK n, r, o : n = document.ways[i] /\ r = wayIndex[i] /\ o = [kind |-> "way", id |-> n.id]
    OBVIOUS
  <2>2. Past(o)
    <3>1. o.kind = "way" /\ o.id = document.ways[i].id
      BY <2>1
    <3> QED BY <3>1 DEF Past
  <2>3. HasTags(r, baliseTags, o)
    BY <2>1, OwnRecords DEF WayRight
  <2>4. HasTags(r, baliseTags', o)
    BY <2>2, <2>3, TagsKept
  <2> QED BY <2>1, <2>4 DEF WayRight
<1>3. ASSUME NEW i \in DOMAIN document.relations
      PROVE  RelationRight(document.relations[i], relationIndex[i], baliseTags')
  <2>1. PICK n, r, o : /\ n = document.relations[i] /\ r = relationIndex[i]
                       /\ o = [kind |-> "relation", id |-> n.id]
    OBVIOUS
  <2>2. Past(o)
    <3>1. o.kind = "relation" /\ o.id = document.relations[i].id
      BY <2>1
    <3> QED BY <3>1 DEF Past
  <2>3. HasTags(r, baliseTags, o)
    BY <2>1, OwnRecords DEF RelationRight
  <2>4. HasTags(r, baliseTags', o)
    BY <2>2, <2>3, TagsKept
  <2> QED BY <2>1, <2>4 DEF RelationRight
<1> QED BY <1>1, <1>2, <1>3

\* What a step adds to the elements and to the records: new records are right.
RecordsGrow ==
  /\ \E new : /\ Beside(TaggedNodes, nodeIndex, TaggedNodes', nodeIndex', new)
              /\ \A p \in new : NodeRight(p[1], p[2], baliseTags')
  /\ \E new : /\ Beside(document.ways, wayIndex, document'.ways, wayIndex', new)
              /\ \A p \in new : WayRight(p[1], p[2], baliseTags')
  /\ \E new : /\ Beside(document.relations, relationIndex, document'.relations, relationIndex', new)
              /\ \A p \in new : RelationRight(p[1], p[2], baliseTags')

\* A list goes on from itself.
LEMMA ExtendsSame ==
  ASSUME NEW s
  PROVE  Extends(s, s)
BY DEF Extends

\* The lists of elements are not longer than those of records.
LEMMA CountsAre ==
  ASSUME DocumentInv, RecordsInv, CountsInv
  PROVE  /\ Len(TaggedNodes) <= Len(nodeIndex) /\ Len(document.ways) <= Len(wayIndex)
         /\ Len(document.relations) <= Len(relationIndex)
         /\ document.shapes = << >> =>
              /\ Len(TaggedNodes) = Len(nodeIndex) /\ Len(document.ways) = Len(wayIndex)
              /\ Len(document.relations) = Len(relationIndex)
<1>1. PICK a, b : a = ShapesOf("point") /\ b = ShapesOf("lines")
  OBVIOUS
<1>2. IsList(a) /\ IsList(b)
  BY <1>1, Lists
<1>3. /\ Len(a) \in Nat /\ Len(b) \in Nat /\ Len(TaggedNodes) \in Nat
      /\ Len(document.relations) \in Nat
  BY <1>2, Lists, ListIs
<1>4. /\ Len(nodeIndex) = Len(TaggedNodes) + Len(a)
      /\ Len(relationIndex) = Len(document.relations) + Len(b)
      /\ Len(document.ways) <= Len(wayIndex)
      /\ document.shapes = << >> => Len(document.ways) = Len(wayIndex)
  BY <1>1 DEF CountsInv
<1>5. document.shapes = << >> => a = << >> /\ b = << >>
  BY <1>1, ShapesOfList
<1>6. Len(<< >>) = 0
  OBVIOUS
<1>7. document.shapes = << >> => Len(a) = 0 /\ Len(b) = 0
  BY <1>5, <1>6
<1> QED BY <1>3, <1>4, <1>7

\* A step after which the elements are the same.
LEMMA SameElements ==
  ASSUME CompilerAssumption, DocumentInv, RecordsInv, CountsInv,
         TaggedNodes' = TaggedNodes, document'.ways = document.ways,
         document'.relations = document.relations,
         Extends(nodeIndex, nodeIndex'), Extends(wayIndex, wayIndex'),
         Extends(relationIndex, relationIndex')
  PROVE  RecordsGrow
<1>1. Beside(TaggedNodes, nodeIndex, TaggedNodes', nodeIndex', {})
  <2>1. PICK s, x, y : s = TaggedNodes /\ x = nodeIndex /\ y = nodeIndex'
    OBVIOUS
  <2>2. IsList(s) /\ IsList(x) /\ Extends(x, y) /\ Len(s) <= Len(x)
    BY <2>1, Lists, CountsAre
  <2> QED BY <2>1, <2>2, BesideStays
<1>2. Beside(document.ways, wayIndex, document'.ways, wayIndex', {})
  <2>1. PICK s, x, y : s = document.ways /\ x = wayIndex /\ y = wayIndex'
    OBVIOUS
  <2>2. IsList(s) /\ IsList(x) /\ Extends(x, y) /\ Len(s) <= Len(x)
    BY <2>1, Lists, CountsAre
  <2> QED BY <2>1, <2>2, BesideStays
<1>3. Beside(document.relations, relationIndex, document'.relations, relationIndex', {})
  <2>1. PICK s, x, y : s = document.relations /\ x = relationIndex /\ y = relationIndex'
    OBVIOUS
  <2>2. IsList(s) /\ IsList(x) /\ Extends(x, y) /\ Len(s) <= Len(x)
    BY <2>1, Lists, CountsAre
  <2> QED BY <2>1, <2>2, BesideStays
<1> QED BY <1>1, <1>2, <1>3 DEF RecordsGrow

\* The indexes go on after a shape.
LEMMA ShapesExtend ==
  ASSUME CompilerAssumption, DocumentInv, TagsInv, RecordsInv, ShapePoint \/ ShapeLines \/ ShapeOther
  PROVE  /\ Extends(nodeIndex, nodeIndex') /\ Extends(wayIndex, wayIndex')
         /\ Extends(relationIndex, relationIndex') /\ Extends(wayPoints, wayPoints')
         /\ Extends(relMembers, relMembers')
         /\ TaggedNodes' = TaggedNodes /\ document'.ways = document.ways
         /\ document'.relations = document.relations
<1>1. PICK x, w, r, m : x = nodeIndex /\ w = wayIndex /\ r = relationIndex /\ m = relMembers
  OBVIOUS
<1>2. IsList(x) /\ IsList(w) /\ IsList(r) /\ IsList(m)
  BY <1>1, Lists DEF RecordsInv
<1>3. /\ TaggedNodes' = TaggedNodes /\ document'.ways = document.ways
      /\ document'.relations = document.relations
  <2>1. PICK shape \in ShapeRecords, n \in {0, 1} : ShapeRead(shape, n)
    BY ShapesReadAre
  <2>2. /\ document'.nodes = document.nodes /\ document'.ways = document.ways
        /\ document'.relations = document.relations
    BY <2>1, ShapeReads
  <2>3. [Next]_vars
    BY DEF Next
  <2> QED BY <2>2, <2>3, TaggedStay
<1>4. CASE ShapePoint
  <2>1. PICK e : nodeIndex' = Append(x, e)
                 /\ UNCHANGED <<wayIndex, relationIndex, wayPoints, relMembers>>
    BY <1>1, <1>4, PointWrites
  <2>2. Extends(x, Append(x, e))
    BY <1>2, ListAppend
  <2> QED BY <1>1, <1>3, <2>1, <2>2, ExtendsSame
<1>5. CASE ShapeLines
  <2>1. PICK s, u, parts, added, more, e :
          /\ ShapeWalked(s, parts, u) /\ added = Len(u.ways) - Len(wayIndex)
          /\ wayIndex' = u.ways /\ wayPoints' = u.points /\ relationIndex' = Append(r, e)
          /\ relMembers' = m \o more /\ nodeIndex' = x
          /\ more = [i \in 1 .. added |-> [type |-> "way", id |-> Len(wayIndex) + i - 1, named |-> 0]]
    BY <1>1, <1>5, LinesWrite
  <2>2. Extends(r, Append(r, e))
    BY <1>2, ListAppend
  <2>3. Extends(wayIndex, u.ways) /\ Extends(wayPoints, u.points)
    BY <2>1 DEF ShapeWalked, ShapeInv
  <2>4. added \in Nat
    <3>1. PICK k : k = Len(baliseTags)
      OBVIOUS
    <3>2. k \in Nat /\ WaysWithin(wayIndex, k, Len(wayPoints))
      BY <3>1, RawLengths DEF RecordsInv
    <3> QED BY <2>1, <3>2, WalkWithin
  <2>5. IsList(more)
    <3>1. more = [i \in 1 .. added |-> more[i]]
      BY <2>1
    <3> QED BY <2>4, <3>1, ListOf
  <2>6. Extends(m, m \o more)
    BY <1>2, <2>5, ListConcat
  <2> QED BY <1>1, <1>3, <2>1, <2>2, <2>3, <2>6, ExtendsSame
<1>6. CASE ShapeOther
  BY <1>3, <1>6, OtherWrites, ExtendsSame
<1> QED BY <1>4, <1>5, <1>6

\* The records of the elements that end.
LEMMA EndsGrow ==
  ASSUME CompilerAssumption, DocumentInv, TagsInv, RecordsInv, CountsInv,
         EndNode \/ EndWay \/ EndRelation
  PROVE  RecordsGrow
<1>1. PICK x, w, r, t, v, q :
        /\ x = nodeIndex /\ w = wayIndex /\ r = relationIndex /\ t = TaggedNodes
        /\ v = document.ways /\ q = document.relations
  OBVIOUS
<1>2. /\ IsList(x) /\ IsList(w) /\ IsList(r) /\ IsList(t) /\ IsList(v) /\ IsList(q)
  BY <1>1, Lists
<1>3. /\ open # Nothing
      /\ Len(t) = Len(x) /\ Len(v) = Len(w) /\ Len(q) = Len(r)
      /\ Len(t) <= Len(x) /\ Len(v) <= Len(w) /\ Len(q) <= Len(r)
  <2>1. open # Nothing
    <3>1. open.kind = "node" \/ open.kind = "way" \/ open.kind = "relation"
      BY DEF EndNode, EndWay, WayRead, EndRelation
    <3>2. Nothing.kind = "none"
      BY DEF Nothing
    <3> QED BY <3>1, <3>2
  <2>2. document.shapes = << >>
    BY <2>1 DEF DocumentInv, OpenInv
  <2> QED BY <1>1, <2>1, <2>2, CountsAre
<1>4. Beside(t, x, t, x, {}) /\ Beside(v, w, v, w, {}) /\ Beside(q, r, q, r, {})
  BY <1>2, <1>3, BesideStays, ExtendsSame
<1>5. [Next]_vars
  BY DEF Next
<1>6. CASE EndNode
  <2>1. PICK n, e : n \in Nodes /\ NodeWritten(n, e)
    BY <1>6, EndNodeWrites
  <2>2. /\ wayIndex' = w /\ relationIndex' = r /\ document'.ways = v /\ document'.relations = q
    BY <1>1, <1>6, EndNodeWrites, EndNodeReads
  <2>3. \E new : /\ Beside(t, x, TaggedNodes', nodeIndex', new)
                 /\ \A p \in new : NodeRight(p[1], p[2], baliseTags')
    <3>1. CASE TaggedNodes' = t /\ nodeIndex' = x
      BY <1>4, <3>1
    <3>2. CASE /\ TaggedNodes' = Append(t, n) /\ nodeIndex' = Append(x, e)
               /\ e.place = Place[n.id] /\ HasTags(e, baliseTags', NodeOwner(n))
      <4>1. Beside(t, x, TaggedNodes', nodeIndex', {<<n, e>>})
        BY <1>2, <1>3, <3>2, BesideGrows
      <4>2. NodeRight(n, e, baliseTags')
        BY <3>2 DEF NodeRight
      <4> QED BY <4>1, <4>2
    <3> QED BY <1>1, <2>1, <3>1, <3>2 DEF NodeWritten
  <2> QED BY <1>1, <1>4, <2>2, <2>3 DEF RecordsGrow
<1>7. CASE EndWay
  <2>1. PICK keys : WayRead(keys)
    BY <1>7 DEF EndWay
  <2>2. PICK n : n = [id |-> open.id, refs |-> refs]
    OBVIOUS
  <2>3. /\ document'.ways = Append(v, n)
        /\ document'.nodes = document.nodes /\ document'.relations = q
    BY <1>1, <2>1, <2>2, WayReads
  <2>4. PICK e : /\ wayIndex' = Append(w, e)
                 /\ e.tstart = tagStart /\ e.tsize = SizeFrom(tagStart, baliseTags)
    BY <1>1, <2>1, WayWrites
  <2>5. nodeIndex' = x /\ relationIndex' = r /\ baliseTags' = baliseTags /\ open.kind = "way"
    BY <1>1, <2>1, WayWrites
  <2>6. TaggedNodes' = t
    BY <1>1, <1>5, <2>3, TaggedStay
  <2>7. Beside(v, w, document'.ways, wayIndex', {<<n, e>>})
    BY <1>2, <1>3, <2>3, <2>4, BesideGrows
  <2>8. WayRight(n, e, baliseTags')
    <3>1. HasTags(e, baliseTags, open)
      BY <1>3, <2>4, EndsWithTags
    <3>2. open = [kind |-> "way", id |-> n.id]
      BY <2>2, <2>5, OpenIds DEF DocumentInv
    <3> QED BY <2>5, <3>1, <3>2 DEF WayRight
  <2> QED BY <1>1, <1>4, <2>3, <2>5, <2>6, <2>7, <2>8 DEF RecordsGrow
<1>8. CASE EndRelation
  <2>1. PICK n : n = [id |-> open.id, members |-> document.members]
    OBVIOUS
  <2>2. /\ document'.relations = Append(q, n)
        /\ document'.nodes = document.nodes /\ document'.ways = v
    BY <1>1, <1>8, <2>1, EndRelationReads
  <2>3. PICK e : /\ relationIndex' = Append(r, e)
                 /\ e.tstart = tagStart /\ e.tsize = SizeFrom(tagStart, baliseTags)
    BY <1>1, <1>8, EndRelationWrites
  <2>4. nodeIndex' = x /\ wayIndex' = w /\ baliseTags' = baliseTags /\ open.kind = "relation"
    BY <1>1, <1>8, EndRelationWrites
  <2>5. TaggedNodes' = t
    BY <1>1, <1>5, <2>2, TaggedStay
  <2>6. Beside(q, r, document'.relations, relationIndex', {<<n, e>>})
    BY <1>2, <1>3, <2>2, <2>3, BesideGrows
  <2>7. RelationRight(n, e, baliseTags')
    <3>1. HasTags(e, baliseTags, open)
      BY <1>3, <2>3, EndsWithTags
    <3>2. open = [kind |-> "relation", id |-> n.id]
      BY <2>1, <2>4, OpenIds DEF DocumentInv
    <3> QED BY <2>4, <3>1, <3>2 DEF RelationRight
  <2> QED BY <1>1, <1>4, <2>2, <2>4, <2>5, <2>6, <2>7 DEF RecordsGrow
<1> QED BY <1>6, <1>7, <1>8

\* The records of nodes, ways and relations stand for these one by one, and each has the
\* tags of its own element and no others, however elements with and without tags follow
\* each other.
THEOREM RecordsOwn ==
  ASSUME CompilerAssumption
  PROVE  Spec => []RecordsAreTheirOwn
<1>1. Init => RecordsAreTheirOwn
  <2> SUFFICES ASSUME Init PROVE RecordsAreTheirOwn
    OBVIOUS
  <2>1. document.nodes = << >> /\ document.ways = << >> /\ document.relations = << >>
    BY DEF Init
  <2>2. TaggedNodes = << >>
    BY <2>1, ThoseEmpty DEF TaggedNodes
  <2>3. DOMAIN << >> = {}
    OBVIOUS
  <2> QED BY <2>1, <2>2, <2>3 DEF RecordsAreTheirOwn
<1>2. DocumentInv /\ TagsInv /\ RecordsInv /\ CountsInv /\ RecordsAreTheirOwn /\ [Next]_vars
        => RecordsAreTheirOwn'
  <2> SUFFICES ASSUME DocumentInv, TagsInv, RecordsInv, CountsInv, RecordsAreTheirOwn, [Next]_vars
               PROVE  RecordsAreTheirOwn'
    OBVIOUS
  <2>1. RecordsGrow
    <3>1. CASE Quiet
      <4>1. TaggedNodes' = TaggedNodes
        BY <3>1, TaggedStay DEF Quiet
      <4>2. /\ document'.ways = document.ways /\ document'.relations = document.relations
            /\ Extends(nodeIndex, nodeIndex') /\ Extends(wayIndex, wayIndex')
            /\ Extends(relationIndex, relationIndex')
        BY <3>1, ExtendsSame DEF Quiet
      <4> QED BY <4>1, <4>2, SameElements
    <3>2. CASE ShapePoint \/ ShapeLines \/ ShapeOther
      BY <3>2, ShapesExtend, SameElements
    <3> QED BY <3>1, <3>2, QuietSteps, EndsGrow
  <2>2. \A i \in DOMAIN TaggedNodes' : NodeRight(TaggedNodes'[i], nodeIndex'[i], baliseTags')
    <3>1. PICK new : /\ Beside(TaggedNodes, nodeIndex, TaggedNodes', nodeIndex', new)
                     /\ \A p \in new : NodeRight(p[1], p[2], baliseTags')
      BY <2>1 DEF RecordsGrow
    <3>2. \A a, b : <<a, b>> \in new => NodeRight(a, b, baliseTags')
      BY <3>1
    <3> QED BY <3>1, <3>2, OldRecords DEF Beside
  <2>3. \A i \in DOMAIN document'.ways : WayRight(document'.ways[i], wayIndex'[i], baliseTags')
    <3>1. PICK new : /\ Beside(document.ways, wayIndex, document'.ways, wayIndex', new)
                     /\ \A p \in new : WayRight(p[1], p[2], baliseTags')
      BY <2>1 DEF RecordsGrow
    <3>2. \A a, b : <<a, b>> \in new => WayRight(a, b, baliseTags')
      BY <3>1
    <3> QED BY <3>1, <3>2, OldRecords DEF Beside
  <2>4. \A i \in DOMAIN document'.relations :
          RelationRight(document'.relations[i], relationIndex'[i], baliseTags')
    <3>1. PICK new : /\ Beside(document.relations, relationIndex, document'.relations, relationIndex', new)
                     /\ \A p \in new : RelationRight(p[1], p[2], baliseTags')
      BY <2>1 DEF RecordsGrow
    <3>2. \A a, b : <<a, b>> \in new => RelationRight(a, b, baliseTags')
      BY <3>1
    <3> QED BY <3>1, <3>2, OldRecords DEF Beside
  <2> QED BY <2>2, <2>3, <2>4, OwnRecordsNext
<1> QED BY <1>1, <1>2, DocumentInvariance, TagsInvariance, RecordsInvariance, CountsInvariance, PTL
    DEF Spec
-----------------------------------------------------------------------------
(* The attributes of the shapes. *)

ShapeOwner(n) == [kind |-> "shape", id |-> n]

\* The records of the shapes of a type, behind k others, stay.
LEMMA ShapeStays ==
  ASSUME NEW a, IsList(a), NEW x, IsList(x), NEW k \in Nat, Len(x) = k + Len(a), NEW y, Extends(x, y)
  PROVE  \A n \in DOMAIN a : k + n \in DOMAIN x /\ y[k + n] = x[k + n]
<1>1. DOMAIN a = 1 .. Len(a) /\ Len(a) \in Nat /\ DOMAIN x = 1 .. Len(x)
  BY ListIs
<1>2. \A n \in DOMAIN a : k + n \in DOMAIN x
  BY <1>1
<1> QED BY <1>2 DEF Extends

\* The record of one shape more.
ShapeAdded(a, x, k, e, r, b, y) ==
  \A n \in DOMAIN b : \/ n \in DOMAIN a /\ b[n] = a[n] /\ y[k + n] = x[k + n]
                      \/ n = Len(a) + 1 /\ b[n] = e /\ y[k + n] = r

\* It is behind the others.
LEMMA ShapeAdds ==
  ASSUME NEW a, IsList(a), NEW x, IsList(x), NEW k \in Nat, Len(x) = k + Len(a),
         NEW e, NEW r, NEW b, b = Append(a, e), NEW y, y = Append(x, r)
  PROVE  ShapeAdded(a, x, k, e, r, b, y)
<1>1. /\ DOMAIN b = 1 .. Len(a) + 1 /\ DOMAIN a = 1 .. Len(a) /\ Len(a) \in Nat
      /\ \A i \in 1 .. Len(a) : b[i] = a[i]
      /\ b[Len(a) + 1] = e
  BY ListAppend
<1>2. y[Len(x) + 1] = r /\ Extends(x, y) /\ DOMAIN x = 1 .. Len(x)
  BY ListAppend
<1>3. \A n \in DOMAIN a : y[k + n] = x[k + n]
  BY <1>2, ShapeStays
<1>4. \A n \in DOMAIN b : n \in DOMAIN a \/ n = Len(a) + 1
  BY <1>1
<1>5. k + (Len(a) + 1) = Len(x) + 1
  BY <1>1
<1> QED BY <1>1, <1>2, <1>3, <1>4, <1>5 DEF ShapeAdded

\* AttributesAreTheirs, in these words.
LEMMA Attributes ==
  AttributesAreTheirs <=>
    (ShapesOf("other") = << >> /\ ShapeTags <= CountLimit =>
       /\ \A n \in DOMAIN ShapesOf("lines") :
            HasTags(relationIndex[Len(document.relations) + n], baliseTags,
                    ShapeOwner(ShapesOf("lines")[n]))
       /\ \A n \in DOMAIN ShapesOf("point") :
            HasTags(nodeIndex[Len(TaggedNodes) + n], baliseTags,
                    ShapeOwner(ShapesOf("point")[n])))
<1>1. \A r, owner : HasTagsOf(r, owner) <=> HasTags(r, baliseTags, owner)
  BY TagsOfAre
<1> QED BY <1>1, Zenon DEF AttributesAreTheirs, RelationOfShape, PointOfShape, ShapeOwner

\* The same of the next state.
LEMMA AttributesNext ==
  AttributesAreTheirs' <=>
    (ShapesOf("other")' = << >> /\ ShapeTags <= CountLimit =>
       /\ \A n \in DOMAIN ShapesOf("lines")' :
            HasTags(relationIndex'[Len(document'.relations) + n], baliseTags',
                    ShapeOwner(ShapesOf("lines")'[n]))
       /\ \A n \in DOMAIN ShapesOf("point")' :
            HasTags(nodeIndex'[Len(TaggedNodes') + n], baliseTags',
                    ShapeOwner(ShapesOf("point")'[n])))
<1>1. \A r, owner : HasTagsOf(r, owner)' <=> HasTags(r, baliseTags', owner)
  BY Zenon DEF HasTagsOf, HasTags, BytesOf, OwnedIn
<1> QED BY <1>1, Zenon DEF AttributesAreTheirs, RelationOfShape, PointOfShape, ShapeOwner

\* The dbf file is read as far as the shape file while there is no shape of another type.
AttributesInv == ShapesOf("other") = << >> => attributesRead = Len(document.shapes)

\* The shapes that have been read are past, and keep their tags.
LEMMA OldAttributes ==
  ASSUME CompilerAssumption, DocumentInv, TagsInv, AttributesInv, AttributesAreTheirs, [Next]_vars,
         ShapesOf("other") = << >>, ShapeTags <= CountLimit
  PROVE  /\ \A n \in DOMAIN ShapesOf("lines") :
              HasTags(relationIndex[Len(document.relations) + n], baliseTags',
                      ShapeOwner(ShapesOf("lines")[n]))
         /\ \A n \in DOMAIN ShapesOf("point") :
              HasTags(nodeIndex[Len(TaggedNodes) + n], baliseTags',
                      ShapeOwner(ShapesOf("point")[n]))
<1>1. attributesRead = Len(document.shapes)
  BY DEF AttributesInv
<1>2. ASSUME NEW type, NEW n \in DOMAIN ShapesOf(type) PROVE Past(ShapeOwner(ShapesOf(type)[n]))
  <2>1. PICK a : a = ShapesOf(type) /\ a \in Seq(1 .. Len(document.shapes))
    BY ShapesOfList
  <2>2. a[n] \in 1 .. attributesRead
    BY <1>1, <1>2, <2>1, LenProperties, ElementOfSeq
  <2> QED BY <2>1, <2>2 DEF Past, ShapeOwner
<1>3. ASSUME NEW n \in DOMAIN ShapesOf("lines")
      PROVE  HasTags(relationIndex[Len(document.relations) + n], baliseTags',
                     ShapeOwner(ShapesOf("lines")[n]))
  <2>1. PICK r, o : r = relationIndex[Len(document.relations) + n] /\ o = ShapeOwner(ShapesOf("lines")[n])
    OBVIOUS
  <2>2. Past(o) /\ HasTags(r, baliseTags, o)
    BY <1>2, <2>1, Attributes
  <2> QED BY <2>1, <2>2, TagsKept
<1>4. ASSUME NEW n \in DOMAIN ShapesOf("point")
      PROVE  HasTags(nodeIndex[Len(TaggedNodes) + n], baliseTags', ShapeOwner(ShapesOf("point")[n]))
  <2>1. PICK r, o : r = nodeIndex[Len(TaggedNodes) + n] /\ o = ShapeOwner(ShapesOf("point")[n])
    OBVIOUS
  <2>2. Past(o) /\ HasTags(r, baliseTags, o)
    BY <1>2, <2>1, Attributes
  <2> QED BY <2>1, <2>2, TagsKept
<1> QED BY <1>3, <1>4

\* The tags of a shape that is read.
LEMMA FreshShape ==
  ASSUME CompilerAssumption, DocumentInv, TagsInv, NEW shape, ShapeRead(shape, 1), NEW r,
         r.tstart = tagStart', r.tsize = (Len(baliseTags') - tagStart') % (CountLimit + 1),
         ShapeTags <= CountLimit
  PROVE  HasTags(r, baliseTags', ShapeOwner(attributesRead + 1))
<1>1. PICK bytes, more, k, o, m, n :
        /\ bytes = baliseTags /\ more = baliseTags' /\ k = attributesRead /\ o = ShapeOwner(k + 1)
        /\ m = Len(bytes) /\ n = Len(more)
  OBVIOUS
<1>2. /\ open = Nothing /\ attributesRead' = k + 1 /\ tagStart' = m
      /\ more = bytes \o Bytes(ShapeTags, o)
  BY <1>1 DEF ShapeRead, ShapeOwner
<1>3. /\ bytes \in Seq(Owners) /\ m \in Nat /\ k \in Nat /\ DOMAIN bytes = 1 .. m
      /\ ShapeTags \in Nat /\ CountLimit \in Nat
  BY <1>1, LenProperties DEF TagsInv, CompilerAssumption
<1>4. o \in Owners /\ o.kind = "shape" /\ o.id = k + 1
  BY <1>1, <1>3 DEF ShapeOwner, Owners
<1>5. Grown(bytes, more, ShapeTags, o)
  BY <1>2, <1>3, <1>4, BytesAppended
<1>6. /\ more \in Seq(Owners) /\ n = m + ShapeTags
      /\ \A b \in 1 .. m : more[b] = bytes[b]
      /\ \A b \in m + 1 .. n : more[b] = o
  BY <1>1, <1>5 DEF Grown
<1>7. \A b \in 1 .. m : bytes[b] # o
  <2> TAKE b \in 1 .. m
  <2>1. bytes[b] \in Owners
    BY <1>1, <1>3, ElementOfSeq
  <2>2. Nothing \notin Owners
    BY DEF Owners, Elements, Nothing
  <2>3. Past(bytes[b])
    BY <1>1, <1>2, <2>1, <2>2 DEF TagsInv
  <2>4. ~Past(o)
    <3>1. k + 1 \notin 1 .. k
      BY <1>3
    <3> QED BY <1>1, <1>4, <3>1 DEF Past
  <2> QED BY <2>3, <2>4
<1>8. OwnedIn(more, o) = m + 1 .. n
  <2>1. DOMAIN more = 1 .. n
    BY <1>1, <1>6, LenProperties
  <2>2. ASSUME NEW b \in OwnedIn(more, o) PROVE b \in m + 1 .. n
    <3>1. b \in 1 .. n /\ more[b] = o
      BY <2>1 DEF OwnedIn
    <3>2. b \notin 1 .. m
      BY <1>6, <1>7, <3>1
    <3> QED BY <1>3, <3>1, <3>2
  <2>3. ASSUME NEW b \in m + 1 .. n PROVE b \in OwnedIn(more, o)
    <3>1. b \in 1 .. n
      BY <1>3
    <3> QED BY <1>6, <2>1, <3>1 DEF OwnedIn
  <2> QED BY Zenon, <2>2, <2>3
<1>9. n \in Nat /\ m \in 0 .. n /\ n - m = ShapeTags
  BY <1>3, <1>6
<1>10. r.tstart = m /\ r.tsize = Lesser(n - m, CountLimit)
  <2>1. r.tsize = ShapeTags % (CountLimit + 1)
    BY <1>1, <1>2, <1>9
  <2>2. ShapeTags % (CountLimit + 1) = ShapeTags
    BY <1>3
  <2> QED BY <1>2, <1>3, <1>9, <2>1, <2>2 DEF Lesser
<1>11. HasTags(r, more, o)
  BY <1>8, <1>9, <1>10, FreshTags
<1> QED BY <1>1, <1>11

\* A list with one element more is not empty.
LEMMA NotEmpty ==
  ASSUME NEW s, IsList(s), NEW e
  PROVE  Append(s, e) # << >>
<1>1. Len(Append(s, e)) = Len(s) + 1 /\ Len(s) \in Nat
  BY OneMore
<1>2. Len(<< >>) = 0
  OBVIOUS
<1> QED BY <1>1, <1>2

\* While no shape has been read, none has attributes.
LEMMA NoAttributes ==
  ASSUME TagsInv, DocumentInv, AttributesInv, document.shapes = << >>, document'.shapes = << >>,
         attributesRead' = attributesRead
  PROVE  AttributesInv' /\ AttributesAreTheirs'
<1>1. ShapesOf("other") = << >> /\ attributesRead = 0
  <2>1. ShapesOf("other") = << >>
    BY ShapesOfList
  <2>2. Len(<< >>) = 0
    OBVIOUS
  <2> QED BY <2>1, <2>2 DEF AttributesInv
<1>2. \A type : ShapesOf(type)' = << >>
  <2>1. \A type : ShapesOf(type) = << >>
    BY ShapesOfList
  <2>2. document'.shapes = document.shapes
    OBVIOUS
  <2>3. \A type : ShapesOf(type)' = ShapesOf(type)
    BY <2>2, ShapesOfStay
  <2> QED BY <2>1, <2>3
<1>3. DOMAIN << >> = {} /\ Len(<< >>) = 0
  OBVIOUS
<1>4. AttributesInv'
  BY <1>1, <1>3 DEF AttributesInv
<1>5. ShapesOf("lines")' = << >> /\ ShapesOf("point")' = << >>
  BY <1>2
<1>6. AttributesAreTheirs'
  BY <1>3, <1>5, AttributesNext
<1> QED BY <1>4, <1>6

\* The attributes when no shape is read and no element ends.
LEMMA QuietAttributes ==
  ASSUME CompilerAssumption, DocumentInv, TagsInv, AttributesInv, AttributesAreTheirs, [Next]_vars,
         Quiet, attributesRead' = attributesRead
  PROVE  AttributesInv' /\ AttributesAreTheirs'
<1>1. PICK a, b, c : a = ShapesOf("lines") /\ b = ShapesOf("point") /\ c = ShapesOf("other")
  OBVIOUS
<1>2. /\ ShapesOf("lines")' = a /\ ShapesOf("point")' = b /\ ShapesOf("other")' = c
      /\ document'.shapes = document.shapes
  BY <1>1, ShapesOfStay DEF Quiet
<1>3. TaggedNodes' = TaggedNodes
  BY TaggedStay DEF Quiet
<1>4. AttributesInv'
  BY <1>1, <1>2 DEF AttributesInv
<1>5. AttributesAreTheirs'
  BY <1>1, <1>2, <1>3, OldAttributes, AttributesNext DEF Quiet
<1> QED BY <1>4, <1>5

\* The attributes of a point.
LEMMA PointAttributes ==
  ASSUME CompilerAssumption, DocumentInv, TagsInv, RecordsInv, CountsInv, AttributesInv,
         AttributesAreTheirs, ShapePoint
  PROVE  AttributesInv' /\ AttributesAreTheirs'
<1>1. PICK a, b, c, x, k, N :
        /\ a = ShapesOf("lines") /\ b = ShapesOf("point") /\ c = ShapesOf("other")
        /\ x = nodeIndex /\ k = Len(TaggedNodes) /\ N = Len(document.shapes)
  OBVIOUS
<1>2. IsList(b) /\ IsList(x) /\ IsList(document.shapes) /\ k \in Nat /\ N \in Nat /\ Len(x) = k + Len(b)
  BY <1>1, Lists, ListIs DEF CountsInv
<1>3. PICK shape, r :
        /\ shape \in ShapeRecords
        /\ shape.type = "point" /\ ShapeRead(shape, 1) /\ nodeIndex' = Append(x, r)
        /\ r.tstart = tagStart' /\ r.tsize = (Len(baliseTags') - tagStart') % (CountLimit + 1)
        /\ relationIndex' = relationIndex
  BY <1>1, PointWrites
<1>4. ShapesOf("lines")' = a /\ ShapesOf("point")' = Append(b, N + 1) /\ ShapesOf("other")' = c
  <2>1. "point" # "lines" /\ "point" # "other"
    OBVIOUS
  <2> QED BY <1>1, <1>3, <2>1, ShapesOfRead
<1>5. /\ TaggedNodes' = TaggedNodes /\ document'.relations = document.relations
  BY ShapesExtend
<1>6. attributesRead' = attributesRead + 1 /\ Len(document'.shapes) = N + 1
  <2>1. document'.shapes = Append(document.shapes, shape)
    BY <1>3, ShapeReads
  <2> QED BY <1>1, <1>2, <1>3, <2>1, OneMore DEF ShapeRead
<1>7. AttributesInv'
  BY <1>1, <1>4, <1>6 DEF AttributesInv
<1>8. [Next]_vars
  BY DEF Next
<1>9. ASSUME c = << >>, ShapeTags <= CountLimit
      PROVE  /\ \A n \in DOMAIN a :
                  HasTags(relationIndex'[Len(document'.relations) + n], baliseTags', ShapeOwner(a[n]))
             /\ \A n \in DOMAIN ShapesOf("point")' :
                  HasTags(nodeIndex'[Len(TaggedNodes') + n], baliseTags', ShapeOwner(ShapesOf("point")'[n]))
  <2>1. /\ \A n \in DOMAIN a :
             HasTags(relationIndex[Len(document.relations) + n], baliseTags', ShapeOwner(a[n]))
        /\ \A n \in DOMAIN b : HasTags(x[k + n], baliseTags', ShapeOwner(b[n]))
    BY <1>1, <1>8, <1>9, OldAttributes
  <2>2. HasTags(r, baliseTags', ShapeOwner(N + 1))
    <3>1. attributesRead = N
      BY <1>1, <1>9 DEF AttributesInv
    <3>2. HasTags(r, baliseTags', ShapeOwner(attributesRead + 1))
      BY <1>3, <1>9, FreshShape
    <3> QED BY <3>1, <3>2
  <2>3. PICK d, y, e : d = ShapesOf("point")' /\ y = nodeIndex' /\ e = N + 1
    OBVIOUS
  <2>4. ShapeAdded(b, x, k, e, r, d, y)
    <3>1. d = Append(b, e) /\ y = Append(x, r)
      BY <1>3, <1>4, <2>3
    <3> QED BY <1>2, <3>1, ShapeAdds
  <2>5. \A n \in DOMAIN d : HasTags(y[k + n], baliseTags', ShapeOwner(d[n]))
    BY <2>1, <2>2, <2>3, <2>4 DEF ShapeAdded
  <2> QED BY <1>1, <1>3, <1>5, <2>1, <2>3, <2>5
<1>10. AttributesAreTheirs'
  BY <1>4, <1>9, AttributesNext
<1> QED BY <1>7, <1>10

\* The attributes of lines.
LEMMA LinesAttributes ==
  ASSUME CompilerAssumption, DocumentInv, TagsInv, RecordsInv, CountsInv, AttributesInv,
         AttributesAreTheirs, ShapeLines
  PROVE  AttributesInv' /\ AttributesAreTheirs'
<1>1. PICK a, b, c, x, k, N :
        /\ a = ShapesOf("lines") /\ b = ShapesOf("point") /\ c = ShapesOf("other")
        /\ x = relationIndex /\ k = Len(document.relations) /\ N = Len(document.shapes)
  OBVIOUS
<1>2. IsList(a) /\ IsList(x) /\ IsList(document.shapes) /\ k \in Nat /\ N \in Nat /\ Len(x) = k + Len(a)
  BY <1>1, Lists, ListIs DEF CountsInv
<1>3. PICK shape, r :
        /\ shape \in ShapeRecords /\ shape.type = "lines" /\ ShapeRead(shape, 1)
        /\ relationIndex' = Append(x, r)
        /\ r.tstart = tagStart' /\ r.tsize = (Len(baliseTags') - tagStart') % (CountLimit + 1)
        /\ nodeIndex' = nodeIndex
  <2>1. PICK s, u, parts, added, r :
          /\ ShapeWalked(s, parts, u)
          /\ ShapeRead([type |-> "lines", parts |-> parts], 1)
          /\ relationIndex' = Append(x, r)
          /\ r = [tstart |-> tagStart', tsize |-> (Len(baliseTags') - tagStart') % (CountLimit + 1),
                  mstart |-> memberStart', msize |-> added % (CountLimit + 1)]
          /\ nodeIndex' = nodeIndex
    BY <1>1, LinesWrite
  <2>2. PICK shape : shape = [type |-> "lines", parts |-> parts]
    OBVIOUS
  <2>3. shape \in ShapeRecords /\ shape.type = "lines" /\ ShapeRead(shape, 1)
    BY <2>1, <2>2, LinesAre
  <2>4. r.tstart = tagStart' /\ r.tsize = (Len(baliseTags') - tagStart') % (CountLimit + 1)
    BY <2>1
  <2> QED BY <2>1, <2>3, <2>4
<1>4. ShapesOf("point")' = b /\ ShapesOf("lines")' = Append(a, N + 1) /\ ShapesOf("other")' = c
  <2>1. "lines" # "point" /\ "lines" # "other"
    OBVIOUS
  <2> QED BY <1>1, <1>3, <2>1, ShapesOfRead
<1>5. /\ TaggedNodes' = TaggedNodes /\ document'.relations = document.relations
  BY ShapesExtend
<1>6. attributesRead' = attributesRead + 1 /\ Len(document'.shapes) = N + 1
  <2>1. document'.shapes = Append(document.shapes, shape)
    BY <1>3, ShapeReads
  <2> QED BY <1>1, <1>2, <1>3, <2>1, OneMore DEF ShapeRead
<1>7. AttributesInv'
  BY <1>1, <1>4, <1>6 DEF AttributesInv
<1>8. [Next]_vars
  BY DEF Next
<1>9. ASSUME c = << >>, ShapeTags <= CountLimit
      PROVE  /\ \A n \in DOMAIN b :
                  HasTags(nodeIndex'[Len(TaggedNodes') + n], baliseTags', ShapeOwner(b[n]))
             /\ \A n \in DOMAIN ShapesOf("lines")' :
                  HasTags(relationIndex'[Len(document'.relations) + n], baliseTags',
                          ShapeOwner(ShapesOf("lines")'[n]))
  <2>1. /\ \A n \in DOMAIN b :
             HasTags(nodeIndex[Len(TaggedNodes) + n], baliseTags', ShapeOwner(b[n]))
        /\ \A n \in DOMAIN a : HasTags(x[k + n], baliseTags', ShapeOwner(a[n]))
    BY <1>1, <1>8, <1>9, OldAttributes
  <2>2. HasTags(r, baliseTags', ShapeOwner(N + 1))
    <3>1. attributesRead = N
      BY <1>1, <1>9 DEF AttributesInv
    <3>2. HasTags(r, baliseTags', ShapeOwner(attributesRead + 1))
      BY <1>3, <1>9, FreshShape
    <3> QED BY <3>1, <3>2
  <2>3. PICK d, y, e : d = ShapesOf("lines")' /\ y = relationIndex' /\ e = N + 1
    OBVIOUS
  <2>4. ShapeAdded(a, x, k, e, r, d, y)
    <3>1. d = Append(a, e) /\ y = Append(x, r)
      BY <1>3, <1>4, <2>3
    <3> QED BY <1>2, <3>1, ShapeAdds
  <2>5. \A n \in DOMAIN d : HasTags(y[k + n], baliseTags', ShapeOwner(d[n]))
    BY <2>1, <2>2, <2>3, <2>4 DEF ShapeAdded
  <2> QED BY <1>1, <1>3, <1>5, <2>1, <2>3, <2>5
<1>10. AttributesAreTheirs'
  BY <1>4, <1>9, AttributesNext
<1> QED BY <1>7, <1>10

\* A shape has the attributes of its own record of the dbf file, as long as the shape file
\* holds nothing but points, lines and polygons.
THEOREM ShapesHaveTheirAttributes ==
  ASSUME CompilerAssumption
  PROVE  Spec => []AttributesAreTheirs
<1>1. Init => AttributesInv /\ AttributesAreTheirs
  <2> SUFFICES ASSUME Init PROVE AttributesInv /\ AttributesAreTheirs
    OBVIOUS
  <2>1. document.shapes = << >> /\ attributesRead = 0
    BY DEF Init
  <2>2. ShapesOf("lines") = << >> /\ ShapesOf("point") = << >>
    BY <2>1, ShapesInNone, ShapesOfAre
  <2>3. DOMAIN << >> = {} /\ Len(<< >>) = 0
    OBVIOUS
  <2>4. AttributesInv
    BY <2>1, <2>3 DEF AttributesInv
  <2>5. AttributesAreTheirs
    BY <2>2, <2>3, Attributes
  <2> QED BY <2>4, <2>5
<1>2. DocumentInv /\ TagsInv /\ RecordsInv /\ CountsInv /\ AttributesInv /\ AttributesAreTheirs
        /\ [Next]_vars => AttributesInv' /\ AttributesAreTheirs'
  <2> SUFFICES ASSUME DocumentInv, TagsInv, RecordsInv, CountsInv, AttributesInv,
                      AttributesAreTheirs, [Next]_vars
               PROVE  AttributesInv' /\ AttributesAreTheirs'
    OBVIOUS
  <2>1. CASE EndNode \/ EndWay \/ EndRelation
    <3>1. open # Nothing /\ document'.shapes = document.shapes
      <4>1. open.kind = "node" \/ open.kind = "way" \/ open.kind = "relation"
        BY <2>1 DEF EndNode, EndWay, WayRead, EndRelation
      <4>2. Nothing.kind = "none"
        BY DEF Nothing
      <4>3. document'.shapes = document.shapes
        BY <2>1, EndNodeReads, WayReads, EndRelationReads DEF EndWay
      <4> QED BY <4>1, <4>2, <4>3
    <3>2. document.shapes = << >>
      BY <3>1 DEF DocumentInv, OpenInv
    <3>3. attributesRead' = attributesRead
      BY <2>1 DEF EndNode, EndWay, WayRead, EndRelation, shapeVars
    <3> QED BY <3>1, <3>2, <3>3, NoAttributes
  <2>2. CASE ShapeOther
    <3>1. PICK shape \in ShapeRecords : shape.type = "other" /\ ShapeRead(shape, 0)
      BY <2>2, OtherWrites
    <3>2. ShapesOf("other")' = Append(ShapesOf("other"), Len(document.shapes) + 1)
      BY <3>1, ShapesOfRead
    <3>3. ShapesOf("other")' # << >>
      <4>1. PICK c, n : c = ShapesOf("other") /\ n = Len(document.shapes) + 1
        OBVIOUS
      <4>2. Append(c, n) # << >>
        BY <4>1, Lists, NotEmpty
      <4> QED BY <3>2, <4>1, <4>2
    <3> QED BY <3>3, AttributesNext DEF AttributesInv
  <2>3. CASE Quiet /\ ~(EndNode \/ EndWay \/ EndRelation \/ ShapePoint \/ ShapeLines \/ ShapeOther)
    <3>1. attributesRead' = attributesRead
      BY <2>3 DEF Next, vars, shapeVars, StartNode, StartWay, StartRelation, StartElement, StartTag, Nd,
                  StartMember, Member, Close
    <3> QED BY <2>3, <3>1, QuietAttributes
  <2> QED BY <2>1, <2>2, <2>3, QuietSteps, PointAttributes, LinesAttributes
<1> QED BY <1>1, <1>2, DocumentInvariance, TagsInvariance, RecordsInvariance, CountsInvariance, PTL
    DEF Spec
-----------------------------------------------------------------------------
(* The ways of the shapes. *)

\* A part of a list: its elements, and its segments if they are points.
SliceOf(t, s, a, n) ==
  /\ IsList(t) /\ Len(t) = n /\ DOMAIN t = 1 .. n /\ \A i \in 1 .. n : t[i] = s[a + i]
  /\ ToSet(t) = {s[j] : j \in a + 1 .. a + n}
  /\ {<<t[i], t[i + 1]>> : i \in 1 .. Len(t) - 1} = Joins(s, a + 1, a + n)

\* That is what SubSeq makes.
LEMMA SubSeqIs ==
  ASSUME NEW s, IsList(s), NEW a \in Nat, NEW n \in Nat, a + n <= Len(s)
  PROVE  SliceOf(SubSeq(s, a + 1, a + n), s, a, n)
<1>1. PICK R : s \in Seq(R)
  BY DEF IsList
<1>2. PICK t, b, c, l : t = SubSeq(s, b, c) /\ b = a + 1 /\ c = a + n /\ l = Len(s)
  OBVIOUS
<1>3. b \in Int /\ c \in Int /\ l \in Nat /\ \A i \in b .. c : s[i] \in R
  <2>1. l \in Nat /\ \A i \in 1 .. l : s[i] \in R
    BY <1>1, <1>2, LenProperties, ElementOfSeq
  <2>2. \A i \in b .. c : i \in 1 .. l
    BY <1>2, <2>1
  <2> QED BY <1>2, <2>1, <2>2
<1>4. /\ SubSeq(s, b, c) \in Seq(R)
      /\ Len(SubSeq(s, b, c)) = IF b <= c THEN c - b + 1 ELSE 0
      /\ \A i \in 1 .. c - b + 1 : SubSeq(s, b, c)[i] = s[b + i - 1]
  BY <1>3, SubSeqProperties
<1>5. t \in Seq(R) /\ Len(t) = n /\ \A i \in 1 .. n : t[i] = s[a + i]
  <2>1. c - b + 1 = n /\ (IF b <= c THEN c - b + 1 ELSE 0) = n
    BY <1>2
  <2>2. \A i \in 1 .. n : b + i - 1 = a + i
    BY <1>2
  <2> QED BY <1>2, <1>4, <2>1, <2>2
<1>6. DOMAIN t = 1 .. n
  BY <1>5, LenProperties
<1>7. ToSet(t) = {s[j] : j \in a + 1 .. a + n}
  <2>1. \A i \in 1 .. n : a + i \in a + 1 .. a + n
    OBVIOUS
  <2>2. \A j \in a + 1 .. a + n : j - a \in 1 .. n /\ a + (j - a) = j
    OBVIOUS
  <2>3. ASSUME NEW x \in ToSet(t) PROVE x \in {s[j] : j \in a + 1 .. a + n}
    BY <1>5, <1>6, <2>1 DEF ToSet
  <2>4. ASSUME NEW j \in a + 1 .. a + n PROVE s[j] \in ToSet(t)
    <3>1. PICK i : i = j - a /\ i \in 1 .. n /\ a + i = j
      BY <2>2
    <3> QED BY <1>5, <1>6, <3>1 DEF ToSet
  <2> QED BY <2>3, <2>4
<1>8. {<<t[i], t[i + 1]>> : i \in 1 .. Len(t) - 1} = Joins(s, a + 1, a + n)
  <2>1. \A i \in 1 .. n - 1 : /\ a + i \in a + 1 .. a + n - 1
                              /\ t[i] = s[a + i] /\ t[i + 1] = s[a + i + 1]
    <3> TAKE i \in 1 .. n - 1
    <3>1. i \in 1 .. n /\ i + 1 \in 1 .. n /\ a + (i + 1) = a + i + 1
      OBVIOUS
    <3> QED BY <1>5, <3>1
  <2>2. \A j \in a + 1 .. a + n - 1 : j - a \in 1 .. n - 1 /\ a + (j - a) = j
    OBVIOUS
  <2>3. {<<t[i], t[i + 1]>> : i \in 1 .. n - 1} = {<<s[j], s[j + 1]>> : j \in a + 1 .. a + n - 1}
    <3>1. ASSUME NEW i \in 1 .. n - 1
          PROVE  \E j \in a + 1 .. a + n - 1 : <<t[i], t[i + 1]>> = <<s[j], s[j + 1]>>
      BY <2>1
    <3>2. ASSUME NEW j \in a + 1 .. a + n - 1
          PROVE  \E i \in 1 .. n - 1 : <<t[i], t[i + 1]>> = <<s[j], s[j + 1]>>
      <4>1. PICK i : i = j - a /\ i \in 1 .. n - 1 /\ a + i = j
        BY <2>2
      <4> QED BY <2>1, <4>1
    <3>3. PICK A, B : /\ A = {<<t[i], t[i + 1]>> : i \in 1 .. n - 1}
                      /\ B = {<<s[j], s[j + 1]>> : j \in a + 1 .. a + n - 1}
      OBVIOUS
    <3>4. ASSUME NEW x \in A PROVE x \in B
      <4>1. PICK i \in 1 .. n - 1 : x = <<t[i], t[i + 1]>>
        BY <3>3, <3>4, Zenon
      <4>2. PICK j \in a + 1 .. a + n - 1 : <<t[i], t[i + 1]>> = <<s[j], s[j + 1]>>
        BY <3>1
      <4>3. x = <<s[j], s[j + 1]>>
        BY <4>1, <4>2
      <4> QED BY <3>3, <4>3, Zenon
    <3>5. ASSUME NEW x \in B PROVE x \in A
      <4>1. PICK j \in a + 1 .. a + n - 1 : x = <<s[j], s[j + 1]>>
        BY <3>3, <3>5, Zenon
      <4>2. PICK i \in 1 .. n - 1 : <<t[i], t[i + 1]>> = <<s[j], s[j + 1]>>
        BY <3>2
      <4>3. x = <<t[i], t[i + 1]>>
        BY <4>1, <4>2
      <4> QED BY <3>3, <4>3, Zenon
    <3>6. A = B
      BY <3>4, <3>5
    <3> QED BY <3>3, <3>6
  <2> QED BY <1>5, <2>3 DEF Joins
<1> QED BY <1>2, <1>5, <1>6, <1>7, <1>8 DEF SliceOf, IsList

\* The segments of some parts.
JoinsOfParts(parts) == UNION {Joins(parts[i], 1, Len(parts[i])) : i \in 1 .. Len(parts)}

\* The ways of a shape: n members of its record name n ways that follow each other, and
\* that have the segments of its parts.
WaysMakeFrom(r, n, parts, ways, points, members, k) ==
  /\ k + n <= Len(ways)
  /\ \A j \in 1 .. n : members[r.mstart + j].id + 1 = k + j
  /\ \A j \in 1 .. n : WayWhole(ways[k + j], points, 0, Len(points))
  /\ UNION {JoinsOf(ways[k + j], points) : j \in 1 .. n} = JoinsOfParts(parts)
WaysMake(r, n, parts, ways, points, members) ==
  /\ n \in Nat /\ r.mstart \in Nat /\ r.mstart + n <= Len(members) /\ r.msize = n % (CountLimit + 1)
  /\ \E k \in Nat : WaysMakeFrom(r, n, parts, ways, points, members, k)

PartsOfShape(n) == document.shapes[ShapesOf("lines")[n]].parts

\* How many members the n-th shape of lines has: those before the ones of the next.
WaysAt(ls, index, k, end, n) ==
  (IF n < Len(ls) THEN index[k + (n + 1)].mstart ELSE end) - index[k + n].mstart

\* The shapes ls of lines have become the relations behind k others.
ShapesMade(ls, shapes, index, k, ways, points, members) ==
  \A n \in DOMAIN ls : WaysMake(index[k + n], WaysAt(ls, index, k, Len(members), n),
                                shapes[ls[n]].parts, ways, points, members)

\* The invariant of the ways of the shapes.
ShapesInv == ShapesMade(ShapesOf("lines"), document.shapes, relationIndex, Len(document.relations),
                        wayIndex, wayPoints, relMembers)

\* It speaks of the relations of the shapes.
LEMMA ShapesMadeAre ==
  ASSUME ShapesInv
  PROVE  \A n \in DOMAIN ShapesOf("lines") :
           WaysMake(RelationOfShape(n), WaysOfShape(n), PartsOfShape(n), wayIndex, wayPoints, relMembers)
BY Zenon DEF ShapesInv, ShapesMade, WaysAt, RelationOfShape, WaysOfShape, PartsOfShape

\* The ways remain when more follow.
LEMMA WaysMakeMore ==
  ASSUME CompilerAssumption, NEW r, NEW n, NEW parts, NEW v, NEW w, NEW p, NEW q, NEW l, NEW m,
         IsList(v), IsList(w), IsList(p), IsList(q), IsList(l), IsList(m),
         Extends(v, w), Extends(p, q), Extends(l, m), WaysMake(r, n, parts, v, p, l)
  PROVE  WaysMake(r, n, parts, w, q, m)
<1>1. PICK k \in Nat : WaysMakeFrom(r, n, parts, v, p, l, k)
  BY DEF WaysMake
<1>2. /\ n \in Nat /\ r.mstart \in Nat /\ r.mstart + n <= Len(l) /\ r.msize = n % (CountLimit + 1)
  BY DEF WaysMake
<1>3. /\ k + n <= Len(v)
      /\ \A j \in 1 .. n : l[r.mstart + j].id + 1 = k + j
      /\ \A j \in 1 .. n : WayWhole(v[k + j], p, 0, Len(p))
      /\ UNION {JoinsOf(v[k + j], p) : j \in 1 .. n} = JoinsOfParts(parts)
  BY <1>1 DEF WaysMakeFrom
<1>4. /\ DOMAIN v = 1 .. Len(v) /\ DOMAIN w = 1 .. Len(w) /\ Len(v) \in Nat /\ Len(w) \in Nat
      /\ DOMAIN p = 1 .. Len(p) /\ DOMAIN q = 1 .. Len(q) /\ Len(p) \in Nat /\ Len(q) \in Nat
      /\ DOMAIN l = 1 .. Len(l) /\ DOMAIN m = 1 .. Len(m) /\ Len(l) \in Nat /\ Len(m) \in Nat
  BY ListIs
<1>5. Len(v) <= Len(w) /\ Len(p) <= Len(q) /\ Len(l) <= Len(m)
  <2>1. ASSUME NEW a \in Nat, NEW b \in Nat, \A i \in 1 .. a : i \in 1 .. b PROVE a <= b
    <3>1. a = 0 \/ a \in 1 .. a
      OBVIOUS
    <3> QED BY <2>1, <3>1
  <2>2. /\ \A i \in 1 .. Len(v) : i \in 1 .. Len(w)
        /\ \A i \in 1 .. Len(p) : i \in 1 .. Len(q)
        /\ \A i \in 1 .. Len(l) : i \in 1 .. Len(m)
    BY <1>4 DEF Extends
  <2> QED BY <1>4, <2>1, <2>2
<1>6. \A j \in 1 .. n : w[k + j] = v[k + j] /\ m[r.mstart + j] = l[r.mstart + j]
  <2>1. PICK c, a, b : c = r.mstart /\ a = Len(v) /\ b = Len(l)
    OBVIOUS
  <2>2. /\ c \in Nat /\ n \in Nat /\ c + n <= b /\ k + n <= a /\ a \in Nat /\ b \in Nat
        /\ DOMAIN v = 1 .. a /\ DOMAIN l = 1 .. b
    BY <1>2, <1>3, <1>4, <2>1
  <2>3. \A j \in 1 .. n : k + j \in DOMAIN v /\ c + j \in DOMAIN l
    BY <2>2
  <2> QED BY <2>1, <2>3 DEF Extends
<1>7. \A j \in 1 .. n : WayWhole(v[k + j], q, 0, Len(q)) /\ JoinsOf(v[k + j], q) = JoinsOf(v[k + j], p)
  <2> TAKE j \in 1 .. n
  <2>1. PICK x, b : x = v[k + j] /\ WayWhole(x, p, 0, Len(p)) /\ b = Len(q)
    BY <1>3
  <2>2. WayWhole(x, q, 0, b) /\ JoinsOf(x, q) = JoinsOf(x, p)
    <3>1. 0 \in Nat /\ b \in Nat /\ Len(p) <= b
      BY <1>4, <1>5, <2>1
    <3> QED BY <1>4, <2>1, <3>1, WholeStays
  <2> QED BY <2>1, <2>2
<1>8. {JoinsOf(w[k + j], q) : j \in 1 .. n} = {JoinsOf(v[k + j], p) : j \in 1 .. n}
  BY <1>6, <1>7
<1>9. k + n <= Len(w) /\ r.mstart + n <= Len(m)
  BY <1>2, <1>3, <1>4, <1>5
<1>10. WaysMakeFrom(r, n, parts, w, q, m, k)
  BY <1>3, <1>6, <1>7, <1>8, <1>9 DEF WaysMakeFrom
<1> QED BY <1>2, <1>9, <1>10 DEF WaysMake

\* The segments of a sequence of points.
SegmentsOf(points) == {<<points[i], points[i + 1]>> : i \in 1 .. Len(points) - 1}

\* The segments and the rectangle of a way.
LEMMA WayIsWhole ==
  ASSUME CompilerAssumption, IsList(wayPoints), NEW w, WayWhole(w, wayPoints, 0, Len(wayPoints))
  PROVE  /\ SegmentsOf(PointsOf(w)) = JoinsOf(w, wayPoints)
         /\ w.rect = Hull(ToSet(PointsOf(w)))
<1>1. PICK s, a, n, t : /\ s = wayPoints /\ a = w.pstart /\ n = w.psize
                        /\ t = SubSeq(s, a + 1, a + n) /\ t = PointsOf(w)
  BY DEF PointsOf
<1>2. CountLimit \in Nat /\ Len(s) \in Nat
  BY <1>1, ListIs DEF CompilerAssumption
<1>3. a \in Nat /\ n \in Nat /\ a + n <= Len(s) /\ Covers(w.rect, s, a + 1, a + n)
  BY <1>1, <1>2 DEF WayWhole
<1>4. SliceOf(t, s, a, n)
  BY <1>1, <1>3, SubSeqIs
<1>5. SegmentsOf(t) = Joins(s, a + 1, a + n) /\ ToSet(t) = {s[j] : j \in a + 1 .. a + n}
  BY <1>4 DEF SliceOf, SegmentsOf
<1>6. w.rect = Hull({s[j] : j \in a + 1 .. a + n})
  <2>1. a + 1 \in Int /\ a + n \in Int
    BY <1>3
  <2> QED BY <1>3, <2>1, CoversHull
<1> QED BY <1>1, <1>5, <1>6 DEF JoinsOf

\* The segments of the parts of a shape.
LEMMA PartsHaveJoins ==
  ASSUME NEW parts, IsList(parts)
  PROVE  UNION {SegmentsOf(part) : part \in ToSet(parts)} = JoinsOfParts(parts)
<1>1. DOMAIN parts = 1 .. Len(parts)
  BY ListIs
<1>2. \A part : SegmentsOf(part) = Joins(part, 1, Len(part))
  BY DEF SegmentsOf, Joins
<1>3. {SegmentsOf(part) : part \in ToSet(parts)}
        = {Joins(parts[i], 1, Len(parts[i])) : i \in 1 .. Len(parts)}
  BY <1>1, <1>2 DEF ToSet
<1> QED BY <1>3 DEF JoinsOfParts

\* The shapes are whole if their records count all their ways.
LEMMA ShapesWhole ==
  ASSUME CompilerAssumption, DocumentInv, RecordsInv, ShapesInv
  PROVE  ShapesAreWhole
<1>1. ASSUME NEW n \in DOMAIN ShapesOf("lines"), WaysOfShape(n) <= CountLimit,
             NEW parts, parts = PartsOfShape(n), NEW ways, ways = MembersOf(RelationOfShape(n))
      PROVE  /\ UNION {SegmentsOf(PointsOf(wayIndex[m.id + 1])) : m \in ToSet(ways)}
                  = UNION {SegmentsOf(part) : part \in ToSet(parts)}
             /\ \A m \in ToSet(ways) :
                  wayIndex[m.id + 1].rect = Hull(ToSet(PointsOf(wayIndex[m.id + 1])))
  <2>1. PICK r, c, a : r = RelationOfShape(n) /\ c = WaysOfShape(n) /\ a = r.mstart
    OBVIOUS
  <2>2. /\ c \in Nat /\ a \in Nat /\ a + c <= Len(relMembers) /\ r.msize = c % (CountLimit + 1)
        /\ \E k \in Nat : WaysMakeFrom(r, c, parts, wayIndex, wayPoints, relMembers, k)
    BY <1>1, <2>1, ShapesMadeAre DEF WaysMake
  <2>3. PICK k \in Nat : WaysMakeFrom(r, c, parts, wayIndex, wayPoints, relMembers, k)
    BY <2>2
  <2>4. /\ \A j \in 1 .. c : relMembers[a + j].id + 1 = k + j
        /\ \A j \in 1 .. c : WayWhole(wayIndex[k + j], wayPoints, 0, Len(wayPoints))
        /\ UNION {JoinsOf(wayIndex[k + j], wayPoints) : j \in 1 .. c} = JoinsOfParts(parts)
    BY <2>1, <2>3 DEF WaysMakeFrom
  <2>5. r.msize = c
    <3>1. PICK l : l = CountLimit /\ l \in Nat
      BY DEF CompilerAssumption
    <3>2. c \in Nat /\ c <= l
      BY <1>1, <2>1, <2>2, <3>1
    <3>3. c % (l + 1) = c
      BY <3>1, <3>2
    <3> QED BY <2>2, <3>1, <3>3
  <2>6. SliceOf(ways, relMembers, a, c)
    <3>1. IsList(relMembers)
      BY DEF RecordsInv
    <3>2. ways = SubSeq(relMembers, a + 1, a + c)
      BY <1>1, <2>1, <2>5 DEF MembersOf
    <3> QED BY <2>2, <3>1, <3>2, SubSeqIs
  <2>7. /\ \A j \in 1 .. c : relMembers[a + j] \in ToSet(ways)
        /\ \A m \in ToSet(ways) : \E j \in 1 .. c : m = relMembers[a + j]
    <3>1. DOMAIN ways = 1 .. c /\ \A i \in 1 .. c : ways[i] = relMembers[a + i]
      BY <2>6 DEF SliceOf
    <3> QED BY <3>1 DEF ToSet
  <2>8. \A j \in 1 .. c : /\ SegmentsOf(PointsOf(wayIndex[k + j])) = JoinsOf(wayIndex[k + j], wayPoints)
                          /\ wayIndex[k + j].rect = Hull(ToSet(PointsOf(wayIndex[k + j])))
    <3>1. IsList(wayPoints)
      BY DEF RecordsInv
    <3> TAKE j \in 1 .. c
    <3>2. PICK w : w = wayIndex[k + j] /\ WayWhole(w, wayPoints, 0, Len(wayPoints))
      BY <2>4
    <3> QED BY <3>1, <3>2, WayIsWhole
  <2>9. \A m \in ToSet(ways) : \E j \in 1 .. c : m.id + 1 = k + j
    BY <2>4, <2>7
  <2>10. \A j \in 1 .. c : \E m \in ToSet(ways) : m.id + 1 = k + j
    BY <2>4, <2>7
  <2>11. {SegmentsOf(PointsOf(wayIndex[m.id + 1])) : m \in ToSet(ways)}
           = {JoinsOf(wayIndex[k + j], wayPoints) : j \in 1 .. c}
    <3>1. ASSUME NEW m \in ToSet(ways)
          PROVE  \E j \in 1 .. c : SegmentsOf(PointsOf(wayIndex[m.id + 1])) = JoinsOf(wayIndex[k + j], wayPoints)
      BY <2>8, <2>9
    <3>2. ASSUME NEW j \in 1 .. c
          PROVE  \E m \in ToSet(ways) : SegmentsOf(PointsOf(wayIndex[m.id + 1])) = JoinsOf(wayIndex[k + j], wayPoints)
      <4>1. PICK m \in ToSet(ways) : m.id + 1 = k + j
        BY <2>10
      <4> QED BY <2>8, <4>1
    <3> QED BY <3>1, <3>2, Zenon
  <2>12. UNION {SegmentsOf(part) : part \in ToSet(parts)} = JoinsOfParts(parts)
    <3>1. ShapesOf("lines")[n] \in 1 .. Len(document.shapes)
      <4>1. PICK s : s = ShapesOf("lines") /\ s \in Seq(1 .. Len(document.shapes))
        BY ShapesOfList
      <4> QED BY <1>1, <4>1, LenProperties, ElementOfSeq
    <3>2. document.shapes[ShapesOf("lines")[n]] \in ShapeRecords
      BY <3>1, ElementOfSeq DEF DocumentInv, Documents
    <3>3. parts \in Parts
      BY <1>1, <3>2 DEF ShapeRecords, PartsOfShape
    <3> QED BY <3>3, PartsHaveJoins DEF IsList, Parts
  <2>13. \A m \in ToSet(ways) : wayIndex[m.id + 1].rect = Hull(ToSet(PointsOf(wayIndex[m.id + 1])))
    BY <2>8, <2>9
  <2> QED BY <2>4, <2>11, <2>12, <2>13
<1>2. \A n \in DOMAIN ShapesOf("lines") : WaysOfShape(n) <= CountLimit =>
        /\ UNION {SegmentsOf(PointsOf(wayIndex[m.id + 1])) : m \in ToSet(MembersOf(RelationOfShape(n)))}
             = UNION {SegmentsOf(part) : part \in ToSet(PartsOfShape(n))}
        /\ \A m \in ToSet(MembersOf(RelationOfShape(n))) :
             wayIndex[m.id + 1].rect = Hull(ToSet(PointsOf(wayIndex[m.id + 1])))
  BY <1>1
<1> QED BY <1>2, Zenon DEF ShapesAreWhole, SegmentsOf, PartsOfShape

\* One shape of lines more.
LEMMA ShapesMadeMore ==
  ASSUME CompilerAssumption,
         NEW ls, IsList(ls), NEW shapes, IsList(shapes), \A n \in DOMAIN ls : ls[n] \in DOMAIN shapes,
         NEW x, IsList(x), NEW k \in Nat, Len(x) = k + Len(ls),
         NEW v, NEW w, IsList(v), IsList(w), Extends(v, w),
         NEW p, NEW q, IsList(p), IsList(q), Extends(p, q),
         NEW l, NEW m, IsList(l), IsList(m), Extends(l, m),
         ShapesMade(ls, shapes, x, k, v, p, l),
         NEW e, NEW r, NEW us, us = Append(ls, e), NEW y, y = Append(x, r),
         NEW more, Extends(shapes, more), r.mstart = Len(l),
         WaysMake(r, Len(m) - Len(l), more[e].parts, w, q, m)
  PROVE  ShapesMade(us, more, y, k, w, q, m)
<1>1. PICK N, L, M : N = Len(ls) /\ L = Len(l) /\ M = Len(m)
  OBVIOUS
<1>2. /\ N \in Nat /\ L \in Nat /\ M \in Nat /\ DOMAIN ls = 1 .. N /\ DOMAIN us = 1 .. N + 1
      /\ \A n \in 1 .. N : us[n] = ls[n]
      /\ us[N + 1] = e /\ Len(us) = N + 1
  BY <1>1, ListIs, ListAppend
<1>3. Extends(x, y) /\ y[k + (N + 1)] = r /\ DOMAIN x = 1 .. k + N
  <2>1. Extends(x, y) /\ y[Len(x) + 1] = r /\ DOMAIN x = 1 .. Len(x)
    BY ListIs, ListAppend
  <2>2. Len(x) = k + N /\ k + N + 1 = k + (N + 1)
    BY <1>1, <1>2
  <2> QED BY <2>1, <2>2
<1>4. \A n \in 1 .. N : y[k + n] = x[k + n]
  <2>1. \A n \in 1 .. N : k + n \in 1 .. k + N
    BY <1>2
  <2> QED BY <1>3, <2>1 DEF Extends
<1>5. ASSUME NEW n \in 1 .. N
      PROVE  WaysMake(y[k + n], WaysAt(us, y, k, M, n), more[us[n]].parts, w, q, m)
  <2>1. PICK c, parts, z : c = WaysAt(ls, x, k, L, n) /\ parts = shapes[ls[n]].parts /\ z = x[k + n]
    OBVIOUS
  <2>2. WaysMake(z, c, parts, v, p, l)
    BY <1>1, <1>2, <2>1 DEF ShapesMade
  <2>3. WaysMake(z, c, parts, w, q, m)
    BY <2>2, WaysMakeMore
  <2>4. more[us[n]].parts = parts
    BY <1>2, <2>1 DEF Extends
  <2>5. y[k + n] = z
    BY <1>4, <2>1
  <2>6. WaysAt(us, y, k, M, n) = c
    <3>1. CASE n < N
      <4>1. n + 1 \in 1 .. N /\ n < N + 1
        BY <1>2, <3>1
      <4>2. y[k + (n + 1)] = x[k + (n + 1)]
        BY <1>4, <4>1
      <4>3. c = x[k + (n + 1)].mstart - x[k + n].mstart
        BY <1>1, <2>1, <3>1 DEF WaysAt
      <4>4. WaysAt(us, y, k, M, n) = y[k + (n + 1)].mstart - y[k + n].mstart
        BY <1>2, <4>1 DEF WaysAt
      <4> QED BY <1>4, <4>2, <4>3, <4>4
    <3>2. CASE ~(n < N)
      <4>1. n = N /\ n < N + 1
        BY <1>2, <3>2
      <4>2. c = L - x[k + n].mstart
        BY <1>1, <2>1, <3>2 DEF WaysAt
      <4>3. WaysAt(us, y, k, M, n) = y[k + (n + 1)].mstart - y[k + n].mstart
        BY <1>2, <4>1 DEF WaysAt
      <4>4. y[k + (n + 1)].mstart = L
        BY <1>1, <1>3, <4>1
      <4> QED BY <1>4, <4>2, <4>3, <4>4
    <3> QED BY <3>1, <3>2
  <2> QED BY <2>3, <2>4, <2>5, <2>6
<1>6. WaysMake(y[k + (N + 1)], WaysAt(us, y, k, M, N + 1), more[us[N + 1]].parts, w, q, m)
  <2>1. WaysAt(us, y, k, M, N + 1) = M - y[k + (N + 1)].mstart
    <3>1. ~(N + 1 < Len(us))
      BY <1>2
    <3> QED BY <3>1 DEF WaysAt
  <2>2. WaysAt(us, y, k, M, N + 1) = M - L
    BY <1>1, <1>3, <2>1
  <2> QED BY <1>1, <1>2, <1>3, <2>2
<1>7. \A n \in DOMAIN us : n \in 1 .. N \/ n = N + 1
  BY <1>2
<1> QED BY <1>1, <1>5, <1>6, <1>7 DEF ShapesMade

\* What is written for the ways that a walk has added: the members m behind a, and r.
WalkWritten(s, parts, u, l, K, added, a, more, m, r) ==
  /\ ShapeWalked(s, parts, u)
  /\ l = Len(wayPoints) /\ l \in Nat
  /\ K = Len(wayIndex) /\ K \in Nat /\ added \in Nat /\ added = Len(u.ways) - K
  /\ IsList(a)
  /\ more = [i \in 1 .. added |-> [type |-> "way", id |-> K + i - 1, named |-> 0]]
  /\ m = a \o more /\ r.mstart = Len(a) /\ r.msize = added % (CountLimit + 1)

\* The ways that a walk has written make the shape.
LEMMA WalkMakes ==
  ASSUME CompilerAssumption, NEW s, NEW parts, NEW u, NEW l, NEW K, NEW added, NEW a, NEW more, NEW m, NEW r,
         WalkWritten(s, parts, u, l, K, added, a, more, m, r)
  PROVE  WaysMake(r, added, parts, u.ways, u.points, m) /\ Len(m) = Len(a) + added /\ IsList(m)
<1>0. /\ ShapeWalked(s, parts, u)
      /\ l = Len(wayPoints) /\ l \in Nat
      /\ K = Len(wayIndex) /\ K \in Nat /\ added \in Nat /\ added = Len(u.ways) - K
      /\ IsList(a)
      /\ more = [i \in 1 .. added |-> [type |-> "way", id |-> K + i - 1, named |-> 0]]
      /\ m = a \o more /\ r.mstart = Len(a) /\ r.msize = added % (CountLimit + 1)
  BY DEF WalkWritten
<1> USE <1>0
<1>1. IsList(more) /\ Len(more) = added
  <2>1. more = [i \in 1 .. added |-> more[i]]
    OBVIOUS
  <2> QED BY <2>1, ListOf
<1>2. PICK A : A = Len(a) /\ A \in Nat
  BY ListIs
<1>3. IsList(m) /\ Len(m) = A + added /\ \A j \in 1 .. added : m[A + j] = more[j]
  BY <1>1, <1>2, ListConcat
<1>4. PICK v, q, L, n : v = u.ways /\ q = u.points /\ L = Len(v) /\ n = Len(q)
  OBVIOUS
<1>5. /\ L \in Nat /\ n \in Nat /\ L = K + added
      /\ \A w \in NewWays(s, u) : WayWhole(w, q, l, n)
      /\ NewJoins(s, u) = JoinsOfParts(parts)
      /\ NewWays(s, u) = {v[i] : i \in K + 1 .. L}
  <2>1. IsList(v) /\ IsList(q) /\ ShapeInv(s, parts, Len(parts), u)
    BY <1>4 DEF ShapeWalked
  <2>2. s.points = wayPoints /\ s.ways = wayIndex
    BY DEF ShapeWalked
  <2>3. L \in Nat /\ n \in Nat
    BY <1>4, <2>1, ListIs
  <2>4. L = K + added
    BY <1>4, <2>3
  <2>5. /\ \A w \in NewWays(s, u) : WayWhole(w, q, l, n)
        /\ NewJoins(s, u) = JoinsOfParts(parts)
    BY <1>4, <2>1, <2>2, Zenon DEF ShapeInv, JoinsOfParts
  <2>6. NewWays(s, u) = {v[i] : i \in K + 1 .. L}
    BY <1>4, <2>2, Zenon DEF NewWays
  <2> QED BY <2>3, <2>4, <2>5, <2>6
<1>6. \A j \in 1 .. added : K + j \in K + 1 .. L
  BY <1>5
<1>7. \A i \in K + 1 .. L : i - K \in 1 .. added /\ K + (i - K) = i
  BY <1>5
<1>8. \A j \in 1 .. added : WayWhole(v[K + j], q, 0, n)
  <2> TAKE j \in 1 .. added
  <2>1. PICK w : w = v[K + j] /\ w \in NewWays(s, u)
    BY <1>5, <1>6
  <2>2. WayWhole(w, q, l, n)
    BY <1>5, <2>1
  <2>3. w.pstart \in l .. n => w.pstart \in 0 .. n
    BY <1>5
  <2> QED BY <2>1, <2>2, <2>3 DEF WayWhole
<1>9. UNION {JoinsOf(v[K + j], q) : j \in 1 .. added} = JoinsOfParts(parts)
  <2>1. PICK A1, B1 : /\ A1 = {JoinsOf(v[K + j], q) : j \in 1 .. added}
                      /\ B1 = {JoinsOf(w, q) : w \in NewWays(s, u)}
    OBVIOUS
  <2>2. ASSUME NEW z \in A1 PROVE z \in B1
    <3>1. PICK j \in 1 .. added : z = JoinsOf(v[K + j], q)
      BY <2>1, <2>2, Zenon
    <3>2. v[K + j] \in NewWays(s, u)
      BY <1>5, <1>6
    <3> QED BY <2>1, <3>1, <3>2, Zenon
  <2>3. ASSUME NEW z \in B1 PROVE z \in A1
    <3>1. PICK w \in NewWays(s, u) : z = JoinsOf(w, q)
      BY <2>1, <2>3, Zenon
    <3>2. PICK i \in K + 1 .. L : w = v[i]
      BY <1>5
    <3>3. PICK j : j = i - K /\ j \in 1 .. added /\ K + j = i
      BY <1>7
    <3>4. z = JoinsOf(v[K + j], q)
      BY <3>1, <3>2, <3>3
    <3> QED BY <2>1, <3>3, <3>4, Zenon
  <2>4. A1 = B1
    BY <2>2, <2>3
  <2>5. UNION B1 = NewJoins(s, u)
    BY <1>4, <2>1, Zenon DEF NewJoins
  <2> QED BY <1>5, <2>1, <2>4, <2>5
<1>10. \A j \in 1 .. added : m[r.mstart + j].id + 1 = K + j
  <2>1. \A j \in 1 .. added : more[j].id = K + j - 1
    OBVIOUS
  <2> QED BY <1>2, <1>3, <2>1
<1>11. WaysMakeFrom(r, added, parts, v, q, m, K)
  <2>1. K + added <= Len(v)
    BY <1>4, <1>5
  <2> QED BY <1>4, <1>8, <1>9, <1>10, <2>1 DEF WaysMakeFrom
<1>12. r.mstart \in Nat /\ r.mstart + added <= Len(m)
  BY <1>2, <1>3
<1> QED BY <1>2, <1>3, <1>4, <1>11, <1>12 DEF WaysMake

\* The ways of the shapes after lines.
LEMMA LinesMade ==
  ASSUME CompilerAssumption, DocumentInv, TagsInv, RecordsInv, RecordsInv', CountsInv, ShapesInv, ShapeLines
  PROVE  ShapesInv'
<1>1. PICK ls, x, k, v, p, l, shapes, K :
        /\ ls = ShapesOf("lines") /\ x = relationIndex /\ k = Len(document.relations)
        /\ v = wayIndex /\ p = wayPoints /\ l = relMembers /\ shapes = document.shapes /\ K = Len(v)
  OBVIOUS
<1>2. /\ IsList(ls) /\ IsList(x) /\ IsList(v) /\ IsList(p) /\ IsList(l) /\ IsList(shapes)
      /\ k \in Nat /\ K \in Nat /\ Len(p) \in Nat
  BY <1>1, Lists, ListIs DEF RecordsInv
<1>3. Len(x) = k + Len(ls) /\ \A n \in DOMAIN ls : ls[n] \in DOMAIN shapes
  <2>1. ls \in Seq(1 .. Len(shapes)) /\ DOMAIN shapes = 1 .. Len(shapes)
    BY <1>1, <1>2, ShapesOfList, ListIs
  <2>2. \A n \in DOMAIN ls : ls[n] \in 1 .. Len(shapes)
    BY <2>1, LenProperties, ElementOfSeq
  <2> QED BY <1>1, <2>1, <2>2 DEF CountsInv
<1>4. PICK s, u, parts, added, r, more :
        /\ ShapeWalked(s, parts, u)
        /\ ShapeRead([type |-> "lines", parts |-> parts], 1)
        /\ wayPoints' = u.points /\ wayIndex' = u.ways
        /\ added = Len(u.ways) - Len(wayIndex)
        /\ memberStart' = Len(relMembers)
        /\ relMembers' = relMembers \o more
        /\ more = [i \in 1 .. added |-> [type |-> "way", id |-> Len(wayIndex) + i - 1, named |-> 0]]
        /\ relationIndex' = Append(relationIndex, r)
        /\ r = [tstart |-> tagStart', tsize |-> (Len(baliseTags') - tagStart') % (CountLimit + 1),
                mstart |-> memberStart', msize |-> added % (CountLimit + 1)]
  BY LinesWrite
<1>5. PICK w, q, m, us, y, many, e, shape :
        /\ w = wayIndex' /\ q = wayPoints' /\ m = relMembers' /\ us = ShapesOf("lines")'
        /\ y = relationIndex' /\ many = document'.shapes /\ e = Len(shapes) + 1
        /\ shape = [type |-> "lines", parts |-> parts]
  OBVIOUS
<1>6. shape \in ShapeRecords /\ shape.type = "lines" /\ shape.parts = parts /\ ShapeRead(shape, 1)
  BY <1>4, <1>5, LinesAre
<1>7. us = Append(ls, e) /\ many = Append(shapes, shape) /\ document'.relations = document.relations
  BY <1>1, <1>5, <1>6, ShapesOfRead, ShapeReads
<1>8. Extends(shapes, many) /\ many[e] = shape
  BY <1>2, <1>5, <1>7, ListAppend
<1>9. /\ IsList(w) /\ IsList(q) /\ IsList(m)
      /\ Extends(v, w) /\ Extends(p, q) /\ Extends(l, m)
  BY <1>1, <1>5, ShapesExtend DEF RecordsInv, WaysWithin
<1>10. added \in Nat
  <2>1. PICK c : c = Len(baliseTags)
    OBVIOUS
  <2>2. c \in Nat /\ WaysWithin(wayIndex, c, Len(wayPoints))
    BY <2>1, RawLengths DEF RecordsInv
  <2> QED BY <1>4, <2>2, WalkWithin
<1>11. r.mstart = Len(l) /\ r.msize = added % (CountLimit + 1)
  BY <1>1, <1>4
<1>12. WaysMake(r, added, parts, w, q, m) /\ Len(m) = Len(l) + added
  <2>1. /\ added = Len(u.ways) - K /\ m = l \o more /\ K = Len(wayIndex)
        /\ more = [i \in 1 .. added |-> [type |-> "way", id |-> K + i - 1, named |-> 0]]
        /\ w = u.ways /\ q = u.points
    BY <1>1, <1>4, <1>5
  <2>2. PICK h : h = Len(wayPoints) /\ h \in Nat
    BY <1>1, <1>2
  <2>3. WaysMake(r, added, parts, u.ways, u.points, m) /\ Len(m) = Len(l) + added
    <3>1. IsList(l) /\ K \in Nat /\ ShapeWalked(s, parts, u)
      BY <1>2, <1>4
    <3>2. WalkWritten(s, parts, u, h, K, added, l, more, m, r)
      BY <1>10, <1>11, <2>1, <2>2, <3>1 DEF WalkWritten
    <3> QED BY <3>2, WalkMakes
  <2> QED BY <2>1, <2>3
<1>13. Len(m) - Len(l) = added
  BY <1>2, <1>10, <1>12, ListIs
<1>14. WaysMake(r, Len(m) - Len(l), many[e].parts, w, q, m)
  BY <1>6, <1>8, <1>12, <1>13
<1>15. y = Append(x, r)
  BY <1>1, <1>4, <1>5
<1>16. ShapesMade(ls, shapes, x, k, v, p, l)
  BY <1>1 DEF ShapesInv
<1>17. ShapesMade(us, many, y, k, w, q, m)
  BY <1>2, <1>3, <1>7, <1>8, <1>9, <1>11, <1>14, <1>15, <1>16, ShapesMadeMore
<1> QED BY <1>1, <1>5, <1>7, <1>17 DEF ShapesInv

\* They are as before if no lines have been read.
LEMMA ShapesRemain ==
  ASSUME CompilerAssumption, DocumentInv, ShapesInv, ShapesOf("lines")' = ShapesOf("lines"),
         Extends(document.shapes, document'.shapes), document'.relations = document.relations,
         UNCHANGED <<relationIndex, wayIndex, wayPoints, relMembers>>
  PROVE  ShapesInv'
<1>1. PICK ls, x, k, v, p, l, shapes, many :
        /\ ls = ShapesOf("lines") /\ x = relationIndex /\ k = Len(document.relations)
        /\ v = wayIndex /\ p = wayPoints /\ l = relMembers
        /\ shapes = document.shapes /\ many = document'.shapes
  OBVIOUS
<1>2. \A n \in DOMAIN ls : ls[n] \in DOMAIN shapes
  <2>1. ls \in Seq(1 .. Len(shapes)) /\ DOMAIN shapes = 1 .. Len(shapes)
    BY <1>1, ShapesOfList, LenProperties DEF DocumentInv, Documents
  <2> QED BY <2>1, LenProperties, ElementOfSeq
<1>3. \A n \in DOMAIN ls : many[ls[n]] = shapes[ls[n]]
  BY <1>1, <1>2 DEF Extends
<1>4. ShapesMade(ls, shapes, x, k, v, p, l)
  BY <1>1 DEF ShapesInv
<1>5. ShapesMade(ls, many, x, k, v, p, l)
  BY <1>3, <1>4 DEF ShapesMade
<1> QED BY <1>1, <1>5 DEF ShapesInv

\* As long as there are no shapes there is nothing to say of them.
LEMMA NoShapesMade ==
  ASSUME document'.shapes = << >>
  PROVE  ShapesInv'
<1>1. ShapesOf("lines")' = << >>
  <2>1. ShapesIn(<< >>, "lines") = << >>
    BY ShapesInNone
  <2>2. ShapesOf("lines")' = ShapesIn(document'.shapes, "lines")
    BY DEF ShapesOf, ShapesIn
  <2> QED BY <2>1, <2>2
<1>2. DOMAIN << >> = {}
  OBVIOUS
<1> QED BY <1>1, <1>2 DEF ShapesInv, ShapesMade

\* The ways of a shape are its parts: laid one after the other they have the segments of
\* the parts, no segment is lost where a part is longer than a way may be, none is drawn
\* from one part to the next, and each has the rectangle of its points.
THEOREM ShapesKeepTheirSegments ==
  ASSUME CompilerAssumption
  PROVE  Spec => []ShapesAreWhole
<1>1. Init => ShapesInv
  <2> SUFFICES ASSUME Init PROVE ShapesInv
    OBVIOUS
  <2>1. ShapesOf("lines") = << >>
    BY ShapesInNone, ShapesOfAre DEF Init
  <2>2. DOMAIN << >> = {}
    OBVIOUS
  <2> QED BY <2>1, <2>2 DEF ShapesInv, ShapesMade
<1>2. DocumentInv /\ TagsInv /\ RecordsInv /\ RecordsInv' /\ CountsInv /\ ShapesInv /\ [Next]_vars
        => ShapesInv'
  <2> SUFFICES ASSUME DocumentInv, TagsInv, RecordsInv, RecordsInv', CountsInv, ShapesInv, [Next]_vars
               PROVE  ShapesInv'
    OBVIOUS
  <2>1. CASE EndNode \/ EndWay \/ EndRelation \/ StartMember
    <3>1. open # Nothing
      <4>1. open.kind = "node" \/ open.kind = "way" \/ open.kind = "relation"
        BY <2>1 DEF EndNode, EndWay, WayRead, EndRelation, StartMember, Member
      <4>2. Nothing.kind = "none"
        BY DEF Nothing
      <4> QED BY <4>1, <4>2
    <3>2. document.shapes = << >>
      BY <3>1 DEF DocumentInv, OpenInv
    <3>3. document'.shapes = document.shapes
      BY <2>1, EndNodeReads, WayReads, EndRelationReads, MemberReads DEF EndWay, StartMember
    <3> QED BY <3>2, <3>3, NoShapesMade
  <2>2. CASE ShapePoint \/ ShapeOther
    <3>1. PICK shape, n : shape \in ShapeRecords /\ shape.type # "lines" /\ ShapeRead(shape, n)
      <4>1. "point" # "lines" /\ "other" # "lines"
        OBVIOUS
      <4> QED BY <2>2, <4>1, PointWrites, OtherWrites
    <3>2. ShapesOf("lines")' = ShapesOf("lines")
      BY <3>1, ShapesOfRead
    <3>3. Extends(document.shapes, document'.shapes) /\ document'.relations = document.relations
      <4>1. PICK shapes : shapes = document.shapes /\ IsList(shapes)
        BY Lists
      <4>2. Extends(shapes, Append(shapes, shape))
        BY <4>1, ListAppend
      <4>3. document'.shapes = Append(shapes, shape) /\ document'.relations = document.relations
        BY <3>1, <4>1, ShapeReads
      <4> QED BY <4>1, <4>2, <4>3
    <3>4. UNCHANGED <<relationIndex, wayIndex, wayPoints, relMembers>>
      BY <2>2, PointWrites, OtherWrites
    <3> QED BY <3>2, <3>3, <3>4, ShapesRemain
  <2>3. CASE StartNode \/ StartTag \/ StartWay \/ Nd \/ StartRelation \/ Close \/ UNCHANGED vars
    <3>1. UNCHANGED <<relationIndex, wayIndex, wayPoints, relMembers>>
      BY <2>3 DEF StartNode, StartWay, StartRelation, StartElement, StartTag, Nd, Close, vars, recordVars,
                  pointVars, memberVars
    <3>2. document'.shapes = document.shapes /\ document'.relations = document.relations
      <4>1. CASE StartRelation
        BY <4>1, StartRelationReads
      <4>2. CASE StartNode \/ StartTag \/ StartWay \/ Nd \/ Close \/ UNCHANGED vars
        BY <4>2 DEF StartNode, StartWay, StartTag, Nd, Close, vars
      <4> QED BY <2>3, <4>1, <4>2
    <3>3. ShapesOf("lines")' = ShapesOf("lines") /\ Extends(document.shapes, document'.shapes)
      BY <3>2, ShapesOfStay, ExtendsSame
    <3> QED BY <3>1, <3>2, <3>3, ShapesRemain
  <2> QED BY <2>1, <2>2, <2>3, LinesMade DEF Next
<1>3. DocumentInv /\ RecordsInv /\ ShapesInv => ShapesAreWhole
  BY ShapesWhole
<1> QED BY <1>1, <1>2, <1>3, DocumentInvariance, TagsInvariance, RecordsInvariance, CountsInvariance, PTL
    DEF Spec
=============================================================================
