------------------------------ MODULE IndexSort ------------------------------
(***************************************************************************)
(* FileIndex::sort: an index file that does not fit into memory is divided  *)
(* around a pivot, in place and with three buffers of buffer_size records,  *)
(* until its parts fit; a part that fits is read, sorted by memsort and     *)
(* written back.  Keys and items lie in two files and are moved by separate *)
(* reads and writes.                                                        *)
(*                                                                          *)
(* While a part is being divided it looks like this, from begin to end:     *)
(*                                                                          *)
(*   smaller records | records not looked at | pivot | greater records      *)
(*                                                                          *)
(* One round of the loop is one step here: nobody else opens the files.     *)
(***************************************************************************)
EXTENDS Integers, Sequences, FiniteSets

CONSTANTS Keys,      \* numbers
          MaxItems,  \* bound: records in the files
          Buffers    \* the values of buffer_size

ASSUME SortAssumption ==
  /\ Keys \subseteq Int
  /\ MaxItems \in Nat
  /\ Buffers \subseteq Nat \ {0}

VARIABLES
  keyFile, itemFile,   \* the two files, from position 0
  input,               \* the key of each item at the beginning
  buffer_size,
  stack,               \* the parts <<begin, end>> still to be sorted, the next first
  part                 \* the division in progress, or None

vars == <<keyFile, itemFile, input, buffer_size, stack, part>>

Count == Cardinality(DOMAIN input)

None == [begin |-> -1]

Lesser(a, b) == IF a < b THEN a ELSE b

\* An array with the elements at i and j exchanged.
Swapped(f, i, j) == [f EXCEPT ![i] = f[j], ![j] = f[i]]

\* sort(): nothing to do for an empty file.
Init ==
  /\ \E n \in 0 .. MaxItems : input \in [0 .. n - 1 -> Keys]
  /\ keyFile = input
  /\ itemFile = [i \in DOMAIN input |-> i]
  /\ buffer_size \in Buffers
  /\ stack = IF Count = 0 THEN <<>> ELSE <<<<0, Count - 1>>>>
  /\ part = None
-----------------------------------------------------------------------------
(* memsort, on arrays of records in memory. *)

\* (Variant of Ordered that compares the wrong way round.)
OrderedBackwards(a, i, j) == IF a[i].key < a[j].key THEN Swapped(a, i, j) ELSE a

\* The smaller of two records goes to i, the other one to j.
Ordered(a, i, j) == IF a[j].key < a[i].key THEN Swapped(a, i, j) ELSE a

\* The median of the first, the middle and the last record is put at the end.
MedianAtEnd(a, begin, end) ==
  LET mid == begin + (end - begin) \div 2
  IN Ordered(Ordered(Ordered(a, begin, mid), begin, end), end, mid)

Greatest(S) == CHOOSE x \in S : \A y \in S : y <= x
Least(S) == CHOOSE x \in S : \A y \in S : x <= y

\* The two indexes run towards each other, and the pivot stays at the end; the result
\* is the array and the place where the first index stops, to which the pivot goes.
Divided(array, begin, end) ==
  LET pivot == array[end].key
      arrays == {a \in [DOMAIN array -> {array[x] : x \in DOMAIN array}] : a[end] = array[end]}
      run[s \in [a : arrays, i : begin - 1 .. end - 1, j : begin .. end]] ==
        LET i2 == Least({x \in s.i + 1 .. end : s.a[x].key >= pivot})
            notGreater == {x \in begin .. s.j - 1 : s.a[x].key <= pivot}
            j2 == IF notGreater = {} THEN begin ELSE Greatest(notGreater)
        IN IF i2 >= j2 THEN [array |-> Swapped(s.a, i2, end), at |-> i2]
           ELSE run[[a |-> Swapped(s.a, i2, j2), i |-> i2, j |-> j2]]
  IN run[[a |-> array, i |-> begin - 1, j |-> end]]

\* The array sorted between begin and end; the order in which the two sides are
\* sorted bounds the depth of the recursion and makes no difference to the result.
MemSort(array) ==
  LET arrays == [DOMAIN array -> {array[x] : x \in DOMAIN array}]
      n == Cardinality(DOMAIN array)
      sort[s \in [a : arrays, begin : 0 .. n, end : -1 .. n - 1]] ==
        IF s.end - s.begin < 1 THEN s.a
        ELSE IF s.end - s.begin = 1 THEN Ordered(s.a, s.begin, s.end)
        ELSE LET d == Divided(MedianAtEnd(s.a, s.begin, s.end), s.begin, s.end)
                 lower == sort[[a |-> d.array, begin |-> s.begin, end |-> d.at - 1]]
             IN sort[[a |-> lower, begin |-> d.at + 1, end |-> s.end]]
  IN sort[[a |-> array, begin |-> 0, end |-> n - 1]]
-----------------------------------------------------------------------------
(* The files. *)

\* n records of a file from a position on, as a sequence; and a file into which a
\* sequence has been written from a position on.
Read(f, from, n) == [i \in 1 .. n |-> f[from + i - 1]]
Write(f, from, s) ==
  [p \in DOMAIN f |-> IF p \in from .. from + Len(s) - 1 THEN s[p - from + 1] ELSE f[p]]

\* A part with less than three buffers of records is sorted in memory.
SortInMemory ==
  /\ part = None
  /\ stack # <<>>
  /\ LET begin == Head(stack)[1]
         end == Head(stack)[2]
         loaded == [i \in 0 .. end - begin |->
                      [key |-> keyFile[begin + i], item |-> itemFile[begin + i]]]
         done == MemSort(loaded)
     IN /\ end - begin + 1 < 3 * buffer_size
        /\ keyFile' = [p \in DOMAIN keyFile |->
                         IF p \in begin .. end THEN done[p - begin].key ELSE keyFile[p]]
        /\ itemFile' = [p \in DOMAIN itemFile |->
                          IF p \in begin .. end THEN done[p - begin].item ELSE itemFile[p]]
  /\ stack' = Tail(stack)
  /\ UNCHANGED <<input, buffer_size, part>>

\* A greater part is divided: the record in its middle becomes the pivot, and is
\* swapped to the end.
StartDividing ==
  /\ part = None
  /\ stack # <<>>
  /\ LET begin == Head(stack)[1]
         end == Head(stack)[2]
         mid == (begin + end) \div 2
         swap == end - begin > 2
     IN /\ end - begin + 1 >= 3 * buffer_size
        /\ keyFile' = IF swap THEN Swapped(keyFile, mid, end) ELSE keyFile
        /\ itemFile' = IF swap THEN Swapped(itemFile, mid, end) ELSE itemFile
        /\ part' = [begin |-> begin, end |-> end,
                    curKey |-> keyFile'[end], curItem |-> itemFile'[end],
                    autres |-> end - begin, plusGrands |-> 0, plusPetits |-> 0]
  /\ stack' = Tail(stack)
  /\ UNCHANGED <<input, buffer_size>>

\* The records of a buffer are divided from the last to the first: each goes to
\* the greater or the smaller ones, one equal to the pivot to the shorter side.
\* The result is the two sequences of indexes into the buffer.
Split(keys, curKey) ==
  LET split[n \in 0 .. Len(keys)] ==
        IF n = Len(keys) THEN [grands |-> <<>>, petits |-> <<>>]
        ELSE LET s == split[n + 1]
                 k == keys[n + 1]
                 great == \/ k > curKey
                          \/ k = curKey /\ Len(s.grands) <= Len(s.petits)
             IN IF great THEN [s EXCEPT !.grands = Append(@, n + 1)]
                ELSE [s EXCEPT !.petits = Append(@, n + 1)]
  IN split[0]

\* (Variant of Round that forgets the records it writes the smaller ones over.)
Forgotten(f, to, s) == f

\* The records under the smaller ones are written back where there is room again.
Moved(f, to, s) == Write(f, to, s)

\* One file after one round: o says what is read and where, buf is the buffer of
\* that file, cur its pivot.
AfterRound(f, o, cur) ==
  LET buf == Read(f, o.readAt, o.toRead)
      grands == [i \in DOMAIN o.split.grands |-> buf[o.split.grands[i]]]
      petits == [i \in DOMAIN o.split.petits |-> buf[o.split.petits[i]]]
      f1 == Write(f, o.grandsAt, grands)
      kept == Read(f1, o.petitsAt, o.kept)
      f2 == Write(f1, o.petitsAt, petits)
      f3 == Moved(f2, o.keptAt, kept)
  IN [f3 EXCEPT ![o.pivotAt] = cur]

\* A round: read the last records not looked at, divide them, write the greater
\* ones at the end, save the records where the smaller ones go, write those, put
\* the saved ones after them or before the pivot, write the pivot.
Round ==
  /\ part # None
  /\ part.autres > 0
  /\ LET toRead == Lesser(buffer_size, part.autres)
         readAt == part.end - (toRead + part.plusGrands)
         split == Split(Read(keyFile, readAt, toRead), part.curKey)
         ng == Len(split.grands)
         np == Len(split.petits)
         autres == part.autres - toRead
         plusGrands == part.plusGrands + ng
         petitsAt == part.begin + part.plusPetits
         few == autres < np
         o == [toRead |-> toRead, readAt |-> readAt, split |-> split,
               grandsAt |-> part.end - (plusGrands - 1), petitsAt |-> petitsAt,
               kept |-> IF few THEN autres ELSE np,
               keptAt |-> IF few THEN petitsAt + np ELSE part.end - (plusGrands + np),
               pivotAt |-> part.end - plusGrands]
     IN /\ keyFile' = AfterRound(keyFile, o, part.curKey)
        /\ itemFile' = AfterRound(itemFile, o, part.curItem)
        /\ part' = [part EXCEPT !.autres = autres, !.plusGrands = plusGrands,
                                !.plusPetits = @ + np]
  /\ UNCHANGED <<input, buffer_size, stack>>

\* (Variant of EndDividing that takes the pivot for one of the smaller records.)
EndDividingWithPivot ==
  /\ part # None
  /\ part.autres = 0
  /\ stack' = (IF part.plusGrands > 1
               THEN <<<<part.end - part.plusGrands, part.end - 1>>>> ELSE <<>>)
              \o (IF part.plusPetits > 1
                  THEN <<<<part.begin, part.begin + part.plusPetits - 1>>>> ELSE <<>>)
              \o stack
  /\ part' = None
  /\ UNCHANGED <<keyFile, itemFile, input, buffer_size>>

\* The two sides are sorted in turn, the greater records first.
EndDividing ==
  /\ part # None
  /\ part.autres = 0
  /\ stack' = (IF part.plusGrands > 1
               THEN <<<<part.end - (part.plusGrands - 1), part.end>>>> ELSE <<>>)
              \o (IF part.plusPetits > 1
                  THEN <<<<part.begin, part.begin + part.plusPetits - 1>>>> ELSE <<>>)
              \o stack
  /\ part' = None
  /\ UNCHANGED <<keyFile, itemFile, input, buffer_size>>

Done == stack = <<>> /\ part = None

\* sort() has returned.
Returned == Done /\ UNCHANGED vars

Next == SortInMemory \/ StartDividing \/ Round \/ EndDividing \/ Returned

\* sort() runs until it returns.  This is WF_vars(Next), with ~Done for "a step is
\* possible": TLC's check for deadlocks shows that they are the same.
Spec == Init /\ [][Next]_vars /\ ([]<>Done \/ []<><<Next>>_vars)
-----------------------------------------------------------------------------

\* After every round both files hold every record once, and each item lies under
\* its own key, although keys and items are moved by separate reads and writes and
\* pieces of the files are written over before they are saved.
PairsAreKept ==
  /\ {itemFile[p] : p \in DOMAIN itemFile} = DOMAIN input
  /\ \A p \in DOMAIN itemFile : keyFile[p] = input[itemFile[p]]

\* What lies outside of the parts that are still to be sorted is in its place: the
\* parts of the stack and the sides of a division can be sorted independently.
PartsAreIndependent ==
  LET parts == {{stack[i][1], stack[i][2]} : i \in DOMAIN stack}
               \cup IF part = None THEN {} ELSE {{part.begin, part.end}}
      Together(p, q) == \E s \in parts : Least(s) <= p /\ q <= Greatest(s)
  IN /\ \A p, q \in DOMAIN keyFile :
          p < q /\ ~Together(p, q) => keyFile[p] <= keyFile[q]
     /\ part # None =>
          LET pivotAt == part.end - part.plusGrands IN
          /\ keyFile[pivotAt] = part.curKey
          /\ \A p \in part.begin .. part.begin + part.plusPetits - 1 :
               keyFile[p] <= part.curKey
          /\ \A p \in pivotAt + 1 .. part.end : keyFile[p] >= part.curKey

\* The sort ends, with the keys in order.
SortEnds ==
  <>[](Done /\ \A p, q \in DOMAIN keyFile : p < q => keyFile[p] <= keyFile[q])
=============================================================================
