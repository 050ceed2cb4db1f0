----------------------- MODULE NonGrowableQueue_proofs -----------------------
(***************************************************************************)
(* Proofs about NonGrowableQueue for every number of slots, producers,      *)
(* consumers and items: the ring never loses count of itself, no wakeup is  *)
(* lost, and the ring implements the bounded first-in first-out queue.      *)
(***************************************************************************)
EXTENDS NonGrowableQueue, SequenceTheorems, TLAPS

(***************************************************************************)
(* Going one key further stays in the ring, and wraps only at its end: the  *)
(* meaning of (key + 1) % SIZE in push and pop.                             *)
(***************************************************************************)
LEMMA NextKeyWraps ==
  ASSUME NEW k \in Keys
  PROVE  /\ NextKey(k) \in Keys
         /\ NextKey(k) = IF k = Size - 1 THEN 0 ELSE k + 1
<1>1. CASE k = Size - 1
  BY <1>1, QueueAssumption DEF NextKey, Keys
<1>2. CASE k # Size - 1
  <2>1. k + 1 \in 0 .. Size - 1
    BY <1>2, QueueAssumption DEF Keys
  <2>2. (k + 1) % Size = k + 1
    BY <2>1, QueueAssumption
  <2>3. QED
    BY <1>2, <2>1, <2>2 DEF NextKey, Keys
<1>3. QED
  BY <1>1, <1>2
-----------------------------------------------------------------------------
\* The empty ring satisfies the invariant.
LEMMA InitInv == Init => QueueInv
<1> SUFFICES ASSUME Init PROVE QueueInv
  OBVIOUS
<1> USE QueueAssumption DEF Init
<1>1. TypeOK
  <2>1. 0 \in Keys /\ 0 \in 0 .. Size
    BY DEF Keys
  <2>2. QED
    BY <2>1 DEF TypeOK
<1>2. RingIsContiguous
  BY DEF RingIsContiguous, Distance, Keys
<1>3. UsedSlotsHoldItems
  BY DEF UsedSlotsHoldItems
<1>4. TokenHolder /\ ThreadPlaces
  BY DEF TokenHolder, ThreadPlaces, Threads
<1>5. NoLostWakeup
  BY DEF NoLostWakeup
<1>6. QED
  BY <1>1, <1>2, <1>3, <1>4, <1>5 DEF QueueInv

\* A push that finds the ring full keeps it: nothing but its result changes.
LEMMA PushFullInv ==
  ASSUME QueueInv, NEW p \in Producers, PushFull(p)
  PROVE  QueueInv'
<1> USE QueueAssumption DEF QueueInv, PushFull, ring
<1>1. TypeOK'
  BY DEF TypeOK, Threads
<1>2. RingIsContiguous' /\ UsedSlotsHoldItems'
  BY DEF RingIsContiguous, UsedSlotsHoldItems, Distance, Keys
<1>3. TokenHolder' /\ ThreadPlaces'
  BY DEF TokenHolder, ThreadPlaces, TypeOK, Threads
<1>4. NoLostWakeup'
  BY DEF NoLostWakeup, OwesUnlock, TypeOK, Threads
<1>5. QED
  BY <1>1, <1>2, <1>3, <1>4

\* The unlock of _empty by push keeps it, whoever had locked it.
LEMMA PushSignalInv ==
  ASSUME QueueInv, NEW p \in Producers, PushSignal(p)
  PROVE  QueueInv'
<1> USE QueueAssumption DEF QueueInv, PushSignal, ring, Goto
<1>1. TypeOK'
  BY DEF TypeOK, Threads
<1>2. RingIsContiguous' /\ UsedSlotsHoldItems'
  BY DEF RingIsContiguous, UsedSlotsHoldItems, Distance, Keys
<1>3. TokenHolder' /\ ThreadPlaces'
  BY DEF TokenHolder, ThreadPlaces, TypeOK, Threads
<1>4. NoLostWakeup'
  BY DEF NoLostWakeup, OwesUnlock, TypeOK, Threads
<1>5. QED
  BY <1>1, <1>2, <1>3, <1>4

\* The release of _token by push keeps it.
LEMMA PushReturnInv ==
  ASSUME QueueInv, NEW p \in Producers, PushReturn(p)
  PROVE  QueueInv'
<1> USE QueueAssumption DEF QueueInv, PushReturn, ring, Goto
<1>1. TypeOK'
  BY DEF TypeOK, Threads
<1>2. RingIsContiguous' /\ UsedSlotsHoldItems'
  BY DEF RingIsContiguous, UsedSlotsHoldItems, Distance, Keys
<1>3. TokenHolder' /\ ThreadPlaces'
  BY DEF TokenHolder, ThreadPlaces, TypeOK, Threads
<1>4. NoLostWakeup'
  BY DEF NoLostWakeup, OwesUnlock, TypeOK, Threads
<1>5. QED
  BY <1>1, <1>2, <1>3, <1>4

\* A consumer that locks _empty is one that is going to look at the queue.
LEMMA TakeEmptyInv ==
  ASSUME QueueInv, NEW c \in Consumers, TakeEmpty(c)
  PROVE  QueueInv'
<1> USE QueueAssumption DEF QueueInv, TakeEmpty, ring, Goto
<1>1. TypeOK'
  BY DEF TypeOK, Threads
<1>2. RingIsContiguous' /\ UsedSlotsHoldItems'
  BY DEF RingIsContiguous, UsedSlotsHoldItems, Distance, Keys
<1>3. TokenHolder' /\ ThreadPlaces'
  BY DEF TokenHolder, ThreadPlaces, TypeOK, Threads
<1>4. NoLostWakeup'
  BY DEF NoLostWakeup, OwesUnlock, TypeOK, Threads
<1>5. QED
  BY <1>1, <1>2, <1>3, <1>4

\* A consumer that gives up waiting for _empty leaves the queue alone.
LEMMA TimeOutInv ==
  ASSUME QueueInv, NEW c \in Consumers, TimeOut(c)
  PROVE  QueueInv'
<1> USE QueueAssumption DEF QueueInv, TimeOut, ring
<1>1. TypeOK'
  BY DEF TypeOK, Threads
<1>2. RingIsContiguous' /\ UsedSlotsHoldItems'
  BY DEF RingIsContiguous, UsedSlotsHoldItems, Distance, Keys
<1>3. TokenHolder' /\ ThreadPlaces'
  BY DEF TokenHolder, ThreadPlaces, TypeOK, Threads
<1>4. NoLostWakeup'
  BY DEF NoLostWakeup, OwesUnlock, TypeOK, Threads
<1>5. QED
  BY <1>1, <1>2, <1>3, <1>4

\* A pop that finds nothing leaves the ring alone and still owes its test.
LEMMA PopNothingInv ==
  ASSUME QueueInv, NEW c \in Consumers, PopNothing(c)
  PROVE  QueueInv'
<1> USE QueueAssumption DEF QueueInv, PopNothing, ring, Goto
<1>1. TypeOK'
  BY DEF TypeOK, Threads
<1>2. RingIsContiguous' /\ UsedSlotsHoldItems'
  BY DEF RingIsContiguous, UsedSlotsHoldItems, Distance, Keys
<1>3. TokenHolder' /\ ThreadPlaces'
  BY DEF TokenHolder, ThreadPlaces, TypeOK, Threads
<1>4. NoLostWakeup'
  BY DEF NoLostWakeup, OwesUnlock, TypeOK, Threads
<1>5. QED
  BY <1>1, <1>2, <1>3, <1>4

\* A consumer that reads 0 from _used_size may leave _empty locked: no item is
\* waiting at that moment, and the next push will unlock it.
LEMMA SeeEmptyInv ==
  ASSUME QueueInv, NEW c \in Consumers, SeeEmpty(c)
  PROVE  QueueInv'
<1> USE QueueAssumption DEF QueueInv, SeeEmpty, ring, Goto
<1>1. TypeOK'
  BY DEF TypeOK, Threads
<1>2. RingIsContiguous' /\ UsedSlotsHoldItems'
  BY DEF RingIsContiguous, UsedSlotsHoldItems, Distance, Keys
<1>3. TokenHolder' /\ ThreadPlaces'
  BY DEF TokenHolder, ThreadPlaces, TypeOK, Threads
<1>4. NoLostWakeup'
  BY DEF NoLostWakeup, OwesUnlock, TypeOK, Threads
<1>5. QED
  BY <1>1, <1>2, <1>3, <1>4

\* A consumer that reads another number is going to unlock _empty.
LEMMA SeeMoreInv ==
  ASSUME QueueInv, NEW c \in Consumers, SeeMore(c)
  PROVE  QueueInv'
<1> USE QueueAssumption DEF QueueInv, SeeMore, ring, Goto
<1>1. TypeOK'
  BY DEF TypeOK, Threads
<1>2. RingIsContiguous' /\ UsedSlotsHoldItems'
  BY DEF RingIsContiguous, UsedSlotsHoldItems, Distance, Keys
<1>3. TokenHolder' /\ ThreadPlaces'
  BY DEF TokenHolder, ThreadPlaces, TypeOK, Threads
<1>4. NoLostWakeup'
  BY DEF NoLostWakeup, OwesUnlock, TypeOK, Threads
<1>5. QED
  BY <1>1, <1>2, <1>3, <1>4

\* The unlock of _empty by pop_timed keeps the invariant.
LEMMA UnlockEmptyInv ==
  ASSUME QueueInv, NEW c \in Consumers, UnlockEmpty(c)
  PROVE  QueueInv'
<1> USE QueueAssumption DEF QueueInv, UnlockEmpty, ring, Goto
<1>1. TypeOK'
  BY DEF TypeOK, Threads
<1>2. RingIsContiguous' /\ UsedSlotsHoldItems'
  BY DEF RingIsContiguous, UsedSlotsHoldItems, Distance, Keys
<1>3. TokenHolder' /\ ThreadPlaces'
  BY DEF TokenHolder, ThreadPlaces, TypeOK, Threads
<1>4. NoLostWakeup'
  BY DEF NoLostWakeup, OwesUnlock, TypeOK, Threads
<1>5. QED
  BY <1>1, <1>2, <1>3, <1>4

\* The store of an item uses the slot right after the used ones.
LEMMA PushStoreInv ==
  ASSUME QueueInv, NEW p \in Producers, NEW v \in Items, PushStore(p, v)
  PROVE  QueueInv'
<1> USE QueueAssumption DEF QueueInv, PushStore, Goto
<1>1. used_size < Size
  BY DEF RingIsContiguous, Distance, TypeOK, Keys
<1>2. /\ next_in_key' \in Keys
      /\ next_in_key' = IF next_in_key = Size - 1 THEN 0 ELSE next_in_key + 1
  BY NextKeyWraps DEF TypeOK
<1>3. TypeOK'
  <2>1. used_size' \in 0 .. Size
    BY <1>1 DEF TypeOK
  <2>2. items' \in [Keys -> Items \cup {NoItem}] /\ itemIsUsed' \in [Keys -> BOOLEAN]
    BY DEF TypeOK
  <2>3. QED
    BY <1>2, <2>1, <2>2 DEF TypeOK, Threads
<1>4. RingIsContiguous'
  <2>1. ASSUME NEW k \in Keys
        PROVE  itemIsUsed'[k] <=> Distance(k)' < used_size'
    <3>1. CASE k = next_in_key
      BY <1>1, <3>1 DEF RingIsContiguous, Distance, TypeOK, Keys
    <3>2. CASE k # next_in_key
      <4>1. itemIsUsed'[k] = itemIsUsed[k]
        BY <3>2 DEF TypeOK
      <4>2. Distance(k) # used_size
        BY <1>1, <3>2 DEF RingIsContiguous, Distance, TypeOK, Keys
      <4>3. QED
        BY <4>1, <4>2 DEF RingIsContiguous, Distance, TypeOK, Keys
    <3>3. QED
      BY <3>1, <3>2
  <2>2. Distance(next_in_key)' = IF used_size' = Size THEN 0 ELSE used_size'
    <3>1. /\ next_in_key \in 0 .. Size - 1
          /\ next_out_key \in 0 .. Size - 1
          /\ used_size \in 0 .. Size
      BY DEF TypeOK, Keys
    <3>2. next_out_key' = next_out_key /\ used_size' = used_size + 1
      OBVIOUS
    <3>3. Distance(next_in_key) = used_size
      BY <1>1 DEF RingIsContiguous, TypeOK
    <3>4. QED
      BY ONLY QueueAssumption, <1>1, <1>2, <3>1, <3>2, <3>3 DEF Distance
  <2>3. QED
    BY <2>1, <2>2 DEF RingIsContiguous
<1>5. UsedSlotsHoldItems'
  BY DEF UsedSlotsHoldItems, TypeOK
<1>6. TokenHolder' /\ ThreadPlaces'
  BY DEF TokenHolder, ThreadPlaces, TypeOK, Threads
<1>7. NoLostWakeup'
  BY DEF NoLostWakeup, OwesUnlock, TypeOK, Threads
<1>8. QED
  BY <1>3, <1>4, <1>5, <1>6, <1>7

\* The removal of an item frees the first of the used slots, and the others move
\* one closer to next_out_key.
LEMMA PopItemInv ==
  ASSUME QueueInv, NEW c \in Consumers, PopItem(c)
  PROVE  QueueInv'
<1> USE QueueAssumption DEF QueueInv, PopItem, Goto
<1>1. used_size > 0
  BY DEF RingIsContiguous, Distance, TypeOK, Keys
<1>2. /\ next_out_key' \in Keys
      /\ next_out_key' = IF next_out_key = Size - 1 THEN 0 ELSE next_out_key + 1
  BY NextKeyWraps DEF TypeOK
<1>3. TypeOK'
  <2>1. used_size' \in 0 .. Size
    BY <1>1 DEF TypeOK
  <2>2. popResult' \in [Consumers -> Items \cup {NoItem}] /\ itemIsUsed' \in [Keys -> BOOLEAN]
    BY DEF TypeOK
  <2>3. QED
    BY <1>2, <2>1, <2>2 DEF TypeOK, Threads
<1>4. RingIsContiguous'
  <2>1. ASSUME NEW k \in Keys
        PROVE  itemIsUsed'[k] <=> Distance(k)' < used_size'
    <3>1. CASE k = next_out_key
      BY <1>1, <1>2, <3>1 DEF RingIsContiguous, Distance, TypeOK, Keys
    <3>2. CASE k # next_out_key
      <4>1. itemIsUsed'[k] = itemIsUsed[k]
        BY <3>2 DEF TypeOK
      <4>2. Distance(k)' = Distance(k) - 1
        BY <1>2, <3>2 DEF Distance, TypeOK, Keys
      <4>3. Distance(k) \in Int /\ used_size \in Int /\ used_size' = used_size - 1
        BY DEF Distance, TypeOK, Keys
      <4>4. itemIsUsed[k] <=> Distance(k) < used_size
        BY DEF RingIsContiguous
      <4>5. QED
        BY ONLY <4>1, <4>2, <4>3, <4>4
    <3>3. QED
      BY <3>1, <3>2
  <2>2. Distance(next_in_key)' = IF used_size' = Size THEN 0 ELSE used_size'
    BY <1>1, <1>2 DEF RingIsContiguous, Distance, TypeOK, Keys
  <2>3. QED
    BY <2>1, <2>2 DEF RingIsContiguous
<1>5. UsedSlotsHoldItems'
  BY DEF UsedSlotsHoldItems, TypeOK
<1>6. TokenHolder' /\ ThreadPlaces'
  BY DEF TokenHolder, ThreadPlaces, TypeOK, Threads
<1>7. NoLostWakeup'
  BY DEF NoLostWakeup, OwesUnlock, TypeOK, Threads
<1>8. QED
  BY <1>3, <1>4, <1>5, <1>6, <1>7

\* Steps of others keep the invariant.
LEMMA StutterInv == QueueInv /\ UNCHANGED vars => QueueInv'
  BY DEF QueueInv, vars, TypeOK, RingIsContiguous, Distance, UsedSlotsHoldItems,
         TokenHolder, ThreadPlaces, NoLostWakeup, OwesUnlock

\* Every step keeps the invariant.
LEMMA NextInv == QueueInv /\ [Next]_vars => QueueInv'
<1> SUFFICES ASSUME QueueInv, [Next]_vars PROVE QueueInv'
  OBVIOUS
<1>1. ASSUME NEW p \in Producers, Push(p) PROVE QueueInv'
  BY <1>1, PushFullInv, PushStoreInv, PushSignalInv, PushReturnInv DEF Push
<1>2. ASSUME NEW c \in Consumers, PopTimed(c) PROVE QueueInv'
  BY <1>2, TakeEmptyInv, TimeOutInv, PopNothingInv, PopItemInv, SeeEmptyInv,
     SeeMoreInv, UnlockEmptyInv DEF PopTimed, Pop
<1>3. QED
  BY <1>1, <1>2, StutterInv DEF Next

(***************************************************************************)
(* The inductive invariant holds in every reachable state of the queue.     *)
(***************************************************************************)
THEOREM Invariance == Spec => []QueueInv
  BY InitInv, NextInv, PTL DEF Spec

(***************************************************************************)
(* Every key stays in the ring and _used_size in 0 .. SIZE, although it is  *)
(* unsigned in the code and decremented without a test.                     *)
(***************************************************************************)
THEOREM TypeCorrect == Spec => []TypeOK
  BY Invariance, PTL DEF QueueInv

(***************************************************************************)
(* The flags of the slots and the two keys always agree with _used_size.    *)
(***************************************************************************)
THEOREM RingCorrect == Spec => []RingIsContiguous
  BY Invariance, PTL DEF QueueInv

(***************************************************************************)
(* No wakeup is lost: an item never waits while _empty is locked and no     *)
(* thread is about to look at the queue or to unlock it.                    *)
(***************************************************************************)
THEOREM WakeupCorrect == Spec => []NoLostWakeup
  BY Invariance, PTL DEF QueueInv

-----------------------------------------------------------------------------
(***************************************************************************)
(* The i-th slot after next_out_key is a slot of the ring, at distance i.   *)
(***************************************************************************)
LEMMA SlotDistance ==
  ASSUME QueueInv, NEW i \in 0 .. Size - 1
  PROVE  Slot(i) \in Keys /\ Distance(Slot(i)) = i
<1>1. next_out_key \in 0 .. Size - 1
  BY DEF QueueInv, TypeOK, Keys
<1>2. QED
  BY <1>1, QueueAssumption DEF Slot, Distance, Keys

(***************************************************************************)
(* The queue the ring stands for is a sequence of used_size items.          *)
(***************************************************************************)
LEMMA ContentsIsQueue ==
  ASSUME QueueInv
  PROVE  /\ Contents \in Seq(Items)
         /\ Len(Contents) = used_size
         /\ used_size \in 0 .. Size
<1>1. used_size \in 0 .. Size
  BY DEF QueueInv, TypeOK
<1>2. ASSUME NEW i \in 1 .. used_size PROVE items[Slot(i - 1)] \in Items
  <2>1. i - 1 \in 0 .. Size - 1 /\ i - 1 < used_size
    BY <1>1, QueueAssumption
  <2>2. Slot(i - 1) \in Keys /\ itemIsUsed[Slot(i - 1)]
    BY <2>1, SlotDistance DEF QueueInv, RingIsContiguous
  <2>3. QED
    BY <2>2 DEF QueueInv, UsedSlotsHoldItems
<1>3. Contents \in [1 .. used_size -> Items]
  BY <1>2 DEF Contents
<1>4. QED
  BY <1>1, <1>3, QueueAssumption

(***************************************************************************)
(* push appends its item to that queue, which was not full.                 *)
(***************************************************************************)
LEMMA PushStoreAccepts ==
  ASSUME QueueInv, QueueInv', NEW p \in Producers, NEW v \in Items, PushStore(p, v)
  PROVE  Fifo!Accept(p, v)
<1>1. /\ used_size \in 0 .. Size
      /\ next_in_key \in 0 .. Size - 1
      /\ next_out_key \in 0 .. Size - 1
  BY DEF QueueInv, TypeOK, Keys
<1>2. used_size < Size /\ Slot(used_size) = next_in_key
  <2>1. used_size < Size
    BY <1>1, QueueAssumption DEF QueueInv, RingIsContiguous, Distance, PushStore, Keys
  <2>2. Distance(next_in_key) = used_size
    BY <1>1, <2>1, QueueAssumption DEF QueueInv, RingIsContiguous
  <2>3. QED
    BY <1>1, <2>1, <2>2, QueueAssumption DEF Slot, Distance
<1>3. used_size' = used_size + 1 /\ next_out_key' = next_out_key
  BY DEF PushStore
<1>4. items' = [items EXCEPT ![next_in_key] = v] /\ items \in [Keys -> Items \cup {NoItem}]
  BY DEF PushStore, QueueInv, TypeOK
<1>5. ASSUME NEW i \in 1 .. used_size + 1
      PROVE  items'[Slot(i - 1)'] = IF i = used_size + 1 THEN v ELSE items[Slot(i - 1)]
  <2>1. i - 1 \in 0 .. Size - 1 /\ Slot(i - 1)' = Slot(i - 1)
    BY <1>1, <1>2, <1>3, QueueAssumption DEF Slot
  <2>2. Slot(i - 1) \in Keys /\ Distance(Slot(i - 1)) = i - 1
    BY <2>1, SlotDistance
  <2>3. CASE i = used_size + 1
    BY <1>1, <1>2, <1>4, <2>1, <2>2, <2>3
  <2>4. CASE i # used_size + 1
    <3>1. Distance(next_in_key) = used_size
      BY <1>1, <1>2, QueueAssumption DEF QueueInv, RingIsContiguous
    <3>2. Slot(i - 1) # next_in_key
      BY <1>1, <2>2, <2>4, <3>1
    <3>3. QED
      BY <1>4, <2>1, <2>2, <2>4, <3>2
  <2>5. QED
    BY <2>3, <2>4
<1>6. Contents' = [i \in 1 .. used_size + 1 |->
                     IF i = used_size + 1 THEN v ELSE items[Slot(i - 1)]]
  BY <1>3, <1>5 DEF Contents
<1>7. Append(Contents, v) = [i \in 1 .. used_size + 1 |->
                               IF i = used_size + 1 THEN v ELSE items[Slot(i - 1)]]
  BY <1>1, ContentsIsQueue DEF Contents
<1>8. QED
  BY <1>2, <1>6, <1>7, ContentsIsQueue DEF Fifo!Accept, PushStore

(***************************************************************************)
(* pop takes the head of that queue and gives it to its caller.             *)
(***************************************************************************)
LEMMA PopItemDelivers ==
  ASSUME QueueInv, QueueInv', NEW c \in Consumers, PopItem(c)
  PROVE  Fifo!Deliver(c)
<1>1. /\ used_size \in 0 .. Size
      /\ next_out_key \in 0 .. Size - 1
  BY DEF QueueInv, TypeOK, Keys
<1>2. used_size > 0
  BY <1>1, QueueAssumption DEF QueueInv, RingIsContiguous, Distance, PopItem, Keys
<1>3. /\ used_size' = used_size - 1
      /\ items' = items
      /\ next_out_key' = IF next_out_key = Size - 1 THEN 0 ELSE next_out_key + 1
  BY <1>1, NextKeyWraps DEF PopItem, Keys
<1>4. ASSUME NEW i \in 1 .. used_size - 1
      PROVE  items'[Slot(i - 1)'] = items[Slot(i)]
  BY <1>1, <1>3, QueueAssumption DEF Slot
<1>5. Contents' = [i \in 1 .. used_size - 1 |-> items[Slot(i)]]
  BY <1>3, <1>4 DEF Contents
<1>6. Contents # <<>> /\ Head(Contents) = items[next_out_key]
  <2>1. Contents[1] = items[Slot(0)] /\ Slot(0) = next_out_key
    BY <1>1, <1>2, QueueAssumption DEF Contents, Slot
  <2>2. QED
    BY <1>1, <1>2, <2>1, ContentsIsQueue
<1>7. Tail(Contents) = [i \in 1 .. used_size - 1 |-> items[Slot(i)]]
  <2>1. Tail(Contents) = [i \in 1 .. Len(Contents) - 1 |-> Contents[i + 1]]
    <3>1. /\ Tail(Contents) \in Seq(Items)
          /\ Len(Tail(Contents)) = Len(Contents) - 1
          /\ \A i \in 1 .. Len(Contents) - 1 : Tail(Contents)[i] = Contents[i + 1]
      BY <1>6, ContentsIsQueue
    <3>2. Tail(Contents) \in [1 .. Len(Contents) - 1 -> Items]
      BY <3>1, LenProperties
    <3>3. QED
      BY <3>1, <3>2
  <2>2. ASSUME NEW i \in 1 .. used_size - 1 PROVE Contents[i + 1] = items[Slot(i)]
    BY <1>1 DEF Contents
  <2>3. QED
    BY <2>1, <2>2, ContentsIsQueue
<1>8. QED
  BY <1>5, <1>6, <1>7 DEF Fifo!Deliver, PopItem

(***************************************************************************)
(* push reports "full" only when that queue is full.                        *)
(***************************************************************************)
LEMMA PushFullRefuses ==
  ASSUME QueueInv, NEW p \in Producers, PushFull(p)
  PROVE  Fifo!Refuse(p)
<1>1. used_size = Size
  BY QueueAssumption DEF QueueInv, TypeOK, RingIsContiguous, Distance, PushFull, Keys
<1>2. Contents' = Contents
  BY DEF PushFull, ring, Contents, Slot
<1>3. QED
  BY <1>1, <1>2, ContentsIsQueue DEF Fifo!Refuse, PushFull

\* The steps that leave the slots alone leave that queue alone.
LEMMA ContentsUnchanged ==
  ASSUME UNCHANGED ring
  PROVE  Contents' = Contents
BY DEF ring, Contents, Slot

\* Every step of the ring is a step of the bounded queue, or changes nothing of it.
LEMMA StepImplements ==
  ASSUME QueueInv, QueueInv', [Next]_vars
  PROVE  [Fifo!Next]_(Fifo!vars)
<1>1. ASSUME NEW p \in Producers, Push(p) PROVE [Fifo!Next]_(Fifo!vars)
  <2>1. CASE PushFull(p)
    BY <2>1, PushFullRefuses DEF Fifo!Next
  <2>2. ASSUME NEW v \in Items, PushStore(p, v) PROVE Fifo!Next
    BY <2>2, PushStoreAccepts DEF Fifo!Next
  <2>3. CASE PushSignal(p) \/ PushReturn(p)
    BY <2>3, ContentsUnchanged DEF PushSignal, PushReturn, Fifo!vars
  <2>4. QED
    BY <1>1, <2>1, <2>2, <2>3 DEF Push
<1>2. ASSUME NEW c \in Consumers, PopTimed(c) PROVE [Fifo!Next]_(Fifo!vars)
  <2>1. CASE PopItem(c)
    BY <2>1, PopItemDelivers DEF Fifo!Next
  <2>2. CASE PopNothing(c) \/ TimeOut(c)
    <3>1. Fifo!Nothing(c)
      BY <2>2, ContentsUnchanged DEF PopNothing, TimeOut, Fifo!Nothing
    <3>2. QED
      BY <3>1 DEF Fifo!Next
  <2>3. CASE TakeEmpty(c) \/ SeeEmpty(c) \/ SeeMore(c) \/ UnlockEmpty(c)
    BY <2>3, ContentsUnchanged DEF TakeEmpty, SeeEmpty, SeeMore, UnlockEmpty, Fifo!vars
  <2>4. QED
    BY <1>2, <2>1, <2>2, <2>3 DEF PopTimed, Pop
<1>3. CASE UNCHANGED vars
  BY <1>3, ContentsUnchanged DEF vars, ring, Fifo!vars
<1>4. QED
  BY <1>1, <1>2, <1>3 DEF Next

\* The ring starts as the empty queue.
LEMMA InitImplements == Init => Fifo!Init
<1> SUFFICES ASSUME Init PROVE Fifo!Init
  OBVIOUS
<1>1. Contents = <<>>
  BY DEF Contents, Init
<1>2. QED
  BY <1>1 DEF Init, Fifo!Init

(***************************************************************************)
(* The ring implements the bounded first-in first-out queue.                *)
(***************************************************************************)
THEOREM Refinement == Spec => ImplementsFifo
  BY Invariance, InitImplements, StepImplements, PTL
     DEF Spec, ImplementsFifo, Fifo!Spec
=============================================================================
