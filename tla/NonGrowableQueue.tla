-------------------------- MODULE NonGrowableQueue --------------------------
(***************************************************************************)
(* helpers/NonGrowableQueue.hpp: the ring buffer between the threads of the *)
(* server.  The slots are guarded by the mutex _token; the timed_mutex      *)
(* _empty is used as a binary semaphore: locked means "nothing to pop, go   *)
(* to sleep".  It is unlocked by threads that did not lock it, and also     *)
(* when it is not locked; the C++ standard leaves that undefined, and the   *)
(* library the server is built with makes it an idempotent "set to free",   *)
(* which is what Unlock means here.                                         *)
(*                                                                          *)
(* Everything done to the slots under _token is one step, since no other    *)
(* thread can look at them meanwhile.  The steps that are visible from      *)
(* outside _token keep their order: the update of _used_size, the unlocking *)
(* of _empty, and the release of _token.                                    *)
(***************************************************************************)
EXTENDS Integers, Sequences

CONSTANTS Size,        \* the template parameter SIZE
          Producers,   \* threads that call push
          Consumers,   \* threads that call pop_timed in their loop
          Items,       \* the values of the template parameter T
          NoItem,      \* the value-initialised T the slots start with
          NoThread     \* the holder of a free mutex

ASSUME QueueAssumption ==
  /\ Size \in Nat \ {0}
  /\ Producers \cap Consumers = {}
  /\ NoItem \notin Items
  /\ NoThread \notin Producers

VARIABLES
  token,          \* the thread that holds _token, or NoThread
  empty,          \* is the timed_mutex _empty locked?
  next_in_key,
  next_out_key,
  used_size,
  items,
  itemIsUsed,
  pc,             \* where each thread is
  pushResult,     \* what push found, per producer
  popResult       \* the caller's item after pop, per consumer

vars == <<token, empty, next_in_key, next_out_key, used_size, items,
          itemIsUsed, pc, pushResult, popResult>>

ring == <<next_in_key, next_out_key, used_size, items, itemIsUsed>>

Threads == Producers \cup Consumers
Keys == 0 .. Size - 1

\* The key after k: both keys advance with (key + 1) % SIZE.
NextKey(k) == (k + 1) % Size

Goto(t, from, to) ==
  /\ pc[t] = from
  /\ pc' = [pc EXCEPT ![t] = to]

Init ==
  /\ token = NoThread
  /\ empty = FALSE
  /\ next_in_key = 0
  /\ next_out_key = 0
  /\ used_size = 0
  /\ items = [k \in Keys |-> NoItem]
  /\ itemIsUsed = [k \in Keys |-> FALSE]
  /\ pc = [t \in Threads |-> "idle"]
  /\ pushResult = [p \in Producers |-> "none"]
  /\ popResult = [c \in Consumers |-> NoItem]
-----------------------------------------------------------------------------
(* push *)

\* (Variant of PushFull that tests the slot the consumers are at.)
PushFullAtOutKey(p) ==
  /\ pc[p] = "idle"
  /\ token = NoThread
  /\ itemIsUsed[next_out_key]
  /\ pushResult' = [pushResult EXCEPT ![p] = "full"]
  /\ UNCHANGED <<token, empty, ring, pc, popResult>>

\* The slot at next_in_key is still used: return false, _token is released.
PushFull(p) ==
  /\ pc[p] = "idle"
  /\ token = NoThread
  /\ itemIsUsed[next_in_key]
  /\ pushResult' = [pushResult EXCEPT ![p] = "full"]
  /\ UNCHANGED <<token, empty, ring, pc, popResult>>

\* (Variant of PushStore without the test of the slot's flag.)
PushStoreUnchecked(p, v) ==
  /\ Goto(p, "idle", "signal")
  /\ token = NoThread
  /\ token' = p
  /\ items' = [items EXCEPT ![next_in_key] = v]
  /\ itemIsUsed' = [itemIsUsed EXCEPT ![next_in_key] = TRUE]
  /\ next_in_key' = NextKey(next_in_key)
  /\ used_size' = used_size + 1
  /\ pushResult' = [pushResult EXCEPT ![p] = "stored"]
  /\ UNCHANGED <<empty, next_out_key, popResult>>

\* The slot is free: fill it and count it, still holding _token.
PushStore(p, v) ==
  /\ Goto(p, "idle", "signal")
  /\ token = NoThread
  /\ ~itemIsUsed[next_in_key]
  /\ token' = p
  /\ items' = [items EXCEPT ![next_in_key] = v]
  /\ itemIsUsed' = [itemIsUsed EXCEPT ![next_in_key] = TRUE]
  /\ next_in_key' = NextKey(next_in_key)
  /\ used_size' = used_size + 1
  /\ pushResult' = [pushResult EXCEPT ![p] = "stored"]
  /\ UNCHANGED <<empty, next_out_key, popResult>>

\* _empty.unlock(), whoever locked it.
PushSignal(p) ==
  /\ Goto(p, "signal", "release")
  /\ empty' = FALSE
  /\ UNCHANGED <<token, ring, pushResult, popResult>>

\* return true releases _token.
PushReturn(p) ==
  /\ Goto(p, "release", "idle")
  /\ token' = NoThread
  /\ UNCHANGED <<empty, ring, pushResult, popResult>>
-----------------------------------------------------------------------------
(* pop_timed *)

\* try_lock_for gets _empty.
TakeEmpty(c) ==
  /\ Goto(c, "idle", "pop")
  /\ ~empty
  /\ empty' = TRUE
  /\ UNCHANGED <<token, ring, pushResult, popResult>>

\* try_lock_for gives up: pop_timed returns false and the caller loops.
TimeOut(c) ==
  /\ pc[c] = "idle"
  /\ empty
  /\ popResult' = [popResult EXCEPT ![c] = NoItem]
  /\ UNCHANGED <<token, empty, ring, pc, pushResult>>

\* pop finds nothing: result is false.
PopNothing(c) ==
  /\ Goto(c, "pop", "recheck")
  /\ token = NoThread
  /\ ~itemIsUsed[next_out_key]
  /\ popResult' = [popResult EXCEPT ![c] = NoItem]
  /\ UNCHANGED <<token, empty, ring, pushResult>>

\* (Variant of PopItem that leaves the slot's flag set.)
PopItemKeepingFlag(c) ==
  /\ Goto(c, "pop", "recheck")
  /\ token = NoThread
  /\ itemIsUsed[next_out_key]
  /\ popResult' = [popResult EXCEPT ![c] = items[next_out_key]]
  /\ next_out_key' = NextKey(next_out_key)
  /\ used_size' = used_size - 1
  /\ UNCHANGED <<token, empty, next_in_key, items, itemIsUsed, pushResult>>

\* pop takes the oldest item.  The slot is marked free, items[key] is kept.
PopItem(c) ==
  /\ Goto(c, "pop", "recheck")
  /\ token = NoThread
  /\ itemIsUsed[next_out_key]
  /\ popResult' = [popResult EXCEPT ![c] = items[next_out_key]]
  /\ itemIsUsed' = [itemIsUsed EXCEPT ![next_out_key] = FALSE]
  /\ next_out_key' = NextKey(next_out_key)
  /\ used_size' = used_size - 1
  /\ UNCHANGED <<token, empty, next_in_key, items, pushResult>>

\* (Variant of SeeEmpty that takes the last item for its own.)
SeeEmptyTooSoon(c) ==
  /\ Goto(c, "recheck", "idle")
  /\ used_size <= 1
  /\ UNCHANGED <<token, empty, ring, pushResult, popResult>>

\* _used_size is read outside _token: zero leaves _empty locked.
SeeEmpty(c) ==
  /\ Goto(c, "recheck", "idle")
  /\ used_size = 0
  /\ UNCHANGED <<token, empty, ring, pushResult, popResult>>

\* (Variant of SeeMore that forgets to unlock.)
SeeMoreAndSleep(c) ==
  /\ Goto(c, "recheck", "idle")
  /\ used_size # 0
  /\ UNCHANGED <<token, empty, ring, pushResult, popResult>>

\* Not zero: the thread is going to unlock _empty, whatever happens meanwhile.
SeeMore(c) ==
  /\ Goto(c, "recheck", "unlock")
  /\ used_size # 0
  /\ UNCHANGED <<token, empty, ring, pushResult, popResult>>

UnlockEmpty(c) ==
  /\ Goto(c, "unlock", "idle")
  /\ empty' = FALSE
  /\ UNCHANGED <<token, ring, pushResult, popResult>>
-----------------------------------------------------------------------------
Push(p) ==
  \/ PushFull(p)
  \/ \E v \in Items : PushStore(p, v)
  \/ PushSignal(p)
  \/ PushReturn(p)

Pop(c) == PopNothing(c) \/ PopItem(c)

PopTimed(c) ==
  \/ TakeEmpty(c)
  \/ TimeOut(c)
  \/ Pop(c)
  \/ SeeEmpty(c)
  \/ SeeMore(c)
  \/ UnlockEmpty(c)

Next ==
  \/ \E p \in Producers : Push(p)
  \/ \E c \in Consumers : PopTimed(c)

Spec == Init /\ [][Next]_vars

\* Nobody has to call push, but a push that has begun ends; the consumers call
\* pop_timed for ever, and a thread that waits for _token while others keep
\* taking and releasing it gets it in the end.
Fairness ==
  /\ \A p \in Producers : WF_vars(PushSignal(p)) /\ WF_vars(PushReturn(p))
  /\ \A c \in Consumers : WF_vars(PopTimed(c)) /\ SF_vars(Pop(c))

FairSpec == Spec /\ Fairness
-----------------------------------------------------------------------------
TypeOK ==
  /\ token \in Producers \cup {NoThread}
  /\ empty \in BOOLEAN
  /\ next_in_key \in Keys
  /\ next_out_key \in Keys
  /\ used_size \in 0 .. Size
  /\ items \in [Keys -> Items \cup {NoItem}]
  /\ itemIsUsed \in [Keys -> BOOLEAN]
  /\ pc \in [Threads -> {"idle", "signal", "release", "pop", "recheck", "unlock"}]
  /\ pushResult \in [Producers -> {"none", "stored", "full"}]
  /\ popResult \in [Consumers -> Items \cup {NoItem}]

\* How far slot k is behind next_out_key, going round the ring.
Distance(k) == IF k >= next_out_key THEN k - next_out_key ELSE k + Size - next_out_key

\* The used slots are the used_size slots from next_out_key on, and next_in_key
\* comes right after them: push and pop test one flag each, and that flag alone
\* tells them "full" and "empty" however often the keys have wrapped around.
RingIsContiguous ==
  /\ \A k \in Keys : itemIsUsed[k] <=> Distance(k) < used_size
  /\ Distance(next_in_key) = IF used_size = Size THEN 0 ELSE used_size

\* The threads between the test of _empty or the store of an item and the
\* unlocking of _empty that this owes.
OwesUnlock(t) == pc[t] \in {"pop", "recheck", "unlock", "signal"}

\* No wakeup is lost: while an item waits, either _empty can be locked or some
\* thread is on its way to look at the queue or to unlock _empty, although
\* _used_size is read after _token was released.
NoLostWakeup ==
  used_size > 0 => ~empty \/ \E t \in Threads : OwesUnlock(t)

\* A used slot holds an item that was pushed, never the initial value.
UsedSlotsHoldItems == \A k \in Keys : itemIsUsed[k] => items[k] \in Items

\* _token is held exactly by the producer that has stored and not yet returned.
TokenHolder ==
  \A p \in Producers : token = p <=> pc[p] \in {"signal", "release"}

\* Producers are only at places of push, consumers only at places of pop_timed.
ThreadPlaces ==
  /\ \A p \in Producers : pc[p] \in {"idle", "signal", "release"}
  /\ \A c \in Consumers : pc[c] \in {"idle", "pop", "recheck", "unlock"}

\* The inductive invariant behind the properties above.
QueueInv ==
  /\ TypeOK
  /\ RingIsContiguous
  /\ UsedSlotsHoldItems
  /\ TokenHolder
  /\ ThreadPlaces
  /\ NoLostWakeup

\* The oldest item is handed out in the end, wherever it lies in the ring,
\* with producers that may stop pushing at any moment.
OldestIsTaken ==
  \A k \in Keys : (next_out_key = k /\ itemIsUsed[k]) ~> next_out_key # k
-----------------------------------------------------------------------------
(* The queue the ring stands for. *)
Slot(i) == IF next_out_key + i < Size THEN next_out_key + i ELSE next_out_key + i - Size

Contents == [i \in 1 .. used_size |-> items[Slot(i - 1)]]

Fifo == INSTANCE BoundedFifo WITH queue <- Contents

\* The ring implements the bounded first-in first-out queue: no item is lost,
\* duplicated or overtaken, and push returns false only when the ring is full.
ImplementsFifo == Fifo!Spec
=============================================================================
