------------------------- MODULE ServerPipeline_proofs -------------------------
(***************************************************************************)
(* Theorems about the threads of the server and the queues between them,    *)
(* for any number of connections, threads and places in the queues: every   *)
(* connection has one owner at a time, and the statistics lose no request.  *)
(***************************************************************************)
EXTENDS ServerPipeline, FiniteSetTheorems, WellFoundedInduction, TLAPS

Kinds == {"sessions", "in", "out", "reader", "exec", "writer"}
Spots == Slots \cup Readers \cup Execs \cup Writers

\* A slot in use that holds the connection.
InSlot(q, x, c) == x \in UsedSlots(q) /\ q.slot[x] = c

\* <<k, x>> is one of Places(c).
Holds(c, k, x) ==
  \/ k = "sessions" /\ InSlot(sessions, x, c)
  \/ k = "in" /\ InSlot(inQueue, x, c)
  \/ k = "out" /\ InSlot(outQueue, x, c)
  \/ k = "reader" /\ x \in Readers /\ reader[x].conn = c
  \/ k = "exec" /\ x \in Execs /\ exec[x].conn = c /\ exec[x].at # "idle"
  \/ k = "writer" /\ x \in Writers /\ writer[x].conn = c /\ writer[x].at # "idle"

\* The connection is there to be read from or written to.
Busy(c, k, x) ==
  Holds(c, k, x) /\ ~(k = "writer" /\ writer[x].at \in {"account", "reuse"})

ReaderStates ==
  [at : {"idle", "ended"}, conn : {None}] \cup [at : {"read", "submit"}, conn : Conns]
ExecStates ==
  [at : {"idle"}, conn : Conns \cup {None}] \cup [at : {"serve", "reply"}, conn : Conns]
    \cup [at : {"ended"}, conn : {None}]
WriterStates ==
  [at : {"idle"}, conn : Conns \cup {None}] \cup [at : {"write", "account", "reuse"}, conn : Conns]
    \cup [at : {"ended"}, conn : {None}]

QueueOK(q) == q \in QueueType /\ \A i \in UsedSlots(q) : q.slot[i] \in Conns

PlaceTypes ==
  /\ QueueOK(sessions) /\ QueueOK(inQueue) /\ QueueOK(outQueue)
  /\ reader \in [Readers -> ReaderStates]
  /\ exec \in [Execs -> ExecStates]
  /\ writer \in [Writers -> WriterStates]
  /\ client \in [Conns -> {"away", "open", "gone"}]
  /\ fd \in [Conns -> Fds \cup {0}] /\ alive \in [Conns -> BOOLEAN]
  /\ listening \in BOOLEAN /\ stop \in BOOLEAN

OwnedOnce ==
  \A c \in Conns : \A k1, k2 \in Kinds : \A x1, x2 \in Spots :
    Holds(c, k1, x1) /\ Holds(c, k2, x2) => k1 = k2 /\ x1 = x2

\* Connections that are alive have descriptors of their own.
DescriptorsOK ==
  \A c \in Conns :
    /\ alive[c] <=> fd[c] # 0
    /\ \A d \in Conns \ {c} : fd[c] # 0 => fd[d] # fd[c]

BusyAreAlive ==
  \A c \in Conns : \A k \in Kinds : \A x \in Spots : Busy(c, k, x) => alive[c]

AwayAreNowhere ==
  \A c \in Conns :
    client[c] = "away" => ~alive[c] /\ \A k \in Kinds : \A x \in Spots : ~Holds(c, k, x)

\* The inductive invariant of ownership.  That nobody closes a connection another
\* thread works on needs all of it: a connection has one place, and what has a place
\* and was not closed by its Writer is alive, under a descriptor of its own.
OwnerInv == PlaceTypes /\ OwnedOnce /\ DescriptorsOK /\ BusyAreAlive /\ AwayAreNowhere

\* A request of the connection is in the server and its answer is not written.
Unanswered(c) ==
  \/ \E r \in Readers : reader[r] = [at |-> "submit", conn |-> c]
  \/ InQueue(c, inQueue) \/ InQueue(c, outQueue)
  \/ \E e \in Execs : exec[e].conn = c /\ exec[e].at # "idle"
  \/ \E w \in Writers : writer[w].conn = c /\ writer[w].at = "write"

HasEntry(c) == \E f \in Fds : pending[f] = c

CountTypes ==
  /\ inbox \in [Conns -> BOOLEAN]
  /\ sent \in [Conns -> 0 .. MaxRequests]
  /\ replies \in [Conns -> Nat] /\ counted \in [Conns -> Nat]
  /\ pending \in [Fds -> Conns \cup {None}]

\* No request is answered twice, and none before it was read.
RepliesOK(c) ==
  /\ inbox[c] => sent[c] > 0
  /\ client[c] = "away" => sent[c] = 0 /\ ~HasEntry(c)
  /\ replies[c] <= Read(c)
  /\ Unanswered(c) => replies[c] < Read(c)

\* Under the descriptor of a connection that is alive there is its own request, which
\* is in the server, or none; and the entry of another only if it has none there.
LiveEntries(c) ==
  /\ \A f \in Fds : pending[f] = c => f = fd[c] /\ InServer(c)
  /\ InServer(c) => pending[fd[c]] \in {c, None}
  /\ counted[c] = IF HasEntry(c) THEN Read(c) - 1 ELSE Read(c)

\* A connection that is dead has one entry left at most.
DeadEntries(c) ==
  /\ \A f, g \in Fds : pending[f] = c /\ pending[g] = c => f = g
  /\ counted[c] \in {Read(c) - 1, Read(c)}
  /\ HasEntry(c) => counted[c] = Read(c) - 1

CountOK(c) ==
  RepliesOK(c) /\ IF alive[c] THEN LiveEntries(c) ELSE DeadEntries(c)

\* The inductive invariant of the statistics, beside OwnerInv.
CountInv == CountTypes /\ \A c \in Conns : CountOK(c)
-----------------------------------------------------------------------------
(* The ring of a queue. *)

\* The slot with a number, which may be one of the second time round.
SlotAt(k) == k % QueueSize

\* One step round the ring brings a number of the second time back to a slot.
LEMMA RingPlace ==
  ASSUME NEW k \in Nat, k < 2 * QueueSize
  PROVE  SlotAt(k) = IF k < QueueSize THEN k ELSE k - QueueSize
<1>1. QueueSize \in Nat \ {0}
  BY PipelineAssumption
<1>2. CASE k < QueueSize
  BY <1>1, <1>2 DEF SlotAt
<1>3. CASE k >= QueueSize
  <2>1. PICK d \in 0 .. QueueSize - 1 : k = QueueSize + d
    BY <1>1, <1>3
  <2>2. (QueueSize + d) % QueueSize = d
    BY <1>1
  <2> QED BY <2>1, <2>2, <1>1, <1>3 DEF SlotAt
<1> QED BY <1>1, <1>2, <1>3

\* Different distances from the oldest slot are different slots.
LEMMA SlotsDiffer ==
  ASSUME NEW o \in Slots, NEW i \in 0 .. QueueSize - 1, NEW j \in 0 .. QueueSize - 1
  PROVE  SlotAt(o + i) \in Slots /\ (SlotAt(o + i) = SlotAt(o + j) => i = j)
<1>1. QueueSize \in Nat \ {0} /\ o \in 0 .. QueueSize - 1
  BY PipelineAssumption DEF Slots
<1>2. SlotAt(o + i) = IF o + i < QueueSize THEN o + i ELSE o + i - QueueSize
  BY <1>1, RingPlace
<1>3. SlotAt(o + j) = IF o + j < QueueSize THEN o + j ELSE o + j - QueueSize
  BY <1>1, RingPlace
<1> QED BY <1>1, <1>2, <1>3 DEF Slots

\* The slots in use are slots.
LEMMA UsedAreSlots ==
  ASSUME NEW q, QueueOK(q)
  PROVE  UsedSlots(q) \subseteq Slots
<1> SUFFICES ASSUME NEW i \in 0 .. q.used - 1 PROVE SlotAt(q.out + i) \in Slots
  BY DEF UsedSlots, SlotAt
<1>1. q.out \in Slots /\ i \in 0 .. QueueSize - 1
  BY PipelineAssumption DEF QueueOK, QueueType
<1> QED BY <1>1, SlotsDiffer

\* push takes a free slot and leaves the others.
LEMMA PushedSlots ==
  ASSUME NEW q, QueueOK(q), ~Full(q), NEW c \in Conns
  PROVE  /\ QueueOK(Pushed(q, c))
         /\ \E n \in Slots :
              /\ InSlot(Pushed(q, c), n, c) /\ \A d : ~InSlot(q, n, d)
              /\ \A x, d : InSlot(Pushed(q, c), x, d) <=> InSlot(q, x, d) \/ (x = n /\ d = c)
<1> DEFINE p == Pushed(q, c)
           n == SlotAt(q.out + q.used)
<1>1. QueueSize \in Nat \ {0} /\ q.out \in Slots /\ q.used \in 0 .. QueueSize - 1
      /\ q.slot \in [Slots -> Conns \cup {None}]
  BY PipelineAssumption DEF QueueOK, QueueType, Full
<1>2. n \in Slots /\ \A i \in 0 .. q.used - 1 : SlotAt(q.out + i) \in Slots \ {n}
  <2>1. \A i \in 0 .. q.used - 1 : i \in 0 .. QueueSize - 1 /\ i # q.used
    BY <1>1
  <2> QED BY <1>1, <2>1, SlotsDiffer
<1>3. /\ p.out = q.out /\ p.used = q.used + 1 /\ p.slot = [q.slot EXCEPT ![n] = c]
      /\ p \in [slot : {p.slot}, out : {p.out}, used : {p.used}]
  <2>1. q \in [slot : {q.slot}, out : {q.out}, used : {q.used}]
    BY DEF QueueOK, QueueType
  <2> QED BY <2>1 DEF Pushed, SlotAt
<1>4. UsedSlots(p) = UsedSlots(q) \cup {n}
  <2>1. 0 .. p.used - 1 = (0 .. q.used - 1) \cup {q.used}
    BY <1>1, <1>3
  <2> QED BY <1>3, <2>1 DEF UsedSlots, SlotAt
<1>5. n \notin UsedSlots(q) /\ UsedSlots(q) \subseteq Slots
  BY <1>2 DEF UsedSlots, SlotAt
<1>6. QueueOK(p)
  BY <1>1, <1>2, <1>3, <1>4, <1>5 DEF QueueOK, QueueType
<1>7. \A x, d : InSlot(p, x, d) <=> InSlot(q, x, d) \/ (x = n /\ d = c)
  BY <1>1, <1>2, <1>3, <1>4, <1>5 DEF InSlot
<1> HIDE DEF n, p
<1>8. InSlot(p, n, c) /\ \A d : ~InSlot(q, n, d)
  BY <1>5, <1>7 DEF InSlot
<1> QED BY <1>2, <1>6, <1>7, <1>8 DEF p

\* pop gives the slot of the oldest item free and leaves the others.
LEMMA PoppedSlots ==
  ASSUME NEW q, QueueOK(q), q.used > 0
  PROVE  /\ QueueOK(Popped(q)) /\ q.out \in Slots
         /\ First(q) \in Conns /\ InSlot(q, q.out, First(q))
         /\ \A x, d : InSlot(Popped(q), x, d) <=> InSlot(q, x, d) /\ x # q.out
<1> DEFINE p == Popped(q)
<1>1. QueueSize \in Nat \ {0} /\ q.out \in Slots /\ q.used \in 1 .. QueueSize
      /\ q.slot \in [Slots -> Conns \cup {None}]
  BY PipelineAssumption DEF QueueOK, QueueType
<1>2. /\ p.out = SlotAt(q.out + 1) /\ p.used = q.used - 1 /\ p.slot = q.slot
      /\ p \in [slot : {p.slot}, out : {p.out}, used : {p.used}]
  <2>1. q \in [slot : {q.slot}, out : {q.out}, used : {q.used}]
    BY DEF QueueOK, QueueType
  <2> QED BY <2>1 DEF Popped, SlotAt
<1>3. SlotAt(q.out) = q.out /\ p.out \in Slots
  <2>1. q.out \in Nat /\ q.out < QueueSize
    BY <1>1 DEF Slots
  <2>2. SlotAt(q.out) = q.out
    BY <1>1, <2>1, RingPlace
  <2>3. SlotAt(q.out + 1) = IF q.out + 1 < QueueSize THEN q.out + 1 ELSE q.out + 1 - QueueSize
    BY <1>1, <2>1, RingPlace
  <2> QED BY <1>1, <1>2, <2>1, <2>2, <2>3 DEF Slots
<1>4. \A i \in 0 .. p.used - 1 : SlotAt(p.out + i) = SlotAt(q.out + (i + 1))
  <2> SUFFICES ASSUME NEW i \in 0 .. p.used - 1
               PROVE  SlotAt(p.out + i) = SlotAt(q.out + (i + 1))
    OBVIOUS
  <2>1. q.out \in 0 .. QueueSize - 1 /\ p.out \in 0 .. QueueSize - 1 /\ i \in 0 .. QueueSize - 2
    BY <1>1, <1>2, <1>3 DEF Slots
  <2>2. p.out = IF q.out + 1 < QueueSize THEN q.out + 1 ELSE q.out + 1 - QueueSize
    BY <1>1, <1>2, <2>1, RingPlace
  <2>3. SlotAt(p.out + i) = IF p.out + i < QueueSize THEN p.out + i ELSE p.out + i - QueueSize
    BY <1>1, <2>1, RingPlace
  <2>4. SlotAt(q.out + (i + 1))
          = IF q.out + (i + 1) < QueueSize THEN q.out + (i + 1)
            ELSE q.out + (i + 1) - QueueSize
    BY <1>1, <2>1, RingPlace
  <2> QED BY <1>1, <2>1, <2>2, <2>3, <2>4
<1>5. UsedSlots(p) = {SlotAt(q.out + i) : i \in 1 .. q.used - 1}
  <2>1. UsedSlots(p) = {SlotAt(q.out + (i + 1)) : i \in 0 .. p.used - 1}
    BY <1>4 DEF UsedSlots, SlotAt
  <2>2. \A i \in 0 .. p.used - 1 : i + 1 \in 1 .. q.used - 1
    BY <1>1, <1>2
  <2>3. \A i \in 1 .. q.used - 1 : i - 1 \in 0 .. p.used - 1 /\ (i - 1) + 1 = i
    BY <1>1, <1>2
  <2> QED BY <2>1, <2>2, <2>3
<1>6. UsedSlots(q) = UsedSlots(p) \cup {q.out}
  <2>1. 0 .. q.used - 1 = (1 .. q.used - 1) \cup {0}
    BY <1>1
  <2>2. UsedSlots(q) = {SlotAt(q.out + i) : i \in 0 .. q.used - 1}
    BY DEF UsedSlots, SlotAt
  <2>3. q.out + 0 = q.out
    BY <1>1 DEF Slots
  <2> QED BY <1>3, <1>5, <2>1, <2>2, <2>3
<1>7. q.out \notin UsedSlots(p)
  <2>1. \A i \in 1 .. q.used - 1 : SlotAt(q.out + i) # SlotAt(q.out + 0)
    <3> SUFFICES ASSUME NEW i \in 1 .. q.used - 1
                 PROVE  SlotAt(q.out + i) # SlotAt(q.out + 0)
      OBVIOUS
    <3>1. i \in 0 .. QueueSize - 1 /\ 0 \in 0 .. QueueSize - 1 /\ i # 0
      BY <1>1
    <3> QED BY <1>1, <3>1, SlotsDiffer
  <2>2. q.out + 0 = q.out
    BY <1>1 DEF Slots
  <2> QED BY <1>3, <1>5, <2>1, <2>2
<1>8. QueueOK(p)
  BY <1>1, <1>2, <1>3, <1>6 DEF QueueOK, QueueType
<1>9. First(q) \in Conns /\ InSlot(q, q.out, First(q))
  BY <1>6 DEF First, InSlot, QueueOK
<1>10. \A x, d : InSlot(p, x, d) <=> InSlot(q, x, d) /\ x # q.out
  BY <1>2, <1>6, <1>7 DEF InSlot
<1> HIDE DEF p
<1> QED BY <1>1, <1>8, <1>9, <1>10 DEF p
-----------------------------------------------------------------------------
(* Descriptors and their release. *)

\* A set of numbers that is not empty has a least element.
LEMMA LeastElement ==
  ASSUME NEW S \in SUBSET Nat, S # {}
  PROVE  \E m \in S : \A k \in S : m <= k
<1>1. PICK m \in S : \A k \in S : ~(<<k, m>> \in OpToRel(<, Nat))
  BY NatLessThanWellFounded, WFMin
<1>2. ASSUME NEW k \in S PROVE m <= k
  <2>1. k < m => <<k, m>> \in OpToRel(<, Nat)
    BY DEF OpToRel
  <2>2. ~(k < m)
    BY <2>1, <1>1, Zenon
  <2> QED BY <2>2
<1> QED BY <1>2

\* What is done to a connection in passing: it is released, but not while it is busy.
KeptOrReleased(d) ==
  \/ fd'[d] = fd[d] /\ alive'[d] = alive[d]
  \/ /\ fd'[d] = 0 /\ alive'[d] = FALSE
     /\ \A k \in Kinds, x \in Spots : ~Busy(d, k, x)'

\* A connection that has a place is referred to.
LEMMA PlaceRefers ==
  ASSUME NEW d \in Conns, NEW k \in Kinds, NEW x \in Spots, Holds(d, k, x)',
         QueueOK(sessions)', QueueOK(inQueue)', QueueOK(outQueue)'
  PROVE  Referenced(d)'
<1>1. ASSUME NEW q, QueueOK(q), InSlot(q, x, d) PROVE HeldBy(d, q)
  <2>1. x \in Slots
    BY <1>1, UsedAreSlots DEF InSlot
  <2> QED BY <1>1, <2>1 DEF InSlot, HeldBy
<1>2. CASE k \in {"sessions", "in", "out"}
  BY <1>1, <1>2 DEF Holds, Referenced
<1>3. CASE k \in {"reader", "exec", "writer"}
  BY <1>3 DEF Holds, Referenced
<1> QED
  BY <1>2, <1>3 DEF Kinds

\* The destructor touches no connection that is busy.
LEMMA ReleaseKeeps ==
  ASSUME Release(fd, alive), PlaceTypes, PlaceTypes', NEW d \in Conns
  PROVE  KeptOrReleased(d)
<1>1. fd'[d] = (IF Referenced(d)' THEN fd[d] ELSE 0)
      /\ alive'[d] = (Referenced(d)' /\ alive[d])
  BY DEF Release
<1>2. \A k \in Kinds, x \in Spots : Busy(d, k, x)' => Referenced(d)'
  BY PlaceRefers DEF Busy, PlaceTypes
<1> QED
  BY <1>1, <1>2 DEF KeptOrReleased, PlaceTypes

\* Nor does abort, when the connection aborted is in no other hands.
LEMMA ReleaseAborts ==
  ASSUME NEW c \in Conns, Release(Aborted(fd, c), [alive EXCEPT ![c] = FALSE]),
         PlaceTypes, PlaceTypes', \A k \in Kinds, x \in Spots : ~Busy(c, k, x)',
         NEW d \in Conns
  PROVE  KeptOrReleased(d)
<1>1. fd'[d] = (IF Referenced(d)' THEN Aborted(fd, c)[d] ELSE 0)
      /\ alive'[d] = (Referenced(d)' /\ [alive EXCEPT ![c] = FALSE][d])
  BY DEF Release
<1>2. \A k \in Kinds, x \in Spots : Busy(d, k, x)' => Referenced(d)'
  BY PlaceRefers DEF Busy, PlaceTypes
<1>3. CASE d = c
  BY <1>1, <1>3 DEF KeptOrReleased, Aborted, PlaceTypes
<1>4. CASE d # c
  BY <1>1, <1>2, <1>4 DEF KeptOrReleased, Aborted, PlaceTypes
<1> QED
  BY <1>3, <1>4

\* The types of what Release leaves.
LEMMA ReleaseTypes ==
  ASSUME NEW f \in [Conns -> Fds \cup {0}], NEW a \in [Conns -> BOOLEAN], Release(f, a)
  PROVE  fd' \in [Conns -> Fds \cup {0}] /\ alive' \in [Conns -> BOOLEAN]
BY DEF Release
-----------------------------------------------------------------------------
(* Two forms of a step: no connection gets a place, or one moves to one. *)

\* A step by which no connection gets a new place.
LEMMA NobodyMoves ==
  ASSUME OwnerInv, PlaceTypes', \A c \in Conns : client'[c] = "away" => client[c] = "away",
         \A d \in Conns : KeptOrReleased(d),
         \A d \in Conns, k \in Kinds, x \in Spots : Holds(d, k, x)' => Holds(d, k, x),
         \A d \in Conns, k \in Kinds, x \in Spots : Busy(d, k, x)' => Busy(d, k, x)
  PROVE  OwnerInv'
<1>1. OwnedOnce'
  BY DEF OwnerInv, OwnedOnce
<1>2. DescriptorsOK'
  BY DEF OwnerInv, PlaceTypes, DescriptorsOK, KeptOrReleased
<1>3. BusyAreAlive'
  BY DEF OwnerInv, BusyAreAlive, KeptOrReleased
<1>4. AwayAreNowhere'
  BY DEF OwnerInv, AwayAreNowhere, KeptOrReleased
<1> QED
  BY <1>1, <1>2, <1>3, <1>4 DEF OwnerInv

\* A step by which one connection, known and alive, gets to one new place.
LEMMA OneMoves ==
  ASSUME OwnerInv, PlaceTypes', UNCHANGED client,
         \A d \in Conns : KeptOrReleased(d),
         NEW c \in Conns, client[c] # "away", alive[c], NEW to \in Kinds, NEW y \in Spots,
         \A d \in Conns \ {c}, k \in Kinds, x \in Spots : Holds(d, k, x)' => Holds(d, k, x),
         \A d \in Conns \ {c}, k \in Kinds, x \in Spots : Busy(d, k, x)' => Busy(d, k, x),
         \A k \in Kinds, x \in Spots : Holds(c, k, x)' => k = to /\ x = y
  PROVE  OwnerInv'
<1>1. OwnedOnce'
  BY DEF OwnerInv, OwnedOnce
<1>2. DescriptorsOK'
  BY DEF OwnerInv, PlaceTypes, DescriptorsOK, KeptOrReleased
<1>3. BusyAreAlive'
  <2> SUFFICES ASSUME NEW d \in Conns, NEW k \in Kinds, NEW x \in Spots, Busy(d, k, x)'
               PROVE  alive'[d]
    BY DEF BusyAreAlive
  <2>1. alive[d]
    BY DEF OwnerInv, BusyAreAlive
  <2> QED BY <2>1 DEF KeptOrReleased
<1>4. AwayAreNowhere'
  BY DEF OwnerInv, AwayAreNowhere, KeptOrReleased
<1> QED
  BY <1>1, <1>2, <1>3, <1>4 DEF OwnerInv
-----------------------------------------------------------------------------
(* The steps, one lemma each. *)

\* The server starts with no connections.
LEMMA OwnerStart == Init => OwnerInv
<1> SUFFICES ASSUME Init PROVE OwnerInv
  OBVIOUS
<1>1. QueueOK(EmptyQueue) /\ UsedSlots(EmptyQueue) = {}
  <2>1. 0 .. EmptyQueue.used - 1 = {} /\ EmptyQueue \in QueueType
    BY PipelineAssumption DEF EmptyQueue, QueueType, Slots
  <2> QED BY <2>1 DEF QueueOK, UsedSlots
<1>2. PlaceTypes
  BY <1>1 DEF Init, PlaceTypes, ReaderStates, ExecStates, WriterStates
<1>3. \A c \in Conns, k \in Kinds, x \in Spots : ~Holds(c, k, x)
  BY <1>1, PipelineAssumption DEF Init, Holds, InSlot
<1>4. DescriptorsOK
  BY DEF Init, DescriptorsOK
<1> QED
  BY <1>2, <1>3, <1>4 DEF Init, OwnerInv, OwnedOnce, BusyAreAlive, AwayAreNowhere, Busy

\* A new connection gets the lowest free descriptor, and there is one.
LEMMA FreeDescriptor ==
  ASSUME PlaceTypes, NEW c \in Conns, fd[c] = 0
  PROVE  LowestFree \in Fds /\ \A d \in Conns : fd[d] # LowestFree
<1> DEFINE Free == {f \in Fds : \A d \in Conns : fd[d] # f}
<1>1. Cardinality(Conns) \in Nat /\ Fds = 1 .. Cardinality(Conns)
  BY PipelineAssumption, FS_CardinalityType DEF Fds
<1>2. Free # {}
  <2> SUFFICES ASSUME \A f \in Fds : \E d \in Conns : fd[d] = f PROVE FALSE
    OBVIOUS
  <2> DEFINE Others == Conns \ {c}
             By == [f \in Fds |-> CHOOSE d \in Conns : fd[d] = f]
  <2>1. \A f \in Fds : By[f] \in Conns /\ fd[By[f]] = f
    OBVIOUS
  <2>2. By \in [Fds -> Others]
    <3>1. \A f \in Fds : f # 0
      BY <1>1
    <3> QED BY <2>1, <3>1
  <2>3. IsFiniteSet(Others) /\ Cardinality(Others) = Cardinality(Conns) - 1
    BY PipelineAssumption, FS_RemoveElement
  <2>4. IsFiniteSet(Fds) /\ Cardinality(Fds) = Cardinality(Conns)
    BY <1>1, FS_Interval
  <2>5. \E f, g \in Fds : f # g /\ By[f] = By[g]
    <3> HIDE DEF Others, By
    <3> QED BY <1>1, <2>2, <2>3, <2>4, FS_PigeonHole
  <2> QED BY <2>1, <2>5
<1>3. PICK m \in Free : \A f \in Free : m <= f
  <2>1. Free \in SUBSET Nat
    BY <1>1
  <2> HIDE DEF Free
  <2> QED BY <1>2, <2>1, LeastElement
<1>4. /\ \A d \in Conns : fd[d] # m
      /\ \A g \in 1 .. m - 1 : \E d \in Conns : fd[d] = g
  BY <1>1, <1>3
<1> QED
  BY <1>3, <1>4 DEF LowestFree

\* A new connection has a descriptor of its own and one place, or is closed at once.
LEMMA AcceptOwner ==
  ASSUME OwnerInv, NEW c \in Conns, Accept(c)
  PROVE  OwnerInv'
<1> DEFINE f == [fd EXCEPT ![c] = LowestFree]
           a == [alive EXCEPT ![c] = TRUE]
<1>1. ~alive[c] /\ fd[c] = 0 /\ \A k \in Kinds, x \in Spots : ~Holds(c, k, x)
  BY DEF Accept, OwnerInv, AwayAreNowhere, DescriptorsOK
<1>2. LowestFree \in Fds /\ \A d \in Conns : fd[d] # LowestFree
  BY <1>1, FreeDescriptor DEF OwnerInv
<1>3. f \in [Conns -> Fds \cup {0}] /\ a \in [Conns -> BOOLEAN] /\ Release(f, a)
  BY <1>2 DEF Accept, OwnerInv, PlaceTypes
<1>4. QueueOK(sessions)' /\ \E n \in Slots : \A x, d :
        InSlot(sessions, x, d)' => InSlot(sessions, x, d) \/ (x = n /\ d = c)
  <2>1. CASE Full(sessions)
    BY <2>1, PipelineAssumption DEF Accept, OwnerInv, PlaceTypes, InSlot, Slots, QueueOK, QueueType
  <2>2. CASE ~Full(sessions)
    <3>1. sessions' = Pushed(sessions, c)
      BY <2>2 DEF Accept
    <3> QED BY <2>2, <3>1, PushedSlots DEF OwnerInv, PlaceTypes
  <2> QED BY <2>1, <2>2
<1>5. PlaceTypes'
  <2>1. fd' \in [Conns -> Fds \cup {0}] /\ alive' \in [Conns -> BOOLEAN]
    <3> HIDE DEF f, a
    <3> QED BY <1>3, ReleaseTypes
  <2> QED BY <1>4, <2>1 DEF Accept, OwnerInv, PlaceTypes, QueueOK
<1>6. PICK n \in Slots : \A d \in Conns, k \in Kinds, x \in Spots :
        Holds(d, k, x)' => Holds(d, k, x) \/ (d = c /\ k = "sessions" /\ x = n)
  BY <1>4 DEF Accept, Holds, InSlot
<1>7. \A d \in Conns, k \in Kinds, x \in Spots : Holds(d, k, x)' => Referenced(d)'
  BY <1>5, PlaceRefers DEF PlaceTypes
<1>8. \A d \in Conns : /\ fd'[d] = IF Referenced(d)' THEN f[d] ELSE 0
                       /\ alive'[d] = (Referenced(d)' /\ a[d])
  BY DEF Accept, Release
<1>9. OwnedOnce'
  BY <1>1, <1>6 DEF OwnerInv, OwnedOnce
<1>10. DescriptorsOK'
  <2>1. 0 \notin Fds
    BY PipelineAssumption, FS_CardinalityType DEF Fds
  <2> QED BY <1>1, <1>2, <1>8, <2>1 DEF OwnerInv, PlaceTypes, DescriptorsOK
<1>11. BusyAreAlive'
  <2> SUFFICES ASSUME NEW d \in Conns, NEW k \in Kinds, NEW x \in Spots, Busy(d, k, x)'
               PROVE  alive'[d]
    BY DEF BusyAreAlive
  <2>1. CASE d = c
    BY <2>1, <1>7, <1>8 DEF Busy, OwnerInv, PlaceTypes
  <2>2. CASE d # c
    <3>1. Busy(d, k, x)
      BY <2>2, <1>6 DEF Busy, Accept
    <3> QED BY <3>1, <2>2, <1>7, <1>8 DEF Busy, OwnerInv, PlaceTypes, BusyAreAlive
  <2> QED BY <2>1, <2>2
<1>12. AwayAreNowhere'
  BY <1>6, <1>8 DEF Accept, OwnerInv, PlaceTypes, AwayAreNowhere
<1> QED
  BY <1>5, <1>9, <1>10, <1>11, <1>12 DEF OwnerInv

\* Clients and the operator change nothing that is owned.
LEMMA OutsideOwner ==
  ASSUME OwnerInv,
         (\E c \in Conns : ClientStep(c)) \/ ListenerEnds \/ Interrupt \/ UNCHANGED vars
  PROVE  OwnerInv'
<1>1. UNCHANGED <<fd, alive, queues, reader, exec, writer>>
  BY DEF ClientStep, Send, SendPart, Leave, ListenerEnds, Interrupt, vars, server, threads, queues
<1>2. /\ client' \in [Conns -> {"away", "open", "gone"}]
      /\ \A c \in Conns : client'[c] = "away" => client[c] = "away"
  BY DEF ClientStep, Send, SendPart, Leave, ListenerEnds, Interrupt, vars, server, clients,
         OwnerInv, PlaceTypes
<1>3. listening' \in BOOLEAN /\ stop' \in BOOLEAN
  BY DEF ClientStep, Send, SendPart, Leave, ListenerEnds, Interrupt, vars, server, threads,
         OwnerInv, PlaceTypes
<1>4. PlaceTypes'
  BY <1>1, <1>2, <1>3 DEF OwnerInv, PlaceTypes, queues, QueueOK, UsedSlots
<1>5. \A d \in Conns, k \in Kinds, x \in Spots :
        (Holds(d, k, x)' => Holds(d, k, x)) /\ (Busy(d, k, x)' => Busy(d, k, x))
  BY <1>1 DEF queues, Busy, Holds, InSlot, UsedSlots
<1>6. \A d \in Conns : KeptOrReleased(d)
  BY <1>1 DEF KeptOrReleased
<1> QED
  BY <1>2, <1>4, <1>5, <1>6, NobodyMoves
\* A place makes its connection present, and alive if it is busy there.
LEMMA PresentOwner ==
  ASSUME OwnerInv, NEW c \in Conns, NEW k \in Kinds, NEW x \in Spots, Holds(c, k, x)
  PROVE  client[c] # "away" /\ (Busy(c, k, x) => alive[c])
BY DEF OwnerInv, AwayAreNowhere, BusyAreAlive

\* A connection that is somewhere is nowhere else.
LEMMA OnePlace ==
  ASSUME OwnerInv, NEW c \in Conns, NEW k \in Kinds, NEW x \in Spots, Holds(c, k, x),
         NEW l \in Kinds, NEW y \in Spots, Holds(c, l, y)
  PROVE  k = l /\ x = y
BY DEF OwnerInv, OwnedOnce

\* A Reader takes the connection that left the session queue.
LEMMA ReaderPopOwner ==
  ASSUME OwnerInv, NEW r \in Readers, ReaderPop(r)
  PROVE  OwnerInv'
<1>1. PICK c \in Conns : c = First(sessions)
  BY PoppedSlots DEF ReaderPop, OwnerInv, PlaceTypes
<1>2. /\ QueueOK(sessions)' /\ sessions.out \in Slots /\ InSlot(sessions, sessions.out, c)
      /\ \A x, d : InSlot(sessions, x, d)' <=> InSlot(sessions, x, d) /\ x # sessions.out
  <2>1. sessions' = Popped(sessions)
    BY DEF ReaderPop
  <2> QED BY <1>1, <2>1, PoppedSlots DEF ReaderPop, OwnerInv, PlaceTypes
<1>3. "sessions" \in Kinds /\ sessions.out \in Spots /\ Busy(c, "sessions", sessions.out)
  BY <1>2 DEF Kinds, Spots, Busy, Holds
<1>4. client[c] # "away" /\ alive[c]
  BY <1>3, PresentOwner DEF Busy
<1>5. reader' = [reader EXCEPT ![r] = [at |-> "read", conn |-> c]]
  BY <1>1 DEF ReaderPop, ReaderGoes
<1>6. PlaceTypes'
  <2>1. reader' \in [Readers -> ReaderStates]
    BY <1>5 DEF OwnerInv, PlaceTypes, ReaderStates
  <2> QED BY <1>2, <2>1, ReleaseTypes
          DEF ReaderPop, OwnerInv, PlaceTypes, clients, QueueOK, UsedSlots
<1>7. \A d \in Conns : KeptOrReleased(d)
  BY <1>6, ReleaseKeeps DEF ReaderPop, OwnerInv
<1>8. \A d \in Conns, k \in Kinds, x \in Spots :
        Holds(d, k, x)' => \/ Holds(d, k, x) /\ ~(k = "sessions" /\ x = sessions.out)
                           \/ d = c /\ k = "reader" /\ x = r
  BY <1>2, <1>5 DEF ReaderPop, Holds, InSlot, UsedSlots, OwnerInv, PlaceTypes
<1>9. \A k \in Kinds, x \in Spots : Holds(c, k, x)' => k = "reader" /\ x = r
  BY <1>3, <1>8, OnePlace DEF Busy
<1>10. \A d \in Conns \ {c}, k \in Kinds, x \in Spots :
         (Holds(d, k, x)' => Holds(d, k, x)) /\ (Busy(d, k, x)' => Busy(d, k, x))
  BY <1>8 DEF ReaderPop, Busy
<1> QED
  BY <1>4, <1>6, <1>7, <1>9, <1>10, OneMoves DEF ReaderPop, clients, Kinds, Spots

\* The steps by which a Reader keeps its connection or lets it go.
LEMMA ReaderKeepsOwner ==
  ASSUME OwnerInv, NEW r \in Readers, NEW to, NEW c \in Conns \cup {None},
         ReaderGoes(r, to, c), c \in {reader[r].conn, None},
         [at |-> to, conn |-> c] \in ReaderStates,
         UNCHANGED <<client, queues, exec, writer, listening, stop>>,
         \/ Release(fd, alive)
         \/ UNCHANGED <<fd, alive>>
         \/ /\ reader[r].conn \in Conns /\ c = None
            /\ Release(Aborted(fd, reader[r].conn), [alive EXCEPT ![reader[r].conn] = FALSE])
  PROVE  OwnerInv'
<1>1. reader' = [reader EXCEPT ![r] = [at |-> to, conn |-> c]]
  BY DEF ReaderGoes
<1>2. PlaceTypes'
  <2>1. reader' \in [Readers -> ReaderStates]
    BY <1>1 DEF OwnerInv, PlaceTypes
  <2>2. fd' \in [Conns -> Fds \cup {0}] /\ alive' \in [Conns -> BOOLEAN]
    <3>1. CASE Release(fd, alive)
      BY <3>1, ReleaseTypes DEF OwnerInv, PlaceTypes
    <3>2. ASSUME NEW b \in Conns, Release(Aborted(fd, b), [alive EXCEPT ![b] = FALSE])
          PROVE  fd' \in [Conns -> Fds \cup {0}] /\ alive' \in [Conns -> BOOLEAN]
      <4>1. /\ Aborted(fd, b) \in [Conns -> Fds \cup {0}]
            /\ [alive EXCEPT ![b] = FALSE] \in [Conns -> BOOLEAN]
        BY DEF OwnerInv, PlaceTypes, Aborted
      <4> QED BY <3>2, <4>1, ReleaseTypes
    <3> QED BY <3>1, <3>2 DEF OwnerInv, PlaceTypes
  <2> QED BY <2>1, <2>2 DEF OwnerInv, PlaceTypes, queues, QueueOK, UsedSlots
<1>3. \A d \in Conns, k \in Kinds, x \in Spots :
        (Holds(d, k, x)' => Holds(d, k, x)) /\ (Busy(d, k, x)' => Busy(d, k, x))
  BY <1>1, PipelineAssumption
     DEF queues, Busy, Holds, InSlot, UsedSlots, OwnerInv, PlaceTypes
<1>4. ASSUME NEW d \in Conns PROVE KeptOrReleased(d)
  <2>1. CASE Release(fd, alive)
    BY <1>2, <2>1, ReleaseKeeps DEF OwnerInv
  <2>2. CASE UNCHANGED <<fd, alive>>
    BY <2>2 DEF KeptOrReleased
  <2>3. ASSUME NEW b \in Conns, b = reader[r].conn, c = None,
               Release(Aborted(fd, b), [alive EXCEPT ![b] = FALSE])
        PROVE  KeptOrReleased(d)
    <3>1. "reader" \in Kinds /\ r \in Spots /\ Holds(b, "reader", r)
      BY <2>3 DEF Kinds, Spots, Holds
    <3>2. ~Holds(b, "reader", r)'
      BY <1>1, <2>3, PipelineAssumption DEF Holds, OwnerInv, PlaceTypes
    <3>3. \A k \in Kinds, x \in Spots : ~Busy(b, k, x)'
      BY <1>3, <3>1, <3>2, OnePlace DEF Busy
    <3> QED BY <1>2, <2>3, <3>3, ReleaseAborts DEF OwnerInv
  <2> QED BY <2>1, <2>2, <2>3
<1> QED
  BY <1>2, <1>3, <1>4, NobodyMoves

\* A Reader gives its connection up to the queue of requests.
LEMMA SubmitOwner ==
  ASSUME OwnerInv, NEW r \in Readers, SubmitRequest(r)
  PROVE  OwnerInv'
<1>1. PICK c \in Conns : c = reader[r].conn
  BY DEF SubmitRequest, OwnerInv, PlaceTypes, ReaderStates
<1>2. /\ QueueOK(inQueue)'
      /\ \E n \in Slots : \A x, d :
           InSlot(inQueue, x, d)' => InSlot(inQueue, x, d) \/ (x = n /\ d = c)
  <2>1. inQueue' = Pushed(inQueue, c) /\ ~Full(inQueue)
    BY <1>1 DEF SubmitRequest
  <2> QED BY <2>1, PushedSlots DEF OwnerInv, PlaceTypes
<1>3. "reader" \in Kinds /\ r \in Spots /\ Busy(c, "reader", r)
  BY <1>1 DEF Kinds, Spots, Busy, Holds
<1>4. client[c] # "away" /\ alive[c]
  BY <1>3, PresentOwner DEF Busy
<1>5. reader' = [reader EXCEPT ![r] = [at |-> LoopTop, conn |-> None]]
  BY DEF SubmitRequest, ReaderGoes
<1>6. PlaceTypes'
  <2>1. reader' \in [Readers -> ReaderStates]
    BY <1>5 DEF LoopTop, OwnerInv, PlaceTypes, ReaderStates
  <2> QED BY <1>2, <2>1, ReleaseTypes
          DEF SubmitRequest, OwnerInv, PlaceTypes, clients, QueueOK, UsedSlots
<1>7. \A d \in Conns : KeptOrReleased(d)
  BY <1>6, ReleaseKeeps DEF SubmitRequest, OwnerInv
<1>8. PICK n \in Slots : \A d \in Conns, k \in Kinds, x \in Spots :
        Holds(d, k, x)' => \/ Holds(d, k, x) /\ ~(k = "reader" /\ x = r)
                           \/ d = c /\ k = "in" /\ x = n
  BY <1>2, <1>5, PipelineAssumption
     DEF SubmitRequest, Holds, InSlot, UsedSlots, OwnerInv, PlaceTypes
<1>9. \A k \in Kinds, x \in Spots : Holds(c, k, x)' => k = "in" /\ x = n
  BY <1>3, <1>8, OnePlace DEF Busy
<1>10. \A d \in Conns \ {c}, k \in Kinds, x \in Spots :
         (Holds(d, k, x)' => Holds(d, k, x)) /\ (Busy(d, k, x)' => Busy(d, k, x))
  BY <1>8 DEF SubmitRequest, Busy
<1> QED
  BY <1>4, <1>6, <1>7, <1>9, <1>10, OneMoves DEF SubmitRequest, clients, Kinds, Spots

\* The steps of a Reader.
LEMMA ReaderOwner ==
  ASSUME OwnerInv, NEW r \in Readers, ReaderStep(r)
  PROVE  OwnerInv'
<1> DEFINE c == reader[r].conn
<1>1. /\ reader[r].at \in {"read", "submit"} => c \in Conns
      /\ reader[r].at \in {"idle", "ended"} => c = None
  BY PipelineAssumption DEF OwnerInv, PlaceTypes, ReaderStates
<1>2. [at |-> LoopTop, conn |-> None] \in ReaderStates
      /\ [at |-> "ended", conn |-> None] \in ReaderStates
      /\ (c \in Conns => [at |-> "submit", conn |-> c] \in ReaderStates)
  BY DEF LoopTop, ReaderStates
<1>3. CASE ReadRequest(r)
  BY <1>1, <1>2, <1>3, ReaderKeepsOwner DEF ReadRequest
<1>4. CASE ReadNothing(r)
  BY <1>2, <1>4, ReaderKeepsOwner DEF ReadNothing, clients
<1>5. CASE ReadTimeout(r)
  BY <1>1, <1>2, <1>5, ReaderKeepsOwner DEF ReadTimeout, clients
<1>6. CASE RejectRequest(r)
  BY <1>2, <1>6, ReaderKeepsOwner DEF RejectRequest, clients
<1>7. CASE ReaderEnds(r)
  BY <1>2, <1>7, ReaderKeepsOwner DEF ReaderEnds, clients
<1>8. CASE ReadPart(r)
  <2>1. UNCHANGED <<client, fd, alive, queues, reader, exec, writer, listening, stop>>
    BY <1>8 DEF ReadPart, threads
  <2>2. PlaceTypes'
    BY <2>1 DEF OwnerInv, PlaceTypes, queues, QueueOK, UsedSlots
  <2>3. \A d \in Conns, k \in Kinds, x \in Spots :
          (Holds(d, k, x)' => Holds(d, k, x)) /\ (Busy(d, k, x)' => Busy(d, k, x))
    BY <2>1 DEF queues, Busy, Holds, InSlot, UsedSlots
  <2> QED BY <2>1, <2>2, <2>3, NobodyMoves DEF KeptOrReleased
<1> QED
  BY <1>3, <1>4, <1>5, <1>6, <1>7, <1>8, ReaderPopOwner, SubmitOwner DEF ReaderStep
\* An Exec takes the request that left the queue, and drops the one in its m.
LEMMA ExecPopOwner ==
  ASSUME OwnerInv, NEW e \in Execs, ExecPop(e)
  PROVE  OwnerInv'
<1>1. PICK c \in Conns : c = First(inQueue)
  BY PoppedSlots DEF ExecPop, OwnerInv, PlaceTypes
<1>2. /\ QueueOK(inQueue)' /\ inQueue.out \in Slots /\ InSlot(inQueue, inQueue.out, c)
      /\ \A x, d : InSlot(inQueue, x, d)' <=> InSlot(inQueue, x, d) /\ x # inQueue.out
  <2>1. inQueue' = Popped(inQueue)
    BY DEF ExecPop
  <2> QED BY <1>1, <2>1, PoppedSlots DEF ExecPop, OwnerInv, PlaceTypes
<1>3. "in" \in Kinds /\ inQueue.out \in Spots /\ Busy(c, "in", inQueue.out)
  BY <1>2 DEF Kinds, Spots, Busy, Holds
<1>4. client[c] # "away" /\ alive[c]
  BY <1>3, PresentOwner DEF Busy
<1>5. exec' = [exec EXCEPT ![e] = [at |-> "serve", conn |-> c]]
  BY <1>1 DEF ExecPop, ExecGoes
<1>6. PlaceTypes'
  <2>1. exec' \in [Execs -> ExecStates]
    BY <1>5 DEF OwnerInv, PlaceTypes, ExecStates
  <2> QED BY <1>2, <2>1, ReleaseTypes
          DEF ExecPop, OwnerInv, PlaceTypes, clients, QueueOK, UsedSlots
<1>7. \A d \in Conns : KeptOrReleased(d)
  BY <1>6, ReleaseKeeps DEF ExecPop, OwnerInv
<1>8. \A d \in Conns, k \in Kinds, x \in Spots :
        Holds(d, k, x)' => \/ Holds(d, k, x) /\ ~(k = "in" /\ x = inQueue.out)
                           \/ d = c /\ k = "exec" /\ x = e
  BY <1>2, <1>5 DEF ExecPop, Holds, InSlot, UsedSlots, OwnerInv, PlaceTypes
<1>9. \A k \in Kinds, x \in Spots : Holds(c, k, x)' => k = "exec" /\ x = e
  BY <1>3, <1>8, OnePlace DEF Busy
<1>10. \A d \in Conns \ {c}, k \in Kinds, x \in Spots :
         (Holds(d, k, x)' => Holds(d, k, x)) /\ (Busy(d, k, x)' => Busy(d, k, x))
  BY <1>8 DEF ExecPop, Busy
<1> QED
  BY <1>4, <1>6, <1>7, <1>9, <1>10, OneMoves DEF ExecPop, clients, Kinds, Spots

\* The steps by which an Exec keeps its connection or is done with it.
LEMMA ExecKeepsOwner ==
  ASSUME OwnerInv, NEW e \in Execs, NEW to, NEW c \in {exec[e].conn, None},
         exec' = [exec EXCEPT ![e] = [at |-> to, conn |-> c]],
         [at |-> to, conn |-> c] \in ExecStates, to = "idle" \/ exec[e].at # "idle" \/ c = None,
         UNCHANGED <<client, queues, reader, writer, listening, stop>>,
         Release(fd, alive) \/ UNCHANGED <<fd, alive>>
  PROVE  OwnerInv'
<1>1. PlaceTypes'
  <2>1. exec' \in [Execs -> ExecStates]
    BY DEF OwnerInv, PlaceTypes
  <2>2. fd' \in [Conns -> Fds \cup {0}] /\ alive' \in [Conns -> BOOLEAN]
    BY ReleaseTypes DEF OwnerInv, PlaceTypes
  <2> QED BY <2>1, <2>2 DEF OwnerInv, PlaceTypes, queues, QueueOK, UsedSlots
<1>2. \A d \in Conns, k \in Kinds, x \in Spots :
        (Holds(d, k, x)' => Holds(d, k, x)) /\ (Busy(d, k, x)' => Busy(d, k, x))
  BY PipelineAssumption DEF queues, Busy, Holds, InSlot, UsedSlots, OwnerInv, PlaceTypes
<1>3. ASSUME NEW d \in Conns PROVE KeptOrReleased(d)
  <2>1. CASE Release(fd, alive)
    BY <1>1, <2>1, ReleaseKeeps DEF OwnerInv
  <2>2. CASE UNCHANGED <<fd, alive>>
    BY <2>2 DEF KeptOrReleased
  <2> QED BY <2>1, <2>2
<1> QED
  BY <1>1, <1>2, <1>3, NobodyMoves

\* An Exec gives its request up to the queue of responses, though its m still refers to it.
LEMMA PushResponseOwner ==
  ASSUME OwnerInv, NEW e \in Execs, PushResponse(e)
  PROVE  OwnerInv'
<1>1. PICK c \in Conns : c = exec[e].conn
  BY DEF PushResponse, OwnerInv, PlaceTypes, ExecStates
<1>2. /\ QueueOK(outQueue)'
      /\ \E n \in Slots : \A x, d :
           InSlot(outQueue, x, d)' => InSlot(outQueue, x, d) \/ (x = n /\ d = c)
  <2>1. outQueue' = Pushed(outQueue, c) /\ ~Full(outQueue)
    BY <1>1 DEF PushResponse
  <2> QED BY <2>1, PushedSlots DEF OwnerInv, PlaceTypes
<1>3. "exec" \in Kinds /\ e \in Spots /\ Busy(c, "exec", e)
  BY <1>1 DEF PushResponse, Kinds, Spots, Busy, Holds
<1>4. client[c] # "away" /\ alive[c]
  BY <1>3, PresentOwner DEF Busy
<1>5. exec' = [exec EXCEPT ![e] = [at |-> LoopTop,
                                   conn |-> IF LoopTop = "ended" THEN None ELSE c]]
  BY <1>1 DEF PushResponse, ExecGoes
<1>6. PlaceTypes'
  <2>1. exec' \in [Execs -> ExecStates]
    BY <1>5 DEF LoopTop, OwnerInv, PlaceTypes, ExecStates
  <2> QED BY <1>2, <2>1, ReleaseTypes
          DEF PushResponse, OwnerInv, PlaceTypes, clients, QueueOK, UsedSlots
<1>7. \A d \in Conns : KeptOrReleased(d)
  BY <1>6, ReleaseKeeps DEF PushResponse, OwnerInv
<1>8. PICK n \in Slots : \A d \in Conns, k \in Kinds, x \in Spots :
        Holds(d, k, x)' => \/ Holds(d, k, x) /\ ~(k = "exec" /\ x = e)
                           \/ d = c /\ k = "out" /\ x = n
  BY <1>2, <1>5, PipelineAssumption
     DEF PushResponse, LoopTop, Holds, InSlot, UsedSlots, OwnerInv, PlaceTypes
<1>9. \A k \in Kinds, x \in Spots : Holds(c, k, x)' => k = "out" /\ x = n
  BY <1>3, <1>8, OnePlace DEF Busy
<1>10. \A d \in Conns \ {c}, k \in Kinds, x \in Spots :
         (Holds(d, k, x)' => Holds(d, k, x)) /\ (Busy(d, k, x)' => Busy(d, k, x))
  BY <1>8 DEF PushResponse, Busy
<1> QED
  BY <1>4, <1>6, <1>7, <1>9, <1>10, OneMoves DEF PushResponse, clients, Kinds, Spots

\* The steps of an Exec.
LEMMA ExecOwner ==
  ASSUME OwnerInv, NEW e \in Execs, ExecStep(e)
  PROVE  OwnerInv'
<1> DEFINE c == exec[e].conn
           m == IF LoopTop = "ended" THEN None ELSE c
<1>1. exec[e].at \in {"serve", "reply"} => c \in Conns
  BY DEF OwnerInv, PlaceTypes, ExecStates
<1>2. /\ c \in Conns => [at |-> LoopTop, conn |-> m] \in ExecStates
      /\ [at |-> "ended", conn |-> None] \in ExecStates
      /\ c \in Conns => [at |-> "reply", conn |-> c] \in ExecStates
  BY DEF LoopTop, ExecStates
<1>3. LoopTop \in {"idle", "ended"} /\ m \in {c, None}
  BY DEF LoopTop
<1>4. CASE ServeRequest(e)
  BY <1>1, <1>2, <1>4, ExecKeepsOwner DEF ServeRequest, ExecGoes, clients
<1>5. CASE ServeFails(e)
  BY <1>1, <1>2, <1>3, <1>5, ExecKeepsOwner DEF ServeFails, ExecGoes, clients
<1>6. CASE RejectResponse(e)
  BY <1>1, <1>2, <1>3, <1>6, ExecKeepsOwner DEF RejectResponse, ExecGoes, clients
<1>7. CASE ExecEnds(e)
  BY <1>2, <1>7, ExecKeepsOwner DEF ExecEnds, ExecGoes, clients
<1> QED
  BY <1>4, <1>5, <1>6, <1>7, ExecPopOwner, PushResponseOwner DEF ExecStep
\* A Writer takes the response that left the queue, and drops the one in its m.
LEMMA WriterPopOwner ==
  ASSUME OwnerInv, NEW w \in Writers, WriterPop(w)
  PROVE  OwnerInv'
<1>1. PICK c \in Conns : c = First(outQueue)
  BY PoppedSlots DEF WriterPop, OwnerInv, PlaceTypes
<1>2. /\ QueueOK(outQueue)' /\ outQueue.out \in Slots /\ InSlot(outQueue, outQueue.out, c)
      /\ \A x, d : InSlot(outQueue, x, d)' <=> InSlot(outQueue, x, d) /\ x # outQueue.out
  <2>1. outQueue' = Popped(outQueue)
    BY DEF WriterPop
  <2> QED BY <1>1, <2>1, PoppedSlots DEF WriterPop, OwnerInv, PlaceTypes
<1>3. "out" \in Kinds /\ outQueue.out \in Spots /\ Busy(c, "out", outQueue.out)
  BY <1>2 DEF Kinds, Spots, Busy, Holds
<1>4. client[c] # "away" /\ alive[c]
  BY <1>3, PresentOwner DEF Busy
<1>5. writer' = [writer EXCEPT ![w] = [at |-> "write", conn |-> c]]
  BY <1>1 DEF WriterPop, WriterGoes
<1>6. PlaceTypes'
  <2>1. writer' \in [Writers -> WriterStates]
    BY <1>5 DEF OwnerInv, PlaceTypes, WriterStates
  <2> QED BY <1>2, <2>1, ReleaseTypes
          DEF WriterPop, OwnerInv, PlaceTypes, clients, QueueOK, UsedSlots
<1>7. \A d \in Conns : KeptOrReleased(d)
  BY <1>6, ReleaseKeeps DEF WriterPop, OwnerInv
<1>8. \A d \in Conns, k \in Kinds, x \in Spots :
        Holds(d, k, x)' => \/ Holds(d, k, x) /\ ~(k = "out" /\ x = outQueue.out)
                           \/ d = c /\ k = "writer" /\ x = w
  BY <1>2, <1>5 DEF WriterPop, Holds, InSlot, UsedSlots, OwnerInv, PlaceTypes
<1>9. \A k \in Kinds, x \in Spots : Holds(c, k, x)' => k = "writer" /\ x = w
  BY <1>3, <1>8, OnePlace DEF Busy
<1>10. \A d \in Conns \ {c}, k \in Kinds, x \in Spots :
         (Holds(d, k, x)' => Holds(d, k, x)) /\ (Busy(d, k, x)' => Busy(d, k, x))
  BY <1>5, <1>8 DEF Busy, Holds, OwnerInv, PlaceTypes
<1> QED
  BY <1>4, <1>6, <1>7, <1>9, <1>10, OneMoves DEF WriterPop, clients, Kinds, Spots

\* The steps by which a Writer keeps its connection or is done with it.
LEMMA WriterKeepsOwner ==
  ASSUME OwnerInv, NEW w \in Writers, NEW to \in {"account", "reuse", "idle", "ended"},
         NEW c \in {writer[w].conn, None},
         writer' = [writer EXCEPT ![w] = [at |-> to, conn |-> c]],
         [at |-> to, conn |-> c] \in WriterStates,
         to = "idle" \/ writer[w].at # "idle" \/ c = None,
         UNCHANGED <<client, queues, reader, exec, listening, stop>>,
         \/ Release(fd, alive)
         \/ UNCHANGED <<fd, alive>>
         \/ /\ writer[w].at = "write" /\ to = "account" /\ writer[w].conn \in Conns
            /\ Release(Aborted(fd, writer[w].conn), [alive EXCEPT ![writer[w].conn] = FALSE])
  PROVE  OwnerInv'
<1>1. PlaceTypes'
  <2>1. writer' \in [Writers -> WriterStates]
    BY DEF OwnerInv, PlaceTypes
  <2>2. fd' \in [Conns -> Fds \cup {0}] /\ alive' \in [Conns -> BOOLEAN]
    <3>1. CASE Release(fd, alive)
      BY <3>1, ReleaseTypes DEF OwnerInv, PlaceTypes
    <3>2. ASSUME NEW b \in Conns, Release(Aborted(fd, b), [alive EXCEPT ![b] = FALSE])
          PROVE  fd' \in [Conns -> Fds \cup {0}] /\ alive' \in [Conns -> BOOLEAN]
      <4>1. /\ Aborted(fd, b) \in [Conns -> Fds \cup {0}]
            /\ [alive EXCEPT ![b] = FALSE] \in [Conns -> BOOLEAN]
        BY DEF OwnerInv, PlaceTypes, Aborted
      <4> QED BY <3>2, <4>1, ReleaseTypes
    <3> QED BY <3>1, <3>2 DEF OwnerInv, PlaceTypes
  <2> QED BY <2>1, <2>2 DEF OwnerInv, PlaceTypes, queues, QueueOK, UsedSlots
<1>2. \A d \in Conns, k \in Kinds, x \in Spots :
        (Holds(d, k, x)' => Holds(d, k, x)) /\ (Busy(d, k, x)' => Busy(d, k, x))
  <2> SUFFICES ASSUME NEW d \in Conns, NEW k \in Kinds, NEW x \in Spots, Holds(d, k, x)'
               PROVE  Holds(d, k, x) /\ (Busy(d, k, x)' => Busy(d, k, x))
    BY DEF Busy
  <2>1. writer'[w].at = to /\ writer'[w].conn = c
        /\ \A v \in Writers \ {w} : writer'[v] = writer[v]
    BY DEF OwnerInv, PlaceTypes
  <2>2. CASE k = "writer" /\ x = w
    <3>1. d # None /\ c = d /\ to # "idle"
      BY <2>1, <2>2, PipelineAssumption DEF Holds
    <3>2. to # "ended"
      <4>1. [at |-> to, conn |-> c].at = to /\ [at |-> to, conn |-> c].conn = c
        OBVIOUS
      <4> QED BY <3>1, <4>1, PipelineAssumption DEF WriterStates
    <3>3. writer[w].conn = d /\ writer[w].at # "idle"
      BY <3>1
    <3>4. ~(Busy(d, k, x)')
      BY <2>1, <2>2, <3>1, <3>2 DEF Busy
    <3> QED BY <2>2, <3>3, <3>4 DEF Holds
  <2>3. CASE k = "writer" /\ x # w
    BY <2>1, <2>3 DEF Holds, Busy
  <2>4. CASE k # "writer"
    BY <2>4 DEF queues, Busy, Holds, InSlot, UsedSlots
  <2> QED BY <2>2, <2>3, <2>4
<1>3. ASSUME NEW d \in Conns PROVE KeptOrReleased(d)
  <2>1. CASE Release(fd, alive)
    BY <1>1, <2>1, ReleaseKeeps DEF OwnerInv
  <2>2. CASE UNCHANGED <<fd, alive>>
    BY <2>2 DEF KeptOrReleased
  <2>3. ASSUME NEW b \in Conns, b = writer[w].conn, writer[w].at = "write", to = "account",
               Release(Aborted(fd, b), [alive EXCEPT ![b] = FALSE])
        PROVE  KeptOrReleased(d)
    <3>1. "writer" \in Kinds /\ w \in Spots /\ Holds(b, "writer", w)
      BY <2>3 DEF Kinds, Spots, Holds
    <3>2. ~Busy(b, "writer", w)'
      BY <2>3 DEF Busy, OwnerInv, PlaceTypes
    <3>3. \A k \in Kinds, x \in Spots : ~Busy(b, k, x)'
      BY <1>2, <3>1, <3>2, OnePlace DEF Busy
    <3> QED BY <1>1, <2>3, <3>3, ReleaseAborts DEF OwnerInv
  <2> QED BY <2>1, <2>2, <2>3
<1> QED
  BY <1>1, <1>2, <1>3, NobodyMoves

\* A Writer gives a connection that is alive back to the sessions.
LEMMA ReuseOwner ==
  ASSUME OwnerInv, NEW w \in Writers, ReuseConnection(w), ~Full(sessions)
  PROVE  OwnerInv'
<1>1. PICK c \in Conns : c = writer[w].conn
  BY DEF ReuseConnection, OwnerInv, PlaceTypes, WriterStates
<1>2. /\ QueueOK(sessions)'
      /\ \E n \in Slots : \A x, d :
           InSlot(sessions, x, d)' => InSlot(sessions, x, d) \/ (x = n /\ d = c)
  <2>1. sessions' = Pushed(sessions, c)
    BY <1>1 DEF ReuseConnection
  <2> QED BY <2>1, PushedSlots DEF OwnerInv, PlaceTypes
<1>3. "writer" \in Kinds /\ w \in Spots /\ Holds(c, "writer", w)
  BY <1>1 DEF ReuseConnection, Kinds, Spots, Holds
<1>4. client[c] # "away" /\ alive[c]
  BY <1>1, <1>3, PresentOwner DEF ReuseConnection
<1>5. writer' = [writer EXCEPT ![w] = [at |-> LoopTop,
                                       conn |-> IF LoopTop = "ended" THEN None ELSE c]]
  BY <1>1 DEF ReuseConnection, WriterGoes
<1>6. PlaceTypes'
  <2>1. writer' \in [Writers -> WriterStates]
    BY <1>5 DEF LoopTop, OwnerInv, PlaceTypes, WriterStates
  <2> QED BY <1>2, <2>1, ReleaseTypes
          DEF ReuseConnection, OwnerInv, PlaceTypes, clients, QueueOK, UsedSlots
<1>7. \A d \in Conns : KeptOrReleased(d)
  BY <1>6, ReleaseKeeps DEF ReuseConnection, OwnerInv
<1>8. PICK n \in Slots : \A d \in Conns, k \in Kinds, x \in Spots :
        Holds(d, k, x)' => \/ Holds(d, k, x) /\ ~(k = "writer" /\ x = w)
                           \/ d = c /\ k = "sessions" /\ x = n
  BY <1>2, <1>5, PipelineAssumption
     DEF ReuseConnection, LoopTop, Holds, InSlot, UsedSlots, OwnerInv, PlaceTypes
<1>9. \A k \in Kinds, x \in Spots : Holds(c, k, x)' => k = "sessions" /\ x = n
  BY <1>3, <1>8, OnePlace
<1>10. \A d \in Conns \ {c}, k \in Kinds, x \in Spots :
         (Holds(d, k, x)' => Holds(d, k, x)) /\ (Busy(d, k, x)' => Busy(d, k, x))
  BY <1>5, <1>8 DEF Busy, OwnerInv, PlaceTypes
<1> QED
  BY <1>4, <1>6, <1>7, <1>9, <1>10, OneMoves DEF ReuseConnection, clients, Kinds, Spots

\* The steps of a Writer.
LEMMA WriterOwner ==
  ASSUME OwnerInv, NEW w \in Writers, WriterStep(w)
  PROVE  OwnerInv'
<1> DEFINE c == writer[w].conn
           m == IF LoopTop = "ended" THEN None ELSE c
<1>1. writer[w].at \in {"write", "account", "reuse"} => c \in Conns
  BY DEF OwnerInv, PlaceTypes, WriterStates
<1>2. /\ c \in Conns => [at |-> LoopTop, conn |-> m] \in WriterStates
      /\ [at |-> "ended", conn |-> None] \in WriterStates
      /\ c \in Conns => [at |-> "account", conn |-> c] \in WriterStates
      /\ c \in Conns => [at |-> "reuse", conn |-> c] \in WriterStates
  BY DEF LoopTop, WriterStates
<1>3. LoopTop \in {"idle", "ended"} /\ m \in {c, None}
  BY DEF LoopTop
<1>4. CASE WriteReply(w)
  BY <1>1, <1>2, <1>4, WriterKeepsOwner DEF WriteReply, WriterGoes
<1>5. CASE WriteFails(w)
  BY <1>1, <1>2, <1>5, WriterKeepsOwner DEF WriteFails, WriterGoes, clients
<1>6. CASE AccountReply(w)
  BY <1>1, <1>2, <1>6, WriterKeepsOwner DEF AccountReply, WriterGoes, clients
<1>7. CASE ReuseConnection(w) /\ Full(sessions)
  BY <1>1, <1>2, <1>3, <1>7, WriterKeepsOwner DEF ReuseConnection, WriterGoes, clients, queues
<1>8. CASE DropConnection(w)
  BY <1>1, <1>2, <1>3, <1>8, WriterKeepsOwner DEF DropConnection, WriterGoes, clients
<1>9. CASE WriterEnds(w)
  BY <1>2, <1>9, WriterKeepsOwner DEF WriterEnds, WriterGoes, clients
<1> QED
  BY <1>4, <1>5, <1>6, <1>7, <1>8, <1>9, WriterPopOwner, ReuseOwner DEF WriterStep

\* All steps.
LEMMA OwnerStep == OwnerInv /\ [Next]_vars => OwnerInv'
<1> SUFFICES ASSUME OwnerInv, [Next]_vars PROVE OwnerInv'
  OBVIOUS
<1>1. CASE ListenerStep
  BY <1>1, AcceptOwner, OutsideOwner DEF ListenerStep
<1> QED
  BY <1>1, OutsideOwner, ReaderOwner, ExecOwner, WriterOwner DEF Next

\* The invariant of ownership, whatever the threads do and in whatever order.
THEOREM OwnerInvariance == Spec => []OwnerInv
BY OwnerStart, OwnerStep, PTL DEF Spec

\* The places of OneOwner are the places of this module.
LEMMA PlacesHold ==
  ASSUME PlaceTypes, NEW c \in Conns, NEW p \in Places(c)
  PROVE  \E k \in Kinds, x \in Spots : p = <<k, x>> /\ Holds(c, k, x)
<1>1. /\ UsedSlots(sessions) \subseteq Slots
      /\ UsedSlots(inQueue) \subseteq Slots
      /\ UsedSlots(outQueue) \subseteq Slots
  BY UsedAreSlots DEF PlaceTypes
<1>2. CASE \/ \E i \in UsedSlots(sessions) : p = <<"sessions", i>> /\ sessions.slot[i] = c
           \/ \E i \in UsedSlots(inQueue) : p = <<"in", i>> /\ inQueue.slot[i] = c
           \/ \E i \in UsedSlots(outQueue) : p = <<"out", i>> /\ outQueue.slot[i] = c
  BY <1>1, <1>2 DEF Holds, InSlot, Kinds, Spots
<1>3. CASE \/ \E r \in Readers : p = <<"reader", r>> /\ reader[r].conn = c
           \/ \E e \in Execs :
                p = <<"exec", e>> /\ exec[e].conn = c /\ exec[e].at # "idle"
           \/ \E w \in Writers :
                p = <<"writer", w>> /\ writer[w].conn = c /\ writer[w].at # "idle"
  BY <1>3 DEF Holds, Kinds, Spots
<1> QED
  BY <1>2, <1>3 DEF Places

\* A connection in a queue or with a Reader has an open descriptor.
LEMMA WaitingAreAlive ==
  ASSUME OwnerInv, NEW c \in Conns,
         \/ InQueue(c, sessions) \/ InQueue(c, inQueue) \/ InQueue(c, outQueue)
         \/ \E r \in Readers : reader[r].conn = c
  PROVE  alive[c] /\ fd[c] # 0
<1>1. /\ UsedSlots(sessions) \subseteq Slots
      /\ UsedSlots(inQueue) \subseteq Slots
      /\ UsedSlots(outQueue) \subseteq Slots
  BY UsedAreSlots DEF OwnerInv, PlaceTypes
<1>2. \E k \in Kinds, x \in Spots : k # "writer" /\ Holds(c, k, x)
  BY <1>1 DEF InQueue, Holds, InSlot, Kinds, Spots
<1>3. alive[c]
  BY <1>2 DEF OwnerInv, BusyAreAlive, Busy
<1> QED
  BY <1>3 DEF OwnerInv, DescriptorsOK

\* A set whose elements are all equal has one element at most.
LEMMA AtMostOne ==
  ASSUME NEW S, \A x, y \in S : x = y
  PROVE  Cardinality(S) = IF S = {} THEN 0 ELSE 1
<1>1. CASE S = {}
  BY <1>1, FS_EmptySet
<1>2. CASE S # {}
  <2>1. PICK x \in S : S = {x}
    BY <1>2
  <2>2. Cardinality({x}) = 1
    BY FS_Singleton
  <2> QED BY <2>1, <2>2
<1> QED
  BY <1>1, <1>2

\* No two threads or queue slots have the same connection to work on, and one that is
\* in a queue or with a Reader has an open descriptor: server.cpp, with any number of
\* connections, threads and places in the queues.
THEOREM OneOwnerHolds == Spec => []OneOwner
<1>1. OwnerInv => OneOwner
  <2> SUFFICES ASSUME OwnerInv, NEW c \in Conns
               PROVE  /\ Cardinality(Places(c)) <= 1
                      /\ (\/ InQueue(c, sessions) \/ InQueue(c, inQueue)
                          \/ InQueue(c, outQueue)
                          \/ \E r \in Readers : reader[r].conn = c)
                         => alive[c] /\ fd[c] # 0
    BY DEF OneOwner
  <2>1. \A p, q \in Places(c) : p = q
    <3> SUFFICES ASSUME NEW p \in Places(c), NEW q \in Places(c) PROVE p = q
      OBVIOUS
    <3>1. PICK k \in Kinds, x \in Spots : p = <<k, x>> /\ Holds(c, k, x)
      BY PlacesHold DEF OwnerInv
    <3>2. PICK l \in Kinds, y \in Spots : q = <<l, y>> /\ Holds(c, l, y)
      BY PlacesHold DEF OwnerInv
    <3> QED BY <3>1, <3>2, OnePlace
  <2>2. Cardinality(Places(c)) \in {0, 1}
    BY <2>1, AtMostOne
  <2> QED BY <2>2, WaitingAreAlive
<1> QED
  BY <1>1, OwnerInvariance, PTL
-----------------------------------------------------------------------------
(* The requests and their entries in the statistics. *)

\* push adds its item to the queue.
LEMMA PushedItems ==
  ASSUME NEW q, QueueOK(q), ~Full(q), NEW c \in Conns, NEW d
  PROVE  InQueue(d, Pushed(q, c)) <=> InQueue(d, q) \/ d = c
<1>1. PICK n \in Slots :
        /\ InSlot(Pushed(q, c), n, c)
        /\ \A x, e : InSlot(Pushed(q, c), x, e) <=> InSlot(q, x, e) \/ (x = n /\ e = c)
  BY PushedSlots
<1>2. \A p : InQueue(d, p) <=> \E x : InSlot(p, x, d)
  BY DEF InQueue, InSlot
<1> QED BY <1>1, <1>2

\* What was in the queue is still there after pop or was the first.
LEMMA PoppedItems ==
  ASSUME NEW q, QueueOK(q), q.used > 0, NEW d
  PROVE  /\ InQueue(d, q) <=> InQueue(d, Popped(q)) \/ d = First(q)
         /\ First(q) \in Conns
<1>1. /\ First(q) \in Conns /\ InSlot(q, q.out, First(q))
      /\ \A x, e : InSlot(Popped(q), x, e) <=> InSlot(q, x, e) /\ x # q.out
  BY PoppedSlots
<1>2. \A p : InQueue(d, p) <=> \E x : InSlot(p, x, d)
  BY DEF InQueue, InSlot
<1>3. \A e : InSlot(q, q.out, e) => e = First(q)
  BY <1>1 DEF InSlot
<1> QED BY <1>1, <1>2, <1>3

\* What has a place is nowhere else.
LEMMA NoOtherPlace ==
  ASSUME OwnerInv, NEW c \in Conns, NEW k \in Kinds, NEW x \in Spots, Holds(c, k, x)
  PROVE  /\ InQueue(c, sessions) => k = "sessions"
         /\ InQueue(c, inQueue) => k = "in"
         /\ InQueue(c, outQueue) => k = "out"
         /\ \A r \in Readers : reader[r].conn = c => k = "reader" /\ x = r
         /\ \A e \in Execs : exec[e].conn = c /\ exec[e].at # "idle" => k = "exec" /\ x = e
         /\ \A w \in Writers :
              writer[w].conn = c /\ writer[w].at # "idle" => k = "writer" /\ x = w
<1>1. /\ UsedSlots(sessions) \subseteq Slots
      /\ UsedSlots(inQueue) \subseteq Slots
      /\ UsedSlots(outQueue) \subseteq Slots
  BY UsedAreSlots DEF OwnerInv, PlaceTypes
<1>2. /\ InQueue(c, sessions) => \E i \in Spots : Holds(c, "sessions", i)
      /\ InQueue(c, inQueue) => \E i \in Spots : Holds(c, "in", i)
      /\ InQueue(c, outQueue) => \E i \in Spots : Holds(c, "out", i)
  BY <1>1 DEF InQueue, InSlot, Holds, Spots
<1>3. /\ \A r \in Readers : reader[r].conn = c => Holds(c, "reader", r)
      /\ \A e \in Execs : exec[e].conn = c /\ exec[e].at # "idle" => Holds(c, "exec", e)
      /\ \A w \in Writers :
           writer[w].conn = c /\ writer[w].at # "idle" => Holds(c, "writer", w)
  BY DEF Holds
<1>4. \A l \in Kinds, y \in Spots : Holds(c, l, y) => l = k /\ y = x
  BY OnePlace
<1> QED BY <1>2, <1>3, <1>4 DEF Kinds, Spots

\* What is in the server has a place.
LEMMA InServerHolds ==
  ASSUME OwnerInv, NEW c \in Conns, InServer(c)
  PROVE  \E k \in Kinds, x \in Spots : Holds(c, k, x)
<1>1. UsedSlots(inQueue) \subseteq Slots /\ UsedSlots(outQueue) \subseteq Slots
  BY UsedAreSlots DEF OwnerInv, PlaceTypes
<1>2. CASE InQueue(c, inQueue) \/ InQueue(c, outQueue)
  BY <1>1, <1>2 DEF InQueue, InSlot, Holds, Kinds, Spots
<1>3. CASE \E r \in Readers : reader[r] = [at |-> "submit", conn |-> c]
  BY <1>3 DEF Holds, Kinds, Spots
<1>4. CASE \/ \E e \in Execs : exec[e].conn = c /\ exec[e].at # "idle"
           \/ \E w \in Writers : writer[w].conn = c /\ writer[w].at \in {"write", "account"}
  BY <1>4 DEF Holds, Kinds, Spots
<1> QED
  BY <1>2, <1>3, <1>4 DEF InServer

\* What a step does to the requests, those of c apart.
OthersStay(c) ==
  \A d \in Conns \ {c} :
    (InServer(d)' <=> InServer(d)) /\ (Unanswered(d)' => Unanswered(d))

\* What it does to the statistics: nothing while c's request is in the server, or it
\* closes its entry, if c is alive and has one.
Settled(c) ==
  \/ UNCHANGED statistics /\ (c \in Conns /\ InServer(c) => InServer(c)')
  \/ UNCHANGED statistics /\ (c \in Conns /\ alive[c] => ~HasEntry(c))
  \/ /\ c \in Conns /\ alive[c] /\ fd[c] \in Fds /\ pending[fd[c]] = c
     /\ pending' = [pending EXCEPT ![fd[c]] = None]
     /\ counted' = [counted EXCEPT ![c] = @ + 1]

\* What it does to the connections: they die, or stay what they are, or are new.
Survive ==
  \A d \in Conns :
    alive'[d] => \/ alive[d] /\ fd'[d] = fd[d]
                 \/ client[d] = "away" /\ ~InServer(d)'

\* A step that does no more than this keeps the invariant of the statistics.
LEMMA StepCounts ==
  ASSUME OwnerInv, CountInv, UNCHANGED <<inbox, sent>>,
         \A d \in Conns : client'[d] = "away" => client[d] = "away",
         NEW c, OthersStay(c), Settled(c), Survive,
         c \in Conns => (InServer(c)' => InServer(c)) /\ (Unanswered(c)' => Unanswered(c)),
         \/ UNCHANGED replies
         \/ /\ c \in Conns /\ Unanswered(c) /\ ~Unanswered(c)'
            /\ replies' = [replies EXCEPT ![c] = @ + 1]
  PROVE  CountInv'
<1>1. /\ \A d \in Conns : InServer(d)' => InServer(d)
      /\ \A d \in Conns : Unanswered(d)' => Unanswered(d)
      /\ \A d \in Conns : Read(d)' = Read(d)
  BY DEF OthersStay, Read
<1>2. \A f \in Fds : pending'[f] \in {pending[f], None}
  BY DEF Settled, statistics, CountInv, CountTypes
<1>3. CountTypes'
  BY DEF Settled, statistics, CountInv, CountTypes
<1>4. ASSUME NEW d \in Conns PROVE RepliesOK(d)'
  <2>1. RepliesOK(d) /\ Read(d) \in Int /\ replies[d] \in Nat
    BY DEF CountInv, CountOK, CountTypes, Read
  <2>2. HasEntry(d)' => HasEntry(d)
    BY <1>2, PipelineAssumption DEF HasEntry
  <2>3. CASE replies'[d] = replies[d]
    BY <1>1, <2>1, <2>2, <2>3 DEF RepliesOK
  <2>4. CASE d = c /\ replies'[d] = replies[d] + 1 /\ Unanswered(c) /\ ~Unanswered(c)'
    <3>1. Unanswered(d) /\ ~Unanswered(d)'
      BY <2>4 DEF Unanswered
    <3> QED BY <1>1, <2>1, <2>2, <2>4, <3>1 DEF RepliesOK
  <2>5. replies' = replies \/ replies' = [replies EXCEPT ![c] = @ + 1]
    OBVIOUS
  <2>6. replies \in [Conns -> Nat]
    BY DEF CountInv, CountTypes
  <2> QED BY <2>3, <2>4, <2>5, <2>6
<1>5. ASSUME NEW d \in Conns, alive'[d] PROVE LiveEntries(d)'
  <2>1. CASE client[d] = "away" /\ ~InServer(d)'
    <3>1. ~alive[d] /\ ~HasEntry(d) /\ Read(d) = 0 /\ counted[d] = 0
      BY <2>1 DEF OwnerInv, AwayAreNowhere, CountInv, CountTypes, CountOK, RepliesOK,
                  DeadEntries, Read
    <3>2. ~HasEntry(d)'
      BY <1>2, <3>1, PipelineAssumption DEF HasEntry
    <3>3. counted'[d] = counted[d]
      BY <3>1 DEF Settled, statistics, CountInv, CountTypes
    <3> QED BY <1>1, <2>1, <3>1, <3>2, <3>3 DEF LiveEntries, HasEntry
  <2>2. CASE alive[d] /\ fd'[d] = fd[d]
    <3>1. LiveEntries(d) /\ fd[d] \in Fds /\ Read(d) \in Int /\ counted[d] \in Nat
      BY <2>2 DEF CountInv, CountTypes, CountOK, Read, OwnerInv, DescriptorsOK, PlaceTypes
    <3>2. InServer(d)' => pending'[fd'[d]] \in {d, None}
      BY <1>1, <1>2, <2>2, <3>1 DEF LiveEntries
    <3>3. ASSUME NEW f \in Fds, pending'[f] = d PROVE f = fd'[d] /\ InServer(d)'
      <4>1. pending[f] = d /\ f = fd[d] /\ InServer(d)
        BY <1>2, <3>1, <3>3, PipelineAssumption DEF LiveEntries
      <4>2. InServer(d)'
        BY <2>2, <3>3, <4>1, PipelineAssumption
           DEF OthersStay, Settled, HasEntry, CountInv, CountTypes
      <4> QED BY <2>2, <4>1, <4>2
    <3>4. counted'[d] = IF HasEntry(d)' THEN Read(d)' - 1 ELSE Read(d)'
      <4>1. CASE UNCHANGED statistics
        BY <1>1, <3>1, <4>1 DEF LiveEntries, HasEntry, statistics
      <4>2. CASE d # c /\ pending' = [pending EXCEPT ![fd[c]] = None]
                 /\ fd[c] \in Fds /\ pending[fd[c]] = c
                 /\ counted' = [counted EXCEPT ![c] = @ + 1]
        <5>1. HasEntry(d)' <=> HasEntry(d)
          BY <4>2, PipelineAssumption DEF HasEntry, CountInv, CountTypes
        <5>2. counted'[d] = counted[d]
          BY <4>2 DEF CountInv, CountTypes
        <5> QED BY <1>1, <3>1, <5>1, <5>2 DEF LiveEntries
      <4>3. CASE d = c /\ pending' = [pending EXCEPT ![fd[c]] = None]
                 /\ fd[c] \in Fds /\ pending[fd[c]] = c
                 /\ counted' = [counted EXCEPT ![c] = @ + 1]
        <5>1. HasEntry(d) /\ ~HasEntry(d)'
          BY <3>1, <4>3, PipelineAssumption DEF HasEntry, LiveEntries, CountInv, CountTypes
        <5>2. counted'[d] = counted[d] + 1
          BY <4>3 DEF CountInv, CountTypes
        <5> QED BY <1>1, <3>1, <5>1, <5>2 DEF LiveEntries
      <4> QED BY <4>1, <4>2, <4>3 DEF Settled
    <3> QED BY <3>2, <3>3, <3>4 DEF LiveEntries
  <2> QED BY <1>5, <2>1, <2>2 DEF Survive
<1>6. ASSUME NEW d \in Conns, ~alive'[d] PROVE DeadEntries(d)'
  <2>1. /\ \A f, g \in Fds : pending[f] = d /\ pending[g] = d => f = g
        /\ counted[d] = Read(d) - 1 \/ counted[d] = Read(d)
        /\ HasEntry(d) => counted[d] = Read(d) - 1
        /\ Read(d) \in Int /\ counted[d] \in Nat
    BY DEF CountInv, CountOK, LiveEntries, DeadEntries, CountTypes, Read
  <2>2. \A f, g \in Fds : pending'[f] = d /\ pending'[g] = d => f = g
    BY <1>2, <2>1, PipelineAssumption
  <2>3. CASE counted'[d] = counted[d]
    <3>1. HasEntry(d)' => HasEntry(d)
      BY <1>2, PipelineAssumption DEF HasEntry
    <3> QED BY <1>1, <2>1, <2>2, <2>3, <3>1 DEF DeadEntries
  <2>4. CASE d = c /\ pending' = [pending EXCEPT ![fd[c]] = None]
                 /\ fd[c] \in Fds /\ pending[fd[c]] = c
                 /\ counted' = [counted EXCEPT ![c] = @ + 1]
    <3>1. HasEntry(d) /\ ~HasEntry(d)'
      BY <2>1, <2>4, PipelineAssumption DEF HasEntry, CountInv, CountTypes
    <3>2. counted'[d] = counted[d] + 1
      BY <2>4 DEF CountInv, CountTypes
    <3> QED BY <1>1, <2>1, <2>2, <3>1, <3>2 DEF DeadEntries
  <2> QED BY <2>3, <2>4 DEF Settled, statistics, CountInv, CountTypes
<1> QED
  BY <1>3, <1>4, <1>5, <1>6 DEF CountInv, CountOK

\* The server starts with empty statistics.
LEMMA CountStart == Init => CountInv
<1> SUFFICES ASSUME Init PROVE CountInv
  OBVIOUS
<1>1. 0 .. EmptyQueue.used - 1 = {}
  BY DEF EmptyQueue
<1>2. UsedSlots(sessions) = {} /\ UsedSlots(inQueue) = {} /\ UsedSlots(outQueue) = {}
  BY <1>1 DEF Init, UsedSlots
<1>3. \A c \in Conns : ~Unanswered(c) /\ ~HasEntry(c) /\ Read(c) = 0
  BY <1>2, PipelineAssumption DEF Init, Unanswered, HasEntry, InQueue, Read
<1>4. CountTypes
  BY PipelineAssumption DEF Init, CountTypes
<1> QED
  BY <1>3, <1>4 DEF Init, CountInv, CountOK, RepliesOK, DeadEntries, HasEntry

\* The end of a request that is in the server finds its own entry or none.
LEMMA CloseSettles ==
  ASSUME OwnerInv, CountInv, NEW c \in Conns, InServer(c), CloseEntry(fd[c])
  PROVE  Settled(c)
<1>1. CASE ~alive[c]
  BY <1>1 DEF CloseEntry, Settled, OwnerInv, DescriptorsOK
<1>2. CASE alive[c]
  <2>1. LiveEntries(c) /\ fd[c] \in Fds /\ fd[c] # 0
    BY <1>2 DEF CountInv, CountOK, OwnerInv, DescriptorsOK, PlaceTypes
  <2>2. CASE pending[fd[c]] = None
    <3>1. ~HasEntry(c)
      BY <2>1, <2>2, PipelineAssumption DEF LiveEntries, HasEntry
    <3> QED BY <2>2, <3>1 DEF CloseEntry, Settled
  <2>3. CASE pending[fd[c]] = c
    BY <1>2, <2>1, <2>3, PipelineAssumption DEF CloseEntry, Settled
  <2> QED BY <2>1, <2>2, <2>3 DEF LiveEntries
<1> QED
  BY <1>1, <1>2

\* The destructor and abort bring no connection to life and change no descriptor.
LEMMA ReleaseSurvives ==
  ASSUME OwnerInv, \/ UNCHANGED <<fd, alive>>
                   \/ Release(fd, alive)
                   \/ \E c \in Conns :
                        Release(Aborted(fd, c), [alive EXCEPT ![c] = FALSE])
  PROVE  Survive
<1>1. CASE UNCHANGED <<fd, alive>>
  BY <1>1 DEF Survive
<1>2. CASE Release(fd, alive)
  BY <1>2 DEF Survive, Release
<1>3. ASSUME NEW c \in Conns, Release(Aborted(fd, c), [alive EXCEPT ![c] = FALSE])
      PROVE  Survive
  BY <1>3 DEF Survive, Release, Aborted, OwnerInv, PlaceTypes
<1> QED
  BY <1>1, <1>2, <1>3

\* The steps that leave all requests where they are.
LEMMA NobodyCounts ==
  ASSUME OwnerInv, CountInv, UNCHANGED <<inbox, sent, replies, inQueue, outQueue, exec, writer>>,
         UNCHANGED statistics,
         \A d \in Conns : client'[d] = "away" => client[d] = "away", Survive,
         \A r \in Readers, d \in Conns : reader'[r] = [at |-> "submit", conn |-> d]
                                     <=> reader[r] = [at |-> "submit", conn |-> d]
  PROVE  CountInv'
<1>1. \A d \in Conns :
        (InServer(d)' <=> InServer(d)) /\ (Unanswered(d)' <=> Unanswered(d))
  <2> SUFFICES ASSUME NEW d \in Conns
               PROVE  /\ InServer(d)' <=> InServer(d)
                      /\ Unanswered(d)' <=> Unanswered(d)
    OBVIOUS
  <2>1. (\E r \in Readers : reader'[r] = [at |-> "submit", conn |-> d])
          <=> \E r \in Readers : reader[r] = [at |-> "submit", conn |-> d]
    OBVIOUS
  <2>2. /\ InQueue(d, inQueue)' <=> InQueue(d, inQueue)
        /\ InQueue(d, outQueue)' <=> InQueue(d, outQueue)
    BY DEF InQueue, UsedSlots
  <2> QED BY <2>1, <2>2 DEF InServer, Unanswered
<1>2. OthersStay(None) /\ Settled(None)
  BY <1>1, PipelineAssumption DEF OthersStay, Settled
<1> QED
  BY <1>1, <1>2, StepCounts, PipelineAssumption

\* A connection just accepted has no request, whatever its descriptor was used for.
LEMMA AcceptCounts ==
  ASSUME OwnerInv, CountInv, NEW c \in Conns, Accept(c)
  PROVE  CountInv'
<1>1. Survive
  <2> SUFFICES ASSUME NEW d \in Conns, alive'[d]
               PROVE  \/ alive[d] /\ fd'[d] = fd[d]
                      \/ client[d] = "away" /\ ~InServer(d)'
    BY DEF Survive
  <2>1. CASE d # c
    BY <2>1 DEF Accept, Release, OwnerInv, PlaceTypes
  <2>2. CASE d = c
    <3>1. ~InServer(c)
      BY InServerHolds DEF Accept, OwnerInv, AwayAreNowhere
    <3>2. ~InServer(d)'
      BY <2>2, <3>1 DEF Accept, InServer, InQueue, UsedSlots
    <3> QED BY <2>2, <3>2 DEF Accept
  <2> QED BY <2>1, <2>2
<1> QED
  BY <1>1, NobodyCounts DEF Accept, OwnerInv, PlaceTypes

\* The steps of the clients, and those of the listener and of the operator that
\* change nothing else.
LEMMA OutsideCounts ==
  ASSUME OwnerInv, CountInv,
         (\E c \in Conns : ClientStep(c)) \/ ListenerEnds \/ Interrupt \/ UNCHANGED vars
  PROVE  CountInv'
<1>1. ASSUME NEW c \in Conns, Send(c)
      PROVE  CountInv'
  <2>1. /\ UNCHANGED <<client, replies, counted, pending, alive, fd>>
        /\ inbox' = [inbox EXCEPT ![c] = TRUE] /\ sent' = [sent EXCEPT ![c] = @ + 1]
        /\ ~inbox[c] /\ client[c] = "open" /\ sent[c] < MaxRequests
    BY <1>1 DEF Send, server, statistics
  <2>2. CountTypes'
    BY <2>1, PipelineAssumption DEF CountInv, CountTypes
  <2>3. \A d \in Conns : /\ Read(d)' = Read(d)
                         /\ InServer(d)' <=> InServer(d)
                         /\ Unanswered(d)' <=> Unanswered(d)
                         /\ HasEntry(d)' <=> HasEntry(d)
    <3>1. \A d \in Conns : Read(d)' = Read(d)
      BY <2>1 DEF Read, CountInv, CountTypes
    <3> QED BY <1>1, <3>1
            DEF Send, server, queues, threads, statistics, InServer, Unanswered, HasEntry,
                InQueue, UsedSlots
  <2>4. ASSUME NEW d \in Conns PROVE CountOK(d)'
    <3>1. CountOK(d)
      BY DEF CountInv
    <3>2. RepliesOK(d)'
      BY <2>1, <2>3, <3>1, PipelineAssumption DEF CountOK, RepliesOK, CountInv, CountTypes
    <3>3. (LiveEntries(d) => LiveEntries(d)') /\ (DeadEntries(d) => DeadEntries(d)')
      BY <2>1, <2>3 DEF LiveEntries, DeadEntries
    <3> QED BY <2>1, <3>1, <3>2, <3>3 DEF CountOK
  <2> QED BY <2>2, <2>4 DEF CountInv
<1>2. ASSUME NEW c \in Conns, Leave(c) \/ SendPart(c)
      PROVE  CountInv'
  BY <1>2, NobodyCounts, ReleaseSurvives
     DEF Leave, SendPart, server, queues, threads, OwnerInv, PlaceTypes
<1>3. CASE ListenerEnds \/ Interrupt \/ UNCHANGED vars
  BY <1>3, NobodyCounts, ReleaseSurvives
     DEF ListenerEnds, Interrupt, vars, clients, queues, threads, statistics
<1> QED
  BY <1>1, <1>2, <1>3 DEF ClientStep

\* A request that is read gets the entry of its descriptor, where another connection,
\* by now dead, may have left one.
LEMMA ReadRequestCounts ==
  ASSUME OwnerInv, CountInv, NEW r \in Readers, ReadRequest(r)
  PROVE  CountInv'
<1>1. PICK c \in Conns : c = reader[r].conn
  BY DEF ReadRequest, OwnerInv, PlaceTypes, ReaderStates
<1>2. /\ inbox[c] /\ inbox' = [inbox EXCEPT ![c] = FALSE]
      /\ pending' = [pending EXCEPT ![fd[c]] = c]
      /\ reader' = [reader EXCEPT ![r] = [at |-> "submit", conn |-> c]]
      /\ reader[r].at = "read"
      /\ UNCHANGED <<client, sent, replies, counted, fd, alive, inQueue, outQueue, exec, writer>>
  BY <1>1 DEF ReadRequest, StartRequest, ReaderGoes, queues
<1>3. "reader" \in Kinds /\ r \in Spots /\ Holds(c, "reader", r)
  BY <1>1 DEF Kinds, Spots, Holds
<1>4. ~InServer(c) /\ ~Unanswered(c)
  <2>1. /\ ~InQueue(c, inQueue) /\ ~InQueue(c, outQueue)
        /\ \A s \in Readers : reader[s].conn = c => s = r
        /\ \A e \in Execs : ~(exec[e].conn = c /\ exec[e].at # "idle")
        /\ \A w \in Writers : ~(writer[w].conn = c /\ writer[w].at # "idle")
    BY <1>3, NoOtherPlace
  <2> QED BY <1>2, <2>1 DEF InServer, Unanswered
<1>5. alive[c] /\ fd[c] \in Fds /\ LiveEntries(c) /\ RepliesOK(c)
  <2>1. alive[c] /\ fd[c] # 0
    BY <1>1, WaitingAreAlive
  <2> QED BY <2>1 DEF OwnerInv, PlaceTypes, CountInv, CountOK
<1>6. \A f \in Fds : pending[f] # c
  BY <1>4, <1>5 DEF LiveEntries
<1>7. \A d \in Conns \ {c} : /\ InServer(d)' <=> InServer(d)
                             /\ Unanswered(d)' <=> Unanswered(d)
  <2> SUFFICES ASSUME NEW d \in Conns \ {c}
               PROVE  /\ InServer(d)' <=> InServer(d)
                      /\ Unanswered(d)' <=> Unanswered(d)
    OBVIOUS
  <2>1. \A s \in Readers : reader'[s] = [at |-> "submit", conn |-> d]
                           <=> reader[s] = [at |-> "submit", conn |-> d]
    BY <1>2 DEF OwnerInv, PlaceTypes
  <2>2. /\ InQueue(d, inQueue)' <=> InQueue(d, inQueue)
        /\ InQueue(d, outQueue)' <=> InQueue(d, outQueue)
    BY <1>2 DEF InQueue, UsedSlots
  <2> QED BY <1>2, <2>1, <2>2 DEF InServer, Unanswered
<1>8. InServer(c)'
  BY <1>2 DEF InServer, OwnerInv, PlaceTypes
<1>9. CountTypes'
  BY <1>2, <1>5 DEF CountInv, CountTypes
<1>10. /\ Read(c)' = Read(c) + 1 /\ \A d \in Conns \ {c} : Read(d)' = Read(d)
       /\ \A d \in Conns : Read(d) \in Int /\ sent[d] \in Nat
  BY <1>2 DEF Read, CountInv, CountTypes
<1>11. CountOK(c)'
  <2>1. HasEntry(c)' /\ pending'[fd'[c]] = c /\ \A f \in Fds : pending'[f] = c => f = fd'[c]
    BY <1>2, <1>5, <1>6 DEF HasEntry, CountInv, CountTypes
  <2>2. ~HasEntry(c)
    BY <1>6 DEF HasEntry
  <2>3. LiveEntries(c)'
    BY <1>2, <1>5, <1>8, <1>10, <2>1, <2>2 DEF LiveEntries, CountInv, CountTypes
  <2>4. RepliesOK(c)'
    <3>1. ~inbox'[c] /\ client[c] # "away" /\ replies[c] \in Nat
      BY <1>2, <1>5 DEF RepliesOK, CountInv, CountTypes
    <3> QED BY <1>2, <1>5, <1>10, <3>1 DEF RepliesOK
  <2> QED BY <1>2, <1>5, <2>3, <2>4 DEF CountOK
<1>12. ASSUME NEW d \in Conns \ {c} PROVE CountOK(d)'
  <2>1. CountOK(d)
    BY DEF CountInv
  <2>2. \A f \in Fds : pending'[f] = d => pending[f] = d
    BY <1>2, <1>5 DEF CountInv, CountTypes
  <2>3. RepliesOK(d)'
    BY <1>2, <1>7, <1>10, <2>1, <2>2 DEF CountOK, RepliesOK, HasEntry, CountInv, CountTypes
  <2>4. CASE alive[d]
    <3>1. fd[d] # fd[c] /\ fd[d] \in Fds /\ LiveEntries(d)
      BY <1>5, <2>1, <2>4 DEF OwnerInv, DescriptorsOK, PlaceTypes, CountOK
    <3>2. pending'[fd[d]] = pending[fd[d]]
      BY <1>2, <3>1 DEF CountInv, CountTypes
    <3>3. HasEntry(d)' <=> HasEntry(d)
      BY <2>2, <3>1, <3>2 DEF HasEntry, LiveEntries
    <3>4. LiveEntries(d)'
      BY <1>2, <1>7, <1>10, <2>2, <3>1, <3>2, <3>3 DEF LiveEntries
    <3> QED BY <1>2, <2>3, <2>4, <3>4 DEF CountOK
  <2>5. CASE ~alive[d]
    <3>1. DeadEntries(d)'
      BY <1>2, <1>10, <2>1, <2>2, <2>5 DEF CountOK, DeadEntries, HasEntry
    <3> QED BY <1>2, <2>3, <2>5, <3>1 DEF CountOK
  <2> QED BY <2>4, <2>5
<1> QED
  BY <1>9, <1>11, <1>12 DEF CountInv

\* The steps of a Reader: a request it rejects leaves with its entry.
LEMMA ReaderCounts ==
  ASSUME OwnerInv, CountInv, NEW r \in Readers, ReaderStep(r)
  PROVE  CountInv'
<1> PICK c : c = reader[r].conn
  OBVIOUS
<1>1. CASE ReaderPop(r) \/ ReadNothing(r) \/ ReadTimeout(r) \/ ReaderEnds(r)
  <2>1. \E to, b : to # "submit" /\ reader[r].at # "submit" /\ ReaderGoes(r, to, b)
    BY <1>1 DEF ReaderPop, ReadNothing, ReadTimeout, ReaderEnds, LoopTop
  <2>2. \A s \in Readers, d \in Conns : reader'[s] = [at |-> "submit", conn |-> d]
                                     <=> reader[s] = [at |-> "submit", conn |-> d]
    BY <2>1 DEF ReaderGoes, OwnerInv, PlaceTypes
  <2>3. Survive
    <3>1. ReadTimeout(r) => c \in Conns
      BY DEF ReadTimeout, OwnerInv, PlaceTypes, ReaderStates
    <3> QED BY <1>1, <3>1, ReleaseSurvives DEF ReaderPop, ReadNothing, ReadTimeout, ReaderEnds
  <2>4. /\ UNCHANGED <<client, inbox, sent, replies, inQueue, outQueue, exec, writer>>
        /\ UNCHANGED statistics
    BY <1>1 DEF ReaderPop, ReadNothing, ReadTimeout, ReaderEnds, clients, queues
  <2> QED BY <2>2, <2>3, <2>4, NobodyCounts
<1>2. CASE RejectRequest(r) \/ SubmitRequest(r)
  <2>1. c \in Conns /\ reader[r] = [at |-> "submit", conn |-> c]
    BY <1>2 DEF RejectRequest, SubmitRequest, OwnerInv, PlaceTypes, ReaderStates
  <2>2. InServer(c) /\ Unanswered(c)
    BY <2>1 DEF InServer, Unanswered
  <2>3. /\ UNCHANGED <<client, inbox, sent, replies, outQueue, exec, writer>>
        /\ Survive /\ ReaderGoes(r, LoopTop, None)
    BY <1>2, ReleaseSurvives DEF RejectRequest, SubmitRequest, clients, queues
  <2>4. \A d \in Conns : InQueue(d, inQueue)'
                         <=> InQueue(d, inQueue) \/ (SubmitRequest(r) /\ d = c)
    <3>1. CASE SubmitRequest(r)
      <4>1. inQueue' = Pushed(inQueue, c)
        BY <3>1 DEF SubmitRequest
      <4> QED BY <2>1, <3>1, <4>1, PushedItems DEF SubmitRequest, OwnerInv, PlaceTypes
    <3>2. CASE RejectRequest(r) /\ ~SubmitRequest(r)
      BY <3>2 DEF RejectRequest, queues, InQueue, UsedSlots
    <3> QED BY <1>2, <3>1, <3>2
  <2>5. OthersStay(c)
    <3> SUFFICES ASSUME NEW d \in Conns \ {c}
                 PROVE  (InServer(d)' <=> InServer(d)) /\ (Unanswered(d)' => Unanswered(d))
      BY DEF OthersStay
    <3>1. \A s \in Readers : reader'[s] = [at |-> "submit", conn |-> d]
                             <=> reader[s] = [at |-> "submit", conn |-> d]
      BY <2>1, <2>3, PipelineAssumption DEF ReaderGoes, OwnerInv, PlaceTypes
    <3>2. /\ InQueue(d, inQueue)' <=> InQueue(d, inQueue)
          /\ InQueue(d, outQueue)' <=> InQueue(d, outQueue)
      BY <2>3, <2>4 DEF InQueue, UsedSlots
    <3> QED BY <2>3, <3>1, <3>2 DEF InServer, Unanswered
  <2>6. Settled(c)
    <3>1. CASE RejectRequest(r)
      BY <2>1, <2>2, <3>1, CloseSettles DEF RejectRequest, AbortRequest
    <3>2. CASE SubmitRequest(r)
      <4>1. InServer(c)'
        BY <2>1, <2>4, <3>2 DEF InServer
      <4> QED BY <3>2, <4>1 DEF SubmitRequest, Settled
    <3> QED BY <1>2, <3>1, <3>2
  <2> QED BY <2>1, <2>2, <2>3, <2>5, <2>6, StepCounts
<1>3. CASE ReadPart(r)
  BY <1>3, NobodyCounts, ReleaseSurvives DEF ReadPart, queues, threads
<1> QED
  BY <1>1, <1>2, <1>3, ReadRequestCounts DEF ReaderStep

\* The steps of an Exec: a request that fails, or whose answer finds no room, leaves with
\* its entry.
LEMMA ExecCounts ==
  ASSUME OwnerInv, CountInv, NEW e \in Execs, ExecStep(e)
  PROVE  CountInv'
<1>1. PICK c : c = IF ExecPop(e) THEN First(inQueue)
                   ELSE IF exec[e].at = "idle" THEN None ELSE exec[e].conn
  OBVIOUS
<1>2. /\ ExecPop(e) => exec[e].at = "idle"
      /\ c \in Conns => InServer(c) /\ Unanswered(c)
      /\ c \in Conns \cup {None}
      /\ ~ExecPop(e) /\ exec[e].at # "idle" => c \in Conns
  <2>1. ExecPop(e) => exec[e].at = "idle" /\ c \in Conns /\ InQueue(c, inQueue)
    BY <1>1, PoppedItems DEF ExecPop, OwnerInv, PlaceTypes
  <2>2. exec[e].at \in {"serve", "reply"} => exec[e].conn \in Conns
    BY DEF OwnerInv, PlaceTypes, ExecStates
  <2>3. exec[e].at \in {"idle", "serve", "reply"}
    BY DEF ExecStep, ExecPop, ServeRequest, ServeFails, PushResponse, RejectResponse, ExecEnds
  <2> QED BY <1>1, <2>1, <2>2, <2>3, PipelineAssumption DEF InServer, Unanswered
<1>3. UNCHANGED <<client, inbox, sent, replies, reader, writer>> /\ Survive
  BY ReleaseSurvives
     DEF ExecStep, ExecPop, ServeRequest, ServeFails, PushResponse, RejectResponse, ExecEnds,
         clients
<1>4. \A d \in Conns \ {c} : /\ InQueue(d, inQueue)' <=> InQueue(d, inQueue)
                             /\ InQueue(d, outQueue)' <=> InQueue(d, outQueue)
  <2>1. CASE ExecPop(e)
    <3>1. inQueue' = Popped(inQueue) /\ QueueOK(inQueue) /\ inQueue.used > 0
          /\ outQueue' = outQueue /\ c = First(inQueue)
      BY <1>1, <2>1 DEF ExecPop, OwnerInv, PlaceTypes
    <3>2. \A d : InQueue(d, outQueue)' <=> InQueue(d, outQueue)
      BY <3>1 DEF InQueue, UsedSlots
    <3> QED BY <3>1, <3>2, PoppedItems
  <2>2. CASE PushResponse(e)
    <3>1. outQueue' = Pushed(outQueue, c) /\ QueueOK(outQueue) /\ ~Full(outQueue)
          /\ inQueue' = inQueue /\ c \in Conns
      BY <1>1, <1>2, <2>2 DEF PushResponse, OwnerInv, PlaceTypes
    <3>2. \A d : InQueue(d, inQueue)' <=> InQueue(d, inQueue)
      BY <3>1 DEF InQueue, UsedSlots
    <3> QED BY <3>1, <3>2, PushedItems
  <2>3. CASE UNCHANGED queues
    BY <2>3 DEF queues, InQueue, UsedSlots
  <2> QED BY <2>1, <2>2, <2>3 DEF ExecStep, ServeRequest, ServeFails, RejectResponse, ExecEnds
<1>5. \A d \in Conns \ {c} :
        \A f \in Execs : (exec'[f].conn = d /\ exec'[f].at # "idle")
                        <=> (exec[f].conn = d /\ exec[f].at # "idle")
  <2>1. PICK to, b : exec' = [exec EXCEPT ![e] = [at |-> to, conn |-> b]]
                     /\ (to = "idle" \/ b = None \/ b = c)
    BY <1>1, <1>2
       DEF ExecStep, ExecPop, ServeRequest, ServeFails, PushResponse, RejectResponse, ExecEnds,
           ExecGoes, LoopTop
  <2>2. \A d \in Conns : d # c => ~(exec[e].conn = d /\ exec[e].at # "idle")
    BY <1>1, <1>2
  <2> QED BY <2>1, <2>2, PipelineAssumption DEF OwnerInv, PlaceTypes
<1>6. OthersStay(c)
  <2> SUFFICES ASSUME NEW d \in Conns \ {c}
               PROVE  (InServer(d)' <=> InServer(d)) /\ (Unanswered(d)' => Unanswered(d))
    BY DEF OthersStay
  <2>1. /\ InQueue(d, inQueue)' <=> InQueue(d, inQueue)
        /\ InQueue(d, outQueue)' <=> InQueue(d, outQueue)
    BY <1>4, Zenon
  <2>2. (\E f \in Execs : exec'[f].conn = d /\ exec'[f].at # "idle")
          <=> \E f \in Execs : exec[f].conn = d /\ exec[f].at # "idle"
    BY <1>5
  <2> QED BY <1>3, <2>1, <2>2 DEF InServer, Unanswered
<1>7. Settled(c)
  <2>1. CASE ServeFails(e) \/ RejectResponse(e) \/ (ServeRequest(e) /\ AbortRequest(exec[e].conn))
    <3>1. c = exec[e].conn /\ c \in Conns /\ CloseEntry(fd[c])
      BY <1>1, <1>2, <2>1 DEF ServeFails, RejectResponse, ServeRequest, AbortRequest, ExecPop
    <3> QED BY <1>2, <3>1, CloseSettles
  <2>2. CASE ExecEnds(e)
    <3>1. c \in Conns => ExecPop(e)
      BY <1>1, <2>2, PipelineAssumption DEF ExecEnds
    <3>2. ExecPop(e) => exec'[e].at = "serve"
      BY DEF ExecPop, ExecGoes, OwnerInv, PlaceTypes
    <3>3. exec'[e].at = "ended"
      BY <2>2 DEF ExecEnds, ExecGoes, OwnerInv, PlaceTypes
    <3> QED BY <2>2, <3>1, <3>2, <3>3 DEF ExecEnds, Settled
  <2>3. CASE ExecPop(e) \/ PushResponse(e) \/ (ServeRequest(e) /\ UNCHANGED statistics)
    <3>1. c \in Conns => InServer(c)'
      <4>1. CASE ExecPop(e) \/ ServeRequest(e)
        <5>1. c \in Conns => exec'[e].conn = c /\ exec'[e].at # "idle"
          BY <1>1, <1>2, <4>1 DEF ExecPop, ServeRequest, ExecGoes, OwnerInv, PlaceTypes
        <5> QED BY <5>1 DEF InServer
      <4>2. CASE PushResponse(e)
        <5>1. outQueue' = Pushed(outQueue, c) /\ QueueOK(outQueue) /\ ~Full(outQueue)
              /\ c \in Conns
          BY <1>1, <1>2, <4>2 DEF PushResponse, OwnerInv, PlaceTypes
        <5> QED BY <5>1, PushedItems DEF InServer
      <4> QED BY <2>3, <4>1, <4>2
    <3> QED BY <2>3, <3>1 DEF ExecPop, PushResponse, Settled
  <2> QED BY <2>1, <2>2, <2>3 DEF ExecStep, ServeRequest
<1> QED
  BY <1>2, <1>3, <1>6, <1>7, StepCounts

\* The steps of a Writer: it answers a request once, and closes its entry after.
LEMMA WriterCounts ==
  ASSUME OwnerInv, CountInv, NEW w \in Writers, WriterStep(w)
  PROVE  CountInv'
<1>1. PICK c : c = IF WriterPop(w) THEN First(outQueue)
                   ELSE IF writer[w].at \in {"write", "account"} THEN writer[w].conn ELSE None
  OBVIOUS
<1>2. /\ WriterPop(w) => writer[w].at = "idle" /\ c \in Conns /\ InQueue(c, outQueue)
      /\ ~WriterPop(w) /\ writer[w].at \in {"write", "account"} => c = writer[w].conn /\ c \in Conns
      /\ ~WriterPop(w) /\ writer[w].at \notin {"write", "account"} => c = None
      /\ c \in Conns => InServer(c)
  <2>1. WriterPop(w) => writer[w].at = "idle" /\ c \in Conns /\ InQueue(c, outQueue)
    BY <1>1, PoppedItems DEF WriterPop, OwnerInv, PlaceTypes
  <2>2. writer[w].at \in {"write", "account"} => writer[w].conn \in Conns
    BY DEF OwnerInv, PlaceTypes, WriterStates
  <2> QED BY <1>1, <2>1, <2>2, PipelineAssumption DEF InServer
<1>3. UNCHANGED <<client, inbox, sent, inQueue, reader, exec>> /\ Survive
  <2>1. writer[w].at = "write" => writer[w].conn \in Conns
    BY DEF OwnerInv, PlaceTypes, WriterStates
  <2>2. UNCHANGED <<client, inbox, sent, inQueue, reader, exec>>
    BY DEF WriterStep, WriterPop, WriteReply, WriteFails, AccountReply, ReuseConnection,
           DropConnection, WriterEnds, clients, queues
  <2>3. Survive
    BY <2>1, ReleaseSurvives
       DEF WriterStep, WriterPop, WriteReply, WriteFails, AccountReply, ReuseConnection,
           DropConnection, WriterEnds
  <2> QED BY <2>2, <2>3
<1>4. \A d \in Conns : InQueue(d, inQueue)' <=> InQueue(d, inQueue)
  BY <1>3 DEF InQueue, UsedSlots
<1>5. /\ \A d \in Conns \ {c} : InQueue(d, outQueue)' <=> InQueue(d, outQueue)
      /\ ~WriterPop(w) => \A d \in Conns : InQueue(d, outQueue)' <=> InQueue(d, outQueue)
  <2>1. CASE WriterPop(w)
    <3>1. outQueue' = Popped(outQueue) /\ QueueOK(outQueue) /\ outQueue.used > 0
          /\ c = First(outQueue)
      BY <1>1, <2>1 DEF WriterPop, OwnerInv, PlaceTypes
    <3> QED BY <2>1, <3>1, PoppedItems
  <2>2. CASE ~WriterPop(w)
    <3>1. outQueue' = outQueue
      BY <2>2 DEF WriterStep, WriteReply, WriteFails, AccountReply, ReuseConnection,
                  DropConnection, WriterEnds, queues
    <3> QED BY <3>1 DEF InQueue, UsedSlots
  <2> QED BY <2>1, <2>2
<1>6. PICK to, b :
        /\ writer' = [writer EXCEPT ![w] = [at |-> to, conn |-> b]]
        /\ to \in {"write", "account"} => b = c
        /\ writer[w].at \notin {"write", "account"} /\ to \in {"write", "account"}
             => WriterPop(w)
        /\ to = "write" => WriterPop(w)
        /\ WriterPop(w) \/ WriteReply(w) \/ WriteFails(w) => to \in {"write", "account"}
        /\ WriteReply(w) => to = "account"
  <2>1. CASE WriterPop(w)
    <3>1. writer' = [writer EXCEPT ![w] = [at |-> "write", conn |-> c]]
          /\ ~WriteReply(w) /\ ~WriteFails(w)
      BY <1>1, <2>1 DEF WriterPop, WriterGoes, WriteReply, WriteFails
    <3> QED BY <2>1, <3>1
  <2>2. CASE WriteReply(w) \/ WriteFails(w)
    <3>1. writer' = [writer EXCEPT ![w] = [at |-> "account", conn |-> c]]
          /\ writer[w].at = "write"
      BY <1>1, <2>2 DEF WriterPop, WriterGoes, WriteReply, WriteFails
    <3> QED BY <2>2, <3>1
  <2>3. CASE AccountReply(w) \/ ReuseConnection(w) \/ DropConnection(w) \/ WriterEnds(w)
    <3>1. \E to, b : /\ writer' = [writer EXCEPT ![w] = [at |-> to, conn |-> b]]
                     /\ to \in {"reuse", "idle", "ended"}
      BY <2>3 DEF AccountReply, ReuseConnection, DropConnection, WriterEnds, WriterGoes, LoopTop
    <3>2. ~WriteReply(w) /\ ~WriteFails(w)
      BY <2>3
         DEF AccountReply, ReuseConnection, DropConnection, WriterEnds, WriteReply, WriteFails
    <3>3. ~WriterPop(w)
      <4>1. WriterPop(w) => writer'[w].at = "write"
        BY DEF WriterPop, WriterGoes, OwnerInv, PlaceTypes
      <4>2. writer'[w].at # "write"
        BY <3>1 DEF OwnerInv, PlaceTypes
      <4> QED BY <4>1, <4>2
    <3> QED BY <3>1, <3>2, <3>3
  <2> QED BY <2>1, <2>2, <2>3 DEF WriterStep
<1>7. /\ \A d \in Conns \ {c}, v \in Writers :
           /\ writer'[v].conn = d /\ writer'[v].at \in {"write", "account"}
                <=> writer[v].conn = d /\ writer[v].at \in {"write", "account"}
           /\ writer'[v].conn = d /\ writer'[v].at = "write"
                => writer[v].conn = d /\ writer[v].at = "write"
      /\ writer'[w].at = to /\ writer'[w].conn = b
      /\ \A v \in Writers \ {w} : writer'[v] = writer[v]
  BY <1>1, <1>2, <1>6 DEF OwnerInv, PlaceTypes
<1>8. OthersStay(c)
  <2> SUFFICES ASSUME NEW d \in Conns \ {c}
               PROVE  (InServer(d)' <=> InServer(d)) /\ (Unanswered(d)' => Unanswered(d))
    BY DEF OthersStay
  <2>1. /\ InQueue(d, inQueue)' <=> InQueue(d, inQueue)
        /\ InQueue(d, outQueue)' <=> InQueue(d, outQueue)
    BY <1>4, <1>5, Zenon
  <2>2. /\ (\E v \in Writers : writer'[v].conn = d /\ writer'[v].at \in {"write", "account"})
             <=> \E v \in Writers : writer[v].conn = d /\ writer[v].at \in {"write", "account"}
        /\ (\E v \in Writers : writer'[v].conn = d /\ writer'[v].at = "write")
             => \E v \in Writers : writer[v].conn = d /\ writer[v].at = "write"
    BY <1>7
  <2> QED BY <1>3, <2>1, <2>2 DEF InServer, Unanswered
<1>9. Settled(c)
  <2>1. CASE AccountReply(w)
    <3>1. c = writer[w].conn /\ c \in Conns /\ CloseEntry(fd[c])
      BY <1>2, <2>1 DEF AccountReply, EndRequest, WriterPop
    <3> QED BY <1>2, <3>1, CloseSettles
  <2>2. CASE WriterPop(w) \/ WriteReply(w) \/ WriteFails(w)
    <3>1. UNCHANGED statistics
      BY <2>2 DEF WriterPop, WriteReply, WriteFails
    <3>2. InServer(c)'
      BY <1>6, <1>7, <2>2 DEF InServer
    <3> QED BY <3>1, <3>2 DEF Settled
  <2>3. CASE ReuseConnection(w) \/ DropConnection(w) \/ WriterEnds(w)
    <3>1. UNCHANGED statistics
      BY <2>3 DEF ReuseConnection, DropConnection, WriterEnds
    <3>2. c \in Conns => WriterPop(w)
      BY <1>1, <2>3, PipelineAssumption DEF ReuseConnection, DropConnection, WriterEnds
    <3>3. WriterPop(w) => InServer(c)'
      BY <1>6, <1>7 DEF InServer
    <3> QED BY <3>1, <3>2, <3>3 DEF Settled
  <2> QED BY <2>1, <2>2, <2>3 DEF WriterStep
<1>10. c \in Conns => (InServer(c)' => InServer(c)) /\ (Unanswered(c)' => Unanswered(c))
  <2> SUFFICES ASSUME c \in Conns, Unanswered(c)' PROVE Unanswered(c)
    BY <1>2
  <2>1. CASE WriterPop(w)
    BY <1>2, <2>1 DEF Unanswered
  <2>2. CASE ~WriterPop(w)
    <3>1. InQueue(c, inQueue)' => InQueue(c, inQueue)
      BY <1>4
    <3>2. InQueue(c, outQueue)' => InQueue(c, outQueue)
      BY <1>5, <2>2
    <3>3. \A v \in Writers : writer'[v].conn = c /\ writer'[v].at = "write"
                            => writer[v].conn = c /\ writer[v].at = "write"
      BY <1>6, <1>7, <2>2
    <3> QED BY <1>3, <3>1, <3>2, <3>3 DEF Unanswered
  <2> QED BY <2>1, <2>2
<1>11. \/ UNCHANGED replies
       \/ /\ c \in Conns /\ Unanswered(c) /\ ~Unanswered(c)'
          /\ replies' = [replies EXCEPT ![c] = @ + 1]
  <2>1. CASE ~WriteReply(w)
    BY <2>1 DEF WriterStep, WriterPop, WriteFails, AccountReply, ReuseConnection,
                DropConnection, WriterEnds, clients
  <2>2. CASE WriteReply(w)
    <3>1. writer[w].at = "write" /\ c = writer[w].conn /\ c \in Conns /\ ~WriterPop(w)
      BY <1>2, <2>2 DEF WriteReply, WriterPop
    <3>2. "writer" \in Kinds /\ w \in Spots /\ Holds(c, "writer", w)
      BY <3>1 DEF Kinds, Spots, Holds
    <3>3. /\ ~InQueue(c, inQueue) /\ ~InQueue(c, outQueue)
          /\ \A r \in Readers : reader[r].conn # c
          /\ \A e \in Execs : ~(exec[e].conn = c /\ exec[e].at # "idle")
          /\ \A v \in Writers : writer[v].conn = c /\ writer[v].at # "idle" => w = v
      <4>1. PICK k \in Kinds, x \in Spots : k = "writer" /\ x = w /\ Holds(c, k, x)
        BY <3>2
      <4> QED BY <3>1, <4>1, NoOtherPlace
    <3>4. ~InQueue(c, inQueue)' /\ ~InQueue(c, outQueue)'
      BY <1>4, <1>5, <3>1, <3>3
    <3>5. \A v \in Writers : ~(writer'[v].conn = c /\ writer'[v].at = "write")
      BY <1>6, <1>7, <2>2, <3>3
    <3>6. ~Unanswered(c)'
      BY <1>3, <3>3, <3>4, <3>5 DEF Unanswered
    <3>7. Unanswered(c)
      BY <3>1 DEF Unanswered
    <3> QED BY <2>2, <3>1, <3>6, <3>7 DEF WriteReply
  <2> QED BY <2>1, <2>2
<1> QED
  BY <1>3, <1>8, <1>9, <1>10, <1>11, StepCounts

\* All steps.
LEMMA CountStep == OwnerInv /\ CountInv /\ [Next]_vars => CountInv'
<1> SUFFICES ASSUME OwnerInv, CountInv, [Next]_vars PROVE CountInv'
  OBVIOUS
<1> QED
  BY AcceptCounts, OutsideCounts, ReaderCounts, ExecCounts, WriterCounts DEF Next, ListenerStep

\* The invariant of the statistics, whatever the threads do and in whatever order.
THEOREM CountInvariance == Spec => []CountInv
<1>1. Init => OwnerInv /\ CountInv
  BY OwnerStart, CountStart
<1>2. OwnerInv /\ CountInv /\ [Next]_vars => (OwnerInv /\ CountInv)'
  BY OwnerStep, CountStep
<1> QED
  BY <1>1, <1>2, PTL DEF Spec

\* The entries of a connection are one at most, and with its requests performed they
\* make up the requests that were read, but for one a dead connection may have lost.
LEMMA EntriesCounted ==
  ASSUME CountInv, NEW c \in Conns
  PROVE  LET entries == {f \in Fds : pending[f] = c}
             known == counted[c] + Cardinality(entries)
         IN IF alive[c]
            THEN known = Read(c) /\ entries \subseteq {fd[c]}
            ELSE known <= Read(c) /\ Read(c) <= known + 1
<1> DEFINE entries == {f \in Fds : pending[f] = c}
<1>1. \A f, g \in entries : f = g
  BY DEF CountInv, CountOK, LiveEntries, DeadEntries
<1>2. Cardinality(entries) = IF HasEntry(c) THEN 1 ELSE 0
  <2>1. entries = {} <=> ~HasEntry(c)
    BY DEF HasEntry
  <2>2. Cardinality(entries) = IF entries = {} THEN 0 ELSE 1
    <3> HIDE DEF entries
    <3> QED BY <1>1, AtMostOne
  <2> QED BY <2>1, <2>2
<1>3. Read(c) \in Int /\ counted[c] \in Nat
  BY DEF CountInv, CountTypes, Read
<1>4. CASE alive[c]
  <2>1. entries \subseteq {fd[c]}
    BY <1>4 DEF CountInv, CountOK, LiveEntries
  <2> QED BY <1>2, <1>3, <1>4, <2>1 DEF CountInv, CountOK, LiveEntries
<1>5. CASE ~alive[c]
  BY <1>2, <1>3, <1>5 DEF CountInv, CountOK, DeadEntries
<1> QED
  BY <1>4, <1>5

\* Statistics loses no request and counts none twice: every request read from a connection
\* that is alive is performed, or pending under the connection's own descriptor.
THEOREM RequestsAccountedHolds == Spec => []RequestsAccounted
<1>1. CountInv => RequestsAccounted
  BY EntriesCounted DEF RequestsAccounted
<1> QED
  BY <1>1, CountInvariance, PTL

\* A pending entry of a connection that is alive is of a request that is in the server: no
\* path of server.cpp drops a request without abort_request or end_request.
THEOREM PendingInServerHolds == Spec => []PendingIsInServer
<1>1. CountInv => PendingIsInServer
  <2> SUFFICES ASSUME CountInv, NEW f \in Fds, pending[f] # None, alive[pending[f]]
               PROVE  InServer(pending[f])
    BY DEF PendingIsInServer
  <2>1. PICK c \in Conns : c = pending[f]
    BY DEF CountInv, CountTypes
  <2>2. LiveEntries(c)
    BY <2>1 DEF CountInv, CountOK
  <2> QED BY <2>1, <2>2 DEF LiveEntries
<1> QED
  BY <1>1, CountInvariance, PTL

\* Only clients and Readers move the pieces of requests.
LEMMA PieceTyped == Spec => [](piece \in [Conns -> BOOLEAN])
<1>1. Init => piece \in [Conns -> BOOLEAN]
  BY DEF Init
<1>2. piece \in [Conns -> BOOLEAN] /\ [Next]_vars => (piece \in [Conns -> BOOLEAN])'
  <2> SUFFICES ASSUME piece \in [Conns -> BOOLEAN], [Next]_vars
               PROVE  piece' \in [Conns -> BOOLEAN]
    OBVIOUS
  <2>1. ASSUME NEW c \in Conns, ClientStep(c) PROVE piece' \in [Conns -> BOOLEAN]
    BY <2>1 DEF ClientStep, Send, SendPart, Leave
  <2>2. CASE ListenerStep
    BY <2>2 DEF ListenerStep, Accept, ListenerEnds, clients
  <2>3. ASSUME NEW r \in Readers, ReaderStep(r) PROVE piece' \in [Conns -> BOOLEAN]
    BY <2>3 DEF ReaderStep, ReaderPop, ReadPart, ReadRequest, ReadNothing, ReadTimeout,
                RejectRequest, SubmitRequest, ReaderEnds, clients
  <2>4. ASSUME NEW e \in Execs, ExecStep(e) PROVE UNCHANGED piece
    BY <2>4 DEF ExecStep, ExecPop, ServeRequest, ServeFails, PushResponse, RejectResponse,
                ExecEnds, clients
  <2>5. ASSUME NEW w \in Writers, WriterStep(w) PROVE UNCHANGED piece
    BY <2>5 DEF WriterStep, WriterPop, WriteReply, WriteFails, AccountReply, ReuseConnection,
                DropConnection, WriterEnds, clients
  <2>6. CASE Interrupt \/ UNCHANGED vars
    BY <2>6 DEF Interrupt, vars, clients
  <2> QED BY <2>1, <2>2, <2>3, <2>4, <2>5, <2>6 DEF Next
<1> QED
  BY <1>1, <1>2, PTL DEF Spec

\* All variables have their types; no client gets more answers than it sent requests.
THEOREM TypeCorrect == Spec => []TypeOK
<1>1. OwnerInv /\ CountInv /\ piece \in [Conns -> BOOLEAN] => TypeOK
  <2> SUFFICES ASSUME OwnerInv, CountInv, piece \in [Conns -> BOOLEAN] PROVE TypeOK
    OBVIOUS
  <2>1. replies \in [Conns -> 0 .. MaxRequests] /\ counted \in [Conns -> 0 .. MaxRequests]
    <3>1. ASSUME NEW c \in Conns
          PROVE  replies[c] \in 0 .. MaxRequests /\ counted[c] \in 0 .. MaxRequests
      <4>1. /\ replies[c] <= Read(c) /\ (counted[c] = Read(c) \/ counted[c] = Read(c) - 1)
        BY DEF CountInv, CountOK, RepliesOK, LiveEntries, DeadEntries, CountTypes
      <4>2. Read(c) \in Int /\ Read(c) <= MaxRequests
        BY PipelineAssumption DEF CountInv, CountTypes, Read
      <4> QED BY <4>1, <4>2, PipelineAssumption DEF CountInv, CountTypes
    <3> QED BY <3>1 DEF CountInv, CountTypes
  <2>2. /\ reader \in [Readers -> [at : {"idle", "read", "submit", "ended"},
                                   conn : Conns \cup {None}]]
        /\ exec \in [Execs -> [at : {"idle", "serve", "reply", "ended"},
                               conn : Conns \cup {None}]]
        /\ writer \in [Writers -> [at : {"idle", "write", "account", "reuse", "ended"},
                                   conn : Conns \cup {None}]]
    BY DEF OwnerInv, PlaceTypes, ReaderStates, ExecStates, WriterStates
  <2> QED BY <2>1, <2>2 DEF TypeOK, OwnerInv, PlaceTypes, QueueOK, CountInv, CountTypes
<1> QED
  BY <1>1, OwnerInvariance, CountInvariance, PieceTyped, PTL
=============================================================================
