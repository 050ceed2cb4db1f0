---------------------------- MODULE BoundedFifo ----------------------------
(***************************************************************************)
(* What the server's threads expect of NonGrowableQueue: a first-in         *)
(* first-out queue that never holds more than Size items, whose push is     *)
(* refused only when the queue is full at that moment, and whose pop hands  *)
(* an item to exactly one consumer.  A pop may also come back with nothing. *)
(***************************************************************************)
EXTENDS Naturals, Sequences

CONSTANTS Size,        \* the template parameter SIZE
          Producers,   \* threads that call push
          Consumers,   \* threads that call pop_timed
          Items,       \* the values of the template parameter T
          NoItem       \* a pop that brought nothing back

VARIABLES queue,       \* the items in the queue, oldest first
          pushResult,  \* per producer, what its last finished test said
          popResult    \* per consumer, what its last finished pop brought

vars == <<queue, pushResult, popResult>>

Init ==
  /\ queue = <<>>
  /\ pushResult = [p \in Producers |-> "none"]
  /\ popResult = [c \in Consumers |-> NoItem]

Accept(p, v) ==
  /\ Len(queue) < Size
  /\ queue' = Append(queue, v)
  /\ pushResult' = [pushResult EXCEPT ![p] = "stored"]
  /\ UNCHANGED popResult

Refuse(p) ==
  /\ Len(queue) = Size
  /\ pushResult' = [pushResult EXCEPT ![p] = "full"]
  /\ UNCHANGED <<queue, popResult>>

Deliver(c) ==
  /\ queue # <<>>
  /\ popResult' = [popResult EXCEPT ![c] = Head(queue)]
  /\ queue' = Tail(queue)
  /\ UNCHANGED pushResult

Nothing(c) ==
  /\ popResult' = [popResult EXCEPT ![c] = NoItem]
  /\ UNCHANGED <<queue, pushResult>>

Next ==
  \/ \E p \in Producers, v \in Items : Accept(p, v)
  \/ \E p \in Producers : Refuse(p)
  \/ \E c \in Consumers : Deliver(c) \/ Nothing(c)

Spec == Init /\ [][Next]_vars
=============================================================================
