--------------------------- MODULE ServerPipeline ---------------------------
(***************************************************************************)
(* server.cpp: the threads of the server and the three queues between them. *)
(*                                                                          *)
(*   Listener --> mySessionQueue --> Reader --> myInQueue --> Exec          *)
(*                      ^                                       |           *)
(*                      +------- Writer <--- myOutQueue <-------+           *)
(*                                                                          *)
(* The queues are used through push and pop_timed only; the module          *)
(* NonGrowableQueue shows that those two are atomic operations on a bounded *)
(* first-in first-out queue, and that is how they appear here.  Their slots *)
(* are kept, with what a popped slot still holds, because the items are     *)
(* shared_ptr: a TcpConnection is closed when the last reference to it goes,*)
(* and a reference may stay in a slot, or in the m of an Exec or a Writer,  *)
(* long after the request is over.                                          *)
(*                                                                          *)
(* A request or a response is identified with its connection: a connection  *)
(* has at most one in the server (OneOwner), and both keep a reference to   *)
(* it.  What Statistics holds of a request is who started it.               *)
(***************************************************************************)
EXTENDS Naturals, FiniteSets

CONSTANTS Conns,        \* client connections, each accepted at most once
          Readers, Execs, Writers,   \* threads
          QueueSize,    \* MAX_PENDING_REQUESTS
          MaxRequests,  \* bound: requests a client sends on its connection
          None

ASSUME PipelineAssumption ==
  /\ QueueSize \in Nat \ {0}
  /\ MaxRequests \in Nat
  /\ None \notin Conns
  /\ IsFiniteSet(Conns)

\* Descriptors the kernel hands out; 0 is the value TcpConnection::abort leaves.
Fds == 1 .. Cardinality(Conns)

VARIABLES
  client,     \* "away", "open", or "gone": closed or deaf
  inbox,      \* has the client sent a request that the server has not read?
  piece,      \* has it sent bytes that complete no request and are not received?
  sent,       \* requests sent by each client
  replies,    \* responses written to each client
  fd, alive,  \* _FileDescr and _IsAlive of each TcpConnection
  sessions, inQueue, outQueue,
  reader, exec, writer,   \* per thread: where it is, and what its s or m refers to
  listening,  \* has the Listener not ended?
  pending,    \* Statistics::_pending_requests: by descriptor, who started the request
  counted,    \* per connection, its entries in Statistics::_performed_requests
  stop        \* ExtThreads::shall_stop

vars == <<client, inbox, piece, sent, replies, fd, alive, sessions, inQueue, outQueue,
          reader, exec, writer, listening, pending, counted, stop>>

clients == <<client, inbox, piece, sent, replies>>
queues == <<sessions, inQueue, outQueue>>
threads == <<reader, exec, writer, listening>>
statistics == <<pending, counted>>
-----------------------------------------------------------------------------
(* The bounded queue, with the references its free slots still hold. *)
Slots == 0 .. QueueSize - 1
EmptyQueue == [slot |-> [i \in Slots |-> None], out |-> 0, used |-> 0]

Full(q) == q.used = QueueSize
Pushed(q, c) == [q EXCEPT !.slot[(q.out + q.used) % QueueSize] = c, !.used = @ + 1]
Popped(q) == [q EXCEPT !.out = (@ + 1) % QueueSize, !.used = @ - 1]
First(q) == q.slot[q.out]

UsedSlots(q) == {(q.out + i) % QueueSize : i \in 0 .. q.used - 1}
InQueue(c, q) == \E i \in UsedSlots(q) : q.slot[i] = c
HeldBy(c, q) == \E i \in Slots : q.slot[i] = c

\* Some shared_ptr refers to the connection.
Referenced(c) ==
  \/ HeldBy(c, sessions) \/ HeldBy(c, inQueue) \/ HeldBy(c, outQueue)
  \/ \E r \in Readers : reader[r].conn = c
  \/ \E e \in Execs : exec[e].conn = c
  \/ \E w \in Writers : writer[w].conn = c

\* The destructor of a connection nothing refers to any more aborts it; f and a
\* are what the step itself does to the descriptors and the flags.
Release(f, a) ==
  /\ fd' = [c \in Conns |-> IF Referenced(c)' THEN f[c] ELSE 0]
  /\ alive' = [c \in Conns |-> Referenced(c)' /\ a[c]]

\* TcpConnection::abort
Aborted(f, c) == [f EXCEPT ![c] = 0]

\* Statistics: an entry is made when a request starts, and moved to the
\* performed requests when it ends or aborts, if it is there.
StartRequest(c) == pending' = [pending EXCEPT ![fd[c]] = c] /\ UNCHANGED counted

\* (Variant of CloseEntry that does not erase the entry.)
CloseEntryKeeping(f) ==
  IF f # 0 /\ pending[f] # None
  THEN /\ counted' = [counted EXCEPT ![pending[f]] = @ + 1]
       /\ UNCHANGED pending
  ELSE UNCHANGED statistics

\* The end of a request under descriptor f.
CloseEntry(f) ==
  IF f # 0 /\ pending[f] # None
  THEN /\ pending' = [pending EXCEPT ![f] = None]
       /\ counted' = [counted EXCEPT ![pending[f]] = @ + 1]
  ELSE UNCHANGED statistics

AbortRequest(c) == CloseEntry(fd[c])
EndRequest(c) == CloseEntry(fd[c])

\* Back to the top of the thread's loop, which asks stop_requested().
LoopTop == IF stop THEN "ended" ELSE "idle"
-----------------------------------------------------------------------------
Init ==
  /\ client = [c \in Conns |-> "away"]
  /\ inbox = [c \in Conns |-> FALSE]
  /\ piece = [c \in Conns |-> FALSE]
  /\ sent = [c \in Conns |-> 0]
  /\ replies = [c \in Conns |-> 0]
  /\ fd = [c \in Conns |-> 0]
  /\ alive = [c \in Conns |-> FALSE]
  /\ sessions = EmptyQueue
  /\ inQueue = EmptyQueue
  /\ outQueue = EmptyQueue
  /\ reader = [r \in Readers |-> [at |-> "idle", conn |-> None]]
  /\ exec = [e \in Execs |-> [at |-> "idle", conn |-> None]]
  /\ writer = [w \in Writers |-> [at |-> "idle", conn |-> None]]
  /\ listening = TRUE
  /\ pending = [f \in Fds |-> None]
  /\ counted = [c \in Conns |-> 0]
  /\ stop = FALSE
-----------------------------------------------------------------------------
(* The clients. *)
server == <<fd, alive, queues, threads, statistics, stop>>

\* The next request is sent when the previous one is answered.
Send(c) ==
  /\ client[c] = "open"
  /\ ~inbox[c]
  /\ sent[c] = replies[c]
  /\ sent[c] < MaxRequests
  /\ inbox' = [inbox EXCEPT ![c] = TRUE]
  /\ sent' = [sent EXCEPT ![c] = @ + 1]
  /\ UNCHANGED <<client, piece, replies, server>>

\* Some bytes of the next request, and not its end: a client may go on like that for
\* ever, a byte at a time, and never send the blank line.
SendPart(c) ==
  /\ client[c] = "open"
  /\ ~inbox[c] /\ ~piece[c]
  /\ sent[c] = replies[c]
  /\ sent[c] < MaxRequests
  /\ piece' = [piece EXCEPT ![c] = TRUE]
  /\ UNCHANGED <<client, inbox, sent, replies, server>>

Leave(c) ==
  /\ client[c] = "open"
  /\ client' = [client EXCEPT ![c] = "gone"]
  /\ UNCHANGED <<inbox, piece, sent, replies, server>>
-----------------------------------------------------------------------------
(* The Listener: waitForClient makes a connection of the lowest free        *)
(* descriptor; a connection that finds the session queue full is dropped at *)
(* once, and with it the only reference.                                    *)
LowestFree == CHOOSE f \in Fds :
  /\ \A c \in Conns : fd[c] # f
  /\ \A g \in 1 .. f - 1 : \E c \in Conns : fd[c] = g

Accept(c) ==
  /\ listening
  /\ client[c] = "away"
  /\ client' = [client EXCEPT ![c] = "open"]
  /\ sessions' = IF Full(sessions) THEN sessions ELSE Pushed(sessions, c)
  /\ listening' = ~stop
  /\ UNCHANGED <<inbox, piece, sent, replies, inQueue, outQueue, reader, exec,
                 writer, statistics, stop>>
  /\ Release([fd EXCEPT ![c] = LowestFree], [alive EXCEPT ![c] = TRUE])

ListenerEnds ==
  /\ listening
  /\ stop
  /\ listening' = FALSE
  /\ UNCHANGED <<clients, fd, alive, queues, reader, exec, writer,
                 statistics, stop>>
-----------------------------------------------------------------------------
(* A Reader. *)
ReaderGoes(r, to, c) == reader' = [reader EXCEPT ![r] = [at |-> to, conn |-> c]]

ReaderPop(r) ==
  /\ reader[r].at = "idle"
  /\ sessions.used > 0
  /\ ReaderGoes(r, "read", First(sessions))
  /\ sessions' = Popped(sessions)
  /\ UNCHANGED <<clients, inQueue, outQueue, exec, writer, listening,
                 statistics, stop>>
  /\ Release(fd, alive)

\* getMessage goes round its loop: it has some bytes, and among them no blank line or
\* not all of the content, and calls read again, which counts its timeouts from 0.  It
\* asks neither for stop nor for the time, and for the 640000 bytes only once it has
\* the blank line, so nothing bounds how often this happens.
ReadPart(r) ==
  LET c == reader[r].conn IN
  /\ reader[r].at = "read"
  /\ piece[c]
  /\ piece' = [piece EXCEPT ![c] = FALSE]
  /\ UNCHANGED <<client, inbox, sent, replies, fd, alive, queues, threads,
                 statistics, stop>>

\* The last recv of getMessage completes a request: it is entered in the statistics
\* before it is pushed.
ReadRequest(r) ==
  LET c == reader[r].conn IN
  /\ reader[r].at = "read"
  /\ inbox[c]
  /\ inbox' = [inbox EXCEPT ![c] = FALSE]
  /\ piece' = [piece EXCEPT ![c] = FALSE]
  /\ StartRequest(c)
  /\ ReaderGoes(r, "submit", c)
  /\ UNCHANGED <<client, sent, replies, fd, alive, queues, exec, writer, listening,
                 stop>>

\* getMessage returns no length and s goes out of scope: the peer has closed and all
\* it sent is received, so that recv returns 0, or its request announces a content
\* that is too long and will not be read on.
ReadNothing(r) ==
  LET c == reader[r].conn IN
  /\ reader[r].at = "read"
  /\ (client[c] = "gone" /\ ~piece[c]) \/ inbox[c]
  /\ ReaderGoes(r, LoopTop, None)
  /\ UNCHANGED <<clients, queues, exec, writer, listening, statistics, stop>>
  /\ Release(fd, alive)

\* (Variant of ReadTimeout that goes on waiting for a silent client.)
ReadTimeoutIgnored(r) ==
  /\ reader[r].at = "read"
  /\ ~inbox[reader[r].conn] /\ ~piece[reader[r].conn]
  /\ UNCHANGED vars

\* An error of recv, or more than 20 timeouts on end in one call of
\* TcpConnection::read, which then aborts the connection: nothing came in since the
\* call began, whatever was received by the calls before it.
ReadTimeout(r) ==
  LET c == reader[r].conn IN
  /\ reader[r].at = "read"
  /\ ~inbox[c] /\ ~piece[c]
  /\ ReaderGoes(r, LoopTop, None)
  /\ UNCHANGED <<clients, queues, exec, writer, listening, statistics, stop>>
  /\ Release(Aborted(fd, c), [alive EXCEPT ![c] = FALSE])

\* (Variant of RejectRequest that leaves the request in the statistics.)
RejectRequestSilently(r) ==
  /\ reader[r].at = "submit"
  /\ ReaderGoes(r, LoopTop, None)
  /\ UNCHANGED <<clients, queues, exec, writer, listening, statistics, stop>>
  /\ Release(fd, alive)

\* encode throws, or myInQueue is full: no answer is ever sent.
RejectRequest(r) ==
  LET c == reader[r].conn IN
  /\ reader[r].at = "submit"
  /\ AbortRequest(c)
  /\ ReaderGoes(r, LoopTop, None)
  /\ UNCHANGED <<clients, queues, exec, writer, listening, stop>>
  /\ Release(fd, alive)

SubmitRequest(r) ==
  LET c == reader[r].conn IN
  /\ reader[r].at = "submit"
  /\ ~Full(inQueue)
  /\ inQueue' = Pushed(inQueue, c)
  /\ ReaderGoes(r, LoopTop, None)
  /\ UNCHANGED <<clients, sessions, outQueue, exec, writer, listening,
                 statistics, stop>>
  /\ Release(fd, alive)

\* pop_timed runs out of time when the thread is to stop.
ReaderEnds(r) ==
  /\ reader[r].at = "idle"
  /\ stop
  /\ ReaderGoes(r, "ended", None)
  /\ UNCHANGED <<clients, fd, alive, queues, exec, writer, listening,
                 statistics, stop>>
-----------------------------------------------------------------------------
(* An Exec.  Its m keeps the last request until the next one is popped. *)
ExecGoes(e, to, c) ==
  exec' = [exec EXCEPT ![e] = [at |-> to, conn |-> IF to = "ended" THEN None ELSE c]]

ExecPop(e) ==
  /\ exec[e].at = "idle"
  /\ inQueue.used > 0
  /\ ExecGoes(e, "serve", First(inQueue))
  /\ inQueue' = Popped(inQueue)
  /\ UNCHANGED <<clients, sessions, outQueue, reader, writer, listening,
                 statistics, stop>>
  /\ Release(fd, alive)

\* processRequest, or the page of the statistics, or the 404 page, which counts
\* the request as aborted before the page is sent.
ServeRequest(e) ==
  LET c == exec[e].conn IN
  /\ exec[e].at = "serve"
  /\ AbortRequest(c) \/ UNCHANGED statistics
  /\ ExecGoes(e, "reply", c)
  /\ UNCHANGED <<clients, fd, alive, queues, reader, writer, listening,
                 stop>>

\* (Variant of ServeFails with the try around the loop: the thread ends.)
ServeFailsForGood(e) ==
  /\ exec[e].at = "serve"
  /\ AbortRequest(exec[e].conn)
  /\ ExecGoes(e, "ended", None)
  /\ UNCHANGED <<clients, queues, reader, writer, listening, stop>>
  /\ Release(fd, alive)

\* The service throws: no answer is ever sent.
ServeFails(e) ==
  LET c == exec[e].conn IN
  /\ exec[e].at = "serve"
  /\ AbortRequest(c)
  /\ ExecGoes(e, LoopTop, c)
  /\ UNCHANGED <<clients, queues, reader, writer, listening, stop>>
  /\ Release(fd, alive)

\* (Variant of PushResponse that does not look whether there is room.)
PushResponseUnchecked(e) ==
  /\ exec[e].at = "reply"
  /\ outQueue' = Pushed(outQueue, exec[e].conn)
  /\ ExecGoes(e, LoopTop, exec[e].conn)
  /\ UNCHANGED <<clients, sessions, inQueue, reader, writer, listening, statistics, stop>>
  /\ Release(fd, alive)

\* The response waits for a Writer.
PushResponse(e) ==
  /\ exec[e].at = "reply"
  /\ ~Full(outQueue)
  /\ outQueue' = Pushed(outQueue, exec[e].conn)
  /\ ExecGoes(e, LoopTop, exec[e].conn)
  /\ UNCHANGED <<clients, sessions, inQueue, reader, writer, listening,
                 statistics, stop>>
  /\ Release(fd, alive)

\* myOutQueue is full: no answer is ever sent.
RejectResponse(e) ==
  LET c == exec[e].conn IN
  /\ exec[e].at = "reply"
  /\ Full(outQueue)
  /\ AbortRequest(c)
  /\ ExecGoes(e, LoopTop, c)
  /\ UNCHANGED <<clients, queues, reader, writer, listening, stop>>
  /\ Release(fd, alive)

ExecEnds(e) ==
  /\ exec[e].at = "idle"
  /\ stop
  /\ ExecGoes(e, "ended", None)
  /\ UNCHANGED <<clients, queues, reader, writer, listening, statistics,
                 stop>>
  /\ Release(fd, alive)
-----------------------------------------------------------------------------
(* A Writer.  Its m keeps the last response until the next one is popped. *)
WriterGoes(w, to, c) ==
  writer' = [writer EXCEPT ![w] = [at |-> to, conn |-> IF to = "ended" THEN None ELSE c]]

\* The oldest response.
WriterPop(w) ==
  /\ writer[w].at = "idle"
  /\ outQueue.used > 0
  /\ WriterGoes(w, "write", First(outQueue))
  /\ outQueue' = Popped(outQueue)
  /\ UNCHANGED <<clients, sessions, inQueue, reader, exec, listening,
                 statistics, stop>>
  /\ Release(fd, alive)

\* send accepts the response, whether or not the peer is still there.
WriteReply(w) ==
  LET c == writer[w].conn IN
  /\ writer[w].at = "write"
  /\ replies' = [replies EXCEPT ![c] = @ + 1]
  /\ WriterGoes(w, "account", c)
  /\ UNCHANGED <<client, inbox, piece, sent, fd, alive, queues, reader, exec,
                 listening, statistics, stop>>

\* More than 20 errors of send: TcpConnection::write aborts the connection.
WriteFails(w) ==
  LET c == writer[w].conn IN
  /\ writer[w].at = "write"
  /\ client[c] = "gone"
  /\ WriterGoes(w, "account", c)
  /\ UNCHANGED <<clients, queues, reader, exec, listening, statistics,
                 stop>>
  /\ Release(Aborted(fd, c), [alive EXCEPT ![c] = FALSE])

\* end_request with the descriptor of the moment, 0 if the write has failed.
AccountReply(w) ==
  LET c == writer[w].conn IN
  /\ writer[w].at = "account"
  /\ EndRequest(c)
  /\ WriterGoes(w, "reuse", c)
  /\ UNCHANGED <<clients, fd, alive, queues, reader, exec, listening, stop>>

\* The connection goes back to the sessions if it is alive and there is room.
ReuseConnection(w) ==
  LET c == writer[w].conn IN
  /\ writer[w].at = "reuse"
  /\ alive[c]
  /\ sessions' = IF Full(sessions) THEN sessions ELSE Pushed(sessions, c)
  /\ WriterGoes(w, LoopTop, c)
  /\ UNCHANGED <<clients, inQueue, outQueue, reader, exec, listening,
                 statistics, stop>>
  /\ Release(fd, alive)

\* (Variant of DropConnection that does not ask isAlive.)
DropConnectionBack(w) ==
  /\ writer[w].at = "reuse"
  /\ ~alive[writer[w].conn]
  /\ ~Full(sessions)
  /\ sessions' = Pushed(sessions, writer[w].conn)
  /\ WriterGoes(w, LoopTop, writer[w].conn)
  /\ UNCHANGED <<clients, inQueue, outQueue, reader, exec, listening, statistics, stop>>
  /\ Release(fd, alive)

\* The write has failed: the connection is not used again.
DropConnection(w) ==
  /\ writer[w].at = "reuse"
  /\ ~alive[writer[w].conn]
  /\ WriterGoes(w, LoopTop, writer[w].conn)
  /\ UNCHANGED <<clients, queues, reader, exec, listening, statistics,
                 stop>>
  /\ Release(fd, alive)

WriterEnds(w) ==
  /\ writer[w].at = "idle"
  /\ stop
  /\ WriterGoes(w, "ended", None)
  /\ UNCHANGED <<clients, queues, reader, exec, listening, statistics,
                 stop>>
  /\ Release(fd, alive)
-----------------------------------------------------------------------------
\* SIGINT, seen by main, which then requests all threads to stop.
Interrupt ==
  /\ ~stop
  /\ stop' = TRUE
  /\ UNCHANGED <<clients, fd, alive, queues, threads, statistics>>

ClientStep(c) == Send(c) \/ SendPart(c) \/ Leave(c)

ListenerStep == (\E c \in Conns : Accept(c)) \/ ListenerEnds

ReaderStep(r) ==
  \/ ReaderPop(r) \/ ReadPart(r) \/ ReadRequest(r) \/ ReadNothing(r) \/ ReadTimeout(r)
  \/ RejectRequest(r) \/ SubmitRequest(r) \/ ReaderEnds(r)

ExecStep(e) ==
  \/ ExecPop(e) \/ ServeRequest(e) \/ ServeFails(e) \/ PushResponse(e)
  \/ RejectResponse(e) \/ ExecEnds(e)

WriterStep(w) ==
  \/ WriterPop(w) \/ WriteReply(w) \/ WriteFails(w) \/ AccountReply(w)
  \/ ReuseConnection(w) \/ DropConnection(w) \/ WriterEnds(w)

Next ==
  \/ \E c \in Conns : ClientStep(c)
  \/ ListenerStep
  \/ \E r \in Readers : ReaderStep(r)
  \/ \E e \in Execs : ExecStep(e)
  \/ \E w \in Writers : WriterStep(w)
  \/ Interrupt

\* Every thread of the server keeps running; clients and the operator need not.
Fairness ==
  /\ WF_vars(ListenerStep)
  /\ \A r \in Readers : WF_vars(ReaderStep(r))
  /\ \A e \in Execs : WF_vars(ExecStep(e))
  /\ \A w \in Writers : WF_vars(WriterStep(w))

Spec == Init /\ [][Next]_vars /\ Fairness
-----------------------------------------------------------------------------
QueueType ==
  [slot : [Slots -> Conns \cup {None}], out : Slots, used : 0 .. QueueSize]

TypeOK ==
  /\ client \in [Conns -> {"away", "open", "gone"}]
  /\ inbox \in [Conns -> BOOLEAN]
  /\ piece \in [Conns -> BOOLEAN]
  /\ sent \in [Conns -> 0 .. MaxRequests]
  /\ replies \in [Conns -> 0 .. MaxRequests]
  /\ fd \in [Conns -> Fds \cup {0}]
  /\ alive \in [Conns -> BOOLEAN]
  /\ sessions \in QueueType /\ inQueue \in QueueType /\ outQueue \in QueueType
  /\ reader \in [Readers -> [at : {"idle", "read", "submit", "ended"},
                             conn : Conns \cup {None}]]
  /\ exec \in [Execs -> [at : {"idle", "serve", "reply", "ended"},
                         conn : Conns \cup {None}]]
  /\ writer \in [Writers -> [at : {"idle", "write", "account", "reuse", "ended"},
                             conn : Conns \cup {None}]]
  /\ listening \in BOOLEAN /\ stop \in BOOLEAN
  /\ pending \in [Fds -> Conns \cup {None}]
  /\ counted \in [Conns -> 0 .. MaxRequests]

\* The places where the server works on a connection, as opposed to the places
\* that merely still refer to it.
Places(c) ==
  {<<"sessions", i>> : i \in {j \in UsedSlots(sessions) : sessions.slot[j] = c}}
  \cup {<<"in", i>> : i \in {j \in UsedSlots(inQueue) : inQueue.slot[j] = c}}
  \cup {<<"out", i>> : i \in {j \in UsedSlots(outQueue) : outQueue.slot[j] = c}}
  \cup {<<"reader", r>> : r \in {s \in Readers : reader[s].conn = c}}
  \cup {<<"exec", e>> : e \in {s \in Execs : exec[s].conn = c /\ exec[s].at # "idle"}}
  \cup {<<"writer", w>> : w \in {s \in Writers : writer[s].conn = c /\ writer[s].at # "idle"}}

\* A connection is in one queue or in the hands of one thread at a time, though
\* it goes round and round between them: no two threads read, write, close or
\* account for the same socket, and an open one is never closed under a thread
\* that is going to read it.
OneOwner ==
  \A c \in Conns :
    /\ Cardinality(Places(c)) <= 1
    /\ (InQueue(c, sessions) \/ InQueue(c, inQueue) \/ InQueue(c, outQueue)
          \/ \E r \in Readers : reader[r].conn = c) => alive[c] /\ fd[c] # 0

\* A request of the connection is between a Reader and the end of its writing.
InServer(c) ==
  \/ \E r \in Readers : reader[r] = [at |-> "submit", conn |-> c]
  \/ InQueue(c, inQueue) \/ InQueue(c, outQueue)
  \/ \E e \in Execs : exec[e].conn = c /\ exec[e].at # "idle"
  \/ \E w \in Writers : writer[w].conn = c /\ writer[w].at \in {"write", "account"}

\* The requests the server has read from a connection.
Read(c) == IF inbox[c] THEN sent[c] - 1 ELSE sent[c]

\* The statistics lose no request and count none twice: every request read is
\* performed or pending, under the descriptor of its own connection, even when
\* descriptors are reused while other requests are on their way.  Only a request
\* whose connection died may be left pending for ever or be overwritten.
RequestsAccounted ==
  \A c \in Conns :
    LET entries == {f \in Fds : pending[f] = c}
        known == counted[c] + Cardinality(entries)
    IN IF alive[c]
       THEN known = Read(c) /\ entries \subseteq {fd[c]}
       ELSE known <= Read(c) /\ Read(c) <= known + 1

\* A pending entry of a connection that is alive belongs to a request that is in
\* the server now: no path drops a request and forgets to abort it.
PendingIsInServer ==
  \A f \in Fds : pending[f] # None /\ alive[pending[f]] => InServer(pending[f])

\* Every request that is read leaves the server, answered or not, and frees its
\* place in the queues, whatever the other clients do, unless the server stops.
RequestsLeave == \A c \in Conns : InServer(c) ~> ~InServer(c) \/ stop

\* Its client sends a piece within every timeout and never the end of its request:
\* the Reader stays in getMessage for ever.
HeldForEver(r) == <>[](reader[r].at = "read") /\ []<><<ReadPart(r)>>_vars

\* A session that waits for a Reader gets one, unless the server stops or every single
\* Reader is held by a client that feeds it a piece at a time for ever.  Clients that
\* fall silent, leave, fail or send requests nobody answers do not hold it up.
SessionsAreRead ==
  \A c \in Conns :
    \/ InQueue(c, sessions) ~> ~InQueue(c, sessions) \/ stop
    \/ \A r \in Readers : HeldForEver(r)

\* After an interrupt all threads end and main can join them, but for a Reader that
\* such a client holds: getMessage does not ask whether it is to stop.
AllThreadsEnd ==
  /\ stop ~> /\ ~listening
             /\ \A e \in Execs : exec[e].at = "ended"
             /\ \A w \in Writers : writer[w].at = "ended"
  /\ \A r \in Readers : (stop ~> reader[r].at = "ended") \/ HeldForEver(r)

\* A client that has had its last answer and waits for the server to read on,
\* from a connection that is alive and that no thread or queue is going to work
\* on: a Writer could not push it back.
Refused(c) ==
  /\ client[c] = "open" /\ alive[c]
  /\ sent[c] = replies[c]
  /\ Places(c) = {}

\* server.cpp says of a connection that cannot be pushed back to the sessions:
\* "it will be closed and deleted in case of falilure"; here while it runs.
RefusedAreClosed == \A c \in Conns : Refused(c) ~> fd[c] = 0 \/ stop
=============================================================================
