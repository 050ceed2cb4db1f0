---------------------------- MODULE HttpExchange ----------------------------
(***************************************************************************)
(* One connection: HttpProtocol, HttpEncoder, TcpConnection and the routing *)
(* of ServicesFactory.  Bytes are abstracted to tokens, which arrive in     *)
(* pieces of any number of them: a request is                               *)
(*   its first line     [what |-> "line", url]                              *)
(*   other lines        [what |-> "field"]                                  *)
(*   its length, if any [what |-> "length", n], where n is the number that  *)
(*                      getMessage takes it for                             *)
(*   a blank line, as two tokens [what |-> "cr"] and [what |-> "lf"]        *)
(*   its content        [what |-> "content", of, at], any number of them.   *)
(* An answer is the sequence of the numbers of its bytes.                   *)
(***************************************************************************)
EXTENDS Integers, Sequences, SequencesExt, FiniteSets

CONSTANTS
  Scripts,            \* what clients do: [requests, pipelined], where a request is
                      \* [url, content, header, fields], with the length of its content
  Enabled,            \* the urls and kinds of files of the services enabled
  MaxContentLength, ReadSize, ReadLimit,   \* 32000, 64000 and 640000
  SendErrors,         \* 20 failures of send are borne
  AnswerLengths       \* bound: how many bytes an answer may have

\* How a request announces the length of its content: not at all; as getMessage
\* expects it, "Content-Length: 12"; without the space, "Content-Length:12"; or in
\* other capitals, "content-length: 12".  To HTTP the last three are the same.
Headers == {"none", "exact", "tight", "other"}

ASSUME HttpAssumption ==
  /\ \A s \in Scripts :
       /\ s.pipelined \in BOOLEAN /\ Len(s.requests) \in Nat
       /\ \A n \in 1 .. Len(s.requests) :
            LET r == s.requests[n]
            IN r.header \in Headers /\ r.content \in Nat /\ r.fields \in Nat
  /\ ReadLimit \in Nat /\ AnswerLengths \subseteq Nat

VARIABLES script,     \* what the client does
          sent,       \* requests it has sent
          inbox,      \* bytes that have arrived and were not read
          message,    \* the string of getMessage
          at,         \* where the connection is
          answer,     \* the bytes to be written
          written,    \* iWritten of TcpConnection::write
          errors,     \* errorcount of TcpConnection::write
          wire        \* what has been sent of the answer

httpVars == <<script, sent, inbox, message, at, answer, written, errors, wire>>

Blank == << [what |-> "cr"], [what |-> "lf"] >>

\* What is left of a number behind its first digit.
BehindFirstDigit(n) ==
  IF n = 0 THEN 0 ELSE n % Max({p \in {10 ^ e : e \in 0 .. 9} : p <= n})

\* The line with the length.  The number is looked for 16 bytes behind the start of
\* "Content-Length:", which has 15: without a space its first digit is lost, and it is
\* 0 if it has only one (BOUND: no content starts with a number, which atoi would then
\* take, over the end of the line).  In other capitals the line is not found.
LengthLine(r) ==
  CASE r.header = "none" -> << >>
    [] r.header = "exact" -> << [what |-> "length", n |-> r.content] >>
    [] r.header = "tight" -> << [what |-> "length", n |-> BehindFirstDigit(r.content)] >>
    [] r.header = "other" -> << [what |-> "field"] >>

\* The bytes of the n-th request of a script.
RequestBytes(n) ==
  LET r == script.requests[n]
  IN << [what |-> "line", url |-> r.url] >> \o LengthLine(r)
       \o [i \in 1 .. r.fields |-> [what |-> "field"]] \o Blank
       \o [i \in 1 .. r.content |-> [what |-> "content", of |-> n, at |-> i]]

\* Where the blank line starts, counted from 0, if there is one.
HeaderEnd(m) ==
  {i \in 0 .. Len(m) - 2 : SubSeq(m, i + 1, i + 2) = Blank
     /\ \A j \in 0 .. i - 1 : SubSeq(m, j + 1, j + 2) # Blank}

\* The place of the first length in what has been read, wherever that is, if any.
LengthAt(m) ==
  {i \in 1 .. Len(m) : m[i].what = "length" /\ \A j \in 1 .. i - 1 : m[j].what # "length"}

\* (Variant of Complete that does not wait for the content.)
CompleteAtHeader(m) == HeaderEnd(m) # {}

\* getMessage has read enough: the content that is announced, or with none
\* announced the header.
Complete(m) ==
  \E i \in HeaderEnd(m) :
    \/ LengthAt(m) = {}
    \/ \E l \in LengthAt(m) : Len(m) >= i + 2 + m[l].n
    \/ Len(m) > ReadLimit

TooLong(m) == HeaderEnd(m) # {} /\ \E l \in LengthAt(m) : m[l].n > MaxContentLength
-----------------------------------------------------------------------------
HttpInit ==
  /\ script \in Scripts /\ sent = 0 /\ inbox = << >> /\ message = << >>
  /\ at = "closed" /\ answer = << >> /\ written = 0 /\ errors = 0 /\ wire = << >>

\* A connection that has ended: what is left of it is gone.
Close ==
  /\ at' = "closed" /\ sent' = 0 /\ inbox' = << >> /\ message' = << >>
  /\ answer' = << >> /\ written' = 0 /\ errors' = 0 /\ wire' = << >>
  /\ UNCHANGED script

\* The next client is accepted.
AcceptClient ==
  /\ at = "closed" /\ script' \in Scripts /\ sent' = 0 /\ inbox' = << >> /\ message' = << >>
  /\ at' = "reading" /\ answer' = << >> /\ written' = 0 /\ errors' = 0 /\ wire' = << >>

\* The client sends a request; one that does not pipeline waits for its answer.
SendRequest ==
  /\ at # "closed" /\ sent < Len(script.requests)
  /\ script.pipelined \/ (at = "reading" /\ inbox = << >> /\ message = << >>)
  /\ sent' = sent + 1 /\ inbox' = inbox \o RequestBytes(sent + 1)
  /\ UNCHANGED <<script, message, at, answer, written, errors, wire>>

\* recv gets some of the bytes.  A content that is too long is not read: the
\* request is dropped, and with it the connection, which nobody refers to.
Receive(n) ==
  LET m == message \o SubSeq(inbox, 1, n)
  IN /\ at = "reading" /\ n <= ReadSize /\ n <= Len(inbox)
     /\ IF TooLong(m) THEN Close
        ELSE /\ message' = m /\ inbox' = SubSeq(inbox, n + 1, Len(inbox))
             /\ at' = IF Complete(m) THEN "framed" ELSE "reading"
             /\ UNCHANGED <<script, sent, answer, written, errors, wire>>

\* Nothing comes for too long, or the client has closed: the connection ends.
ReceiveNothing ==
  /\ at = "reading" /\ inbox = << >> /\ Close
-----------------------------------------------------------------------------
\* HttpEncoder::encode: the url is in the first line, the content is all that
\* comes after the blank line.
Url(m) == IF Head(m).what = "line" THEN Head(m).url ELSE [path |-> "none"]
Body(m) ==
  IF HeaderEnd(m) = {} THEN << >>
  ELSE SubSeq(m, (CHOOSE i \in HeaderEnd(m) : TRUE) + 3, Len(m))

\* ServicesFactory::getService: the name of the service for a url, or "none".  The
\* numbers of a tile must be those of a tile; those of an image are not looked at.
GetService(url) ==
  CASE url.path \in {"/ping", "/geoloc", "/relation/list", "/index/list", "/index/get",
                     "/relation/get", "/way/get", "/svgMap.svg", "/MapDisplay"}
         /\ url.path \in Enabled -> url.path
    [] url.path = ".svg" /\ ".svg" \in Enabled /\ url.z \in 0 .. 25
         /\ url.x \in 0 .. 2 ^ url.z - 1 /\ url.y \in 0 .. 2 ^ url.z - 1 -> "Tile"
    [] url.path = ".png" /\ ".png" \in Enabled -> "RasterImage"
    [] OTHER -> "none"

\* Exec has an answer of some length, and the writer starts to send it.
StartAnswer(length) ==
  /\ at' = "writing" /\ answer' = [i \in 1 .. length |-> i]
  /\ written' = 0 /\ errors' = 0 /\ wire' = << >> /\ message' = << >>
  /\ UNCHANGED <<script, sent, inbox>>

\* A page that no service makes, or a service that is not modelled in detail.
AnswerAtOnce(length) ==
  /\ at = "framed"
  /\ GetService(Url(message)) \notin {"Tile", "/geoloc", "/relation/get"}
  /\ StartAnswer(length)
-----------------------------------------------------------------------------
\* The byte at an offset of the string; there is something before it in memory.
ByteAt(i) == IF i \in 0 .. Len(answer) - 1 THEN answer[i + 1] ELSE 0

\* (Variant of Send that takes what it asked to send for what was sent.)
SendAll(n) ==
  /\ at = "writing" /\ written < Len(answer) /\ n <= Len(answer) - written
  /\ wire' = wire \o [i \in 1 .. n |-> ByteAt(written + i - 1)]
  /\ written' = Len(answer)
  /\ UNCHANGED <<script, sent, inbox, message, at, answer, errors>>

\* send takes n of the bytes that are left.
Send(n) ==
  /\ at = "writing" /\ written < Len(answer) /\ n <= Len(answer) - written
  /\ wire' = wire \o [i \in 1 .. n |-> ByteAt(written + i - 1)]
  /\ written' = written + n
  /\ UNCHANGED <<script, sent, inbox, message, at, answer, errors>>

\* send fails, by a timeout or for good: the -1 it returns is added to iWritten.
SendFails ==
  /\ at = "writing" /\ written < Len(answer)
  /\ IF errors = SendErrors THEN Close
     ELSE /\ written' = written - 1 /\ errors' = errors + 1
          /\ UNCHANGED <<script, sent, inbox, message, at, answer, wire>>

\* All is written: the connection goes back to be read from.
ReuseConnection ==
  /\ at = "writing" /\ written >= Len(answer)
  /\ at' = "reading"
  /\ answer' = << >> /\ written' = 0 /\ errors' = 0 /\ wire' = << >>
  /\ UNCHANGED <<script, sent, inbox, message>>

\* The connection by itself: any service may answer what has been read.
HttpNext ==
  \/ AcceptClient \/ SendRequest \/ ReceiveNothing \/ SendFails \/ ReuseConnection
  \/ \E n \in 1 .. Len(inbox) : Receive(n)
  \/ at = "framed" /\ \E length \in AnswerLengths : StartAnswer(length)
  \/ \E n \in 1 .. Len(answer) - written : Send(n)

HttpSpec == HttpInit /\ [][HttpNext]_httpVars
-----------------------------------------------------------------------------
(* Properties. *)

\* However the bytes of a request are cut into pieces, what is served is exactly
\* that request, if the client waits for its answers, announces the content it
\* sends by "Content-Length: " and no other spelling of it, and the request is not
\* longer than is ever read.
FramesAreRequests ==
  LET r == script.requests[sent]
  IN (at = "framed" /\ ~script.pipelined /\ (r.header = "exact" \/ r.content = 0)
        /\ Len(RequestBytes(sent)) <= ReadLimit)
       => message = RequestBytes(sent) /\ inbox = << >>

\* When an answer has been written, every byte of it has been sent, none before the
\* one in front of it; and there is one byte too many for every send that failed,
\* so that the client has the answer as it is exactly if none did.
AnswersAreWhole ==
  (at = "writing" /\ written >= Len(answer)) =>
    /\ ToSet(answer) \subseteq ToSet(wire)
    /\ \A i \in 1 .. Len(wire) - 1 : wire[i + 1] <= wire[i] + 1
    /\ Len(wire) = Len(answer) + errors
    /\ errors = 0 => wire = answer
=============================================================================
