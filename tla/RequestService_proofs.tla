----------------------- MODULE RequestService_proofs -----------------------
(***************************************************************************)
(* Theorems about one connection, for every script of a client, every limit *)
(* and every length of an answer: requests are read whole and answers are   *)
(* written whole; about the cache of points, for every number of threads,   *)
(* points and places in the cache; and about a connection whose requests    *)
(* are served: with all that the services do it is still a connection of    *)
(* HttpExchange and the cache is still a PointCache, so what is proved of   *)
(* them by themselves holds here.                                           *)
(*                                                                          *)
(* Then about the shape of a relation, for all members that there may be,   *)
(* and any number of them: OpenEndsOdd and SegmentsStay.  Assembled says    *)
(* how the open lines of a shape lie apart and are in the map of open ends, *)
(* and RelationInv relates them to the ways.  While ShapeMerged joins, the  *)
(* lines that it has taken from the map are set aside in Assembled.         *)
(*                                                                          *)
(* And about the page that is printed, for all pieces that there is an      *)
(* operator<< for and every size of the buffer: TextWhole.                  *)
(***************************************************************************)
EXTENDS RequestService, FiniteSetTheorems, SequenceTheorems, WellFoundedInduction, TLAPS

(* One connection by itself. *)

Urls == UNION {{s.requests[n].url : n \in 1 .. Len(s.requests)} : s \in Scripts}
Tokens ==
  [what : {"line"}, url : Urls] \cup [what : {"field", "cr", "lf"}]
    \cup [what : {"length"}, n : Nat] \cup [what : {"content"}, of : Nat, at : Nat]

\* The tokens in front of the blank line.
HeaderLength(r) == 1 + (IF r.header = "none" THEN 0 ELSE 1) + r.fields

\* The content of a request, if it has any, is announced as getMessage expects it.
Announces(r) == r.header = "exact" \/ r.content = 0

\* The request sent last is one that FramesAreRequests speaks of.
Regular ==
  /\ Announces(script.requests[sent])
  /\ Len(RequestBytes(sent)) <= ReadLimit

\* The inductive invariant of reading, for a client that waits for its answers: what
\* has been read and what has arrived are its last request, and while an answer is on
\* its way there is nothing of either.
FrameInv ==
  /\ script \in Scripts
  /\ sent \in 0 .. Len(script.requests)
  /\ ~script.pipelined /\ sent = 0 => at # "framed" /\ message = << >> /\ inbox = << >>
  /\ ~script.pipelined /\ sent > 0 /\ Regular =>
       \/ at = "framed" /\ message = RequestBytes(sent) /\ inbox = << >>
       \/ /\ at = "reading" /\ message \in Seq(Tokens) /\ inbox \in Seq(Tokens)
          /\ message \o inbox = RequestBytes(sent)
       \/ at # "framed" /\ message = << >> /\ inbox = << >>

\* The inductive invariant of writing: what has been sent are bytes one after the other,
\* but for the steps back that failures make; nothing before written is left out, and
\* the next byte to be sent follows the last one, or is that one again or one before.
WireInv ==
  at = "writing" =>
    /\ Len(answer) \in Nat /\ answer = [i \in 1 .. Len(answer) |-> i]
    /\ errors \in Nat /\ written \in Int
    /\ written <= Len(answer)
    /\ wire \in Seq(Nat) /\ Len(wire) = written + errors
    /\ \A i \in 1 .. Len(wire) - 1 : wire[i + 1] <= wire[i] + 1
    /\ \A k \in 1 .. written : \E i \in 1 .. Len(wire) : wire[i] = k
    /\ Len(wire) > 0 => written <= wire[Len(wire)]
    /\ errors = 0 => \A i \in 1 .. Len(wire) : wire[i] = i
-----------------------------------------------------------------------------
(* Writing. *)

\* One call of send.
LEMMA SendWire ==
  ASSUME WireInv, NEW n \in 1 .. Len(answer) - written, Send(n)
  PROVE  WireInv'
<1>0. PICK part : part = [i \in 1 .. n |-> ByteAt(written + i - 1)]
  OBVIOUS
<1>1. /\ Len(answer) \in Nat /\ answer = [i \in 1 .. Len(answer) |-> i]
      /\ errors \in Nat /\ written \in Int /\ written <= Len(answer)
      /\ wire \in Seq(Nat) /\ Len(wire) = written + errors
      /\ Len(wire) \in Nat /\ n \in Nat /\ n > 0 /\ n <= Len(answer) - written
  BY LenProperties DEF WireInv, Send
<1>n. n \in Nat /\ n > 0 /\ written \in Int /\ Len(wire) \in Nat
  BY <1>1
<1>2. /\ part \in Seq(Nat) /\ Len(part) = n
      /\ \A i \in 1 .. n : /\ part[i] \in Nat
                           /\ written + i >= 1 => part[i] = written + i
                           /\ written + i < 1 => part[i] = 0
  <2>1. ASSUME NEW i \in 1 .. n
        PROVE  /\ ByteAt(written + i - 1) \in Nat
               /\ written + i >= 1 => ByteAt(written + i - 1) = written + i
               /\ written + i < 1 => ByteAt(written + i - 1) = 0
    <3>1. written + i - 1 \in 0 .. Len(answer) - 1 <=> written + i >= 1
      BY <1>1
    <3>2. written + i >= 1 => answer[written + i] = written + i
      BY <1>1
    <3>3. (written + i - 1) + 1 = written + i
      BY <1>1
    <3>4. ByteAt(written + i - 1) = IF written + i >= 1 THEN answer[written + i] ELSE 0
      BY <3>1, <3>3 DEF ByteAt
    <3> QED BY <1>1, <3>2, <3>4
  <2>2. \A i \in 1 .. n : part[i] = ByteAt(written + i - 1)
    BY <1>0
  <2>3. part \in [1 .. n -> Nat]
    BY <1>0, <2>1
  <2>4. part \in Seq(Nat) /\ Len(part) = n
    BY <1>1, <2>3
  <2>5. ASSUME NEW i \in 1 .. n
        PROVE  /\ part[i] \in Nat
               /\ written + i >= 1 => part[i] = written + i
               /\ written + i < 1 => part[i] = 0
    BY <2>1, <2>2
  <2> QED BY <2>4, <2>5
<1>3. /\ wire' \in Seq(Nat) /\ Len(wire') = Len(wire) + n
      /\ \A i \in 1 .. Len(wire) + n :
           wire'[i] = IF i <= Len(wire) THEN wire[i] ELSE part[i - Len(wire)]
  <2>1. wire' = wire \o part
    BY <1>0 DEF Send
  <2>2. /\ wire \o part \in Seq(Nat) /\ Len(wire \o part) = Len(wire) + Len(part)
        /\ \A i \in 1 .. Len(wire) + Len(part) :
             (wire \o part)[i] = IF i <= Len(wire) THEN wire[i] ELSE part[i - Len(wire)]
    <3>1. wire \in Seq(Nat) /\ part \in Seq(Nat)
      BY <1>1, <1>2
    <3> QED BY <3>1, ConcatProperties
  <2> QED BY <1>2, <2>1, <2>2
<1>4. written' = written + n /\ UNCHANGED <<at, answer, errors>>
  BY DEF Send
<1>5. \A i \in 1 .. Len(wire') - 1 : wire'[i + 1] <= wire'[i] + 1
  <2> SUFFICES ASSUME NEW i \in 1 .. Len(wire) + n - 1 PROVE wire'[i + 1] <= wire'[i] + 1
    BY <1>1, <1>3
  <2>1. CASE i < Len(wire)
    <3>0. /\ i \in 1 .. Len(wire) + n /\ i + 1 \in 1 .. Len(wire) + n
          /\ i <= Len(wire) /\ i + 1 <= Len(wire)
      BY <1>n, <2>1
    <3>1. wire'[i] = wire[i] /\ wire'[i + 1] = wire[i + 1]
      BY <1>3, <3>0
    <3>2. i \in 1 .. Len(wire) - 1 /\ at = "writing"
      BY <1>1, <2>1 DEF Send
    <3>3. wire[i + 1] <= wire[i] + 1
      BY <3>2 DEF WireInv
    <3> QED BY <3>1, <3>3
  <2>2. CASE i = Len(wire)
    <3>1. wire'[i] = wire[Len(wire)] /\ wire'[i + 1] = part[1]
      <4>1. ~(i + 1 <= Len(wire)) /\ (i + 1) - Len(wire) = 1
        BY <1>1, <2>2
      <4> QED BY <1>1, <1>3, <2>2, <4>1
    <3>2. written <= wire[Len(wire)] /\ wire[Len(wire)] \in Nat
      BY <1>1, <2>2, LenProperties DEF WireInv, Send
    <3>3. part[1] \in Nat /\ (part[1] = written + 1 \/ part[1] = 0)
      <4>1. 1 \in 1 .. n /\ (written + 1 >= 1 \/ written + 1 < 1)
        BY <1>n
      <4> QED BY <1>2, <4>1
    <3> QED BY <1>1, <3>1, <3>2, <3>3
  <2>3. CASE i > Len(wire)
    <3>1. PICK j \in 1 .. n - 1 : j = i - Len(wire) /\ j + 1 = i + 1 - Len(wire)
      BY <1>1, <2>3
    <3>2. wire'[i] = part[j] /\ wire'[i + 1] = part[j + 1]
      <4>1. i \in 1 .. Len(wire) + n /\ i + 1 \in 1 .. Len(wire) + n
            /\ ~(i <= Len(wire)) /\ ~(i + 1 <= Len(wire))
        BY <1>n, <2>3
      <4>2. wire'[i] = part[i - Len(wire)]
        BY <1>3, <4>1
      <4>3. wire'[i + 1] = part[i + 1 - Len(wire)]
        BY <1>3, <4>1
      <4> QED BY <3>1, <4>2, <4>3
    <3>3. j \in 1 .. n /\ j + 1 \in 1 .. n
      BY <1>1, <3>1
    <3>4. /\ part[j] = written + j \/ (part[j] = 0 /\ written + j < 1)
          /\ part[j + 1] = written + (j + 1) \/ part[j + 1] = 0
      <4>1. /\ written + j >= 1 \/ written + j < 1
            /\ written + (j + 1) >= 1 \/ written + (j + 1) < 1
        BY <1>n, <3>3
      <4> QED BY <1>2, <3>3, <4>1
    <3>5. part[j] \in Nat /\ part[j + 1] \in Nat /\ written \in Int /\ j \in Int
      BY <1>1, <1>2, <3>3
    <3>6. part[j + 1] <= part[j] + 1
      BY <3>4, <3>5
    <3> QED BY <3>2, <3>6
  <2> QED BY <1>1, <2>1, <2>2, <2>3
<1>6. \A k \in 1 .. written' : \E i \in 1 .. Len(wire') : wire'[i] = k
  <2> SUFFICES ASSUME NEW k \in 1 .. written + n
               PROVE  \E i \in 1 .. Len(wire) + n : wire'[i] = k
    BY <1>3, <1>4
  <2>1. CASE k <= written
    <3>1. PICK i \in 1 .. Len(wire) : wire[i] = k
      BY <1>1, <2>1 DEF WireInv, Send
    <3> QED BY <1>1, <1>3, <3>1
  <2>2. CASE k > written
    <3>1. k - written \in 1 .. n
      BY <1>1, <2>2
    <3>2. part[k - written] = k
      <4>1. written + (k - written) = k /\ k >= 1
        BY <1>n
      <4> QED BY <1>2, <3>1, <4>1
    <3>3. wire'[Len(wire) + (k - written)] = part[k - written]
      BY <1>1, <1>3, <3>1
    <3> QED BY <1>1, <3>1, <3>2, <3>3
  <2> QED BY <1>1, <2>1, <2>2
<1>7. written' <= wire'[Len(wire')]
  <2>1. wire'[Len(wire')] = part[n]
    BY <1>1, <1>3
  <2>2. n \in 1 .. n /\ (written + n >= 1 \/ written + n < 1)
    BY <1>n
  <2>3. part[n] \in Nat /\ (part[n] = written + n \/ (part[n] = 0 /\ written + n < 1))
    BY <1>2, <2>2
  <2> QED BY <1>4, <1>n, <2>1, <2>3
<1>8. ASSUME errors = 0, NEW i \in 1 .. Len(wire') PROVE wire'[i] = i
  <2>1. CASE i <= Len(wire)
    BY <1>1, <1>3, <1>8, <2>1 DEF WireInv, Send
  <2>2. CASE i > Len(wire)
    <3>1. i - Len(wire) \in 1 .. n /\ wire'[i] = part[i - Len(wire)]
      BY <1>1, <1>3, <2>2
    <3>2. written + (i - Len(wire)) = i /\ i >= 1
      BY <1>1, <1>3, <1>8
    <3> QED BY <1>2, <3>1, <3>2
  <2> QED BY <1>1, <1>3, <2>1, <2>2
<1> QED
  BY <1>1, <1>3, <1>4, <1>5, <1>6, <1>7, <1>8 DEF WireInv

LEMMA WireStep == WireInv /\ [HttpNext]_httpVars => WireInv'
<1> SUFFICES ASSUME WireInv, [HttpNext]_httpVars PROVE WireInv'
  OBVIOUS
<1>1. CASE at'# "writing"
  BY <1>1 DEF WireInv
<1>2. ASSUME NEW length \in AnswerLengths, StartAnswer(length) PROVE WireInv'
  <2>1. /\ answer' = [i \in 1 .. length |-> i] /\ length \in Nat
        /\ written' = 0 /\ errors' = 0 /\ wire' = << >>
    BY <1>2, HttpAssumption DEF StartAnswer
  <2>2. Len(answer') = length
    BY <2>1
  <2> QED BY <2>1, <2>2 DEF WireInv
<1>3. CASE SendFails /\ at' = "writing"
  <2>1. /\ written' = written - 1 /\ errors' = errors + 1 /\ UNCHANGED <<at, answer, wire>>
        /\ at = "writing"
    BY <1>3 DEF SendFails, Close
  <2>2. /\ errors' \in Nat /\ written' \in Int /\ written' <= Len(answer')
        /\ Len(wire') = written' + errors' /\ errors' # 0
        /\ \A k \in 1 .. written' : k \in 1 .. written
        /\ Len(wire) > 0 => wire[Len(wire)] \in Nat
    BY <2>1, LenProperties DEF WireInv
  <2>3. ASSUME Len(wire) > 0 PROVE written' <= wire[Len(wire)]
    <3>1. PICK last : last = wire[Len(wire)]
      OBVIOUS
    <3>2. last \in Nat
      BY <2>2, <2>3, <3>1
    <3>3. written \in Int /\ written <= last
      BY <2>1, <2>3, <3>1 DEF WireInv
    <3> QED BY <2>1, <3>1, <3>2, <3>3
  <2> QED BY <2>1, <2>2, <2>3 DEF WireInv
<1>4. CASE UNCHANGED <<at, answer, written, errors, wire>>
  BY <1>4 DEF WireInv
<1> QED
  BY <1>1, <1>2, <1>3, <1>4, SendWire
     DEF HttpNext, AcceptClient, SendRequest, ReceiveNothing, ReuseConnection, Receive, Close,
         httpVars

\* However send takes an answer in parts and however often it fails, an answer that is
\* written was sent whole and in order, with one byte again for each failure.
THEOREM AnswersWhole == HttpSpec => []AnswersAreWhole
<1>1. HttpInit => WireInv
  BY DEF HttpInit, WireInv
<1>2. WireInv => AnswersAreWhole
  <2> SUFFICES ASSUME WireInv, at = "writing", written >= Len(answer)
               PROVE  /\ ToSet(answer) \subseteq ToSet(wire)
                      /\ \A i \in 1 .. Len(wire) - 1 : wire[i + 1] <= wire[i] + 1
                      /\ Len(wire) = Len(answer) + errors
                      /\ errors = 0 => wire = answer
    BY DEF AnswersAreWhole
  <2>1. written = Len(answer) /\ DOMAIN wire = 1 .. Len(wire)
        /\ DOMAIN answer = 1 .. Len(answer)
    BY LenProperties DEF WireInv
  <2>2. ToSet(answer) \subseteq ToSet(wire)
    <3> SUFFICES ASSUME NEW k \in 1 .. Len(answer) PROVE answer[k] \in ToSet(wire)
      BY <2>1 DEF ToSet
    <3>1. answer[k] = k
      BY DEF WireInv
    <3>2. PICK i \in 1 .. Len(wire) : wire[i] = k
      BY <2>1 DEF WireInv
    <3> QED BY <2>1, <3>1, <3>2 DEF ToSet
  <2>3. errors = 0 => wire = answer
    BY <2>1 DEF WireInv
  <2> QED BY <2>1, <2>2, <2>3 DEF WireInv
<1> QED
  BY <1>1, <1>2, WireStep, PTL DEF HttpSpec
-----------------------------------------------------------------------------
(* Reading. *)

\* The blank line of a request is where its header ends, and the only one in it; the
\* length, spelt as is expected, is its second token.
Shaped(bytes, r, h) ==
  /\ bytes \in Seq(Tokens) /\ h \in Nat /\ r.content \in Nat
  /\ Len(bytes) = h + 2 + r.content
  /\ \A i \in 1 .. Len(bytes) : bytes[i].what = "cr" => i = h + 1
  /\ r.header = "exact" => /\ Len(bytes) >= 2 /\ bytes[1].what # "length"
                           /\ bytes[2].what = "length" /\ bytes[2].n = r.content

LEMMA BytesShape ==
  ASSUME script \in Scripts, NEW n \in 1 .. Len(script.requests), Announces(script.requests[n])
  PROVE  Shaped(RequestBytes(n), script.requests[n], HeaderLength(script.requests[n]))
<1> SUFFICES ASSUME NEW r, r = script.requests[n], NEW bytes, bytes = RequestBytes(n),
                    NEW h, h = HeaderLength(r)
             PROVE  Shaped(bytes, r, h)
  OBVIOUS
<1>1. r.header \in Headers /\ r.content \in Nat /\ r.fields \in Nat /\ r.url \in Urls
      /\ n \in Nat /\ Announces(r)
  <2>1. Len(script.requests) \in Nat
        /\ LET q == script.requests[n]
           IN q.header \in Headers /\ q.content \in Nat /\ q.fields \in Nat
    BY HttpAssumption
  <2> QED BY <2>1 DEF Urls
<1>2. PICK s1 : s1 = << [what |-> "line", url |-> r.url] >>
  OBVIOUS
<1>3. PICK s2 : s2 = LengthLine(r)
  OBVIOUS
<1>4. PICK s3 : s3 = [i \in 1 .. r.fields |-> [what |-> "field"]]
  OBVIOUS
<1>5. PICK s5 : s5 = [i \in 1 .. r.content |-> [what |-> "content", of |-> n, at |-> i]]
  OBVIOUS
<1>6. s1 \in Seq(Tokens) /\ Len(s1) = 1 /\ s1[1].what = "line"
  BY <1>1, <1>2 DEF Tokens
<1>7. PICK a \in 0 .. 1 :
        /\ a = IF r.header = "none" THEN 0 ELSE 1
        /\ s2 \in Seq(Tokens) /\ Len(s2) = a
        /\ \A i \in 1 .. a :
             /\ s2[i].what # "cr"
             /\ r.header = "exact" => s2[i].what = "length" /\ s2[i].n = r.content
  <2>1. CASE r.header = "exact"
    <3>1. s2 = << [what |-> "length", n |-> r.content] >>
      BY <1>3, <2>1 DEF LengthLine
    <3> QED BY <1>1, <2>1, <3>1 DEF Tokens
  <2>2. CASE r.header = "none"
    <3>1. s2 = << >>
      BY <1>3, <2>2 DEF LengthLine
    <3>2. \A i : i \notin 1 .. 0
      OBVIOUS
    <3> QED BY <2>2, <3>1, <3>2, EmptySeq
  <2>3. CASE r.header = "tight"
    <3>1. s2 = << [what |-> "length", n |-> 0] >>
      BY <1>1, <1>3, <2>3 DEF LengthLine, Announces, BehindFirstDigit
    <3> QED BY <2>3, <3>1 DEF Tokens
  <2>4. CASE r.header = "other"
    <3>1. s2 = << [what |-> "field"] >>
      BY <1>3, <2>4 DEF LengthLine
    <3> QED BY <2>4, <3>1 DEF Tokens
  <2> QED BY <1>1, <2>1, <2>2, <2>3, <2>4 DEF Headers
<1>8. /\ s3 \in Seq(Tokens) /\ Len(s3) = r.fields
      /\ \A i \in 1 .. r.fields : s3[i].what = "field"
  <2>1. s3 \in [1 .. r.fields -> Tokens]
    BY <1>4 DEF Tokens
  <2> QED BY <1>1, <1>4, <2>1
<1>9. Blank \in Seq(Tokens) /\ Len(Blank) = 2 /\ Blank[1].what = "cr" /\ Blank[2].what = "lf"
  BY DEF Blank, Tokens
<1>10. /\ s5 \in Seq(Tokens) /\ Len(s5) = r.content
       /\ \A i \in 1 .. r.content : s5[i].what = "content"
  <2>1. s5 \in [1 .. r.content -> Tokens]
    BY <1>1, <1>5 DEF Tokens
  <2> QED BY <1>1, <1>5, <2>1
<1>11. PICK t2 : t2 = s1 \o s2
  OBVIOUS
<1>12. PICK t3 : t3 = t2 \o s3
  OBVIOUS
<1>13. PICK t4 : t4 = t3 \o Blank
  OBVIOUS
<1>14. bytes = t4 \o s5
  BY <1>2, <1>3, <1>4, <1>5, <1>11, <1>12, <1>13 DEF RequestBytes
<1>15. /\ t2 \in Seq(Tokens) /\ Len(t2) = 1 + a
       /\ t2[1].what = "line"
       /\ a = 1 => /\ t2[2].what # "cr"
                   /\ r.header = "exact" => t2[2].what = "length" /\ t2[2].n = r.content
  <2>1. /\ t2 \in Seq(Tokens) /\ Len(t2) = Len(s1) + Len(s2)
        /\ \A i \in 1 .. Len(s1) + Len(s2) : t2[i] = IF i <= Len(s1) THEN s1[i] ELSE s2[i - Len(s1)]
    BY <1>6, <1>7, <1>11, ConcatProperties
  <2> QED BY <1>6, <1>7, <2>1
<1>16. /\ t3 \in Seq(Tokens) /\ Len(t3) = h
       /\ \A i \in 1 .. h : t3[i].what # "cr" /\ (i <= 1 + a => t3[i] = t2[i])
  <2>1. /\ t3 \in Seq(Tokens) /\ Len(t3) = Len(t2) + Len(s3)
        /\ \A i \in 1 .. Len(t2) + Len(s3) : t3[i] = IF i <= Len(t2) THEN t2[i] ELSE s3[i - Len(t2)]
    BY <1>8, <1>12, <1>15, ConcatProperties
  <2>2. h = 1 + a + r.fields /\ Len(t2) = 1 + a /\ Len(s3) = r.fields
    BY <1>7, <1>8, <1>15 DEF HeaderLength
  <2>3. \A i \in 1 .. 1 + a : t2[i].what # "cr"
    <3>1. \A i \in 1 .. 1 + a : i = 1 \/ (i = 2 /\ a = 1)
      BY <1>7
    <3> QED BY <1>15, <3>1
  <2>4. ASSUME NEW i \in 1 .. h PROVE t3[i].what # "cr" /\ (i <= 1 + a => t3[i] = t2[i])
    <3>1. CASE i <= 1 + a
      BY <1>1, <1>7, <2>1, <2>2, <2>3, <3>1
    <3>2. CASE i > 1 + a
      <4>1. i - (1 + a) \in 1 .. r.fields /\ t3[i] = s3[i - (1 + a)]
        BY <1>1, <1>7, <2>1, <2>2, <3>2
      <4> QED BY <1>8, <3>2, <4>1
    <3> QED BY <1>1, <1>7, <2>2, <3>1, <3>2
  <2> QED BY <2>1, <2>2, <2>4
<1>17. h \in Nat /\ 1 + a <= h
  BY <1>1, <1>7 DEF HeaderLength
<1>18. /\ t4 \in Seq(Tokens) /\ Len(t4) = h + 2
       /\ \A i \in 1 .. h + 2 : /\ t4[i].what = "cr" => i = h + 1
                                /\ i <= h => t4[i] = t3[i]
  <2>1. /\ t4 \in Seq(Tokens) /\ Len(t4) = h + 2
        /\ \A i \in 1 .. h + 2 : t4[i] = IF i <= h THEN t3[i] ELSE Blank[i - h]
    <3>1. t3 \in Seq(Tokens) /\ Blank \in Seq(Tokens) /\ Len(t3) = h /\ Len(Blank) = 2
      BY <1>9, <1>16
    <3>2. /\ t4 \in Seq(Tokens) /\ Len(t4) = Len(t3) + Len(Blank)
          /\ \A i \in 1 .. Len(t3) + Len(Blank) :
               t4[i] = IF i <= Len(t3) THEN t3[i] ELSE Blank[i - Len(t3)]
      BY <1>13, <3>1, ConcatProperties
    <3> QED BY <3>1, <3>2
  <2>2. ASSUME NEW i \in 1 .. h + 2 PROVE t4[i].what = "cr" => i = h + 1
    <3>1. CASE i <= h
      BY <1>16, <1>17, <2>1, <3>1
    <3>2. CASE i = h + 2
      <4>1. i - h = 2 /\ ~(i <= h)
        BY <1>17, <3>2
      <4> QED BY <1>9, <2>1, <4>1
    <3> QED BY <1>17, <3>1, <3>2
  <2> QED BY <2>1, <2>2
<1>19. /\ bytes \in Seq(Tokens) /\ Len(bytes) = h + 2 + r.content
       /\ \A i \in 1 .. h + 2 + r.content :
            bytes[i] = IF i <= h + 2 THEN t4[i] ELSE s5[i - (h + 2)]
  <2>1. t4 \in Seq(Tokens) /\ s5 \in Seq(Tokens) /\ Len(t4) = h + 2 /\ Len(s5) = r.content
    BY <1>10, <1>18
  <2>2. /\ bytes \in Seq(Tokens) /\ Len(bytes) = Len(t4) + Len(s5)
        /\ \A i \in 1 .. Len(t4) + Len(s5) :
             bytes[i] = IF i <= Len(t4) THEN t4[i] ELSE s5[i - Len(t4)]
    <3>1. /\ t4 \o s5 \in Seq(Tokens) /\ Len(t4 \o s5) = Len(t4) + Len(s5)
          /\ \A i \in 1 .. Len(t4) + Len(s5) :
               (t4 \o s5)[i] = IF i <= Len(t4) THEN t4[i] ELSE s5[i - Len(t4)]
      BY <2>1, ConcatProperties
    <3> QED BY <1>14, <3>1
  <2> QED BY <2>1, <2>2
<1>20. ASSUME NEW i \in 1 .. Len(bytes) PROVE bytes[i].what = "cr" => i = h + 1
  <2>1. CASE i <= h + 2
    BY <1>17, <1>18, <1>19, <2>1
  <2>2. CASE i > h + 2
    <3>1. i - (h + 2) \in 1 .. r.content /\ bytes[i] = s5[i - (h + 2)]
      BY <1>1, <1>17, <1>19, <2>2
    <3> QED BY <1>10, <3>1
  <2> QED BY <1>1, <1>17, <1>19, <2>1, <2>2
<1>21. ASSUME r.header = "exact"
       PROVE  /\ Len(bytes) >= 2 /\ bytes[1].what # "length"
              /\ bytes[2].what = "length" /\ bytes[2].n = r.content
  <2>1. a = 1 /\ 1 <= h /\ 2 <= h
    BY <1>7, <1>17, <1>21
  <2>2. bytes[1] = t2[1] /\ bytes[2] = t2[2]
    <3>1. 1 \in 1 .. h /\ 2 \in 1 .. h /\ 1 \in 1 .. h + 2 /\ 2 \in 1 .. h + 2
          /\ 1 \in 1 .. h + 2 + r.content /\ 2 \in 1 .. h + 2 + r.content
      BY <1>1, <1>17, <2>1
    <3> QED BY <1>16, <1>17, <1>18, <1>19, <2>1, <3>1
  <2> QED BY <1>1, <1>15, <1>17, <1>19, <1>21, <2>1, <2>2
<1> QED
  BY <1>1, <1>17, <1>19, <1>20, <1>21 DEF Shaped

\* No request is complete before its last token is read.
LEMMA PrefixComplete ==
  ASSUME script \in Scripts, NEW n \in 1 .. Len(script.requests),
         Announces(script.requests[n]),
         Len(RequestBytes(n)) <= ReadLimit,
         NEW m \in Seq(Tokens), Len(m) <= Len(RequestBytes(n)),
         \A i \in 1 .. Len(m) : m[i] = RequestBytes(n)[i], Complete(m)
  PROVE  m = RequestBytes(n)
<1>1. PICK r : r = script.requests[n]
  OBVIOUS
<1>2. PICK bytes : bytes = RequestBytes(n)
  OBVIOUS
<1>3. PICK h : h = HeaderLength(r)
  OBVIOUS
<1>4. /\ bytes \in Seq(Tokens) /\ h \in Nat /\ r.content \in Nat
      /\ Len(bytes) = h + 2 + r.content
      /\ \A i \in 1 .. Len(bytes) : bytes[i].what = "cr" => i = h + 1
      /\ r.header = "exact" => /\ Len(bytes) >= 2 /\ bytes[1].what # "length"
                               /\ bytes[2].what = "length" /\ bytes[2].n = r.content
  <2>1. Shaped(bytes, r, h)
    BY <1>1, <1>2, <1>3, BytesShape
  <2> QED BY <2>1 DEF Shaped
<1>5. PICK k \in Nat : k = Len(m) /\ k <= Len(bytes) /\ \A i \in 1 .. k : m[i] = bytes[i]
  BY <1>2, LenProperties
<1>6. PICK i \in 0 .. k - 2 :
        /\ SubSeq(m, i + 1, i + 2) = Blank
        /\ \/ LengthAt(m) = {}
           \/ \E l \in LengthAt(m) : k >= i + 2 + m[l].n
           \/ k > ReadLimit
  BY <1>5 DEF Complete, HeaderEnd
<1>7. i = h /\ k >= h + 2
  <2>1. \A j \in i + 1 .. i + 2 : m[j] \in Tokens
    <3>1. \A j \in i + 1 .. i + 2 : j \in 1 .. Len(m)
      BY <1>5
    <3> QED BY <3>1, ElementOfSeq
  <2>2. SubSeq(m, i + 1, i + 2)[1] = m[i + 1]
    <3>1. i + 1 \in Int /\ i + 2 \in Int /\ 1 \in 1 .. (i + 2) - (i + 1) + 1
          /\ (i + 1) + 1 - 1 = i + 1
      OBVIOUS
    <3> QED BY <2>1, <3>1, SubSeqProperties
  <2>3. m[i + 1].what = "cr"
    <3>1. Blank[1].what = "cr"
      BY DEF Blank
    <3>2. SubSeq(m, i + 1, i + 2)[1] = Blank[1]
      BY <1>6
    <3> QED BY <2>2, <3>1, <3>2
  <2>4. i + 1 \in 1 .. k /\ i + 1 \in 1 .. Len(bytes) /\ m[i + 1] = bytes[i + 1]
    BY <1>4, <1>5
  <2> QED BY <1>4, <1>5, <2>3, <2>4
<1>8. r.header = "exact" => LengthAt(m) = {2} /\ m[2].n = r.content
  <2> SUFFICES ASSUME r.header = "exact" PROVE LengthAt(m) = {2} /\ m[2].n = r.content
    OBVIOUS
  <2>1. 1 \in 1 .. k /\ 2 \in 1 .. k
    BY <1>4, <1>5, <1>7
  <2>2. m[1].what # "length" /\ m[2].what = "length" /\ m[2].n = r.content
    BY <1>4, <1>5, <2>1
  <2>3. 2 \in LengthAt(m)
    <3>1. \A j \in 1 .. 2 - 1 : j = 1
      OBVIOUS
    <3> QED BY <1>5, <2>1, <2>2, <3>1 DEF LengthAt
  <2>4. ASSUME NEW l \in LengthAt(m) PROVE l = 2
    <3>1. l \in 1 .. k /\ m[l].what = "length" /\ \A j \in 1 .. l - 1 : m[j].what # "length"
      BY <1>5 DEF LengthAt
    <3>2. l # 1
      BY <2>2, <3>1
    <3>3. ~(2 \in 1 .. l - 1)
      BY <2>2, <3>1
    <3> QED BY <3>1, <3>2, <3>3
  <2> QED BY <2>2, <2>3, <2>4
<1>9. k >= h + 2 + r.content
  <2>1. r.header = "exact" \/ r.content = 0
    BY <1>1 DEF Announces
  <2>2. k <= ReadLimit /\ ReadLimit \in Nat
    BY <1>2, <1>4, <1>5, HttpAssumption
  <2>3. CASE r.header # "exact"
    BY <1>4, <1>7, <2>1, <2>3
  <2>4. CASE r.header = "exact"
    <3>1. PICK l \in LengthAt(m) : k >= i + 2 + m[l].n
      BY <1>6, <1>8, <2>2, <2>4
    <3>2. m[l].n = r.content
      BY <1>8, <2>4, <3>1
    <3> QED BY <1>4, <1>7, <3>1, <3>2
  <2> QED BY <2>3, <2>4
<1>10. Len(m) = Len(bytes)
  BY <1>4, <1>5, <1>9
<1> QED
  BY <1>2, <1>4, <1>5, <1>10, SeqEqual

\* The first part of a sequence is what it begins with.
LEMMA Prefix ==
  ASSUME NEW m \in Seq(Tokens), NEW u \in Seq(Tokens)
  PROVE  Len(m) <= Len(m \o u) /\ \A i \in 1 .. Len(m) : m[i] = (m \o u)[i]
<1>1. /\ Len(m \o u) = Len(m) + Len(u)
      /\ \A i \in 1 .. Len(m) + Len(u) :
           (m \o u)[i] = IF i <= Len(m) THEN m[i] ELSE u[i - Len(m)]
  BY ConcatProperties
<1>2. Len(m) \in Nat /\ Len(u) \in Nat
  BY LenProperties
<1>3. \A i \in 1 .. Len(m) : i \in 1 .. Len(m) + Len(u) /\ i <= Len(m)
  BY <1>2
<1> QED
  BY <1>1, <1>2, <1>3

\* What is cut into two and put together again, with something in front.
LEMMA Together ==
  ASSUME NEW s \in Seq(Tokens), NEW p \in Seq(Tokens), NEW u \in Seq(Tokens)
  PROVE  s \o p \in Seq(Tokens) /\ (s \o p) \o u = s \o (p \o u)
<1>1. s \o p \in Seq(Tokens)
  BY ConcatProperties
<1>2. (s \o p) \o u = s \o (p \o u)
  BY ConcatAssociative
<1> QED BY <1>1, <1>2

\* What recv takes from what has arrived: m has been read and u is left.
Parted(all, m, u) ==
  /\ m \in Seq(Tokens) /\ u \in Seq(Tokens) /\ m \o u = all
  /\ Len(m) <= Len(all) /\ \A i \in 1 .. Len(m) : m[i] = all[i]

LEMMA Received ==
  ASSUME NEW s \in Seq(Tokens), NEW t \in Seq(Tokens), NEW n \in 1 .. Len(t)
  PROVE  Parted(s \o t, s \o SubSeq(t, 1, n), SubSeq(t, n + 1, Len(t)))
<1> SUFFICES ASSUME NEW m, m = s \o SubSeq(t, 1, n), NEW u, u = SubSeq(t, n + 1, Len(t))
             PROVE  Parted(s \o t, m, u)
  OBVIOUS
<1>1. Len(t) \in Nat /\ n \in Nat
  BY LenProperties
<1>2. PICK p : p = SubSeq(t, 1, n)
  OBVIOUS
<1>3. p \in Seq(Tokens) /\ u \in Seq(Tokens)
  <2>1. \A i \in 1 .. Len(t) : t[i] \in Tokens
    BY ElementOfSeq
  <2>2. \A i \in 1 .. n : t[i] \in Tokens
    BY <1>1, <2>1
  <2>3. \A i \in n + 1 .. Len(t) : t[i] \in Tokens
    BY <1>1, <2>1
  <2>4. SubSeq(t, 1, n) \in Seq(Tokens)
    <3>1. 1 \in Int /\ n \in Int
      BY <1>1
    <3> QED BY <2>2, <3>1, SubSeqProperties
  <2>5. SubSeq(t, n + 1, Len(t)) \in Seq(Tokens)
    <3>1. n + 1 \in Int /\ Len(t) \in Int
      BY <1>1
    <3> QED BY <2>3, <3>1, SubSeqProperties
  <2> QED BY <1>2, <2>4, <2>5
<1>4. p \o u = t
  <2>1. 1 \in 1 .. Len(t) + 1 /\ n \in 0 .. Len(t) /\ Len(t) \in n .. Len(t)
    BY <1>1
  <2>2. SubSeq(t, 1, n) \o SubSeq(t, n + 1, Len(t)) = SubSeq(t, 1, Len(t))
    BY <2>1, ConcatAdjacentSubSeq
  <2> QED BY <1>2, <2>2, SubSeqFull
<1>5. m = s \o p
  BY <1>2
<1>6. m \in Seq(Tokens) /\ m \o u = s \o t
  <2>1. s \o p \in Seq(Tokens) /\ (s \o p) \o u = s \o (p \o u)
    BY <1>3, Together
  <2> QED BY <1>4, <1>5, <2>1
<1>7. Len(m) <= Len(m \o u) /\ \A i \in 1 .. Len(m) : m[i] = (m \o u)[i]
  BY <1>3, <1>6, Prefix
<1> QED
  BY <1>3, <1>6, <1>7 DEF Parted

\* The request sent last stays what it is while the client and what it has sent do.
LEMMA SameRequest ==
  ASSUME script' = script, sent' = sent
  PROVE  RequestBytes(sent)' = RequestBytes(sent) /\ (Regular' <=> Regular)
<1>1. RequestBytes(sent)' = RequestBytes(sent)
  BY DEF RequestBytes
<1> QED
  BY <1>1 DEF Regular

\* The number of the requests of a client.
LEMMA RequestCount ==
  \A s \in Scripts : Len(s.requests) \in Nat
  BY HttpAssumption

\* A connection that ends holds nothing.
LEMMA CloseFrame ==
  ASSUME FrameInv, Close
  PROVE  FrameInv'
<1>1. script' \in Scripts /\ Len(script'.requests) \in Nat /\ sent' = 0
      /\ at' = "closed" /\ message' = << >> /\ inbox' = << >>
  BY RequestCount DEF Close, FrameInv
<1> QED
  BY <1>1 DEF FrameInv

\* One call of recv: either more of the request has been read, or all of it.
LEMMA ReceiveFrame ==
  ASSUME FrameInv, NEW n \in 1 .. Len(inbox), Receive(n)
  PROVE  FrameInv'
<1>1. PICK m : m = message \o SubSeq(inbox, 1, n)
  OBVIOUS
<1>2. CASE TooLong(m)
  BY <1>1, <1>2, CloseFrame DEF Receive
<1>3. CASE ~TooLong(m)
  <2>1. /\ at = "reading" /\ message' = m /\ inbox' = SubSeq(inbox, n + 1, Len(inbox))
        /\ at' = IF Complete(m) THEN "framed" ELSE "reading"
        /\ script' = script /\ sent' = sent
    BY <1>1, <1>3 DEF Receive
  <2>2. inbox # << >>
    <3>1. 1 .. Len(<< >>) = {}
      OBVIOUS
    <3> QED BY <3>1
  <2>3. /\ script' \in Scripts /\ sent' \in 0 .. Len(script'.requests)
        /\ ~script'.pipelined => sent' # 0
    BY <2>1, <2>2 DEF FrameInv
  <2>4. ASSUME ~script.pipelined, sent > 0, Regular
        PROVE  \/ at' = "framed" /\ message' = RequestBytes(sent) /\ inbox' = << >>
               \/ /\ at' = "reading" /\ message' \in Seq(Tokens) /\ inbox' \in Seq(Tokens)
                  /\ message' \o inbox' = RequestBytes(sent)
    <3>1. message \in Seq(Tokens) /\ inbox \in Seq(Tokens) /\ message \o inbox = RequestBytes(sent)
      BY <2>1, <2>2, <2>4 DEF FrameInv
    <3>2. PICK u : u = SubSeq(inbox, n + 1, Len(inbox))
      OBVIOUS
    <3>3. /\ m \in Seq(Tokens) /\ u \in Seq(Tokens) /\ m \o u = RequestBytes(sent)
          /\ Len(m) <= Len(RequestBytes(sent))
          /\ \A i \in 1 .. Len(m) : m[i] = RequestBytes(sent)[i]
      <4>1. Parted(message \o inbox, message \o SubSeq(inbox, 1, n),
                   SubSeq(inbox, n + 1, Len(inbox)))
        BY <3>1, Received
      <4>2. Parted(RequestBytes(sent), m, u)
        BY <1>1, <3>1, <3>2, <4>1
      <4> QED BY <4>2 DEF Parted
    <3>4. CASE ~Complete(m)
      BY <2>1, <3>2, <3>3, <3>4
    <3>5. CASE Complete(m)
      <4>1. sent \in 1 .. Len(script.requests) /\ script \in Scripts
        BY <2>4 DEF FrameInv
      <4>2. m = RequestBytes(sent)
        BY <2>4, <3>3, <3>5, <4>1, PrefixComplete DEF Regular
      <4>3. u = << >>
        BY <3>3, <4>2, ConcatEqualIffEmpty
      <4> QED BY <2>1, <3>2, <3>5, <4>2, <4>3
    <3> QED BY <3>4, <3>5
  <2> QED BY <2>1, <2>3, <2>4, SameRequest DEF FrameInv
<1> QED
  BY <1>2, <1>3

\* A request is sent: by a client that waits for its answers, when nothing of the
\* request before is left.
LEMMA SendFrame ==
  ASSUME FrameInv, SendRequest
  PROVE  FrameInv'
<1>1. /\ script' = script /\ sent' = sent + 1 /\ message' = message /\ at' = at
      /\ inbox' = inbox \o RequestBytes(sent + 1)
      /\ sent < Len(script.requests) /\ script \in Scripts
      /\ sent \in 0 .. Len(script.requests) /\ Len(script.requests) \in Nat
  BY RequestCount DEF SendRequest, FrameInv
<1>2. /\ script' \in Scripts /\ sent' \in 0 .. Len(script'.requests) /\ sent' # 0
  BY <1>1
<1>3. ASSUME ~script'.pipelined, Regular'
      PROVE  /\ at' = "reading" /\ message' \in Seq(Tokens) /\ inbox' \in Seq(Tokens)
             /\ message' \o inbox' = RequestBytes(sent)'
  <2>1. at = "reading" /\ inbox = << >> /\ message = << >>
    BY <1>1, <1>3 DEF SendRequest
  <2>2. PICK bytes : bytes = RequestBytes(sent + 1)
    OBVIOUS
  <2>3. bytes \in Seq(Tokens)
    <3>1. sent + 1 \in 1 .. Len(script.requests) /\ Announces(script.requests[sent + 1])
      BY <1>1, <1>3 DEF Regular, Announces
    <3> QED BY <1>1, <2>2, <3>1, BytesShape DEF Shaped
  <2>4. RequestBytes(sent)' = bytes
    BY <1>1, <2>2 DEF RequestBytes
  <2>5. inbox' = bytes
    BY <1>1, <2>1, <2>2, <2>3, ConcatEmptySeq
  <2>6. message' = << >> /\ message' \in Seq(Tokens) /\ message' \o bytes = bytes
    BY <1>1, <2>1, <2>3, ConcatEmptySeq, EmptySeq
  <2> QED BY <1>1, <2>1, <2>3, <2>4, <2>5, <2>6
<1> QED
  BY <1>2, <1>3 DEF FrameInv

\* Every step of a connection keeps what has been read in order.
LEMMA FrameStep == FrameInv /\ [HttpNext]_httpVars => FrameInv'
<1> SUFFICES ASSUME FrameInv, [HttpNext]_httpVars
             PROVE  FrameInv'
  OBVIOUS
<1>1. CASE AcceptClient
  <2>1. script' \in Scripts /\ Len(script'.requests) \in Nat /\ sent' = 0
        /\ at' = "reading" /\ message' = << >> /\ inbox' = << >>
    BY <1>1, RequestCount DEF AcceptClient
  <2> QED BY <2>1 DEF FrameInv
<1>2. CASE SendRequest
  BY <1>2, SendFrame
<1>3. CASE Close
  BY <1>3, CloseFrame
<1>4. CASE \E n \in 1 .. Len(inbox) : Receive(n)
  BY <1>4, ReceiveFrame
\* What is left does not send or read: the connection leaves what it has framed, or
\* it is not about to read.
<1>5. ASSUME script' = script, sent' = sent, inbox' = inbox,
             \/ at = "framed" /\ at' # "framed" /\ message' = << >>
             \/ at = "writing" /\ at' # "framed" /\ message' = message
             \/ at' = at /\ message' = message
      PROVE  FrameInv'
  <2>1. /\ script' \in Scripts /\ sent' \in 0 .. Len(script'.requests)
        /\ ~script'.pipelined /\ sent' = 0 =>
             at' # "framed" /\ message' = << >> /\ inbox' = << >>
    BY <1>5 DEF FrameInv
  <2>2. ASSUME ~script.pipelined, sent > 0, Regular
        PROVE  \/ at' = "framed" /\ message' = RequestBytes(sent) /\ inbox' = << >>
               \/ /\ at' = "reading" /\ message' \in Seq(Tokens) /\ inbox' \in Seq(Tokens)
                  /\ message' \o inbox' = RequestBytes(sent)
               \/ at' # "framed" /\ message' = << >> /\ inbox' = << >>
    BY <1>5, <2>2 DEF FrameInv
  <2> QED BY <1>5, <2>1, <2>2, SameRequest DEF FrameInv
<1>6. CASE at = "framed" /\ \E length \in AnswerLengths : StartAnswer(length)
  BY <1>5, <1>6 DEF StartAnswer
<1>7. CASE \E n \in 1 .. Len(answer) - written : Send(n)
  BY <1>5, <1>7 DEF Send
<1>8. CASE SendFails /\ errors # SendErrors
  BY <1>5, <1>8 DEF SendFails
<1>9. CASE ReuseConnection
  BY <1>5, <1>9 DEF ReuseConnection
<1>10. CASE UNCHANGED httpVars
  BY <1>5, <1>10 DEF httpVars
<1> QED
  BY <1>1, <1>2, <1>3, <1>4, <1>6, <1>7, <1>8, <1>9, <1>10
     DEF HttpNext, ReceiveNothing, SendFails

\* The request of a client that waits for its answers and announces its content by
\* "Content-Length: " is read whole, and nothing else with it, in whatever pieces it
\* comes; and so is one without content, however it is announced.
THEOREM FramesCorrect == HttpSpec => []FramesAreRequests
<1>1. HttpInit => FrameInv
  BY RequestCount DEF HttpInit, FrameInv
<1>2. FrameInv => FramesAreRequests
  BY DEF FrameInv, FramesAreRequests, Regular, Announces
<1> QED
  BY <1>1, <1>2, FrameStep, PTL DEF HttpSpec
-----------------------------------------------------------------------------
(* The cache of points. *)

\* What a thread that is not idle is loading, and what it has got.
LoaderOK(l) ==
  \/ l = NotLoading
  \/ l.at = "missed" /\ l.id \in PointIds
  \/ l.at = "answered" /\ l.id \in PointIds /\ l.point = PointOf[l.id]

\* The inductive invariant: no id is in the list twice, and what the map has for an
\* id is what the files have for it.  CacheIsConsistent alone says nothing of the
\* points that are in the cache and have not been asked for again.
CacheInv ==
  /\ order \in Seq(PointIds) /\ IsInjective(order) /\ Len(order) <= MaxPoints
  /\ points = [k \in {order[i] : i \in DOMAIN order} |-> PointOf[k]]
  /\ DOMAIN loader = Loaders /\ \A t \in Loaders : LoaderOK(loader[t])
-----------------------------------------------------------------------------
\* A list without repetitions is as long as the set of what is in it is large.
LEMMA DistinctCount ==
  ASSUME NEW S, NEW s \in Seq(S), IsInjective(s)
  PROVE  Cardinality({s[i] : i \in DOMAIN s}) = Len(s)
<1> DEFINE R == {s[i] : i \in DOMAIN s}
<1>1. Len(s) \in Nat /\ DOMAIN s = 1 .. Len(s) /\ s \in [1 .. Len(s) -> R]
  OBVIOUS
<1>2. s \in Bijection(1 .. Len(s), R)
  BY <1>1 DEF Bijection, Injection, Surjection, IsInjective
<1>3. ExistsBijection(1 .. Len(s), R)
  BY <1>2 DEF ExistsBijection
<1> QED
  BY <1>1, <1>3, FS_CountingElements

\* put of an id that is not there keeps the list distinct and within its bound, and
\* the map in step with it: what leaves the list leaves the map.
LEMMA PutKeepsCache ==
  ASSUME CacheInv, NEW id \in PointIds, Put(id, PointOf[id])
  PROVE  /\ order' \in Seq(PointIds) /\ IsInjective(order') /\ Len(order') <= MaxPoints
         /\ points' = [k \in {order'[i] : i \in DOMAIN order'} |-> PointOf[k]]
<1> DEFINE ids == {order[i] : i \in DOMAIN order}
           full == Cardinality(DOMAIN points) >= MaxPoints
           rest == IF full THEN Front(order) ELSE order
           kept == IF full THEN Restrict(points, DOMAIN points \ {Last(order)}) ELSE points
           size == IF full THEN Len(order) - 1 ELSE Len(order)
<1>1. DOMAIN points = ids /\ Cardinality(ids) = Len(order) /\ Len(order) \in Nat
  BY DistinctCount DEF CacheInv
<1>2. CASE id \in DOMAIN points
  BY <1>2 DEF CacheInv, Put
<1>3. CASE id \notin DOMAIN points
  <2>1. order' = <<id>> \o rest
        /\ points' = [k \in DOMAIN kept \cup {id} |-> IF k = id THEN PointOf[id] ELSE kept[k]]
    BY <1>3 DEF Put
  <2>2. size \in Nat /\ size + 1 <= MaxPoints /\ (full => Len(order) > 0)
    BY <1>1, CacheAssumption DEF CacheInv
  <2>3. rest \in Seq(PointIds) /\ Len(rest) = size
        /\ \A i \in 1 .. size : i \in 1 .. Len(order) /\ rest[i] = order[i]
    BY <2>2, <1>1 DEF CacheInv, Front
  <2>4. order' \in Seq(PointIds) /\ Len(order') = size + 1
        /\ order'[1] = id /\ \A i \in 2 .. size + 1 : order'[i] = order[i - 1]
    <3>1. order' \in Seq(PointIds) /\ Len(order') = 1 + size
      BY <2>1, <2>3
    <3>2. \A i \in 1 .. 1 + size : order'[i] = IF i <= 1 THEN <<id>>[i] ELSE rest[i - 1]
      BY <2>1, <2>2, <2>3
    <3> QED BY <3>1, <3>2, <2>2, <2>3
  <2>5. DOMAIN order' = 1 .. size + 1 /\ DOMAIN order = 1 .. Len(order)
    BY <2>4, <1>1 DEF CacheInv
  <2>6. \A i \in 1 .. Len(order) : order[i] # id
    BY <1>3, <1>1, <2>5
  <2>7. \A i, j \in 1 .. Len(order) : order[i] = order[j] => i = j
    BY <2>5 DEF CacheInv, IsInjective
  <2>8. IsInjective(order')
    <3>1. \A i \in 2 .. size + 1 : i - 1 \in 1 .. Len(order)
      BY <2>2, <1>1
    <3>2. SUFFICES ASSUME NEW i \in 1 .. size + 1, NEW j \in 1 .. size + 1, order'[i] = order'[j]
                   PROVE  i = j
      BY <2>5 DEF IsInjective
    <3>3. CASE i = 1 \/ j = 1
      BY <3>1, <3>2, <3>3, <2>2, <2>4, <2>6
    <3>4. CASE i # 1 /\ j # 1
      <4>1. i \in 2 .. size + 1 /\ j \in 2 .. size + 1
        BY <3>4, <2>2
      <4>2. order[i - 1] = order[j - 1]
        BY <4>1, <3>2, <2>4
      <4>3. i - 1 = j - 1
        BY <4>1, <4>2, <3>1, <2>7
      <4> QED BY <4>3, <2>2
    <3> QED BY <3>3, <3>4
  <2>9. DOMAIN kept = {order[i] : i \in 1 .. size}
    <3>1. CASE full
      <4>1. Last(order) = order[Len(order)] /\ size = Len(order) - 1
        BY <3>1 DEF Last
      <4>2. \A i \in 1 .. Len(order) : order[i] = order[Len(order)] <=> i = Len(order)
        <5>1. Len(order) \in 1 .. Len(order)
          BY <2>2, <3>1, <1>1
        <5> QED BY <5>1, <2>7
      <4>3. DOMAIN kept = ids \ {order[Len(order)]}
        BY <3>1, <4>1, <1>1 DEF Restrict
      <4>4. 1 .. size = (1 .. Len(order)) \ {Len(order)}
        <5>1. \A n \in Nat : 1 .. n - 1 = (1 .. n) \ {n}
          OBVIOUS
        <5> QED BY <5>1, <4>1, <1>1
      <4>5. ids = {order[i] : i \in 1 .. Len(order)}
        BY <2>5
      <4> QED BY <4>2, <4>3, <4>4, <4>5
    <3>2. CASE ~full
      BY <3>2, <1>1, <2>5
    <3> QED BY <3>1, <3>2
  <2>10. {order'[i] : i \in DOMAIN order'} = DOMAIN kept \cup {id}
    <3>1. {order'[i] : i \in DOMAIN order'} = {order'[1]} \cup {order'[i] : i \in 2 .. size + 1}
      BY <2>2, <2>5
    <3>2. {order'[i] : i \in 2 .. size + 1} = {order[i] : i \in 1 .. size}
      <4>1. \A i \in 1 .. size : i + 1 \in 2 .. size + 1 /\ order'[i + 1] = order[i]
        BY <2>2, <2>4
      <4>2. \A i \in 2 .. size + 1 : i - 1 \in 1 .. size /\ order'[i] = order[i - 1]
        BY <2>2, <2>4
      <4> QED BY <4>1, <4>2
    <3> QED BY <3>1, <3>2, <2>4, <2>9
  <2>11. \A k \in DOMAIN kept : kept[k] = PointOf[k]
    <3>1. \A k \in DOMAIN points : points[k] = PointOf[k]
      BY DEF CacheInv
    <3> QED BY <3>1 DEF Restrict
  <2>12. points' = [k \in DOMAIN kept \cup {id} |-> PointOf[k]]
    BY <2>1, <2>11
  <2> HIDE DEF kept
  <2> QED
    BY <2>2, <2>4, <2>8, <2>10, <2>12
<1> QED
  BY <1>2, <1>3

LEMMA CacheInvStart == CacheInit => CacheInv
<1> SUFFICES ASSUME CacheInit PROVE CacheInv
  OBVIOUS
<1>1. order = << >> /\ points = << >> /\ loader = [t \in Loaders |-> NotLoading]
  BY DEF CacheInit
<1>2. points = [k \in {order[i] : i \in DOMAIN order} |-> PointOf[k]]
  BY <1>1
<1> QED
  BY <1>1, <1>2, CacheAssumption DEF CacheInv, IsInjective, LoaderOK

LEMMA CacheInvStep == CacheInv /\ [CacheNext]_cacheVars => CacheInv'
<1> SUFFICES ASSUME CacheInv, [CacheNext]_cacheVars PROVE CacheInv'
  OBVIOUS
<1>1. CASE UNCHANGED cacheVars
  BY <1>1 DEF CacheInv, LoaderOK, cacheVars
<1>2. ASSUME NEW t \in Loaders, NEW id \in PointIds, Lookup(t, id) PROVE CacheInv'
  <2>1. UNCHANGED <<order, points>> /\ DOMAIN loader' = Loaders
    BY <1>2 DEF Lookup, CacheInv
  <2>2. LoaderOK(loader'[t])
    BY <1>2 DEF Lookup, CacheInv, LoaderOK
  <2>3. \A u \in Loaders \ {t} : loader'[u] = loader[u]
    BY <1>2 DEF Lookup, CacheInv
  <2> QED BY <2>1, <2>2, <2>3 DEF CacheInv
<1>3. ASSUME NEW t \in Loaders, ReadAndPut(t) PROVE CacheInv'
  <2>1. loader[t].id \in PointIds
    BY <1>3 DEF ReadAndPut, CacheInv, LoaderOK, NotLoading
  <2>2. Put(loader[t].id, PointOf[loader[t].id])
    BY <1>3 DEF ReadAndPut
  <2>3. DOMAIN loader' = Loaders /\ LoaderOK(loader'[t])
    BY <1>3, <2>1 DEF ReadAndPut, CacheInv, LoaderOK
  <2>4. \A u \in Loaders \ {t} : loader'[u] = loader[u]
    BY <1>3 DEF ReadAndPut, CacheInv
  <2> QED BY <2>1, <2>2, <2>3, <2>4, PutKeepsCache DEF CacheInv
<1>4. ASSUME NEW t \in Loaders, ReturnPoint(t) PROVE CacheInv'
  <2>1. UNCHANGED <<order, points>> /\ DOMAIN loader' = Loaders /\ LoaderOK(loader'[t])
    BY <1>4 DEF ReturnPoint, CacheInv, LoaderOK
  <2>2. \A u \in Loaders \ {t} : loader'[u] = loader[u]
    BY <1>4 DEF ReturnPoint, CacheInv
  <2> QED BY <2>1, <2>2 DEF CacheInv
<1> QED
  BY <1>1, <1>2, <1>3, <1>4 DEF CacheNext

LEMMA CacheInvIsEnough == CacheInv => CacheIsConsistent
<1> SUFFICES ASSUME CacheInv PROVE CacheIsConsistent
  OBVIOUS
<1>1. DOMAIN points = {order[i] : i \in DOMAIN order} /\ ToSet(order) = DOMAIN points
  BY DEF CacheInv, ToSet
<1>2. Len(order) = Cardinality(DOMAIN points)
  BY <1>1, DistinctCount DEF CacheInv
<1>3. \A t \in Loaders : loader[t].at = "answered" => loader[t].point = PointOf[loader[t].id]
  BY DEF CacheInv, LoaderOK, NotLoading
<1> QED
  BY <1>1, <1>2, <1>3 DEF CacheInv, CacheIsConsistent

\* The list and the map of the cache agree, the cache never holds more than it may,
\* and every thread is answered with the point it asked for, whatever threads load
\* whatever points at the same time.
THEOREM CacheCorrect == CacheSpec => []CacheIsConsistent
<1>1. CacheInv /\ [CacheNext]_cacheVars => CacheInv'
  BY CacheInvStep
<1> QED
  BY <1>1, CacheInvStart, CacheInvIsEnough, PTL DEF CacheSpec
-----------------------------------------------------------------------------
(* The connection. *)

\* What each service keeps while it serves, it keeps only while the request it serves
\* is the one that has been read; so that two never serve at once.
ServiceInv ==
  /\ tile # NoTile => Serves("Tile") /\ ink = NoInk
  /\ ink # NoInk => Serves("Tile")
  /\ search # NoSearch => Serves("/geoloc")
  /\ loading # NoLoad => Serves("/relation/get")

\* A request is for one service.
LEMMA OneService ==
  ASSUME NEW s, NEW t, Serves(s), Serves(t)
  PROVE  s = t
  BY DEF Serves

\* What the services tell apart is different.
LEMMA NothingServed ==
  /\ NoInk # BlankPage
  /\ NoSearch.left = << >> /\ NoSearch.map = << >> /\ NoSearch.answers = << >>
  /\ NoLoad.recurs = 0
<1>1. DOMAIN NoInk = {"page"} /\ "path" \in DOMAIN BlankPage
  BY DEF NoInk, BlankPage
<1> QED
  BY <1>1 DEF NoSearch, NoLoad

\* A step that leaves the connection where it is, and what a service keeps.
LEMMA KeepServing ==
  ASSUME at' = at, message' = message
  PROVE  \A s : Serves(s)' <=> Serves(s)
  BY DEF Serves

\* The connection ends, or goes on, only when no service is at work.
LEMMA ExchangeStep ==
  ASSUME ServiceInv, Exchange
  PROVE  ServiceInv' /\ [HttpNext]_httpVars
<1>1. UNCHANGED <<loading, search, tile, ink>>
  BY DEF Exchange, serving, shapeVars
<1>2. CASE at # "framed"
  <2>1. tile = NoTile /\ ink = NoInk /\ search = NoSearch /\ loading = NoLoad
    BY <1>2 DEF ServiceInv, Serves
  <2>2. ServiceInv'
    BY <1>1, <2>1 DEF ServiceInv
  <2>3. HttpNext
    BY <1>2 DEF Exchange, HttpNext, AnswerAtOnce
  <2> QED BY <2>2, <2>3
<1>3. CASE SendRequest
  <2>1. \A s : Serves(s)' <=> Serves(s)
    BY <1>3, KeepServing DEF SendRequest
  <2>2. ServiceInv'
    BY <1>1, <2>1 DEF ServiceInv
  <2> QED BY <1>3, <2>2 DEF HttpNext
<1>4. CASE \E length \in AnswerLengths : AnswerAtOnce(length)
  <2>1. PICK length \in AnswerLengths : AnswerAtOnce(length)
    BY <1>4
  <2>2. ~Serves("Tile") /\ ~Serves("/geoloc") /\ ~Serves("/relation/get")
    BY <2>1 DEF AnswerAtOnce, Serves
  <2>3. ServiceInv'
    BY <1>1, <2>2 DEF ServiceInv
  <2> QED BY <2>1, <2>3 DEF HttpNext, AnswerAtOnce
<1> QED
  BY <1>2, <1>3, <1>4
     DEF Exchange, AcceptClient, ReceiveNothing, SendFails, ReuseConnection, Receive, Send

\* A service starts, goes on or is done with; its answer is one of the lengths there are.
LEMMA ServiceStep ==
  ASSUME ServiceInv, Next, ~Exchange
  PROVE  ServiceInv' /\ [HttpNext]_httpVars
<1>1. CASE DrawTile
  <2>1. UNCHANGED <<loading, search, ink, httpVars>> /\ Serves("Tile") /\ Idle
    BY <1>1 DEF DrawTile, shapeVars
  <2>2. Serves("Tile")' /\ ink' = NoInk /\ search' = NoSearch /\ loading' = NoLoad
    BY <2>1, KeepServing DEF Idle, httpVars
  <2> QED BY <2>1, <2>2 DEF ServiceInv
<1>2. CASE StartPage
  <2>1. UNCHANGED <<loading, search, httpVars>> /\ tile # NoTile /\ tile' = NoTile
    BY <1>2 DEF StartPage, shapeVars
  <2>2. \A s : Serves(s)' <=> Serves(s)
    BY <2>1, KeepServing DEF httpVars
  <2> QED BY <2>1, <2>2 DEF ServiceInv
<1>3. CASE FillPage \/ PrintPiece \/ \E good \in BOOLEAN : EndPath(good)
  <2>1. UNCHANGED <<loading, search, tile, httpVars>> /\ ink # NoInk
    BY <1>3, NothingServed DEF FillPage, PrintPiece, EndPath, shapeVars
  <2>2. \A s : Serves(s)' <=> Serves(s)
    BY <2>1, KeepServing DEF httpVars
  <2> QED BY <2>1, <2>2 DEF ServiceInv
<1>4. CASE Search
  <2>1. UNCHANGED <<loading, tile, ink, httpVars>> /\ Serves("/geoloc") /\ Idle
    BY <1>4 DEF Search, shapeVars
  <2>2. Serves("/geoloc")' /\ tile' = NoTile /\ ink' = NoInk /\ loading' = NoLoad
    BY <2>1, KeepServing DEF Idle, httpVars
  <2> QED BY <2>1, <2>2 DEF ServiceInv
<1>5. CASE SearchOn
  <2>1. UNCHANGED <<loading, tile, ink, httpVars>> /\ search # NoSearch
    BY <1>5, NothingServed DEF SearchOn, SearchPart, AnswerSearch, shapeVars
  <2>2. \A s : Serves(s)' <=> Serves(s)
    BY <2>1, KeepServing DEF httpVars
  <2> QED BY <2>1, <2>2 DEF ServiceInv
<1>6. CASE ShowRelation
  <2>1. UNCHANGED <<search, tile, ink, httpVars>> /\ Serves("/relation/get") /\ Idle
    BY <1>6 DEF ShowRelation
  <2>2. Serves("/relation/get")' /\ tile' = NoTile /\ ink' = NoInk /\ search' = NoSearch
    BY <2>1, KeepServing DEF Idle, httpVars
  <2> QED BY <2>1, <2>2 DEF ServiceInv
<1>7. CASE LoadMember
  <2>1. UNCHANGED <<search, tile, ink, httpVars>> /\ loading # NoLoad
    BY <1>7 DEF LoadMember
  <2>2. \A s : Serves(s)' <=> Serves(s)
    BY <2>1, KeepServing DEF httpVars
  <2> QED BY <2>1, <2>2 DEF ServiceInv
<1>8. CASE LoadPoints
  <2>1. UNCHANGED <<loading, search, tile, ink, httpVars>>
    BY <1>8 DEF LoadPoints, serving, shapeVars
  <2>2. \A s : Serves(s)' <=> Serves(s)
    BY <2>1, KeepServing DEF httpVars
  <2> QED BY <2>1, <2>2 DEF ServiceInv
\* The four ways in which a service ends: it is the only one at work.
<1>9. ASSUME at = "framed", NEW length \in AnswerLengths, StartAnswer(length),
             tile' = NoTile, ink' = NoInk, search' = NoSearch, loading' = NoLoad
      PROVE  ServiceInv' /\ [HttpNext]_httpVars
  BY <1>9 DEF ServiceInv, HttpNext
<1>10. ASSUME NEW length \in AnswerLengths, EndPage(length)
       PROVE  ServiceInv' /\ [HttpNext]_httpVars
  <2>1. /\ UNCHANGED <<loading, search, tile>> /\ ink # NoInk /\ ink' = NoInk
        /\ StartAnswer(length)
    BY <1>10 DEF EndPage, shapeVars
  <2>2. Serves("Tile") /\ ~Serves("/geoloc") /\ ~Serves("/relation/get")
    BY <2>1, OneService DEF ServiceInv
  <2>3. at = "framed" /\ tile = NoTile /\ search = NoSearch /\ loading = NoLoad
    BY <2>1, <2>2 DEF ServiceInv, Serves
  <2> QED BY <1>9, <2>1, <2>3
<1>11. ASSUME NEW length \in AnswerLengths, SearchForNothing(length)
       PROVE  ServiceInv' /\ [HttpNext]_httpVars
  <2>1. /\ UNCHANGED <<loading, search, tile, ink>> /\ StartAnswer(length)
        /\ Serves("/geoloc") /\ Idle
    BY <1>11 DEF SearchForNothing, serving, shapeVars
  <2> QED BY <1>9, <2>1 DEF Idle, Serves
<1>12. ASSUME NEW length \in AnswerLengths, ReturnSearch(length)
       PROVE  ServiceInv' /\ [HttpNext]_httpVars
  <2>1. /\ UNCHANGED <<loading, tile, ink>> /\ search # NoSearch /\ search' = NoSearch
        /\ StartAnswer(length)
    BY <1>12, NothingServed DEF ReturnSearch, EndSearch, shapeVars
  <2>2. Serves("/geoloc") /\ ~Serves("Tile") /\ ~Serves("/relation/get")
    BY <2>1, OneService DEF ServiceInv
  <2>3. at = "framed" /\ tile = NoTile /\ ink = NoInk /\ loading = NoLoad
    BY <2>1, <2>2 DEF ServiceInv, Serves
  <2> QED BY <1>9, <2>1, <2>3
<1>13. ASSUME NEW length \in AnswerLengths, EndRelation(length)
       PROVE  ServiceInv' /\ [HttpNext]_httpVars
  <2>1. /\ UNCHANGED <<search, tile, ink>> /\ loading.recurs > 0 /\ loading' = NoLoad
        /\ StartAnswer(length)
    BY <1>13 DEF EndRelation, ReturnRelation
  <2>2. loading # NoLoad
    BY <2>1, NothingServed
  <2>3. Serves("/relation/get") /\ ~Serves("Tile") /\ ~Serves("/geoloc")
    BY <2>2, OneService DEF ServiceInv
  <2>4. at = "framed" /\ tile = NoTile /\ ink = NoInk /\ search = NoSearch
    BY <2>3 DEF ServiceInv, Serves
  <2> QED BY <1>9, <2>1, <2>4
<1> QED
  BY <1>1, <1>2, <1>3, <1>4, <1>5, <1>6, <1>7, <1>8, <1>10, <1>11, <1>12, <1>13 DEF Next

\* A connection whose requests are served is a connection: every step of it, and of the
\* services, is a step of HttpExchange or none.
THEOREM ServesConnections == Spec => HttpSpec
<1>1. Init => HttpInit /\ ServiceInv
  BY DEF Init, ServiceInv, ShapeInit
<1>2. ServiceInv /\ [Next]_vars => ServiceInv' /\ [HttpNext]_httpVars
  <2>1. ASSUME ServiceInv, UNCHANGED vars
        PROVE  ServiceInv' /\ [HttpNext]_httpVars
    <3>1. UNCHANGED <<loading, search, tile, ink, httpVars>>
      BY <2>1 DEF vars, shapeVars
    <3>2. \A s : Serves(s)' <=> Serves(s)
      BY <3>1, KeepServing DEF httpVars
    <3> QED BY <2>1, <3>1, <3>2 DEF ServiceInv
  <2> QED BY <2>1, ExchangeStep, ServiceStep
<1> QED
  BY <1>1, <1>2, PTL DEF Spec, HttpSpec

\* The cache of points is used as PointCache says, and by nobody else.
THEOREM UsesTheCache == Spec => CacheSpec
<1>1. Init => CacheInit
  BY DEF Init
<1>2. [Next]_vars => [CacheNext]_cacheVars
  <2>1. Next => CacheNext \/ UNCHANGED cacheVars
    BY DEF Next, Exchange, DrawTile, StartPage, FillPage, PrintPiece, EndPath, Search, SearchOn,
           ShowRelation, LoadMember, EndPage, SearchForNothing, ReturnSearch, EndRelation,
           LoadPoints
  <2>2. UNCHANGED vars => UNCHANGED cacheVars
    BY DEF vars
  <2> QED BY <2>1, <2>2
<1> QED
  BY <1>1, <1>2, PTL DEF Spec, CacheSpec

\* Whatever its services do, a connection serves the requests that were sent and writes
\* whole answers, and the cache keeps what it has read.
THEOREM ServedWhole ==
  Spec => [](FramesAreRequests /\ AnswersAreWhole /\ CacheIsConsistent)
  BY ServesConnections, UsesTheCache, FramesCorrect, AnswersWhole, CacheCorrect, PTL
-----------------------------------------------------------------------------
(* The shape of a relation. *)

(* What is known of sequences. *)

IsList(s) == \E R : s \in Seq(R)

\* The indices of a list.
LEMMA ListIs ==
  ASSUME NEW s, IsList(s)
  PROVE  Len(s) \in Nat /\ DOMAIN s = 1 .. Len(s)
  BY LenProperties DEF IsList

\* What is given index by index is a list.
LEMMA ListOf ==
  ASSUME NEW n \in Nat, NEW s, s = [i \in 1 .. n |-> s[i]]
  PROVE  IsList(s) /\ Len(s) = n
<1>1. s \in [1 .. n -> {s[i] : i \in 1 .. n}]
  OBVIOUS
<1>2. s \in Seq({s[i] : i \in 1 .. n}) /\ Len(s) = n
  BY <1>1
<1> QED BY <1>2 DEF IsList

\* Two lists one after the other.
LEMMA ListConcat ==
  ASSUME NEW s, IsList(s), NEW u, IsList(u), NEW t, t = s \o u
  PROVE  /\ IsList(t) /\ Len(t) = Len(s) + Len(u)
         /\ \A i \in 1 .. Len(s) : t[i] = s[i]
         /\ \A i \in 1 .. Len(u) : t[Len(s) + i] = u[i]
<1>1. PICK R : s \in Seq(R)
  BY DEF IsList
<1>2. PICK Q : u \in Seq(Q)
  BY DEF IsList
<1>3. PICK m, n : m = Len(s) /\ n = Len(u)
  OBVIOUS
<1>4. m \in Nat /\ n \in Nat
  BY <1>1, <1>2, <1>3, LenProperties
<1>5. PICK V : V = R \cup Q
  OBVIOUS
<1>6. s \in Seq(V) /\ u \in Seq(V)
  <2>1. R \subseteq V /\ Q \subseteq V
    BY <1>5
  <2> QED BY <1>1, <1>2, <2>1, SeqMonotonic
<1>7. /\ t \in Seq(V) /\ Len(t) = m + n
      /\ \A i \in 1 .. m + n : t[i] = IF i <= m THEN s[i] ELSE u[i - m]
  BY <1>3, <1>6, ConcatProperties
<1>8. \A i \in 1 .. m : t[i] = s[i]
  BY <1>4, <1>7
<1>9. ASSUME NEW i \in 1 .. n PROVE t[m + i] = u[i]
  <2>1. m + i \in 1 .. m + n /\ ~(m + i <= m) /\ (m + i) - m = i
    BY <1>4
  <2> QED BY <1>7, <2>1
<1>10. IsList(t)
  BY <1>7 DEF IsList
<1>11. Len(t) = Len(s) + Len(u)
  BY <1>3, <1>7
<1> QED BY <1>3, <1>8, <1>9, <1>10, <1>11

\* One element more.
LEMMA ListAppend ==
  ASSUME NEW s, IsList(s), NEW e, NEW t, t = Append(s, e)
  PROVE  /\ IsList(t) /\ Len(t) = Len(s) + 1 /\ t[Len(s) + 1] = e
         /\ \A i \in 1 .. Len(s) : t[i] = s[i]
<1>1. PICK R : s \in Seq(R)
  BY DEF IsList
<1>2. PICK V : V = R \cup {e}
  OBVIOUS
<1>3. s \in Seq(V) /\ e \in V
  <2>1. R \subseteq V
    BY <1>2
  <2> QED BY <1>1, <1>2, <2>1, SeqMonotonic
<1>4. /\ t \in Seq(V) /\ Len(t) = Len(s) + 1 /\ t[Len(s) + 1] = e
      /\ \A i \in 1 .. Len(s) : t[i] = s[i]
  BY <1>3, AppendProperties
<1> QED BY <1>4 DEF IsList

\* A list without its first element.
LEMMA ListTail ==
  ASSUME NEW s, IsList(s), Len(s) >= 1, NEW t, t = Tail(s)
  PROVE  /\ IsList(t) /\ Len(t) = Len(s) - 1
         /\ \A i \in 1 .. Len(s) - 1 : t[i] = s[i + 1]
<1>1. PICK R : s \in Seq(R)
  BY DEF IsList
<1>2. s # << >>
  OBVIOUS
<1>3. t \in Seq(R) /\ Len(t) = Len(s) - 1 /\ \A i \in 1 .. Len(t) : t[i] = s[i + 1]
  BY <1>1, <1>2, HeadTailProperties
<1> QED BY <1>3 DEF IsList

\* A list from its end to its beginning.
LEMMA ListReverse ==
  ASSUME NEW s, IsList(s), NEW t, t = Reverse(s)
  PROVE  /\ IsList(t) /\ Len(t) = Len(s)
         /\ \A i \in 1 .. Len(s) : t[i] = s[Len(s) - i + 1]
<1>1. PICK n : n = Len(s)
  OBVIOUS
<1>2. n \in Nat
  BY <1>1, ListIs
<1>3. t = [i \in 1 .. n |-> s[(n - i) + 1]]
  BY <1>1 DEF Reverse
<1>4. t = [i \in 1 .. n |-> t[i]] /\ \A i \in 1 .. n : t[i] = s[n - i + 1]
  BY <1>3
<1>5. IsList(t) /\ Len(t) = n
  BY <1>2, <1>4, ListOf
<1> QED BY <1>1, <1>4, <1>5

\* A list with another element at one place.
LEMMA ListExcept ==
  ASSUME NEW s, IsList(s), NEW k \in 1 .. Len(s), NEW e, NEW t, t = [s EXCEPT ![k] = e]
  PROVE  /\ IsList(t) /\ Len(t) = Len(s) /\ t[k] = e
         /\ \A i \in 1 .. Len(s) : i # k => t[i] = s[i]
<1>1. PICK n : n = Len(s)
  OBVIOUS
<1>2. n \in Nat /\ DOMAIN s = 1 .. n
  BY <1>1, ListIs
<1>3. t = [i \in 1 .. n |-> t[i]]
  BY <1>2
<1>4. IsList(t) /\ Len(t) = n
  BY <1>2, <1>3, ListOf
<1>5. k \in 1 .. n
  BY <1>1
<1>6. t[k] = e /\ \A i \in 1 .. n : i # k => t[i] = s[i]
  BY <1>2, <1>5
<1> QED BY <1>1, <1>4, <1>6

\* Different places have different elements.
Distinct(s) == \A i \in DOMAIN s : \A j \in DOMAIN s : s[i] = s[j] => i = j

\* One element more than there were.
LEMMA AppendDistinct ==
  ASSUME NEW s, IsList(s), NEW e, NEW t, t = Append(s, e)
  PROVE  /\ IsList(t) /\ ToSet(t) = ToSet(s) \cup {e}
         /\ Distinct(s) /\ e \notin ToSet(s) => Distinct(t)
<1>1. PICK n : n = Len(s)
  OBVIOUS
<1>2. n \in Nat /\ DOMAIN s = 1 .. n
  BY <1>1, ListIs
<1>3. /\ IsList(t) /\ Len(t) = n + 1 /\ t[n + 1] = e
      /\ \A i \in 1 .. n : t[i] = s[i]
  <2>1. IsList(t) /\ Len(t) = Len(s) + 1
    BY ListAppend
  <2>2. t[Len(s) + 1] = e
    BY ListAppend
  <2>3. \A i \in 1 .. Len(s) : t[i] = s[i]
    BY ListAppend
  <2> QED BY <1>1, <2>1, <2>2, <2>3
<1>4. DOMAIN t = 1 .. n + 1
  BY <1>3, ListIs
<1>5. 1 .. n + 1 = (1 .. n) \cup {n + 1} /\ n + 1 \notin 1 .. n
  BY <1>2
<1>6. ToSet(t) = {t[i] : i \in 1 .. n} \cup {e}
  BY <1>3, <1>4, <1>5 DEF ToSet
<1>7. {t[i] : i \in 1 .. n} = {s[i] : i \in 1 .. n}
  BY <1>3
<1>8. ToSet(t) = ToSet(s) \cup {e}
  BY <1>2, <1>6, <1>7 DEF ToSet
<1>9. ASSUME Distinct(s), e \notin ToSet(s) PROVE Distinct(t)
  <2>1. \A i \in 1 .. n : s[i] # e
    BY <1>2, <1>9 DEF ToSet
  <2>2. \A i \in 1 .. n : \A j \in 1 .. n : s[i] = s[j] => i = j
    BY <1>2, <1>9 DEF Distinct
  <2>3. \A i \in (1 .. n) \cup {n + 1} : \A j \in (1 .. n) \cup {n + 1} : t[i] = t[j] => i = j
    BY <1>3, <2>1, <2>2
  <2> QED BY <1>4, <1>5, <2>3 DEF Distinct
<1> QED BY <1>3, <1>8, <1>9

\* What is left without one element.
LEMMA WithoutIs ==
  ASSUME NEW s, IsList(s), Distinct(s), NEW e \in ToSet(s), NEW t, t = Without(s, e)
  PROVE  IsList(t) /\ Distinct(t) /\ ToSet(t) = ToSet(s) \ {e}
<1>1. PICK n : n = Len(s)
  OBVIOUS
<1>2. n \in Nat /\ DOMAIN s = 1 .. n
  BY <1>1, ListIs
<1>3. PICK k : k = CHOOSE i \in DOMAIN s : s[i] = e
  OBVIOUS
<1>4. k \in 1 .. n /\ s[k] = e
  <2>1. \E i \in DOMAIN s : s[i] = e
    BY DEF ToSet
  <2> QED BY <1>2, <1>3, <2>1
<1>5. PICK a, b : a = SubSeq(s, 1, k - 1) /\ b = SubSeq(s, k + 1, n)
  OBVIOUS
<1>6. t = a \o b
  BY <1>1, <1>3, <1>5 DEF Without, RemoveAt
<1>7. k - 1 \in Int /\ k + 1 \in Int /\ n \in Int /\ k \in Int /\ 1 \in Int
  BY <1>2, <1>4
<1>8. IsList(a) /\ Len(a) = k - 1 /\ \A i \in 1 .. k - 1 : a[i] = s[i]
  <2>1. PICK R : R = {s[i] : i \in 1 .. n}
    OBVIOUS
  <2>2. \A i \in 1 .. k - 1 : s[i] \in R
    BY <1>2, <1>4, <2>1
  <2>3. /\ a \in Seq(R) /\ Len(a) = IF 1 <= k - 1 THEN k - 1 - 1 + 1 ELSE 0
        /\ \A i \in 1 .. k - 1 - 1 + 1 : a[i] = s[1 + i - 1]
    BY <1>5, <1>7, <2>2, SubSeqProperties
  <2>4. Len(a) = k - 1 /\ \A i \in 1 .. k - 1 : a[i] = s[i]
    BY <1>4, <1>7, <2>3
  <2> QED BY <2>3, <2>4 DEF IsList
<1>9. IsList(b) /\ Len(b) = n - k /\ \A i \in 1 .. n - k : b[i] = s[k + i]
  <2>1. PICK R : R = {s[i] : i \in 1 .. n}
    OBVIOUS
  <2>2. \A i \in k + 1 .. n : s[i] \in R
    BY <1>2, <1>4, <2>1
  <2>3. /\ b \in Seq(R) /\ Len(b) = IF k + 1 <= n THEN n - (k + 1) + 1 ELSE 0
        /\ \A i \in 1 .. n - (k + 1) + 1 : b[i] = s[(k + 1) + i - 1]
    BY <1>5, <1>7, <2>2, SubSeqProperties
  <2>4. Len(b) = n - k /\ \A i \in 1 .. n - k : b[i] = s[k + i]
    BY <1>2, <1>4, <1>7, <2>3
  <2> QED BY <2>3, <2>4 DEF IsList
<1>10. /\ IsList(t) /\ Len(t) = n - 1
       /\ \A i \in 1 .. k - 1 : t[i] = s[i]
       /\ \A i \in 1 .. n - k : t[k - 1 + i] = s[k + i]
  <2>1. IsList(a)
    BY <1>8
  <2>2. IsList(b)
    BY <1>9
  <2>3. IsList(t) /\ Len(t) = Len(a) + Len(b)
    BY <1>6, <2>1, <2>2, ListConcat
  <2>4. \A i \in 1 .. Len(a) : t[i] = a[i]
    BY <1>6, <2>1, <2>2, ListConcat
  <2>5. \A i \in 1 .. Len(b) : t[Len(a) + i] = b[i]
    BY <1>6, <2>1, <2>2, ListConcat
  <2>6. \A i \in 1 .. k - 1 : t[i] = s[i]
    BY <1>8, <2>4
  <2>7. \A i \in 1 .. n - k : t[k - 1 + i] = s[k + i]
    BY <1>8, <1>9, <2>5
  <2>8. Len(t) = n - 1
    BY <1>2, <1>4, <1>8, <1>9, <2>3
  <2> QED BY <2>3, <2>6, <2>7, <2>8
<1>11. DOMAIN t = 1 .. n - 1
  BY <1>10, ListIs
\* Where an element comes from.
<1>12. PICK from : from = [i \in 1 .. n - 1 |-> IF i < k THEN i ELSE i + 1]
  OBVIOUS
<1>13. ASSUME NEW i \in 1 .. n - 1
       PROVE  from[i] \in (1 .. n) \ {k} /\ t[i] = s[from[i]]
  <2>1. CASE i < k
    BY <1>2, <1>4, <1>10, <1>12, <2>1
  <2>2. CASE ~(i < k)
    <3>1. PICK j : j = i - k + 1
      OBVIOUS
    <3>2. j \in 1 .. n - k /\ i = k - 1 + j /\ i + 1 = k + j
      BY <1>2, <1>4, <2>2, <3>1
    <3>3. t[i] = s[i + 1]
      BY <1>10, <3>2
    <3> QED BY <1>2, <1>4, <1>12, <2>2, <3>3
  <2> QED BY <2>1, <2>2
<1>14. \A i, j \in 1 .. n - 1 : from[i] = from[j] => i = j
  BY <1>2, <1>4, <1>12
<1>15. \A j \in (1 .. n) \ {k} : \E i \in 1 .. n - 1 : from[i] = j
  <2> TAKE j \in (1 .. n) \ {k}
  <2>1. CASE j < k
    <3>1. j \in 1 .. n - 1 /\ from[j] = j
      BY <1>2, <1>4, <1>12, <2>1
    <3> QED BY <3>1
  <2>2. CASE ~(j < k)
    <3>1. j - 1 \in 1 .. n - 1 /\ from[j - 1] = j
      BY <1>2, <1>4, <1>12, <2>2
    <3> QED BY <3>1
  <2> QED BY <2>1, <2>2
<1>16. \A i \in 1 .. n : \A j \in 1 .. n : s[i] = s[j] => i = j
  BY <1>2 DEF Distinct
<1>17. Distinct(t)
  <2>1. ASSUME NEW i \in 1 .. n - 1, NEW j \in 1 .. n - 1, t[i] = t[j] PROVE i = j
    <3>1. from[i] = from[j]
      BY <1>13, <1>16, <2>1
    <3> QED BY <1>14, <3>1
  <2> QED BY <1>11, <2>1 DEF Distinct
<1>18. ToSet(t) = ToSet(s) \ {e}
  <2>1. ASSUME NEW x \in ToSet(t) PROVE x \in ToSet(s) /\ x # e
    <3>1. PICK i \in 1 .. n - 1 : x = t[i]
      BY <1>11 DEF ToSet
    <3>2. from[i] \in 1 .. n /\ from[i] # k /\ x = s[from[i]]
      BY <1>13, <3>1
    <3> QED BY <1>2, <1>4, <1>16, <3>2 DEF ToSet
  <2>2. ASSUME NEW x \in ToSet(s), x # e PROVE x \in ToSet(t)
    <3>1. PICK j \in 1 .. n : x = s[j]
      BY <1>2 DEF ToSet
    <3>2. j # k
      BY <1>4, <2>2, <3>1
    <3>3. PICK i \in 1 .. n - 1 : from[i] = j
      BY <1>15, <3>2
    <3>4. x = t[i]
      BY <1>13, <3>1, <3>3
    <3> QED BY <1>11, <3>4 DEF ToSet
  <2> QED BY <2>1, <2>2
<1> QED BY <1>10, <1>17, <1>18
-----------------------------------------------------------------------------
(* The lines that two lines are joined to. *)

IsLine(l) == IsList(l) /\ Len(l) >= 1
EndsOf(l) == {l[1], Last(l)}

\* The segments of a line between the two points of x.
Hits(x, l) == {i \in 1 .. Len(l) - 1 : {l[i], l[i + 1]} = x}

\* Sets whose elements correspond are of one size.
LEMMA SameSize ==
  ASSUME NEW S, IsFiniteSet(S), NEW T, NEW f \in [S -> T],
         \A i \in S : \A j \in S : f[i] = f[j] => i = j, \A y \in T : \E i \in S : f[i] = y
  PROVE  IsFiniteSet(T) /\ Cardinality(T) = Cardinality(S)
<1>1. f \in Bijection(S, T)
  BY DEF Bijection, Injection, Surjection, IsInjective
<1>2. ExistsBijection(S, T)
  BY <1>1 DEF ExistsBijection
<1> QED BY <1>2, FS_Bijection

\* Two finite sets that have nothing in common.
LEMMA SizesAdd ==
  ASSUME NEW S, IsFiniteSet(S), NEW T, IsFiniteSet(T), S \cap T = {}
  PROVE  /\ IsFiniteSet(S \cup T) /\ Cardinality(S \cup T) = Cardinality(S) + Cardinality(T)
         /\ Cardinality(S) \in Nat /\ Cardinality(T) \in Nat
<1>1. Cardinality(S) \in Nat /\ Cardinality(T) \in Nat
  BY FS_CardinalityType
<1>2. /\ IsFiniteSet(S \cup T)
      /\ Cardinality(S \cup T) = Cardinality(S) + Cardinality(T) - Cardinality(S \cap T)
  BY FS_Union
<1>3. Cardinality(S \cap T) = 0
  BY FS_EmptySet
<1> QED BY <1>1, <1>2, <1>3

\* There are finitely many.
LEMMA HitsFinite ==
  ASSUME NEW l, IsList(l), NEW x
  PROVE  IsFiniteSet(Hits(x, l)) /\ Cardinality(Hits(x, l)) \in Nat
<1>1. PICK n : n = Len(l) - 1
  OBVIOUS
<1>2. n \in Int
  BY <1>1, ListIs
<1>3. IsFiniteSet(1 .. n)
  BY <1>2, FS_Interval
<1>4. Hits(x, l) \in SUBSET (1 .. n)
  BY <1>1 DEF Hits
<1>5. IsFiniteSet(Hits(x, l))
  BY <1>3, <1>4, FS_Subset
<1> QED BY <1>5, FS_CardinalityType

\* A turned line has the same segments.
LEMMA ReverseHits ==
  ASSUME NEW l, IsLine(l), NEW r, r = Reverse(l), NEW x
  PROVE  Cardinality(Hits(x, r)) = Cardinality(Hits(x, l))
<1>1. PICK n : n = Len(l)
  OBVIOUS
<1>2. IsList(l) /\ n \in Nat /\ n >= 1
  BY <1>1, ListIs DEF IsLine
<1>3. Len(r) = n /\ \A i \in 1 .. n : r[i] = l[n - i + 1]
  BY <1>1, <1>2, ListReverse
<1>4. PICK S, T : S = Hits(x, l) /\ T = Hits(x, r)
  OBVIOUS
<1>5. IsFiniteSet(S)
  BY <1>2, <1>4, HitsFinite
<1>6. ASSUME NEW i \in 1 .. n - 1
      PROVE  n - i \in 1 .. n - 1 /\ {r[n - i], r[n - i + 1]} = {l[i], l[i + 1]}
  <2>1. n - i \in 1 .. n /\ n - i + 1 \in 1 .. n
    BY <1>2
  <2>2. n - (n - i) + 1 = i + 1 /\ n - (n - i + 1) + 1 = i
    BY <1>2
  <2>3. r[n - i] = l[i + 1] /\ r[n - i + 1] = l[i]
    BY <1>3, <2>1, <2>2
  <2>4. n - i \in 1 .. n - 1
    BY <1>2
  <2> QED BY <2>3, <2>4
<1>7. S = {i \in 1 .. n - 1 : {l[i], l[i + 1]} = x} /\ T = {i \in 1 .. n - 1 : {r[i], r[i + 1]} = x}
  BY <1>1, <1>3, <1>4 DEF Hits
<1>8. PICK f : f = [i \in S |-> n - i]
  OBVIOUS
<1>9. ASSUME NEW i \in S PROVE f[i] \in T /\ f[i] = n - i /\ i \in 1 .. n - 1
  BY <1>6, <1>7, <1>8
<1>10. \A i \in S : \A j \in S : f[i] = f[j] => i = j
  BY <1>2, <1>9
<1>11. ASSUME NEW k \in T PROVE \E i \in S : f[i] = k
  <2>1. PICK i : i = n - k
    OBVIOUS
  <2>2. k \in 1 .. n - 1 /\ i \in 1 .. n - 1 /\ k = n - i
    BY <1>2, <1>7, <2>1
  <2>3. {r[k], r[k + 1]} = x
    BY <1>7
  <2>4. {l[i], l[i + 1]} = x
    BY <1>6, <2>2, <2>3
  <2>5. i \in S
    BY <1>7, <2>2, <2>4
  <2> QED BY <1>9, <2>2, <2>5
<1>12. f \in [S -> T]
  BY <1>8, <1>9
<1> QED BY <1>4, <1>5, <1>10, <1>11, <1>12, SameSize

\* t is u and then v, whose first point is the last of u.
Glued(t, u, v) ==
  /\ IsList(t) /\ Len(t) = Len(u) + Len(v) - 1
  /\ \A i \in 1 .. Len(u) : t[i] = u[i]
  /\ \A i \in 1 .. Len(v) : t[Len(u) - 1 + i] = v[i]

\* That is how they are joined.
LEMMA GluedIs ==
  ASSUME NEW u, IsLine(u), NEW v, IsLine(v), Last(u) = v[1], NEW t, t = u \o Tail(v)
  PROVE  Glued(t, u, v)
<1>1. PICK m, n, w : m = Len(u) /\ n = Len(v) /\ w = Tail(v)
  OBVIOUS
<1>2. IsList(u) /\ IsList(v) /\ m \in Nat /\ n \in Nat /\ m >= 1 /\ n >= 1
  BY <1>1, ListIs DEF IsLine
<1>3. IsList(w) /\ Len(w) = n - 1 /\ \A i \in 1 .. n - 1 : w[i] = v[i + 1]
  <2>1. Len(v) >= 1
    BY <1>1, <1>2
  <2>2. IsList(w) /\ Len(w) = Len(v) - 1
    BY <1>1, <1>2, <2>1, ListTail
  <2>3. \A i \in 1 .. Len(v) - 1 : w[i] = v[i + 1]
    BY <1>1, <1>2, <2>1, ListTail
  <2> QED BY <1>1, <2>2, <2>3
<1>4. IsList(t) /\ Len(t) = m + n - 1
  <2>1. IsList(t) /\ Len(t) = Len(u) + Len(w)
    BY <1>1, <1>2, <1>3, ListConcat
  <2> QED BY <1>1, <1>2, <1>3, <2>1
<1>5. \A i \in 1 .. m : t[i] = u[i]
  <2>1. \A i \in 1 .. Len(u) : t[i] = u[i]
    BY <1>1, <1>2, <1>3, ListConcat
  <2> QED BY <1>1, <2>1
<1>6. \A i \in 1 .. n - 1 : t[m + i] = v[i + 1]
  <2>1. \A i \in 1 .. Len(w) : t[Len(u) + i] = w[i]
    BY <1>1, <1>2, <1>3, ListConcat
  <2> QED BY <1>1, <1>3, <2>1
<1>7. ASSUME NEW i \in 1 .. n PROVE t[m - 1 + i] = v[i]
  <2>1. CASE i = 1
    <3>1. m \in 1 .. m /\ m - 1 + i = m
      BY <1>2, <2>1
    <3>2. t[m] = u[m]
      BY <1>5, <3>1
    <3>3. u[m] = v[1]
      BY <1>1 DEF Last
    <3> QED BY <2>1, <3>1, <3>2, <3>3
  <2>2. CASE i # 1
    <3>1. PICK j : j = i - 1
      OBVIOUS
    <3>2. j \in 1 .. n - 1 /\ m - 1 + i = m + j /\ j + 1 = i
      BY <1>2, <2>2, <3>1
    <3> QED BY <1>6, <3>2
  <2> QED BY <2>1, <2>2
<1> QED BY <1>1, <1>4, <1>5, <1>7 DEF Glued

\* It goes from the beginning of u to the end of v.
LEMMA GluedLine ==
  ASSUME NEW t, NEW u, NEW v, IsLine(u), IsLine(v), Glued(t, u, v)
  PROVE  IsLine(t) /\ t[1] = u[1] /\ Last(t) = Last(v)
<1>1. PICK m, n : m = Len(u) /\ n = Len(v)
  OBVIOUS
<1>2. m \in Nat /\ n \in Nat /\ m >= 1 /\ n >= 1
  BY <1>1, ListIs DEF IsLine
<1>3. IsList(t) /\ Len(t) = m + n - 1
  BY <1>1 DEF Glued
<1>4. m + n - 1 >= 1 /\ 1 \in 1 .. m /\ n \in 1 .. n /\ m - 1 + n = m + n - 1
  BY <1>2
<1>5. t[1] = u[1] /\ t[m - 1 + n] = v[n]
  BY <1>1, <1>4 DEF Glued
<1> QED BY <1>1, <1>3, <1>4, <1>5 DEF IsLine, Last

\* It has the segments of both.
LEMMA GluedHits ==
  ASSUME NEW t, NEW u, NEW v, IsLine(u), IsLine(v), Glued(t, u, v), NEW x
  PROVE  Cardinality(Hits(x, t)) = Cardinality(Hits(x, u)) + Cardinality(Hits(x, v))
<1>1. PICK m, n : m = Len(u) /\ n = Len(v)
  OBVIOUS
<1>2. IsList(u) /\ IsList(v) /\ m \in Nat /\ n \in Nat /\ m >= 1 /\ n >= 1
  BY <1>1, ListIs DEF IsLine
<1>3. /\ Len(t) = m + n - 1
      /\ \A i \in 1 .. m : t[i] = u[i]
      /\ \A i \in 1 .. n : t[m - 1 + i] = v[i]
  BY <1>1 DEF Glued
<1>4. PICK R, S, T : R = Hits(x, u) /\ S = Hits(x, v) /\ T = Hits(x, t)
  OBVIOUS
<1>5. /\ R = {i \in 1 .. m - 1 : {u[i], u[i + 1]} = x}
      /\ S = {i \in 1 .. n - 1 : {v[i], v[i + 1]} = x}
      /\ T = {i \in 1 .. m + n - 2 : {t[i], t[i + 1]} = x}
  <2>1. Len(t) - 1 = m + n - 2
    BY <1>2, <1>3
  <2> QED BY <1>1, <1>4, <2>1 DEF Hits
<1>6. IsFiniteSet(R) /\ IsFiniteSet(S)
  BY <1>2, <1>4, HitsFinite
<1>7. PICK Q : Q = {i \in m .. m + n - 2 : {t[i], t[i + 1]} = x}
  OBVIOUS
<1>8. IsFiniteSet(Q) /\ Cardinality(Q) = Cardinality(S)
  <2>1. PICK f : f = [i \in S |-> m - 1 + i]
    OBVIOUS
  <2>2. ASSUME NEW i \in 1 .. n - 1
        PROVE  /\ m - 1 + i \in m .. m + n - 2
               /\ {t[m - 1 + i], t[m - 1 + i + 1]} = {v[i], v[i + 1]}
    <3>1. i \in 1 .. n /\ i + 1 \in 1 .. n /\ m - 1 + i + 1 = m - 1 + (i + 1)
      BY <1>2
    <3>2. t[m - 1 + i] = v[i] /\ t[m - 1 + (i + 1)] = v[i + 1]
      BY <1>3, <3>1
    <3>3. m - 1 + i \in m .. m + n - 2
      BY <1>2
    <3> QED BY <3>1, <3>2, <3>3
  <2>3. ASSUME NEW i \in S PROVE f[i] \in Q /\ f[i] = m - 1 + i /\ i \in 1 .. n - 1
    BY <1>5, <1>7, <2>1, <2>2
  <2>4. \A i \in S : \A j \in S : f[i] = f[j] => i = j
    BY <1>2, <2>3
  <2>5. ASSUME NEW k \in Q PROVE \E i \in S : f[i] = k
    <3>1. PICK i : i = k - m + 1
      OBVIOUS
    <3>2. i \in 1 .. n - 1 /\ k = m - 1 + i
      BY <1>2, <1>7, <3>1
    <3>3. {t[k], t[k + 1]} = x
      BY <1>7
    <3>4. {v[i], v[i + 1]} = x
      BY <2>2, <3>2, <3>3
    <3>5. i \in S
      BY <1>5, <3>2, <3>4
    <3> QED BY <2>3, <3>2, <3>5
  <2>6. f \in [S -> Q]
    BY <2>1, <2>3
  <2> QED BY <1>6, <2>4, <2>5, <2>6, SameSize
<1>9. T = R \cup Q /\ R \cap Q = {}
  <2>1. ASSUME NEW i \in 1 .. m - 1 PROVE {t[i], t[i + 1]} = {u[i], u[i + 1]}
    <3>1. i \in 1 .. m /\ i + 1 \in 1 .. m
      BY <1>2
    <3> QED BY <1>3, <3>1
  <2>2. R = {i \in 1 .. m - 1 : {t[i], t[i + 1]} = x}
    BY <1>5, <2>1
  <2>3. 1 .. m + n - 2 = (1 .. m - 1) \cup (m .. m + n - 2)
    BY <1>2
  <2>4. (1 .. m - 1) \cap (m .. m + n - 2) = {}
    BY <1>2
  <2> QED BY <1>5, <1>7, <2>2, <2>3, <2>4
<1>10. Cardinality(T) = Cardinality(R) + Cardinality(Q)
  BY <1>6, <1>8, <1>9, SizesAdd
<1> QED BY <1>4, <1>8, <1>10

\* A turned line.
LEMMA ReverseLine ==
  ASSUME NEW l, IsLine(l), NEW r, r = Reverse(l)
  PROVE  IsLine(r) /\ r[1] = Last(l) /\ Last(r) = l[1]
<1>1. PICK n : n = Len(l)
  OBVIOUS
<1>2. IsList(l) /\ n \in Nat /\ n >= 1
  BY <1>1, ListIs DEF IsLine
<1>3. IsList(r) /\ Len(r) = Len(l)
  BY <1>2, ListReverse
<1>4. \A i \in 1 .. Len(l) : r[i] = l[Len(l) - i + 1]
  BY <1>2, ListReverse
<1>5. 1 \in 1 .. n /\ n \in 1 .. n /\ n - 1 + 1 = n /\ n - n + 1 = 1
  BY <1>2
<1>6. r[1] = l[n] /\ r[n] = l[1]
  BY <1>1, <1>4, <1>5
<1> QED BY <1>1, <1>2, <1>3, <1>6 DEF IsLine, Last

\* What two lines with a common end are joined to: a line between their other ends, with
\* the segments of both.
Merges(t, l, p) ==
  /\ IsLine(t)
  /\ \E c, d, e : EndsOf(l) = {c, d} /\ EndsOf(p) = {c, e} /\ EndsOf(t) = {d, e}
  /\ \A x : Cardinality(Hits(x, t)) = Cardinality(Hits(x, l)) + Cardinality(Hits(x, p))

\* A line after a line, and the same the other way round.
LEMMA MergedHow ==
  ASSUME NEW u, NEW v, NEW t, IsLine(u), IsLine(v), Last(u) = v[1], t = u \o Tail(v)
  PROVE  Merges(t, u, v) /\ Merges(t, v, u)
<1>1. Glued(t, u, v)
  BY GluedIs
<1>2. IsLine(t) /\ t[1] = u[1] /\ Last(t) = Last(v)
  BY <1>1, GluedLine
<1>3. \A x : Cardinality(Hits(x, t)) = Cardinality(Hits(x, u)) + Cardinality(Hits(x, v))
  BY <1>1, GluedHits
<1>4. \A x : Cardinality(Hits(x, t)) = Cardinality(Hits(x, v)) + Cardinality(Hits(x, u))
  <2> TAKE x
  <2>1. Cardinality(Hits(x, u)) \in Nat /\ Cardinality(Hits(x, v)) \in Nat
    BY HitsFinite DEF IsLine
  <2> QED BY <1>3, <2>1
<1>5. PICK c, d, e : c = v[1] /\ d = u[1] /\ e = Last(v)
  OBVIOUS
<1>6. EndsOf(u) = {c, d} /\ EndsOf(v) = {c, e} /\ EndsOf(t) = {d, e} /\ EndsOf(t) = {e, d}
  BY <1>2, <1>5 DEF EndsOf
<1> QED BY <1>2, <1>3, <1>4, <1>6 DEF Merges

\* A line that is turned is joined the same.
LEMMA MergedTurned ==
  ASSUME NEW u, NEW v, NEW t, IsLine(u), NEW r, r = Reverse(u)
  PROVE  (Merges(t, r, v) => Merges(t, u, v)) /\ (Merges(t, v, r) => Merges(t, v, u))
<1>1. EndsOf(r) = EndsOf(u)
  BY ReverseLine DEF EndsOf
<1>2. \A x : Cardinality(Hits(x, r)) = Cardinality(Hits(x, u))
  BY ReverseHits
<1>3. Merges(t, r, v) => Merges(t, u, v)
  BY <1>1, <1>2 DEF Merges
<1>4. Merges(t, v, r) => Merges(t, v, u)
  BY <1>1, <1>2 DEF Merges
<1> QED BY <1>3, <1>4

\* Line::mergePoints joins lines that have an end in common.
LEMMA MergedLineIs ==
  ASSUME NEW l, IsLine(l), NEW p, IsLine(p), EndsOf(l) \cap EndsOf(p) # {},
         NEW t, t = MergedLine(l, p)
  PROVE  Merges(t, l, p)
<1>1. CASE l[1] = p[1]
  <2>1. PICK r : r = Reverse(l)
    OBVIOUS
  <2>2. IsLine(r) /\ Last(r) = p[1]
    BY <1>1, <2>1, ReverseLine
  <2>3. t = r \o Tail(p)
    BY <1>1, <2>1 DEF MergedLine
  <2>4. Merges(t, r, p)
    BY <2>2, <2>3, MergedHow
  <2> QED BY <2>1, <2>4, MergedTurned
<1>2. CASE l[1] # p[1] /\ Last(l) = p[1]
  <2>1. t = l \o Tail(p)
    BY <1>2 DEF MergedLine
  <2> QED BY <1>2, <2>1, MergedHow
<1>3. CASE p[1] \notin {l[1], Last(l)} /\ Last(l) = Last(p)
  <2>1. PICK r : r = Reverse(p)
    OBVIOUS
  <2>2. IsLine(r) /\ Last(l) = r[1]
    BY <1>3, <2>1, ReverseLine
  <2>3. t = l \o Tail(r)
    BY <1>3, <2>1 DEF MergedLine
  <2>4. Merges(t, l, r)
    BY <2>2, <2>3, MergedHow
  <2> QED BY <2>1, <2>4, MergedTurned
<1>4. CASE p[1] \notin {l[1], Last(l)} /\ Last(l) # Last(p) /\ l[1] = Last(p)
  <2>1. t = p \o Tail(l)
    BY <1>4 DEF MergedLine
  <2> QED BY <1>4, <2>1, MergedHow
<1> QED BY <1>1, <1>2, <1>3, <1>4 DEF EndsOf
-----------------------------------------------------------------------------
(* The lines of a shape. *)

\* The pieces between the two points of x of the lines with these ids.
LineHits(x, line, B) == UNION {{id} \X Hits(x, line[id]) : id \in B}

\* There are finitely many.
LEMMA LineHitsFinite ==
  ASSUME NEW B, IsFiniteSet(B), NEW line, \A id \in B : IsList(line[id]), NEW x
  PROVE  IsFiniteSet(LineHits(x, line, B)) /\ Cardinality(LineHits(x, line, B)) \in Nat
<1>1. PICK f : f = [id \in B |-> {id} \X Hits(x, line[id])]
  OBVIOUS
<1>2. PICK F : F = {f[id] : id \in B}
  OBVIOUS
<1>3. f \in Surjection(B, F)
  BY <1>1, <1>2 DEF Surjection
<1>4. IsFiniteSet(F)
  BY <1>3, FS_Surjection DEF ExistsSurjection
<1>5. ASSUME NEW id \in B PROVE IsFiniteSet(f[id])
  <2>1. IsFiniteSet(Hits(x, line[id]))
    BY HitsFinite
  <2>2. PICK g : g = [i \in Hits(x, line[id]) |-> <<id, i>>]
    OBVIOUS
  <2>3. g \in [Hits(x, line[id]) -> f[id]]
    BY <1>1, <2>2
  <2>4. \A y \in f[id] : \E i \in Hits(x, line[id]) : g[i] = y
    BY <1>1, <2>2
  <2>5. \A i \in Hits(x, line[id]) : \A j \in Hits(x, line[id]) : g[i] = g[j] => i = j
    BY <2>2
  <2> QED BY <2>1, <2>3, <2>4, <2>5, SameSize
<1>6. \A S \in F : IsFiniteSet(S)
  BY <1>2, <1>5
<1>7. IsFiniteSet(UNION F)
  BY <1>4, <1>6, FS_UNION
<1>8. LineHits(x, line, B) = UNION F
  BY <1>1, <1>2 DEF LineHits
<1> QED BY <1>7, <1>8, FS_CardinalityType

\* One line more.
LEMMA LineHitsMore ==
  ASSUME NEW B, IsFiniteSet(B), NEW line, NEW l, l \notin B,
         \A id \in B \cup {l} : IsList(line[id]), NEW x
  PROVE  Cardinality(LineHits(x, line, B \cup {l}))
           = Cardinality(LineHits(x, line, B)) + Cardinality(Hits(x, line[l]))
<1>1. PICK S, H, T : S = LineHits(x, line, B) /\ H = Hits(x, line[l]) /\ T = {l} \X H
  OBVIOUS
<1>2. IsFiniteSet(S)
  BY <1>1, LineHitsFinite
<1>3. IsFiniteSet(H)
  BY <1>1, HitsFinite
<1>4. IsFiniteSet(T) /\ Cardinality(T) = Cardinality(H)
  <2>1. PICK g : g = [i \in H |-> <<l, i>>]
    OBVIOUS
  <2>2. g \in [H -> T]
    BY <1>1, <2>1
  <2>3. \A y \in T : \E i \in H : g[i] = y
    BY <1>1, <2>1
  <2>4. \A i \in H : \A j \in H : g[i] = g[j] => i = j
    BY <2>1
  <2> QED BY <1>3, <2>2, <2>3, <2>4, SameSize
<1>5. LineHits(x, line, B \cup {l}) = S \cup T
  BY <1>1 DEF LineHits
<1>6. S \cap T = {}
  <2>1. \A e \in T : e[1] = l
    BY <1>1
  <2>2. \A e \in S : e[1] \in B
    BY <1>1 DEF LineHits
  <2> QED BY <2>1, <2>2
<1>7. Cardinality(S \cup T) = Cardinality(S) + Cardinality(T)
  BY <1>2, <1>4, <1>6, SizesAdd
<1> QED BY <1>1, <1>4, <1>5, <1>7

\* They are those of the lines there are.
LEMMA LineHitsSame ==
  ASSUME NEW B, NEW line, NEW more, \A id \in B : more[id] = line[id], NEW x
  PROVE  LineHits(x, more, B) = LineHits(x, line, B)
  BY DEF LineHits

EpOf(line, A) == UNION {EndsOf(line[id]) \X {id} : id \in A}
PointsAt(line, A) == UNION {EndsOf(line[id]) : id \in A}

\* Lines that do not meet themselves, nor each other at their ends.
Apart(line, A) ==
  /\ \A id \in A : IsLine(line[id]) /\ ~Meets(line[id])
  /\ \A i \in A : \A j \in A : i # j => EndsOf(line[i]) \cap EndsOf(line[j]) = {}

ShapeFields == {"line", "opened", "closed", "ep"}

\* The ids that a shape knows.
Listed(s) ==
  /\ DOMAIN s = ShapeFields
  /\ IsList(s.line) /\ IsList(s.opened) /\ IsList(s.closed)
  /\ Distinct(s.opened) /\ Distinct(s.closed)
  /\ ToSet(s.opened) \cap ToSet(s.closed) = {}
  /\ ToSet(s.opened) \cup ToSet(s.closed) \subseteq 1 .. Len(s.line)

ClosedMeet(s) == \A id \in ToSet(s.closed) : IsLine(s.line[id]) /\ Meets(s.line[id])

\* The open lines but those of X lie apart, their ends are in the map of ends, and are
\* the points of O.
OpenApart(s, X, O) ==
  /\ X \subseteq ToSet(s.opened)
  /\ \A id \in X : IsLine(s.line[id])
  /\ Apart(s.line, ToSet(s.opened) \ X)
  /\ s.ep = EpOf(s.line, ToSet(s.opened) \ X)
  /\ O = PointsAt(s.line, ToSet(s.opened) \ X)

Assembled(s, X, O) == Listed(s) /\ ClosedMeet(s) /\ OpenApart(s, X, O)

\* The segments of a shape between the points of x.
SegmentsIn(x, s) == Cardinality(LineHits(x, s.line, ToSet(s.opened) \cup ToSet(s.closed)))
SameSegments(s, t) == \A x : SegmentsIn(x, t) = SegmentsIn(x, s)

\* There are finitely many ids, and their lines are lists.
LEMMA ShapeLists ==
  ASSUME NEW s, NEW X, NEW O, Assembled(s, X, O)
  PROVE  /\ IsFiniteSet(ToSet(s.opened) \cup ToSet(s.closed))
         /\ \A id \in ToSet(s.opened) \cup ToSet(s.closed) :
              IsLine(s.line[id]) /\ IsList(s.line[id])
<1>1. PICK n, B : n = Len(s.line) /\ B = ToSet(s.opened) \cup ToSet(s.closed)
  OBVIOUS
<1>2. n \in Nat
  BY <1>1, ListIs DEF Assembled, Listed
<1>3. B \in SUBSET (1 .. n) /\ IsFiniteSet(1 .. n)
  <2>1. B \subseteq 1 .. n
    BY <1>1 DEF Assembled, Listed
  <2>2. IsFiniteSet(1 .. n)
    BY <1>2, FS_Interval
  <2> QED BY <2>1, <2>2
<1>4. IsFiniteSet(B)
  BY <1>3, FS_Subset
<1>5. \A id \in B : IsLine(s.line[id])
  BY <1>1 DEF Assembled, ClosedMeet, OpenApart, Apart
<1> QED BY <1>1, <1>4, <1>5 DEF IsLine

\* A line is found at its ends, and only there.
LEMMA EpFindIs ==
  ASSUME NEW s, NEW X, NEW O, OpenApart(s, X, O), NEW p
  PROVE  /\ p \notin O => EpFind(s, p) = {}
         /\ p \in O => \E id \in ToSet(s.opened) \ X :
                          EpFind(s, p) = {id} /\ p \in EndsOf(s.line[id])
<1>1. PICK A, line, ep : A = ToSet(s.opened) \ X /\ line = s.line /\ ep = s.ep
  OBVIOUS
<1>2. Apart(line, A) /\ ep = EpOf(line, A) /\ O = PointsAt(line, A)
  BY <1>1 DEF OpenApart
<1>3. PICK found : found = {e \in ep : e[1] = p}
  OBVIOUS
<1>4. EpFind(s, p) = IF found = {} THEN {} ELSE {(CHOOSE e \in found : TRUE)[2]}
  BY <1>1, <1>3 DEF EpFind
<1>5. \A e \in found : e[2] \in A /\ p \in EndsOf(line[e[2]])
  BY <1>2, <1>3 DEF EpOf
<1>6. \A id \in A : p \in EndsOf(line[id]) => <<p, id>> \in found
  BY <1>2, <1>3 DEF EpOf
<1>7. CASE p \notin O
  <2>1. found = {}
    BY <1>2, <1>5, <1>7 DEF PointsAt
  <2> QED BY <1>4, <1>7, <2>1
<1>8. CASE p \in O
  <2>1. PICK id \in A : p \in EndsOf(line[id])
    BY <1>2, <1>8 DEF PointsAt
  <2>2. found # {}
    BY <1>6, <2>1
  <2>3. PICK e : e = CHOOSE f \in found : TRUE
    OBVIOUS
  <2>4. e \in found
    BY <2>2, <2>3
  <2>5. e[2] \in A /\ p \in EndsOf(line[e[2]])
    BY <1>5, <2>4
  <2>6. EpFind(s, p) = {e[2]}
    BY <1>4, <2>2, <2>3
  <2> QED BY <1>1, <1>8, <2>5, <2>6
<1> QED BY <1>7, <1>8
-----------------------------------------------------------------------------
(* What is done to a shape. *)

\* The ends of a line are taken from the map.
LEMMA Detached ==
  ASSUME NEW s, NEW X, NEW O, Assembled(s, X, O), NEW l \in ToSet(s.opened) \ X,
         NEW t, t = EpRemove(s, l)
  PROVE  /\ Assembled(t, X \cup {l}, O \ EndsOf(s.line[l])) /\ SameSegments(s, t)
         /\ t.line = s.line /\ t.opened = s.opened /\ t.closed = s.closed
<1>1. PICK line, A, B : /\ line = s.line /\ A = ToSet(s.opened) \ X
                        /\ B = ToSet(s.opened) \ (X \cup {l})
  OBVIOUS
<1>2. B = A \ {l} /\ l \in A
  BY <1>1
<1>3. /\ DOMAIN t = ShapeFields /\ t.line = s.line /\ t.opened = s.opened /\ t.closed = s.closed
      /\ t.ep = s.ep \ {<<line[l][1], l>>, <<Last(line[l]), l>>}
  BY <1>1 DEF EpRemove, Assembled, Listed, ShapeFields
<1>4. Apart(line, A) /\ s.ep = EpOf(line, A) /\ O = PointsAt(line, A)
  BY <1>1 DEF Assembled, OpenApart
<1>5. Apart(line, B)
  BY <1>2, <1>4 DEF Apart
<1>6. t.ep = EpOf(line, B)
  <2>1. {<<line[l][1], l>>, <<Last(line[l]), l>>} = EndsOf(line[l]) \X {l}
    BY DEF EndsOf
  <2>2. t.ep = EpOf(line, A) \ (EndsOf(line[l]) \X {l})
    BY <1>3, <1>4, <2>1
  <2>3. EpOf(line, A) = EpOf(line, B) \cup (EndsOf(line[l]) \X {l})
    BY <1>2 DEF EpOf
  <2>4. EpOf(line, B) \cap (EndsOf(line[l]) \X {l}) = {}
    BY <1>2 DEF EpOf
  <2> QED BY <2>2, <2>3, <2>4
<1>7. O \ EndsOf(line[l]) = PointsAt(line, B)
  <2>1. O = PointsAt(line, B) \cup EndsOf(line[l])
    BY <1>2, <1>4 DEF PointsAt
  <2>2. PointsAt(line, B) \cap EndsOf(line[l]) = {}
    BY <1>2, <1>4 DEF PointsAt, Apart
  <2> QED BY <2>1, <2>2
<1>8. OpenApart(t, X \cup {l}, O \ EndsOf(s.line[l]))
  <2>1. X \cup {l} \subseteq ToSet(t.opened)
    BY <1>3 DEF Assembled, OpenApart
  <2>2. \A id \in X \cup {l} : IsLine(t.line[id])
    BY <1>1, <1>2, <1>3, <1>4 DEF Assembled, OpenApart, Apart
  <2> QED BY <1>1, <1>3, <1>5, <1>6, <1>7, <2>1, <2>2 DEF OpenApart
<1>9. Listed(t)
  BY <1>3 DEF Assembled, Listed
<1>10. ClosedMeet(t)
  BY <1>3 DEF Assembled, ClosedMeet
<1>11. SameSegments(s, t)
  BY <1>3 DEF SameSegments, SegmentsIn
<1> QED BY <1>3, <1>8, <1>9, <1>10, <1>11 DEF Assembled

\* In the shape t the line l has the points p, and the segments are those of s but that
\* those of the line k are left out.
HasLine(s, t, l, p) ==
  /\ t.opened = s.opened /\ t.closed = s.closed /\ Len(t.line) = Len(s.line) /\ t.line[l] = p
  /\ \A id \in 1 .. Len(s.line) : id # l => t.line[id] = s.line[id]
Swaps(s, t, k, p) ==
  \A x : SegmentsIn(x, t) + Cardinality(Hits(x, k)) = SegmentsIn(x, s) + Cardinality(Hits(x, p))
LacksLine(s, t, l) ==
  /\ ToSet(t.opened) = ToSet(s.opened) \ {l} /\ Len(t.line) = Len(s.line)
  /\ \A id \in 1 .. Len(s.line) : id # l => t.line[id] = s.line[id]
Lacks(s, t, k) == \A x : SegmentsIn(x, t) + Cardinality(Hits(x, k)) = SegmentsIn(x, s)

\* A line whose ends are not in the map gets other points.
LEMMA Changed ==
  ASSUME NEW s, NEW X, NEW O, Assembled(s, X, O), NEW l \in X, NEW p, IsLine(p),
         NEW t, t = [s EXCEPT !.line[l] = p]
  PROVE  Assembled(t, X, O) /\ HasLine(s, t, l, p) /\ Swaps(s, t, s.line[l], p)
<1>1. PICK n, line, more, A, C : /\ n = Len(s.line) /\ line = s.line
                                 /\ more = [line EXCEPT ![l] = p]
                                 /\ A = ToSet(s.opened) \ X /\ C = ToSet(s.closed)
  OBVIOUS
<1>2. Listed(s) /\ ClosedMeet(s) /\ OpenApart(s, X, O)
  BY DEF Assembled
<1>3. /\ DOMAIN t = ShapeFields /\ t.line = more /\ t.opened = s.opened /\ t.closed = s.closed
      /\ t.ep = s.ep
  BY <1>1, <1>2 DEF Listed, ShapeFields
<1>4. l \in 1 .. n /\ l \notin A /\ l \notin C /\ A \subseteq 1 .. n /\ C \subseteq 1 .. n
  BY <1>1, <1>2 DEF Listed, OpenApart
<1>5. IsList(line)
  BY <1>1, <1>2 DEF Listed
<1>6. IsList(more) /\ Len(more) = n /\ more[l] = p
  BY <1>1, <1>4, <1>5, ListExcept
<1>7. \A id \in 1 .. n : id # l => more[id] = line[id]
  BY <1>1, <1>4, <1>5, ListExcept
<1>8. \A id \in A \cup C : more[id] = line[id]
  BY <1>4, <1>7
<1>9. Listed(t)
  BY <1>1, <1>2, <1>3, <1>6 DEF Listed
<1>10. ClosedMeet(t)
  BY <1>1, <1>2, <1>3, <1>8 DEF ClosedMeet
<1>11. OpenApart(t, X, O)
  <2>1. Apart(line, A) /\ s.ep = EpOf(line, A) /\ O = PointsAt(line, A)
    BY <1>1, <1>2 DEF OpenApart
  <2>2. Apart(more, A)
    BY <1>8, <2>1 DEF Apart
  <2>3. EpOf(more, A) = EpOf(line, A)
    BY <1>8 DEF EpOf
  <2>4. PointsAt(more, A) = PointsAt(line, A)
    BY <1>8 DEF PointsAt
  <2>5. \A id \in X : id \in 1 .. n /\ IsLine(line[id])
    BY <1>1, <1>2 DEF OpenApart, Listed
  <2>6. \A id \in X : IsLine(more[id])
    BY <1>6, <1>7, <2>5
  <2>7. X \subseteq ToSet(t.opened)
    BY <1>2, <1>3 DEF OpenApart
  <2> QED BY <1>1, <1>3, <2>1, <2>2, <2>3, <2>4, <2>6, <2>7 DEF OpenApart
<1>12. ASSUME NEW x
       PROVE  SegmentsIn(x, t) + Cardinality(Hits(x, s.line[l]))
                = SegmentsIn(x, s) + Cardinality(Hits(x, p))
  <2>1. PICK B, R : B = ToSet(s.opened) \cup C /\ R = B \ {l}
    OBVIOUS
  <2>2. IsFiniteSet(B) /\ \A id \in B : IsList(line[id])
    BY <1>1, <2>1, ShapeLists
  <2>3. l \in B /\ B = R \cup {l} /\ l \notin R /\ R \subseteq 1 .. n
    BY <1>1, <1>2, <2>1 DEF OpenApart, Listed
  <2>4. IsFiniteSet(R)
    BY <2>1, <2>2, FS_RemoveElement
  <2>5. \A id \in R : more[id] = line[id]
    BY <1>7, <2>3
  <2>6. IsList(p)
    BY DEF IsLine
  <2>7. \A id \in R \cup {l} : IsList(line[id])
    BY <2>2, <2>3
  <2>8. \A id \in R \cup {l} : IsList(more[id])
    BY <1>6, <2>5, <2>6, <2>7
  <2>9. PICK a, b, c : /\ a = Cardinality(LineHits(x, line, R)) /\ b = Cardinality(Hits(x, line[l]))
                       /\ c = Cardinality(Hits(x, p))
    OBVIOUS
  <2>10. a \in Nat /\ b \in Nat /\ c \in Nat
    <3>1. a \in Nat
      BY <2>4, <2>7, <2>9, LineHitsFinite
    <3>2. b \in Nat
      BY <2>7, <2>9, HitsFinite
    <3>3. c \in Nat
      BY <2>6, <2>9, HitsFinite
    <3> QED BY <3>1, <3>2, <3>3
  <2>11. Cardinality(LineHits(x, line, R \cup {l})) = a + b
    BY <2>3, <2>4, <2>7, <2>9, LineHitsMore
  <2>12. Cardinality(LineHits(x, more, R \cup {l})) = a + c
    <3>1. Cardinality(LineHits(x, more, R \cup {l}))
            = Cardinality(LineHits(x, more, R)) + Cardinality(Hits(x, more[l]))
      <4>1. IsFiniteSet(R) /\ l \notin R /\ \A id \in R \cup {l} : IsList(more[id])
        BY <2>3, <2>4, <2>8
      <4> QED BY <4>1, LineHitsMore, SMTT(60)
    <3>2. LineHits(x, more, R) = LineHits(x, line, R)
      BY <2>5, LineHitsSame
    <3> QED BY <1>6, <2>9, <3>1, <3>2
  <2>13. SegmentsIn(x, s) = a + b /\ SegmentsIn(x, t) = a + c
    BY <1>1, <1>3, <2>1, <2>3, <2>11, <2>12 DEF SegmentsIn
  <2> QED BY <1>1, <2>9, <2>10, <2>13
<1>13. HasLine(s, t, l, p)
  BY <1>1, <1>3, <1>6, <1>7 DEF HasLine
<1>14. Swaps(s, t, s.line[l], p)
  BY <1>12 DEF Swaps
<1> QED BY <1>9, <1>10, <1>11, <1>13, <1>14 DEF Assembled

\* A line whose ends are not in the map is done: it is closed, or its ends are new.
LEMMA SettledIs ==
  ASSUME NEW s, NEW O, NEW l, Assembled(s, {l}, O), NEW t, t = Settled(s, l)
  PROVE  /\ Meets(s.line[l]) => Assembled(t, {}, O)
         /\ ~Meets(s.line[l]) /\ EndsOf(s.line[l]) \cap O = {}
              => Assembled(t, {}, O \cup EndsOf(s.line[l]))
         /\ SameSegments(s, t)
<1>1. PICK line, A, U, C : /\ line = s.line /\ U = ToSet(s.opened) /\ A = U \ {l}
                           /\ C = ToSet(s.closed)
  OBVIOUS
<1>2. Listed(s) /\ ClosedMeet(s) /\ OpenApart(s, {l}, O)
  BY DEF Assembled
<1>3. l \in U /\ IsLine(line[l]) /\ l \notin C
  BY <1>1, <1>2 DEF OpenApart, Listed
<1>4. CASE Meets(line[l])
  <2>1. PICK opened, closed : opened = Without(s.opened, l) /\ closed = Append(s.closed, l)
    OBVIOUS
  <2>2. t = [s EXCEPT !.closed = closed, !.opened = opened]
    BY <1>1, <1>4, <2>1 DEF Settled
  <2>3. /\ DOMAIN t = ShapeFields /\ t.line = line /\ t.opened = opened /\ t.closed = closed
        /\ t.ep = s.ep
    BY <1>1, <1>2, <2>2 DEF Listed, ShapeFields
  <2>4. IsList(opened) /\ Distinct(opened) /\ ToSet(opened) = A
    <3>1. IsList(s.opened) /\ Distinct(s.opened) /\ l \in ToSet(s.opened)
      BY <1>1, <1>2, <1>3 DEF Listed
    <3> QED BY <1>1, <2>1, <3>1, WithoutIs
  <2>5. IsList(closed) /\ Distinct(closed) /\ ToSet(closed) = C \cup {l}
    <3>1. IsList(s.closed) /\ Distinct(s.closed) /\ l \notin ToSet(s.closed)
      BY <1>1, <1>2, <1>3 DEF Listed
    <3> QED BY <1>1, <2>1, <3>1, AppendDistinct
  <2>6. A \cap (C \cup {l}) = {} /\ A \cup (C \cup {l}) = U \cup C
    BY <1>1, <1>2, <1>3 DEF Listed
  <2>7. Listed(t)
    BY <1>1, <1>2, <2>3, <2>4, <2>5, <2>6 DEF Listed
  <2>8. ClosedMeet(t)
    BY <1>1, <1>2, <1>3, <1>4, <2>3, <2>5 DEF ClosedMeet
  <2>9. OpenApart(t, {}, O)
    <3>1. A \ {} = A
      OBVIOUS
    <3> QED BY <1>1, <1>2, <2>3, <2>4, <3>1 DEF OpenApart
  <2>10. SameSegments(s, t)
    BY <1>1, <2>3, <2>4, <2>5, <2>6 DEF SameSegments, SegmentsIn
  <2> QED BY <1>1, <1>4, <2>7, <2>8, <2>9, <2>10 DEF Assembled
<1>5. CASE ~Meets(line[l])
  <2>1. t = EpAdd(s, l)
    BY <1>1, <1>5 DEF Settled
  <2>2. /\ DOMAIN t = ShapeFields /\ t.line = line /\ t.opened = s.opened /\ t.closed = s.closed
        /\ t.ep = s.ep \cup {<<line[l][1], l>>, <<Last(line[l]), l>>}
    BY <1>1, <1>2, <2>1 DEF EpAdd, Listed, ShapeFields
  <2>3. Listed(t)
    BY <1>1, <1>2, <2>2 DEF Listed
  <2>4. ClosedMeet(t)
    BY <1>1, <1>2, <2>2 DEF ClosedMeet
  <2>5. SameSegments(s, t)
    BY <1>1, <2>2 DEF SameSegments, SegmentsIn
  <2>6. ASSUME EndsOf(line[l]) \cap O = {}
        PROVE  OpenApart(t, {}, O \cup EndsOf(line[l]))
    <3>1. Apart(line, A) /\ s.ep = EpOf(line, A) /\ O = PointsAt(line, A)
      BY <1>1, <1>2 DEF OpenApart
    <3>2. U = A \cup {l}
      BY <1>1, <1>3
    <3>3. \A i \in A : EndsOf(line[i]) \cap EndsOf(line[l]) = {}
      BY <2>6, <3>1 DEF PointsAt
    <3>4. Apart(line, U)
      BY <1>3, <1>5, <3>1, <3>2, <3>3 DEF Apart
    <3>5. t.ep = EpOf(line, U)
      <4>1. {<<line[l][1], l>>, <<Last(line[l]), l>>} = EndsOf(line[l]) \X {l}
        BY DEF EndsOf
      <4>2. EpOf(line, U) = EpOf(line, A) \cup (EndsOf(line[l]) \X {l})
        BY <3>2 DEF EpOf
      <4> QED BY <2>2, <3>1, <4>1, <4>2
    <3>6. O \cup EndsOf(line[l]) = PointsAt(line, U)
      BY <3>1, <3>2 DEF PointsAt
    <3>7. U \ {} = U
      OBVIOUS
    <3> QED BY <1>1, <2>2, <3>4, <3>5, <3>6, <3>7 DEF OpenApart
  <2> QED BY <1>1, <1>5, <2>3, <2>4, <2>5, <2>6 DEF Assembled
<1> QED BY <1>1, <1>4, <1>5

\* A line whose ends are not in the map is given up.
LEMMA Dropped ==
  ASSUME NEW s, NEW X, NEW O, NEW l \in X, Assembled(s, X, O),
         NEW t, t = [s EXCEPT !.line[l] = << >>, !.opened = Without(@, l)]
  PROVE  Assembled(t, X \ {l}, O) /\ LacksLine(s, t, l) /\ Lacks(s, t, s.line[l])
<1>1. PICK n, line, more, A, U, C :
        /\ n = Len(s.line) /\ line = s.line /\ more = [line EXCEPT ![l] = << >>]
        /\ U = ToSet(s.opened) /\ A = U \ X /\ C = ToSet(s.closed)
  OBVIOUS
<1>2. Listed(s) /\ ClosedMeet(s) /\ OpenApart(s, X, O)
  BY DEF Assembled
<1>3. /\ l \in U /\ l \notin C /\ l \in 1 .. n /\ A \subseteq 1 .. n /\ C \subseteq 1 .. n
      /\ l \notin A /\ X \subseteq U /\ U \subseteq 1 .. n
  BY <1>1, <1>2 DEF OpenApart, Listed
<1>4. PICK opened : opened = Without(s.opened, l)
  OBVIOUS
<1>5. /\ DOMAIN t = ShapeFields /\ t.line = more /\ t.opened = opened /\ t.closed = s.closed
      /\ t.ep = s.ep
  BY <1>1, <1>2, <1>4 DEF Listed, ShapeFields
<1>6. IsList(opened) /\ Distinct(opened) /\ ToSet(opened) = U \ {l}
  <2>1. IsList(s.opened) /\ Distinct(s.opened) /\ l \in ToSet(s.opened)
    BY <1>1, <1>2, <1>3 DEF Listed
  <2> QED BY <1>1, <1>4, <2>1, WithoutIs
<1>7. IsList(line)
  BY <1>1, <1>2 DEF Listed
<1>8. /\ IsList(more) /\ Len(more) = n
      /\ \A id \in 1 .. n : id # l => more[id] = line[id]
  <2>1. PICK e : e = << >>
    OBVIOUS
  <2>2. l \in 1 .. Len(line) /\ more = [line EXCEPT ![l] = e]
    BY <1>1, <1>3, <2>1
  <2>3. IsList(more) /\ Len(more) = Len(line)
    BY <1>7, <2>2, ListExcept
  <2>4. \A id \in 1 .. Len(line) : id # l => more[id] = line[id]
    BY <1>7, <2>2, ListExcept
  <2>5. Len(line) = n
    BY <1>1
  <2> QED BY <2>3, <2>4, <2>5
<1>9. \A id \in 1 .. n : id # l => more[id] = line[id]
  BY <1>8
<1>10. \A id \in (U \ {l}) \cup C : more[id] = line[id]
  BY <1>3, <1>9
<1>11. Listed(t)
  BY <1>1, <1>2, <1>3, <1>5, <1>6, <1>8 DEF Listed
<1>12. ClosedMeet(t)
  BY <1>1, <1>2, <1>5, <1>10 DEF ClosedMeet
<1>13. OpenApart(t, X \ {l}, O)
  <2>1. Apart(line, A) /\ s.ep = EpOf(line, A) /\ O = PointsAt(line, A)
    BY <1>1, <1>2 DEF OpenApart
  <2>0. \A id \in A : more[id] = line[id]
    BY <1>1, <1>3, <1>10
  <2>2. Apart(more, A)
    BY <2>0, <2>1 DEF Apart
  <2>3. EpOf(more, A) = EpOf(line, A)
    BY <2>0 DEF EpOf
  <2>4. PointsAt(more, A) = PointsAt(line, A)
    BY <2>0 DEF PointsAt
  <2>5. ToSet(opened) \ (X \ {l}) = A
    BY <1>1, <1>3, <1>6
  <2>6. \A id \in X \ {l} : IsLine(more[id])
    <3>1. \A id \in X \ {l} : more[id] = line[id]
      BY <1>3, <1>10
    <3>2. \A id \in X : IsLine(line[id])
      BY <1>1, <1>2 DEF OpenApart
    <3> QED BY <3>1, <3>2
  <2>7. X \ {l} \subseteq ToSet(opened)
    BY <1>3, <1>6
  <2> QED BY <1>1, <1>2, <1>5, <2>1, <2>2, <2>3, <2>4, <2>5, <2>6, <2>7 DEF OpenApart
<1>14. ASSUME NEW x
       PROVE  SegmentsIn(x, t) + Cardinality(Hits(x, s.line[l])) = SegmentsIn(x, s)
  <2>1. PICK R : R = (U \ {l}) \cup C
    OBVIOUS
  <2>2. IsFiniteSet(U \cup C) /\ \A id \in U \cup C : IsList(line[id])
    BY <1>1, ShapeLists
  <2>3. l \notin R /\ U \cup C = R \cup {l} /\ R = (U \cup C) \ {l}
    BY <1>3, <2>1
  <2>4. IsFiniteSet(R)
    BY <2>2, <2>3, FS_RemoveElement
  <2>5. \A id \in R \cup {l} : IsList(line[id])
    BY <2>2, <2>3
  <2>6. Cardinality(LineHits(x, line, R \cup {l}))
          = Cardinality(LineHits(x, line, R)) + Cardinality(Hits(x, line[l]))
    BY <2>3, <2>4, <2>5, LineHitsMore
  <2>7. LineHits(x, more, R) = LineHits(x, line, R)
    BY <1>10, <2>1, LineHitsSame
  <2>8. SegmentsIn(x, t) = Cardinality(LineHits(x, more, R))
    BY <1>1, <1>5, <1>6, <2>1 DEF SegmentsIn
  <2>9. SegmentsIn(x, s) = Cardinality(LineHits(x, line, R \cup {l}))
    BY <1>1, <2>3 DEF SegmentsIn
  <2> QED BY <1>1, <2>6, <2>7, <2>8, <2>9
<1>15. LacksLine(s, t, l)
  BY <1>1, <1>5, <1>6, <1>8, <1>9 DEF LacksLine
<1>16. Lacks(s, t, s.line[l])
  BY <1>14 DEF Lacks
<1> QED BY <1>11, <1>12, <1>13, <1>15, <1>16 DEF Assembled
-----------------------------------------------------------------------------
(* The joining of a way to a shape. *)

\* The segments of a shape can be counted.
LEMMA SegmentsNat ==
  ASSUME NEW s, NEW X, NEW O, Assembled(s, X, O), NEW x
  PROVE  SegmentsIn(x, s) \in Nat
<1>1. PICK B, line : B = ToSet(s.opened) \cup ToSet(s.closed) /\ line = s.line
  OBVIOUS
<1>2. IsFiniteSet(B) /\ \A id \in B : IsList(line[id])
  BY <1>1, ShapeLists
<1>3. Cardinality(LineHits(x, line, B)) \in Nat
  BY <1>2, LineHitsFinite
<1> QED BY <1>1, <1>3 DEF SegmentsIn

\* The shape t has the segments of s and of the line p.
Grows(s, t, p) == \A x : SegmentsIn(x, t) = SegmentsIn(x, s) + Cardinality(Hits(x, p))

\* A line that no list of ids has yet.
LEMMA Begun ==
  ASSUME NEW s, NEW O, Assembled(s, {}, O), NEW p, IsLine(p),
         NEW id, id = Len(s.line) + 1, NEW t, t = [s EXCEPT !.line = Append(@, p)]
  PROVE  /\ Assembled(t, {}, O) /\ SameSegments(s, t)
         /\ t.opened = s.opened /\ t.closed = s.closed /\ t.line[id] = p
         /\ id \in 1 .. Len(t.line) /\ id \notin ToSet(s.opened) \cup ToSet(s.closed)
<1>1. PICK n, line, more, U, C : /\ n = Len(s.line) /\ line = s.line /\ more = Append(line, p)
                                 /\ U = ToSet(s.opened) /\ C = ToSet(s.closed)
  OBVIOUS
<1>2. Listed(s) /\ ClosedMeet(s) /\ OpenApart(s, {}, O)
  BY DEF Assembled
<1>3. IsList(line) /\ n \in Nat
  BY <1>1, <1>2, ListIs DEF Listed
<1>4. IsList(more) /\ Len(more) = n + 1 /\ more[n + 1] = p
  <2>0. more = Append(line, p)
    BY <1>1
  <2>1. IsList(more) /\ Len(more) = Len(line) + 1
    BY <1>3, <2>0, ListAppend
  <2>2. more[Len(line) + 1] = p
    BY <1>1, <1>3, ListAppend
  <2> QED BY <1>1, <2>1, <2>2
<1>5. \A i \in 1 .. n : more[i] = line[i]
  <2>1. \A i \in 1 .. Len(line) : more[i] = line[i]
    BY <1>1, <1>3, ListAppend
  <2> QED BY <1>1, <2>1
<1>6. U \cup C \subseteq 1 .. n
  BY <1>1, <1>2 DEF Listed
<1>7. \A i \in U \cup C : more[i] = line[i]
  BY <1>5, <1>6
<1>8. /\ DOMAIN t = ShapeFields /\ t.line = more /\ t.opened = s.opened /\ t.closed = s.closed
      /\ t.ep = s.ep
  BY <1>1, <1>2 DEF Listed, ShapeFields
<1>9. Listed(t)
  <2>1. U \cup C \subseteq 1 .. n + 1
    BY <1>3, <1>6
  <2> QED BY <1>1, <1>2, <1>4, <1>8, <2>1 DEF Listed
<1>10. ClosedMeet(t)
  BY <1>1, <1>2, <1>7, <1>8 DEF ClosedMeet
<1>11. OpenApart(t, {}, O)
  <2>1. Apart(line, U) /\ s.ep = EpOf(line, U) /\ O = PointsAt(line, U)
    <3>1. U \ {} = U
      OBVIOUS
    <3> QED BY <1>1, <1>2, <3>1 DEF OpenApart
  <2>2. \A i \in U : more[i] = line[i]
    BY <1>7
  <2>3. Apart(more, U)
    BY <2>1, <2>2 DEF Apart
  <2>4. EpOf(more, U) = EpOf(line, U)
    BY <2>2 DEF EpOf
  <2>5. PointsAt(more, U) = PointsAt(line, U)
    BY <2>2 DEF PointsAt
  <2>6. U \ {} = U
    OBVIOUS
  <2> QED BY <1>1, <1>8, <2>1, <2>3, <2>4, <2>5, <2>6 DEF OpenApart
<1>12. SameSegments(s, t)
  <2>1. ASSUME NEW x PROVE LineHits(x, more, U \cup C) = LineHits(x, line, U \cup C)
    BY <1>7, LineHitsSame
  <2> QED BY <1>1, <1>8, <2>1 DEF SameSegments, SegmentsIn
<1>13. id \in 1 .. Len(t.line) /\ id \notin U \cup C
  BY <1>1, <1>3, <1>4, <1>6, <1>8
<1> QED BY <1>1, <1>4, <1>8, <1>9, <1>10, <1>11, <1>12, <1>13 DEF Assembled

\* Its id is listed: its segments come to those of the shape.
LEMMA MoreSegments ==
  ASSUME NEW s, NEW X, NEW O, Assembled(s, X, O), NEW id, NEW p, s.line[id] = p, IsLine(p),
         id \notin ToSet(s.opened) \cup ToSet(s.closed), NEW t, t.line = s.line,
         ToSet(t.opened) \cup ToSet(t.closed) = ToSet(s.opened) \cup ToSet(s.closed) \cup {id}
  PROVE  Grows(s, t, p)
<1>1. PICK B, line : B = ToSet(s.opened) \cup ToSet(s.closed) /\ line = s.line
  OBVIOUS
<1>2. IsFiniteSet(B) /\ \A i \in B : IsList(line[i])
  BY <1>1, ShapeLists
<1>3. \A i \in B \cup {id} : IsList(line[i])
  BY <1>1, <1>2 DEF IsLine
<1>4. ASSUME NEW x
      PROVE  Cardinality(LineHits(x, line, B \cup {id}))
               = Cardinality(LineHits(x, line, B)) + Cardinality(Hits(x, line[id]))
  <2>1. IsFiniteSet(B) /\ id \notin B
    BY <1>1, <1>2
  <2> QED BY <1>3, <2>1, LineHitsMore, SMTT(60)
<1> QED BY <1>1, <1>4 DEF Grows, SegmentsIn

\* Segments that came to the same shape came to this one.
LEMMA GrowsSame ==
  ASSUME NEW s, NEW t, NEW u, NEW p, SameSegments(s, t), Grows(t, u, p)
  PROVE  Grows(s, u, p)
  BY DEF SameSegments, Grows

\* A closed way is a line of its own.
LEMMA NewClosedLine ==
  ASSUME NEW s, NEW O, Assembled(s, {}, O), NEW p, IsLine(p), Meets(p),
         NEW t, t = NewLine(s, p, TRUE)
  PROVE  Assembled(t, {}, O) /\ Grows(s, t, p)
<1>1. PICK id, u : id = Len(s.line) + 1 /\ u = [s EXCEPT !.line = Append(@, p)]
  OBVIOUS
<1>2. Assembled(u, {}, O) /\ SameSegments(s, u)
  BY <1>1, Begun
<1>3. u.opened = s.opened /\ u.closed = s.closed /\ u.line[id] = p
  BY <1>1, Begun
<1>4. id \in 1 .. Len(u.line) /\ id \notin ToSet(u.opened) \cup ToSet(u.closed)
  BY <1>1, <1>3, Begun
<1>5. t = [u EXCEPT !.closed = Append(@, id)]
  BY <1>1 DEF NewLine
<1>6. Listed(u) /\ ClosedMeet(u) /\ OpenApart(u, {}, O)
  BY <1>2 DEF Assembled
<1>7. PICK closed : closed = Append(u.closed, id)
  OBVIOUS
<1>8. /\ DOMAIN t = ShapeFields /\ t.line = u.line /\ t.opened = u.opened /\ t.closed = closed
      /\ t.ep = u.ep
  BY <1>5, <1>6, <1>7 DEF Listed, ShapeFields
<1>9. IsList(closed) /\ Distinct(closed) /\ ToSet(closed) = ToSet(u.closed) \cup {id}
  <2>1. IsList(u.closed) /\ Distinct(u.closed) /\ id \notin ToSet(u.closed)
    BY <1>4, <1>6 DEF Listed
  <2> QED BY <1>7, <2>1, AppendDistinct
<1>10. Listed(t)
  BY <1>4, <1>6, <1>8, <1>9 DEF Listed
<1>11. ClosedMeet(t)
  BY <1>3, <1>6, <1>8, <1>9 DEF ClosedMeet
<1>12. OpenApart(t, {}, O)
  BY <1>6, <1>8 DEF OpenApart
<1>13. Grows(u, t, p)
  <2>1. ToSet(t.opened) \cup ToSet(t.closed) = ToSet(u.opened) \cup ToSet(u.closed) \cup {id}
    BY <1>8, <1>9
  <2> QED BY <1>2, <1>3, <1>4, <1>8, <2>1, MoreSegments
<1> QED BY <1>2, <1>10, <1>11, <1>12, <1>13, GrowsSame DEF Assembled

\* An open way whose ends are no ends of a line is an open line.
LEMMA NewOpenLine ==
  ASSUME NEW s, NEW O, Assembled(s, {}, O), NEW p, IsLine(p), ~Meets(p), EndsOf(p) \cap O = {},
         NEW t, t = NewLine(s, p, FALSE)
  PROVE  Assembled(t, {}, O \cup EndsOf(p)) /\ Grows(s, t, p)
<1>1. PICK id, u, v : /\ id = Len(s.line) + 1 /\ u = [s EXCEPT !.line = Append(@, p)]
                      /\ v = [u EXCEPT !.opened = Append(@, id)]
  OBVIOUS
<1>2. Assembled(u, {}, O) /\ SameSegments(s, u)
  BY <1>1, Begun
<1>3. u.opened = s.opened /\ u.closed = s.closed /\ u.line[id] = p
  BY <1>1, Begun
<1>4. id \in 1 .. Len(u.line) /\ id \notin ToSet(u.opened) \cup ToSet(u.closed)
  BY <1>1, <1>3, Begun
<1>5. t = EpAdd(v, id)
  BY <1>1 DEF NewLine
<1>6. Listed(u) /\ ClosedMeet(u) /\ OpenApart(u, {}, O)
  BY <1>2 DEF Assembled
<1>7. PICK opened : opened = Append(u.opened, id)
  OBVIOUS
<1>8. /\ DOMAIN v = ShapeFields /\ v.line = u.line /\ v.opened = opened /\ v.closed = u.closed
      /\ v.ep = u.ep
  BY <1>1, <1>6, <1>7 DEF Listed, ShapeFields
<1>9. IsList(opened) /\ Distinct(opened) /\ ToSet(opened) = ToSet(u.opened) \cup {id}
  <2>1. IsList(u.opened) /\ Distinct(u.opened) /\ id \notin ToSet(u.opened)
    BY <1>4, <1>6 DEF Listed
  <2> QED BY <1>7, <2>1, AppendDistinct
<1>10. Listed(v)
  BY <1>4, <1>6, <1>8, <1>9 DEF Listed
<1>11. ClosedMeet(v)
  BY <1>6, <1>8 DEF ClosedMeet
<1>12. OpenApart(v, {id}, O)
  <2>1. ToSet(opened) \ {id} = ToSet(u.opened) \ {}
    BY <1>4, <1>9
  <2> QED BY <1>3, <1>6, <1>8, <1>9, <2>1 DEF OpenApart
<1>13. Grows(u, v, p)
  <2>1. ToSet(v.opened) \cup ToSet(v.closed) = ToSet(u.opened) \cup ToSet(u.closed) \cup {id}
    BY <1>8, <1>9
  <2> QED BY <1>2, <1>3, <1>4, <1>8, <2>1, MoreSegments
<1>14. v.line[id] = p
  BY <1>3, <1>8
<1>15. Assembled(v, {id}, O)
  BY <1>10, <1>11, <1>12 DEF Assembled
<1>16. t = Settled(v, id)
  BY <1>5, <1>14 DEF Settled
<1>17. Assembled(t, {}, O \cup EndsOf(p)) /\ SameSegments(v, t)
  <2>1. SameSegments(v, t)
    BY <1>15, <1>16, SettledIs
  <2>2. ~Meets(v.line[id]) /\ EndsOf(v.line[id]) \cap O = {}
    BY <1>14
  <2>3. Assembled(t, {}, O \cup EndsOf(v.line[id]))
    BY <1>15, <1>16, <2>2, SettledIs
  <2> QED BY <1>14, <2>1, <2>3
<1>18. Grows(u, t, p)
  BY <1>13, <1>17 DEF Grows, SameSegments
<1> QED BY <1>2, <1>17, <1>18, GrowsSame

\* What the open ends are when a way is joined.
After(O, p) == IF Meets(p) THEN O ELSE (O \ EndsOf(p)) \cup (EndsOf(p) \ O)

\* The line found at one of the ends of an open way, if there is one.
LEMMA EpFindEitherIs ==
  ASSUME NEW s, NEW X, NEW O, OpenApart(s, X, O), NEW p, NEW L, L = EpFindEither(s, p[1], Last(p))
  PROVE  /\ EndsOf(p) \cap O = {} => L = {}
         /\ EndsOf(p) \cap O # {}
              => \E id \in ToSet(s.opened) \ X : L = {id} /\ EndsOf(s.line[id]) \cap EndsOf(p) # {}
<1>1. PICK a, b : a = p[1] /\ b = Last(p)
  OBVIOUS
<1>2. EndsOf(p) = {a, b} /\ L = IF EpFind(s, a) # {} THEN EpFind(s, a) ELSE EpFind(s, b)
  BY <1>1 DEF EndsOf, EpFindEither
<1>3. a \notin O => EpFind(s, a) = {}
  BY EpFindIs
<1>4. b \notin O => EpFind(s, b) = {}
  BY EpFindIs
<1>5. a \in O => \E id \in ToSet(s.opened) \ X : EpFind(s, a) = {id} /\ a \in EndsOf(s.line[id])
  BY EpFindIs
<1>6. b \in O => \E id \in ToSet(s.opened) \ X : EpFind(s, b) = {id} /\ b \in EndsOf(s.line[id])
  BY EpFindIs
<1>7. CASE a \in O
  BY <1>2, <1>5, <1>7
<1>8. CASE a \notin O /\ b \in O
  BY <1>2, <1>3, <1>6, <1>8
<1>9. CASE a \notin O /\ b \notin O
  BY <1>2, <1>3, <1>4, <1>9
<1> QED BY <1>7, <1>8, <1>9

\* The segments of a line that was lengthened by another.
LEMMA GrowsBy ==
  ASSUME NEW s, NEW t, NEW u, NEW X, NEW O, Assembled(s, X, O), NEW Y, NEW Q, Assembled(u, Y, Q),
         NEW l, NEW p, NEW q, IsLine(l), IsLine(p),
         SameSegments(s, t), Merges(q, l, p), Swaps(t, u, l, q)
  PROVE  Grows(s, u, p)
<1>1. ASSUME NEW x PROVE SegmentsIn(x, u) = SegmentsIn(x, s) + Cardinality(Hits(x, p))
  <2>1. SegmentsIn(x, s) \in Nat
    BY SegmentsNat
  <2>2. SegmentsIn(x, u) \in Nat
    BY SegmentsNat
  <2>3. Cardinality(Hits(x, l)) \in Nat /\ Cardinality(Hits(x, p)) \in Nat
    BY HitsFinite DEF IsLine
  <2>4. Cardinality(Hits(x, q)) = Cardinality(Hits(x, l)) + Cardinality(Hits(x, p))
    BY DEF Merges
  <2>5. SegmentsIn(x, t) = SegmentsIn(x, s)
    BY DEF SameSegments
  <2>6. SegmentsIn(x, u) + Cardinality(Hits(x, l)) = SegmentsIn(x, t) + Cardinality(Hits(x, q))
    BY DEF Swaps
  <2> QED BY <2>1, <2>2, <2>3, <2>4, <2>5, <2>6
<1> QED BY <1>1 DEF Grows

\* A line that has got another one takes the place of two: the line l is joined to the
\* line m, at the one end of l that is an open end.
LEMMA JoinedIs ==
  ASSUME NEW s, NEW O, NEW l, Assembled(s, {l}, O), NEW q, q = s.line[l],
         NEW d, NEW e, EndsOf(q) = {d, e}, d # e, e \in O,
         NEW m \in ToSet(s.opened) \ {l}, e \in EndsOf(s.line[m]),
         d \notin EndsOf(s.line[m]), d \notin O,
         NEW t, t = Joined(s, m, l)
  PROVE  Assembled(t, {}, (O \ {e}) \cup {d}) /\ SameSegments(s, t)
<1>1. PICK k, u, r : k = s.line[m] /\ u = EpRemove(s, m) /\ r = MergedLine(k, q)
  OBVIOUS
<1>2. l \in ToSet(s.opened) /\ IsLine(q) /\ IsLine(k) /\ ~Meets(k) /\ EndsOf(k) \subseteq O
  <2>1. OpenApart(s, {l}, O)
    BY DEF Assembled
  <2>2. l \in ToSet(s.opened) /\ IsLine(q)
    BY <2>1 DEF OpenApart
  <2>3. IsLine(k) /\ ~Meets(k)
    BY <1>1, <2>1 DEF OpenApart, Apart
  <2>4. EndsOf(k) \subseteq O
    BY <1>1, <2>1 DEF OpenApart, PointsAt
  <2> QED BY <2>2, <2>3, <2>4
<1>3. Merges(r, k, q)
  <2>1. EndsOf(k) \cap EndsOf(q) # {}
    BY <1>1
  <2> QED BY <1>1, <1>2, <2>1, MergedLineIs
<1>4. PICK f : EndsOf(k) = {e, f} /\ EndsOf(r) = {f, d} /\ f # e /\ f # d /\ f \in O
  <2>1. PICK c1, d1, e1 : EndsOf(k) = {c1, d1} /\ EndsOf(q) = {c1, e1} /\ EndsOf(r) = {d1, e1}
    BY <1>3 DEF Merges
  <2>2. c1 = e /\ e1 = d
    BY <1>1, <2>1
  <2>3. c1 # d1
    BY <1>2, <2>1 DEF Meets, EndsOf
  <2>4. d1 # d /\ d1 \in O
    BY <1>1, <1>2, <2>1
  <2> QED BY <2>1, <2>2, <2>3, <2>4
<1>5. IsLine(r) /\ ~Meets(r)
  <2>1. IsLine(r)
    BY <1>3 DEF Merges
  <2>2. r[1] # Last(r)
    BY <1>4 DEF EndsOf
  <2> QED BY <2>1, <2>2 DEF Meets
<1>6. /\ Assembled(u, {l, m}, O \ {e, f}) /\ SameSegments(s, u)
      /\ u.line = s.line /\ u.opened = s.opened /\ u.closed = s.closed
  <2>1. u = EpRemove(s, m)
    BY <1>1
  <2>2. Assembled(u, {l} \cup {m}, O \ EndsOf(s.line[m]))
    BY <2>1, Detached
  <2>3. SameSegments(s, u)
    BY <2>1, Detached
  <2>4. u.line = s.line /\ u.opened = s.opened /\ u.closed = s.closed
    BY <2>1 DEF EpRemove, Assembled, Listed, ShapeFields
  <2>5. {l} \cup {m} = {l, m} /\ EndsOf(s.line[m]) = {e, f}
    BY <1>1, <1>4
  <2> QED BY <2>2, <2>3, <2>4, <2>5
<1>7. PICK v : v = [u EXCEPT !.line[m] = r]
  OBVIOUS
<1>8. /\ Assembled(v, {l, m}, O \ {e, f}) /\ v.opened = s.opened /\ v.closed = s.closed
      /\ v.line[m] = r /\ v.line[l] = q /\ Len(v.line) = Len(s.line)
  <2>1. m \in {l, m} /\ v = [u EXCEPT !.line[m] = r]
    BY <1>7
  <2>2. Assembled(v, {l, m}, O \ {e, f})
    BY <1>5, <1>6, <2>1, Changed
  <2>3. HasLine(u, v, m, r)
    BY <1>5, <1>6, <2>1, Changed
  <2>4. l \in 1 .. Len(u.line) /\ l # m
    BY <1>2, <1>6 DEF Assembled, Listed
  <2> QED BY <1>6, <2>2, <2>3, <2>4 DEF HasLine
<1>9. Grows(s, v, q)
  <2>1. m \in {l, m} /\ v = [u EXCEPT !.line[m] = r]
    BY <1>7
  <2>2. Swaps(u, v, u.line[m], r)
    BY <1>5, <1>6, <2>1, Changed
  <2>3. Swaps(u, v, k, r)
    BY <1>1, <1>6, <2>2
  <2> QED BY <1>2, <1>3, <1>6, <1>8, <2>3, GrowsBy
<1>10. PICK w : w = [v EXCEPT !.line[l] = << >>, !.opened = Without(@, l)]
  OBVIOUS
<1>11. /\ Assembled(w, {m}, O \ {e, f}) /\ w.line[m] = r
       /\ Lacks(v, w, q)
  <2>1. l \in {l, m} /\ {l, m} \ {l} = {m}
    OBVIOUS
  <2>2. Assembled(w, {l, m} \ {l}, O \ {e, f})
    BY <1>8, <1>10, <2>1, Dropped
  <2>3. LacksLine(v, w, l)
    BY <1>8, <1>10, <2>1, Dropped
  <2>4. Lacks(v, w, v.line[l])
    BY <1>8, <1>10, <2>1, Dropped
  <2>5. m \in 1 .. Len(v.line) /\ m # l
    BY <1>8 DEF Assembled, Listed
  <2>6. w.line[m] = v.line[m]
    BY <2>3, <2>5 DEF LacksLine
  <2> QED BY <1>8, <2>1, <2>2, <2>4, <2>6
<1>12. SameSegments(s, w)
  <2>1. ASSUME NEW x PROVE SegmentsIn(x, w) = SegmentsIn(x, s)
    <3>1. SegmentsIn(x, w) \in Nat
      BY <1>11, SegmentsNat
    <3>2. SegmentsIn(x, s) \in Nat
      BY SegmentsNat
    <3>3. Cardinality(Hits(x, q)) \in Nat
      BY <1>2, HitsFinite DEF IsLine
    <3>4. SegmentsIn(x, v) = SegmentsIn(x, s) + Cardinality(Hits(x, q))
      BY <1>9 DEF Grows
    <3>5. SegmentsIn(x, w) + Cardinality(Hits(x, q)) = SegmentsIn(x, v)
      BY <1>11 DEF Lacks
    <3> QED BY <3>1, <3>2, <3>3, <3>4, <3>5
  <2> QED BY <2>1 DEF SameSegments
<1>13. t = Settled(w, m)
  <2>1. u.line[l] = q /\ u.line[m] = k /\ DOMAIN u = ShapeFields /\ m # l
    BY <1>1, <1>6 DEF Assembled, Listed
  <2>2. IsList(u.line) /\ m \in 1 .. Len(u.line)
    BY <1>6 DEF Assembled, Listed
  <2>3. m \in DOMAIN u.line
    BY <2>2, ListIs
  <2>4. w = [u EXCEPT !.line[m] = MergedLine(@, u.line[l]), !.line[l] = << >>,
                      !.opened = Without(@, l)]
    <3>1. [u EXCEPT !.line[m] = MergedLine(@, u.line[l])] = v
      BY <1>1, <1>7, <2>1, <2>3 DEF ShapeFields
    <3> QED BY <1>10, <3>1
  <2>5. t = Settled([u EXCEPT !.line[m] = MergedLine(@, s.line[l]), !.line[l] = << >>,
                              !.opened = Without(@, l)], m)
    BY <1>1 DEF Joined
  <2> QED BY <1>6, <2>4, <2>5
<1>14. Assembled(t, {}, (O \ {e, f}) \cup {f, d}) /\ SameSegments(w, t)
  <2>1. SameSegments(w, t)
    BY <1>11, <1>13, SettledIs
  <2>2. ~Meets(w.line[m]) /\ EndsOf(w.line[m]) \cap (O \ {e, f}) = {}
    BY <1>4, <1>5, <1>11
  <2>3. Assembled(t, {}, (O \ {e, f}) \cup EndsOf(w.line[m]))
    BY <1>11, <1>13, <2>2, SettledIs
  <2> QED BY <1>4, <1>11, <2>1, <2>3
<1>15. (O \ {e, f}) \cup {f, d} = (O \ {e}) \cup {d}
  BY <1>4
<1>16. SameSegments(s, t)
  BY <1>12, <1>14 DEF SameSegments
<1> QED BY <1>14, <1>15, <1>16

\* A way is joined: a closed one is a line, and the open ends are those of an odd number
\* of open ways, for each of its two ends is one or is none any more.
LEMMA ShapeMergedIs ==
  ASSUME NEW s, NEW O, Assembled(s, {}, O), NEW p, IsLine(p), NEW t, t = ShapeMerged(s, p, Meets(p))
  PROVE  Assembled(t, {}, After(O, p)) /\ Grows(s, t, p)
<1>1. CASE Meets(p)
  <2>1. t = NewLine(s, p, TRUE)
    BY <1>1 DEF ShapeMerged
  <2>2. After(O, p) = O
    BY <1>1 DEF After
  <2> QED BY <1>1, <2>1, <2>2, NewClosedLine
<1>2. ASSUME ~Meets(p) PROVE Assembled(t, {}, After(O, p)) /\ Grows(s, t, p)
  <2>1. PICK L : L = EpFindEither(s, p[1], Last(p))
    OBVIOUS
  <2>2. OpenApart(s, {}, O)
    BY DEF Assembled
  <2>3. After(O, p) = (O \ EndsOf(p)) \cup (EndsOf(p) \ O)
    BY <1>2 DEF After
  <2>4. Meets(p) = FALSE
    BY <1>2 DEF Meets
  <2>5. CASE EndsOf(p) \cap O = {}
    <3>1. L = {}
      BY <2>1, <2>2, <2>5, EpFindEitherIs
    <3>2. t = NewLine(s, p, FALSE)
      BY <2>1, <2>4, <3>1 DEF ShapeMerged
    <3>3. Assembled(t, {}, O \cup EndsOf(p)) /\ Grows(s, t, p)
      BY <1>2, <2>5, <3>2, NewOpenLine
    <3>4. After(O, p) = O \cup EndsOf(p)
      BY <2>3, <2>5
    <3> QED BY <3>3, <3>4
  <2>6. CASE EndsOf(p) \cap O # {}
    <3>1. PICK l \in ToSet(s.opened) \ {} : L = {l} /\ EndsOf(s.line[l]) \cap EndsOf(p) # {}
      BY <2>1, <2>2, <2>6, EpFindEitherIs
    <3>2. PICK k, u, q, v : /\ k = s.line[l] /\ u = EpRemove(s, l) /\ q = MergedLine(k, p)
                            /\ v = [u EXCEPT !.line[l] = q]
      OBVIOUS
    <3>3. IsLine(k) /\ ~Meets(k) /\ EndsOf(k) \subseteq O
      BY <2>2, <3>1, <3>2 DEF OpenApart, Apart, PointsAt
    <3>4. Merges(q, k, p)
      <4>1. EndsOf(k) \cap EndsOf(p) # {}
        BY <3>1, <3>2
      <4> QED BY <3>2, <3>3, <4>1, MergedLineIs
    <3>5. PICK c, d, e : EndsOf(k) = {c, d} /\ EndsOf(p) = {c, e} /\ EndsOf(q) = {d, e}
      BY <3>4 DEF Merges
    <3>6. c # d /\ c # e /\ c \in O /\ d \in O /\ IsLine(q)
      <4>1. c # d
        BY <3>3, <3>5 DEF Meets, EndsOf
      <4>2. c # e
        BY <1>2, <3>5 DEF Meets, EndsOf
      <4> QED BY <3>3, <3>4, <3>5, <4>1, <4>2 DEF Merges
    <3>7. PICK Q : Q = O \ {c, d}
      OBVIOUS
    <3>8. /\ Assembled(u, {l}, Q) /\ SameSegments(s, u)
          /\ u.line = s.line /\ u.opened = s.opened /\ DOMAIN u = ShapeFields
      <4>1. l \in ToSet(s.opened) \ {} /\ u = EpRemove(s, l)
        BY <3>1, <3>2
      <4>2. Assembled(u, {} \cup {l}, O \ EndsOf(s.line[l]))
        BY <4>1, Detached
      <4>3. SameSegments(s, u)
        BY <4>1, Detached
      <4>4. {} \cup {l} = {l} /\ O \ EndsOf(s.line[l]) = Q
        BY <3>2, <3>5, <3>7
      <4>5. u.line = s.line /\ u.opened = s.opened /\ DOMAIN u = ShapeFields
        BY <4>1 DEF EpRemove, Assembled, Listed, ShapeFields
      <4> QED BY <4>2, <4>3, <4>4, <4>5
    <3>9. Assembled(v, {l}, Q) /\ HasLine(u, v, l, q) /\ Swaps(u, v, k, q)
      <4>1. l \in {l} /\ v = [u EXCEPT !.line[l] = q]
        BY <3>2
      <4>2. Assembled(v, {l}, Q)
        BY <3>6, <3>8, <4>1, Changed
      <4>3. HasLine(u, v, l, q)
        BY <3>6, <3>8, <4>1, Changed
      <4>4. Swaps(u, v, u.line[l], q)
        BY <3>6, <3>8, <4>1, Changed
      <4>5. u.line[l] = k
        BY <3>2, <3>8
      <4> QED BY <4>2, <4>3, <4>4, <4>5
    <3>10. Grows(s, v, p)
      BY <3>3, <3>4, <3>8, <3>9, GrowsBy
    <3>11. v.line[l] = q /\ v.opened = s.opened /\ v.closed = u.closed
      BY <3>8, <3>9 DEF HasLine
    <3>12. PICK M, m : M = EpFindEither(v, q[1], Last(q)) /\ m = CHOOSE id \in M : TRUE
      OBVIOUS
    <3>13. t = IF Meets(q) \/ M = {} THEN Settled(v, l) ELSE Joined(v, m, l)
      <4>1. l = CHOOSE id \in L : TRUE
        BY <3>1
      <4>2. v = [EpRemove(s, l) EXCEPT !.line[l] = MergedLine(@, p)]
        <5>1. l \in DOMAIN u.line
          <6>1. IsList(u.line) /\ l \in 1 .. Len(u.line)
            BY <3>8 DEF Assembled, Listed, OpenApart
          <6> QED BY <6>1, ListIs
        <5> QED BY <3>2, <3>8, <5>1 DEF ShapeFields
      <4>3. L # {}
        BY <3>1
      <4> DEFINE L0 == EpFindEither(s, p[1], Last(p))
      <4> DEFINE l0 == CHOOSE id \in L0 : TRUE
      <4> DEFINE v0 == [EpRemove(s, l0) EXCEPT !.line[l0] = MergedLine(@, p)]
      <4> DEFINE M0 == EpFindEither(v0, v0.line[l0][1], Last(v0.line[l0]))
      <4> DEFINE m0 == CHOOSE id \in M0 : TRUE
      <4>4. t = IF Meets(p) \/ L0 = {} THEN NewLine(s, p, Meets(p))
                ELSE IF Meets(v0.line[l0]) \/ M0 = {} THEN Settled(v0, l0)
                ELSE Joined(v0, m0, l0)
        BY DEF ShapeMerged
      <4>5. L0 = L /\ l0 = l
        BY <2>1, <4>1
      <4>6. v0 = v
        BY <4>2, <4>5
      <4>7. M0 = M
        <5>1. v0.line[l0] = q
          BY <3>11, <4>5, <4>6
        <5> HIDE DEF v0, l0
        <5> QED BY <3>12, <4>6, <5>1
      <4>8. m0 = m
        <5> HIDE DEF M0
        <5> QED BY <3>12, <4>7
      <4> HIDE DEF L0, l0, v0, M0, m0
      <4> QED BY <2>4, <3>11, <4>3, <4>4, <4>5, <4>6, <4>7, <4>8
    <3>14. OpenApart(v, {l}, Q)
      BY <3>9 DEF Assembled
    <3>15. CASE Meets(q)
      <4>1. t = Settled(v, l)
        BY <3>13, <3>15
      <4>2. SameSegments(v, t)
        BY <3>9, <4>1, SettledIs
      <4>3. Meets(v.line[l])
        BY <3>11, <3>15
      <4>4. Assembled(t, {}, Q)
        BY <3>9, <4>1, <4>3, SettledIs
      <4>5. d = e
        BY <3>5, <3>15 DEF Meets, EndsOf
      <4>6. After(O, p) = Q
        BY <2>3, <3>5, <3>6, <3>7, <4>5
      <4>7. Grows(s, t, p)
        BY <3>10, <4>2 DEF Grows, SameSegments
      <4> QED BY <4>4, <4>6, <4>7
    <3>16. ASSUME ~Meets(q), M = {} PROVE Assembled(t, {}, After(O, p)) /\ Grows(s, t, p)
      <4>1. t = Settled(v, l)
        BY <3>13, <3>16
      <4>2. SameSegments(v, t)
        BY <3>9, <4>1, SettledIs
      <4>3. EndsOf(q) \cap Q = {}
        <5>1. M = EpFindEither(v, q[1], Last(q))
          BY <3>12
        <5>2. EndsOf(q) \cap Q # {} => \E id \in ToSet(v.opened) \ {l} :
                                         M = {id} /\ EndsOf(v.line[id]) \cap EndsOf(q) # {}
          BY <3>14, <5>1, EpFindEitherIs
        <5> QED BY <3>16, <5>2
      <4>4. ~Meets(v.line[l]) /\ EndsOf(v.line[l]) \cap Q = {}
        BY <3>11, <3>16, <4>3
      <4>5. Assembled(t, {}, Q \cup EndsOf(v.line[l]))
        BY <3>9, <4>1, <4>4, SettledIs
      <4>6. d # e
        BY <3>5, <3>16 DEF Meets, EndsOf
      <4>7. After(O, p) = Q \cup EndsOf(v.line[l])
        BY <2>3, <3>5, <3>6, <3>7, <3>11, <4>3, <4>6
      <4>8. Grows(s, t, p)
        BY <3>10, <4>2 DEF Grows, SameSegments
      <4> QED BY <4>5, <4>7, <4>8
    <3>17. ASSUME ~Meets(q), M # {} PROVE Assembled(t, {}, After(O, p)) /\ Grows(s, t, p)
      <4>1. EndsOf(q) \cap Q # {}
        BY <3>12, <3>14, <3>17, EpFindEitherIs
      <4>2. PICK id \in ToSet(v.opened) \ {l} : M = {id} /\ EndsOf(v.line[id]) \cap EndsOf(q) # {}
        BY <3>12, <3>14, <4>1, EpFindEitherIs
      <4>3. m = id
        BY <3>12, <4>2
      <4>4. d # e /\ d \notin Q /\ e \in Q
        BY <3>5, <3>7, <3>17, <4>1 DEF Meets, EndsOf
      <4>5. EndsOf(v.line[m]) \subseteq Q
        BY <3>14, <4>2, <4>3 DEF OpenApart, PointsAt
      <4>6. e \in EndsOf(v.line[m]) /\ d \notin EndsOf(v.line[m])
        BY <3>5, <4>2, <4>3, <4>4, <4>5
      <4>7. t = Joined(v, m, l)
        BY <3>13, <3>17
      <4>8. m \in ToSet(v.opened) \ {l} /\ q = v.line[l] /\ EndsOf(q) = {d, e}
        BY <3>5, <3>11, <4>2, <4>3
      <4>9. Assembled(t, {}, (Q \ {e}) \cup {d})
        BY <3>9, <4>4, <4>6, <4>7, <4>8, JoinedIs
      <4>10. SameSegments(v, t)
        BY <3>9, <4>4, <4>6, <4>7, <4>8, JoinedIs
      <4>11. After(O, p) = (Q \ {e}) \cup {d}
        BY <2>3, <3>5, <3>6, <3>7, <4>4
      <4>12. Grows(s, t, p)
        BY <3>10, <4>10 DEF Grows, SameSegments
      <4> QED BY <4>9, <4>11, <4>12
    <3> QED BY <3>15, <3>16, <3>17
  <2> QED BY <2>5, <2>6
<1> QED BY <1>1, <1>2
-----------------------------------------------------------------------------
(* The segments of lists of lines, as they are counted one after the other. *)

\* The least element of a set of natural numbers.
LEMMA LeastElement ==
  ASSUME NEW T \in SUBSET Nat, T # {}
  PROVE  \E n \in T : \A m \in T : n <= m
<1>1. PICK n \in T : \A m \in T : ~(<<m, n>> \in OpToRel(<, Nat))
  BY NatLessThanWellFounded, WFMin
<1>2. ASSUME NEW m \in T PROVE n <= m
  <2>1. m < n => <<m, n>> \in OpToRel(<, Nat)
    BY DEF OpToRel
  <2>2. ~(m < n)
    BY <1>1, <2>1, Zenon
  <2> QED BY <2>2
<1> QED BY <1>2

\* Induction over the first natural numbers, for a set in place of a predicate.
LEMMA StepInduction ==
  ASSUME NEW N \in Nat, NEW S, 0 \in S, \A n \in 1 .. N : n - 1 \in S => n \in S
  PROVE  \A n \in 0 .. N : n \in S
<1>1. PICK T : T = {n \in 0 .. N : n \notin S}
  OBVIOUS
<1> SUFFICES ASSUME T # {} PROVE FALSE
  BY <1>1
<1>2. T \in SUBSET Nat
  BY <1>1
<1>3. PICK n \in T : \A m \in T : n <= m
  BY <1>2, LeastElement
<1>4. n \in 1 .. N /\ n - 1 \in 0 .. N /\ ~(n <= n - 1)
  <2>1. n \in 0 .. N /\ n \notin S
    BY <1>1
  <2>2. n # 0
    BY <2>1
  <2> QED BY <2>1, <2>2
<1>5. n - 1 \in S
  BY <1>1, <1>3, <1>4
<1> QED BY <1>1, <1>4, <1>5

\* f is the first of the sequences in seqs, the first two one after the other, and so on.
Flattens(f, n, seqs) == f = [i \in 1 .. n |-> IF i = 1 THEN seqs[i] ELSE f[i - 1] \o seqs[i]]

\* There is such a function.
LEMMA FlattenExists ==
  ASSUME NEW N \in Nat, NEW seqs
  PROVE  \E f : Flattens(f, N, seqs)
<1>1. PICK S : S = {n \in 0 .. N : \E f : Flattens(f, n, seqs)}
  OBVIOUS
<1>2. 0 \in S
  <2>1. PICK f : f = [i \in 1 .. 0 |-> i]
    OBVIOUS
  <2>2. Flattens(f, 0, seqs)
    <3>1. 1 .. 0 = {}
      OBVIOUS
    <3>2. f = [i \in 1 .. 0 |-> IF i = 1 THEN seqs[i] ELSE f[i - 1] \o seqs[i]]
      BY <2>1, <3>1
    <3> QED BY <3>2 DEF Flattens
  <2> QED BY <1>1, <2>2
<1>3. ASSUME NEW n \in 1 .. N, n - 1 \in S PROVE n \in S
  <2>1. PICK f : Flattens(f, n - 1, seqs)
    BY <1>1, <1>3
  <2>2. PICK g : g = [i \in 1 .. n |-> IF i = n THEN IF n = 1 THEN seqs[n] ELSE f[n - 1] \o seqs[n]
                                       ELSE f[i]]
    OBVIOUS
  <2>3. ASSUME NEW i \in 1 .. n PROVE g[i] = IF i = 1 THEN seqs[i] ELSE g[i - 1] \o seqs[i]
    <3>1. CASE i = 1 /\ n = 1
      BY <2>2, <3>1
    <3>2. CASE i = 1 /\ n # 1
      <4>1. 1 \in 1 .. n - 1
        BY <3>2
      <4>2. f[1] = seqs[1]
        BY <2>1, <4>1 DEF Flattens
      <4> QED BY <2>2, <3>2, <4>2
    <3>3. CASE i # 1 /\ i = n
      <4>1. n - 1 \in 1 .. n /\ n - 1 # n
        BY <3>3
      <4>2. g[n - 1] = f[n - 1]
        BY <2>2, <4>1
      <4>3. g[n] = f[n - 1] \o seqs[n]
        BY <2>2, <3>3
      <4> QED BY <3>3, <4>2, <4>3
    <3>4. CASE i # 1 /\ i # n
      <4>1. i - 1 \in 1 .. n /\ i - 1 # n /\ i \in 1 .. n - 1
        BY <3>4
      <4>2. g[i - 1] = f[i - 1] /\ g[i] = f[i]
        BY <2>2, <3>4, <4>1
      <4>3. f[i] = f[i - 1] \o seqs[i]
        BY <2>1, <3>4, <4>1 DEF Flattens
      <4> QED BY <3>4, <4>2, <4>3
    <3> QED BY <3>1, <3>2, <3>3, <3>4
  <2>4. g = [i \in 1 .. n |-> g[i]]
    BY <2>2
  <2>5. g = [i \in 1 .. n |-> IF i = 1 THEN seqs[i] ELSE g[i - 1] \o seqs[i]]
    BY <2>3, <2>4, Zenon
  <2>6. Flattens(g, n, seqs)
    BY <2>5, Zenon DEF Flattens
  <2>7. n \in 0 .. N
    OBVIOUS
  <2> QED BY <1>1, <2>6, <2>7
<1>4. N \in S
  BY <1>2, <1>3, StepInduction
<1> QED BY <1>1, <1>4

\* FlattenSeq has its value from it.
LEMMA FlattenIs ==
  ASSUME NEW seqs, IsList(seqs), Len(seqs) # 0
  PROVE  \E f : Flattens(f, Len(seqs), seqs) /\ FlattenSeq(seqs) = f[Len(seqs)]
<1>1. PICK N : N = Len(seqs)
  OBVIOUS
<1>2. N \in Nat
  BY <1>1, ListIs
<1>3. \E f : Flattens(f, N, seqs)
  BY <1>2, FlattenExists
<1>4. PICK f : f = CHOOSE flatten : flatten =
                     [i \in 1 .. N |-> IF i = 1 THEN seqs[i] ELSE flatten[i - 1] \o seqs[i]]
  OBVIOUS
<1>5. Flattens(f, N, seqs)
  BY <1>3, <1>4, Zenon DEF Flattens
<1>6. FlattenSeq(seqs) = f[N]
  BY <1>1, <1>4, Zenon DEF FlattenSeq
<1> QED BY <1>1, <1>5, <1>6

\* How often a value is in a sequence.
LEMMA TimesFinite ==
  ASSUME NEW s, IsList(s), NEW x
  PROVE  IsFiniteSet({i \in DOMAIN s : s[i] = x}) /\ Times(x, s) \in Nat
<1>1. PICK n, S : n = Len(s) /\ S = {i \in DOMAIN s : s[i] = x}
  OBVIOUS
<1>2. n \in Nat /\ DOMAIN s = 1 .. n
  BY <1>1, ListIs
<1>3. S \in SUBSET (1 .. n) /\ IsFiniteSet(1 .. n)
  <2>1. IsFiniteSet(1 .. n)
    BY <1>2, FS_Interval
  <2> QED BY <1>1, <1>2, <2>1
<1>4. IsFiniteSet(S)
  BY <1>3, FS_Subset
<1>5. Cardinality(S) \in Nat
  BY <1>4, FS_CardinalityType
<1> QED BY <1>1, <1>4, <1>5 DEF Times

\* The lists s and u one after the other.
Follow(t, s, u) == t = s \o u

\* It is in two lists as often as in both together.
LEMMA TimesConcat ==
  ASSUME NEW s, IsList(s), NEW u, IsList(u), NEW t, Follow(t, s, u)
  PROVE  \A x : Times(x, t) = Times(x, s) + Times(x, u)
<1> TAKE x
<1>0. t = s \o u
  BY DEF Follow
<1>1. PICK m, n, S, U, T : /\ m = Len(s) /\ n = Len(u) /\ S = {i \in DOMAIN s : s[i] = x}
                           /\ U = {i \in DOMAIN u : u[i] = x} /\ T = {i \in DOMAIN t : t[i] = x}
  OBVIOUS
<1>2. m \in Nat /\ n \in Nat /\ DOMAIN s = 1 .. m /\ DOMAIN u = 1 .. n
  BY <1>1, ListIs
<1>3. IsList(t) /\ Len(t) = m + n
  BY <1>0, <1>1, ListConcat
<1>4. \A i \in 1 .. m : t[i] = s[i]
  BY <1>0, <1>1, ListConcat
<1>5. \A i \in 1 .. n : t[m + i] = u[i]
  BY <1>0, <1>1, ListConcat
<1>6. DOMAIN t = 1 .. m + n
  BY <1>3, ListIs
<1>7. IsFiniteSet(S) /\ IsFiniteSet(U)
  BY <1>1, TimesFinite
<1>8. PICK f, Q : f = [i \in U |-> m + i] /\ Q = {i \in m + 1 .. m + n : t[i] = x}
  OBVIOUS
<1>9. IsFiniteSet(Q) /\ Cardinality(Q) = Cardinality(U)
  <2>1. ASSUME NEW i \in U PROVE f[i] \in Q /\ f[i] = m + i /\ i \in 1 .. n
    <3>1. i \in 1 .. n /\ u[i] = x
      BY <1>1, <1>2
    <3>2. m + i \in m + 1 .. m + n /\ t[m + i] = x
      BY <1>2, <1>5, <3>1
    <3> QED BY <1>8, <3>1, <3>2
  <2>2. \A i \in U : \A j \in U : f[i] = f[j] => i = j
    BY <1>2, <2>1
  <2>3. ASSUME NEW k \in Q PROVE \E i \in U : f[i] = k
    <3>1. PICK i : i = k - m
      OBVIOUS
    <3>2. i \in 1 .. n /\ k = m + i /\ t[k] = x
      BY <1>2, <1>8, <3>1
    <3>3. u[i] = x
      BY <1>5, <3>2
    <3>4. i \in U
      BY <1>1, <1>2, <3>2, <3>3
    <3> QED BY <2>1, <3>2, <3>4
  <2>4. f \in [U -> Q]
    BY <1>8, <2>1
  <2> QED BY <1>7, <2>2, <2>3, <2>4, SameSize
<1>10. T = S \cup Q /\ S \cap Q = {}
  <2>1. S = {i \in 1 .. m : t[i] = x}
    BY <1>1, <1>2, <1>4
  <2>2. 1 .. m + n = (1 .. m) \cup (m + 1 .. m + n) /\ (1 .. m) \cap (m + 1 .. m + n) = {}
    BY <1>2
  <2> QED BY <1>1, <1>6, <1>8, <2>1, <2>2
<1>11. Cardinality(T) = Cardinality(S) + Cardinality(Q)
  BY <1>7, <1>9, <1>10, SizesAdd
<1> QED BY <1>1, <1>9, <1>11 DEF Times

\* The segments of a line are its pieces.
LEMMA TimesSegments ==
  ASSUME NEW l, IsLine(l), NEW s, s = SegmentsOf(l)
  PROVE  IsList(s) /\ \A x : Times(x, s) = Cardinality(Hits(x, l))
<1>1. PICK n : n = Len(l) - 1
  OBVIOUS
<1>2. n \in Nat
  <2>1. Len(l) \in Nat /\ Len(l) >= 1
    BY ListIs DEF IsLine
  <2> QED BY <1>1, <2>1
<1>3. s = [i \in 1 .. n |-> {l[i], l[i + 1]}]
  BY <1>1 DEF SegmentsOf
<1>4. s = [i \in 1 .. n |-> s[i]] /\ DOMAIN s = 1 .. n
  BY <1>3
<1>5. IsList(s)
  BY <1>2, <1>4, ListOf
<1>6. ASSUME NEW x PROVE {i \in DOMAIN s : s[i] = x} = Hits(x, l)
  BY <1>1, <1>3 DEF Hits
<1>7. ASSUME NEW x PROVE Times(x, s) = Cardinality(Hits(x, l))
  BY <1>6 DEF Times
<1> QED BY <1>5, <1>7

\* The segments of a list of lines are those of each of them.
LEMMA TimesAll ==
  ASSUME NEW N \in Nat, NEW q, IsList(q), Len(q) = N, \A i \in 1 .. N : IsLine(q[i]),
         NEW s, s = Segments(q)
  PROVE  IsList(s) /\ \A x : Times(x, s) = Cardinality(LineHits(x, q, 1 .. N))
<1>1. PICK seqs : seqs = [i \in 1 .. N |-> SegmentsOf(q[i])]
  OBVIOUS
<1>2. DOMAIN q = 1 .. N /\ s = FlattenSeq(seqs)
  <2>1. DOMAIN q = 1 .. N
    BY ListIs
  <2> QED BY <1>1, <2>1 DEF Segments
<1>3. IsList(seqs) /\ Len(seqs) = N
  <2>1. seqs = [i \in 1 .. N |-> seqs[i]]
    BY <1>1
  <2> QED BY <2>1, ListOf
<1>4. ASSUME NEW i \in 1 .. N
      PROVE  IsList(seqs[i]) /\ \A x : Times(x, seqs[i]) = Cardinality(Hits(x, q[i]))
  <2>1. seqs[i] = SegmentsOf(q[i]) /\ IsLine(q[i])
    BY <1>1
  <2> QED BY <2>1, TimesSegments
<1>5. \A x : LineHits(x, q, {}) = {}
  BY DEF LineHits
<1>6. CASE N = 0
  <2>1. s = seqs /\ 1 .. N = {}
    BY <1>2, <1>3, <1>6 DEF FlattenSeq
  <2>2. DOMAIN seqs = {}
    BY <1>1, <2>1
  <2>3. Cardinality({}) = 0
    BY FS_EmptySet
  <2>4. ASSUME NEW x PROVE Times(x, s) = Cardinality(LineHits(x, q, 1 .. N))
    <3>1. {i \in DOMAIN s : s[i] = x} = {}
      BY <2>1, <2>2
    <3> QED BY <1>5, <2>1, <3>1 DEF Times
  <2> QED BY <1>3, <2>1, <2>4
<1>7. CASE N # 0
  <2>1. PICK f : Flattens(f, N, seqs) /\ s = f[N]
    BY <1>2, <1>3, <1>7, FlattenIs
  <2>2. PICK T : T = {n \in 0 .. N :
                        n # 0 => /\ IsList(f[n])
                                 /\ \A x : Times(x, f[n]) = Cardinality(LineHits(x, q, 1 .. n))}
    OBVIOUS
  <2>3. 0 \in T
    <3>1. 0 \in 0 .. N
      OBVIOUS
    <3> QED BY <2>2, <3>1
  <2>4. ASSUME NEW n \in 1 .. N, n - 1 \in T PROVE n \in T
    <3>1. n \in 0 .. N /\ n # 0 /\ n - 1 \in Nat
      OBVIOUS
    <3>2. /\ 1 .. n = (1 .. n - 1) \cup {n} /\ n \notin 1 .. n - 1
          /\ \A i \in 1 .. n : i \in 1 .. N
      OBVIOUS
    <3>3. ASSUME NEW x
          PROVE  Cardinality(LineHits(x, q, 1 .. n))
                   = Cardinality(LineHits(x, q, 1 .. n - 1)) + Cardinality(Hits(x, q[n]))
      <4>1. PICK B : B = 1 .. n - 1
        OBVIOUS
      <4>2. IsFiniteSet(B)
        BY <3>1, <4>1, FS_Interval
      <4>3. n \notin B /\ \A i \in B \cup {n} : IsList(q[i])
        BY <3>2, <4>1 DEF IsLine
      <4>4. Cardinality(LineHits(x, q, B \cup {n}))
              = Cardinality(LineHits(x, q, B)) + Cardinality(Hits(x, q[n]))
        BY <4>2, <4>3, LineHitsMore
      <4> QED BY <3>2, <4>1, <4>4
    <3>4. f[n] = IF n = 1 THEN seqs[n] ELSE f[n - 1] \o seqs[n]
      BY <2>1 DEF Flattens
    <3>5. CASE n = 1
      <4>1. 1 .. n - 1 = {}
        BY <3>5
      <4>2. ASSUME NEW x PROVE Times(x, f[n]) = Cardinality(LineHits(x, q, 1 .. n))
        <5>1. Cardinality(LineHits(x, q, 1 .. n - 1)) = 0
          BY <1>5, <4>1, FS_EmptySet
        <5>2. Cardinality(Hits(x, q[n])) \in Nat
          BY HitsFinite DEF IsLine
        <5>3. Times(x, f[n]) = Cardinality(Hits(x, q[n]))
          BY <1>4, <3>4, <3>5
        <5> QED BY <3>3, <5>1, <5>2, <5>3
      <4>3. IsList(f[n])
        BY <1>4, <3>4, <3>5
      <4> QED BY <2>2, <3>1, <4>2, <4>3
    <3>6. CASE n # 1
      <4>0. n - 1 # 0
        BY <3>6
      <4>1. f[n] = f[n - 1] \o seqs[n]
        BY <3>4, <3>6, Zenon
      <4>2. IsList(f[n - 1]) /\ \A x : Times(x, f[n - 1]) = Cardinality(LineHits(x, q, 1 .. n - 1))
        BY <2>2, <2>4, <4>0
      <4>3. IsList(seqs[n])
        BY <1>4
      <4>4. PICK u, v, w : u = f[n - 1] /\ v = seqs[n] /\ w = f[n]
        OBVIOUS
      <4>5. IsList(u) /\ IsList(v) /\ w = u \o v
        BY <4>1, <4>2, <4>3, <4>4
      <4>6. IsList(w)
        BY <4>5, ListConcat
      <4>7. ASSUME NEW x PROVE Times(x, f[n]) = Cardinality(LineHits(x, q, 1 .. n))
        <5>1. Times(x, w) = Times(x, u) + Times(x, v)
          <6>1. IsList(u) /\ IsList(v) /\ Follow(w, u, v)
            BY <4>5 DEF Follow
          <6> QED BY <6>1, TimesConcat
        <5>2. Times(x, seqs[n]) = Cardinality(Hits(x, q[n]))
          BY <1>4
        <5>3. Times(x, f[n - 1]) = Cardinality(LineHits(x, q, 1 .. n - 1))
          BY <4>2
        <5> QED BY <3>3, <4>4, <5>1, <5>2, <5>3
      <4> QED BY <2>2, <3>1, <4>4, <4>6, <4>7
    <3> QED BY <3>5, <3>6
  <2>5. N \in T
    BY <2>3, <2>4, StepInduction
  <2> QED BY <1>7, <2>1, <2>2, <2>5
<1> QED BY <1>6, <1>7

\* The segments of the lines of a shape, as they are listed.
LEMMA LinesTimes ==
  ASSUME NEW s, NEW O, Assembled(s, {}, O), NEW t, t = Segments(Lines(s))
  PROVE  IsList(t) /\ \A x : Times(x, t) = SegmentsIn(x, s)
<1>1. PICK line, ids, N, U, C : /\ line = s.line /\ ids = s.opened \o s.closed /\ N = Len(ids)
                                /\ U = ToSet(s.opened) /\ C = ToSet(s.closed)
  OBVIOUS
<1>2. PICK a, b, m, n : a = s.opened /\ b = s.closed /\ m = Len(a) /\ n = Len(b)
  OBVIOUS
<1>3. /\ IsList(a) /\ IsList(b) /\ Distinct(a) /\ Distinct(b) /\ U \cap C = {}
      /\ U = ToSet(a) /\ C = ToSet(b) /\ ids = a \o b
  BY <1>1, <1>2 DEF Assembled, Listed
<1>4. m \in Nat /\ n \in Nat /\ DOMAIN a = 1 .. m /\ DOMAIN b = 1 .. n
  BY <1>2, <1>3, ListIs
<1>5. IsList(ids) /\ N = m + n
  BY <1>1, <1>2, <1>3, ListConcat
<1>6. \A i \in 1 .. m : ids[i] = a[i]
  <2>1. IsList(a) /\ IsList(b) /\ ids = a \o b
    BY <1>3
  <2>2. \A i \in 1 .. Len(a) : ids[i] = a[i]
    BY <2>1, ListConcat
  <2> QED BY <1>2, <2>2
<1>7. \A i \in 1 .. n : ids[m + i] = b[i]
  <2>1. IsList(a) /\ IsList(b) /\ ids = a \o b
    BY <1>3
  <2>2. \A i \in 1 .. Len(b) : ids[Len(a) + i] = b[i]
    BY <2>1, ListConcat
  <2> QED BY <1>2, <2>2
<1>8. DOMAIN ids = 1 .. N /\ N \in Nat
  BY <1>1, <1>4, <1>5, ListIs
<1>9. \A i \in 1 .. N : i \in 1 .. m \/ (i - m \in 1 .. n /\ i = m + (i - m))
  BY <1>4, <1>5
<1>10. \A i \in 1 .. m : a[i] \in U
  BY <1>3, <1>4 DEF ToSet
<1>11. \A i \in 1 .. n : b[i] \in C
  BY <1>3, <1>4 DEF ToSet
<1>12. \A i \in 1 .. N : ids[i] \in U \cup C
  <2> TAKE i \in 1 .. N
  <2>1. CASE i \in 1 .. m
    BY <1>6, <1>10, <2>1
  <2>2. CASE i - m \in 1 .. n /\ i = m + (i - m)
    <3>1. ids[m + (i - m)] = b[i - m] /\ b[i - m] \in C
      BY <1>7, <1>11, <2>2
    <3> QED BY <2>2, <3>1
  <2> QED BY <1>9, <2>1, <2>2
<1>13. \A id \in U \cup C : \E i \in 1 .. N : ids[i] = id
  <2> TAKE id \in U \cup C
  <2>1. CASE id \in U
    <3>1. PICK i \in 1 .. m : a[i] = id
      BY <1>3, <1>4, <2>1 DEF ToSet
    <3>2. i \in 1 .. N
      BY <1>4, <1>5
    <3> QED BY <1>6, <3>1, <3>2
  <2>2. CASE id \in C
    <3>1. PICK i \in 1 .. n : b[i] = id
      BY <1>3, <1>4, <2>2 DEF ToSet
    <3>2. m + i \in 1 .. N
      BY <1>4, <1>5
    <3> QED BY <1>7, <3>1, <3>2
  <2> QED BY <2>1, <2>2
<1>14. ASSUME NEW i \in 1 .. N, NEW j \in 1 .. N, ids[i] = ids[j] PROVE i = j
  <2>1. CASE i \in 1 .. m /\ j \in 1 .. m
    <3>1. a[i] = a[j]
      BY <1>6, <1>14, <2>1
    <3> QED BY <1>3, <1>4, <2>1, <3>1 DEF Distinct
  <2>2. CASE i - m \in 1 .. n /\ i = m + (i - m) /\ j - m \in 1 .. n /\ j = m + (j - m)
    <3>1. b[i - m] = b[j - m]
      <4>1. ids[m + (i - m)] = b[i - m] /\ ids[m + (j - m)] = b[j - m]
        BY <1>7, <2>2
      <4> QED BY <1>14, <2>2, <4>1
    <3>2. i - m = j - m
      BY <1>3, <1>4, <2>2, <3>1 DEF Distinct
    <3> QED BY <2>2, <3>2
  <2>3. CASE i \in 1 .. m /\ j - m \in 1 .. n /\ j = m + (j - m)
    <3>1. ids[i] \in U /\ ids[m + (j - m)] \in C
      BY <1>6, <1>7, <1>10, <1>11, <2>3
    <3> QED BY <1>3, <1>14, <2>3, <3>1
  <2>4. CASE j \in 1 .. m /\ i - m \in 1 .. n /\ i = m + (i - m)
    <3>1. ids[j] \in U /\ ids[m + (i - m)] \in C
      BY <1>6, <1>7, <1>10, <1>11, <2>4
    <3> QED BY <1>3, <1>14, <2>4, <3>1
  <2>5. i \in 1 .. m \/ (i - m \in 1 .. n /\ i = m + (i - m))
    BY <1>9
  <2>6. j \in 1 .. m \/ (j - m \in 1 .. n /\ j = m + (j - m))
    BY <1>9
  <2> QED BY <2>1, <2>2, <2>3, <2>4, <2>5, <2>6
<1>15. PICK q : q = [i \in 1 .. N |-> line[ids[i]]]
  OBVIOUS
<1>16. \A id \in U \cup C : IsLine(line[id])
  BY <1>1, ShapeLists
<1>17. IsList(q) /\ Len(q) = N
  <2>1. q = [i \in 1 .. N |-> q[i]]
    BY <1>15
  <2> QED BY <1>8, <2>1, ListOf
<1>18. \A i \in 1 .. N : q[i] = line[ids[i]] /\ IsLine(q[i])
  BY <1>12, <1>15, <1>16
<1>19. t = Segments(q)
  BY <1>1, <1>8, <1>15 DEF Lines
<1>20. \A i \in 1 .. N : IsLine(q[i])
  BY <1>18
<1>21. IsList(t) /\ \A x : Times(x, t) = Cardinality(LineHits(x, q, 1 .. N))
  BY <1>8, <1>17, <1>19, <1>20, TimesAll
<1>22. ASSUME NEW x PROVE Cardinality(LineHits(x, q, 1 .. N)) = SegmentsIn(x, s)
  <2>1. PICK S, T : S = LineHits(x, q, 1 .. N) /\ T = LineHits(x, line, U \cup C)
    OBVIOUS
  <2>2. IsFiniteSet(S)
    <3>1. IsFiniteSet(1 .. N) /\ \A i \in 1 .. N : IsList(q[i])
      BY <1>8, <1>20, FS_Interval DEF IsLine
    <3> QED BY <2>1, <3>1, LineHitsFinite
  <2>3. ASSUME NEW e \in S
        PROVE  e = <<e[1], e[2]>> /\ e[1] \in 1 .. N /\ e[2] \in Hits(x, line[ids[e[1]]])
    BY <1>18, <2>1 DEF LineHits
  <2>4. PICK f : f = [e \in S |-> <<ids[e[1]], e[2]>>]
    OBVIOUS
  <2>5. ASSUME NEW e \in S PROVE f[e] \in T
    <3>1. ids[e[1]] \in U \cup C /\ e[2] \in Hits(x, line[ids[e[1]]])
      BY <1>12, <2>3
    <3>2. f[e] \in {ids[e[1]]} \X Hits(x, line[ids[e[1]]])
      BY <2>4, <3>1
    <3> QED BY <2>1, <3>1, <3>2 DEF LineHits
  <2>6. ASSUME NEW e \in S, NEW g \in S, f[e] = f[g] PROVE e = g
    <3>1. ids[e[1]] = ids[g[1]] /\ e[2] = g[2]
      BY <2>4, <2>6
    <3>2. e[1] = g[1]
      BY <1>14, <2>3, <3>1
    <3> QED BY <2>3, <3>1, <3>2
  <2>7. ASSUME NEW y \in T PROVE \E e \in S : f[e] = y
    <3>1. PICK id \in U \cup C : y \in {id} \X Hits(x, line[id])
      BY <2>1 DEF LineHits
    <3>2. PICK i \in 1 .. N : ids[i] = id
      BY <1>13
    <3>3. PICK e : e = <<i, y[2]>>
      OBVIOUS
    <3>4. e \in {i} \X Hits(x, q[i])
      BY <1>18, <3>1, <3>2, <3>3
    <3>5. e \in S
      BY <2>1, <3>4 DEF LineHits
    <3>6. f[e] = <<ids[i], y[2]>>
      BY <2>4, <3>3, <3>5
    <3> QED BY <3>1, <3>2, <3>5, <3>6
  <2>8. f \in [S -> T]
    BY <2>4, <2>5
  <2>9. Cardinality(T) = Cardinality(S)
    BY <2>2, <2>6, <2>7, <2>8, SameSize
  <2> QED BY <1>1, <2>1, <2>9 DEF SegmentsIn
<1> QED BY <1>21, <1>22
-----------------------------------------------------------------------------
(* What a relation links to. *)

RelationFields == {"points", "ways", "relations", "tags", "rect", "shape"}

PointsOf(ways) == [i \in 1 .. Len(ways) |-> ways[i].points]

\* The open ways that begin and those that end at a point.
Begins(ways, p) == {i \in DOMAIN ways : ~Meets(ways[i].points) /\ ways[i].points[1] = p}
Stops(ways, p) == {i \in DOMAIN ways : ~Meets(ways[i].points) /\ Last(ways[i].points) = p}

\* The points where an odd number of open ways end.
OddEnds(ways, O) ==
  \A p : p \in O <=> (Cardinality(Begins(ways, p)) + Cardinality(Stops(ways, p))) % 2 = 1

\* What was loaded of a relation is lines, and its shape is their segments, joined until
\* only the odd ends are open.
RelationInv(r) ==
  /\ DOMAIN r = RelationFields
  /\ IsList(r.ways) /\ \A i \in 1 .. Len(r.ways) : IsLine(r.ways[i].points)
  /\ \E O : Assembled(r.shape, {}, O) /\ OddEnds(r.ways, O)
  /\ \A x : SegmentsIn(x, r.shape) = Cardinality(LineHits(x, PointsOf(r.ways), 1 .. Len(r.ways)))

\* An index more or none.
LEMMA SizeMore ==
  ASSUME NEW n \in Nat, NEW S \in SUBSET (1 .. n), NEW T, T = S \/ T = S \cup {n + 1}
  PROVE  /\ Cardinality(S) \in Nat
         /\ Cardinality(T) = IF n + 1 \in T THEN Cardinality(S) + 1 ELSE Cardinality(S)
<1>1. IsFiniteSet(1 .. n)
  BY FS_Interval
<1>2. IsFiniteSet(S)
  BY <1>1, FS_Subset
<1>3. Cardinality(S) \in Nat
  BY <1>2, FS_CardinalityType
<1>4. n + 1 \notin S
  OBVIOUS
<1>5. CASE T = S
  BY <1>3, <1>4, <1>5
<1>6. CASE T = S \cup {n + 1}
  <2>1. Cardinality(S \cup {n + 1}) = Cardinality(S) + 1
    BY <1>2, <1>4, FS_AddElement
  <2> QED BY <1>3, <1>6, <2>1
<1> QED BY <1>5, <1>6

\* The odd ends, when there is a way more.
LEMMA OddEndsMore ==
  ASSUME NEW ways, IsList(ways), NEW O, OddEnds(ways, O), NEW w,
         NEW more, more = Append(ways, w)
  PROVE  OddEnds(more, After(O, w.points))
<1>1. PICK n, pts : n = Len(ways) /\ pts = w.points
  OBVIOUS
<1>2. n \in Nat /\ DOMAIN ways = 1 .. n
  BY <1>1, ListIs
<1>3. IsList(more) /\ Len(more) = n + 1 /\ more[n + 1] = w
  <2>1. IsList(more) /\ Len(more) = Len(ways) + 1
    BY ListAppend
  <2>2. more[Len(ways) + 1] = w
    BY ListAppend
  <2> QED BY <1>1, <2>1, <2>2
<1>4. \A i \in 1 .. n : more[i] = ways[i]
  BY <1>1, ListAppend
<1>5. DOMAIN more = 1 .. n + 1
  BY <1>3, ListIs
<1>6. 1 .. n + 1 = (1 .. n) \cup {n + 1} /\ n + 1 \notin 1 .. n
  BY <1>2
<1>7. ASSUME NEW p
      PROVE  p \in After(O, pts)
               <=> (Cardinality(Begins(more, p)) + Cardinality(Stops(more, p))) % 2 = 1
  <2>1. PICK A, B, C, D : /\ A = Begins(ways, p) /\ B = Stops(ways, p)
                          /\ C = Begins(more, p) /\ D = Stops(more, p)
    OBVIOUS
  <2>2. A = {i \in 1 .. n : ~Meets(more[i].points) /\ more[i].points[1] = p}
    BY <1>2, <1>4, <2>1 DEF Begins
  <2>3. B = {i \in 1 .. n : ~Meets(more[i].points) /\ Last(more[i].points) = p}
    BY <1>2, <1>4, <2>1 DEF Stops
  <2>4. C = A \cup {i \in {n + 1} : ~Meets(more[i].points) /\ more[i].points[1] = p}
    BY <1>5, <1>6, <2>1, <2>2 DEF Begins
  <2>5. D = B \cup {i \in {n + 1} : ~Meets(more[i].points) /\ Last(more[i].points) = p}
    BY <1>5, <1>6, <2>1, <2>3 DEF Stops
  <2>6. (C = A \/ C = A \cup {n + 1}) /\ (n + 1 \in C <=> ~Meets(pts) /\ pts[1] = p)
    BY <1>1, <1>3, <1>6, <2>2, <2>4
  <2>7. (D = B \/ D = B \cup {n + 1}) /\ (n + 1 \in D <=> ~Meets(pts) /\ Last(pts) = p)
    BY <1>1, <1>3, <1>6, <2>3, <2>5
  <2>8. A \in SUBSET (1 .. n) /\ B \in SUBSET (1 .. n)
    BY <2>2, <2>3
  <2>9. PICK a, b, c, d : /\ a = Cardinality(A) /\ b = Cardinality(B)
                          /\ c = Cardinality(C) /\ d = Cardinality(D)
    OBVIOUS
  <2>10. a \in Nat /\ c = IF n + 1 \in C THEN a + 1 ELSE a
    BY <1>2, <2>6, <2>8, <2>9, SizeMore
  <2>11. b \in Nat /\ d = IF n + 1 \in D THEN b + 1 ELSE b
    BY <1>2, <2>7, <2>8, <2>9, SizeMore
  <2>12. p \in O <=> (a + b) % 2 = 1
    BY <2>1, <2>9 DEF OddEnds
  <2>13. p \in After(O, pts) <=> (c + d) % 2 = 1
    <3>1. CASE Meets(pts)
      <4>1. c = a /\ d = b /\ After(O, pts) = O
        BY <2>6, <2>7, <2>10, <2>11, <3>1 DEF After
      <4> QED BY <2>12, <4>1
    <3>2. CASE ~Meets(pts)
      <4>1. /\ After(O, pts) = (O \ {pts[1], Last(pts)}) \cup ({pts[1], Last(pts)} \ O)
            /\ pts[1] # Last(pts)
        BY <3>2 DEF After, EndsOf, Meets
      <4>2. CASE p \notin {pts[1], Last(pts)}
        <5>1. c = a /\ d = b /\ (p \in After(O, pts) <=> p \in O)
          BY <2>6, <2>7, <2>10, <2>11, <4>1, <4>2
        <5> QED BY <2>12, <5>1
      <4>3. CASE p \in {pts[1], Last(pts)}
        <5>1. p \in After(O, pts) <=> p \notin O
          BY <4>1, <4>3
        <5>2. c + d = a + b + 1
          BY <2>6, <2>7, <2>10, <2>11, <3>2, <4>1, <4>3
        <5>3. (a + b + 1) % 2 = 1 <=> ~((a + b) % 2 = 1)
          BY <2>10, <2>11
        <5> QED BY <2>12, <5>1, <5>2, <5>3
      <4> QED BY <4>2, <4>3
    <3> QED BY <3>1, <3>2
  <2> QED BY <2>1, <2>9, <2>13
<1> QED BY <1>1, <1>7 DEF OddEnds

\* Nothing has been loaded yet.
LEMMA EmptyRelationInv == RelationInv(EmptyRelation)
<1>1. PICK r, ways, s, O : r = EmptyRelation /\ ways = << >> /\ s = NoShape /\ O = {}
  OBVIOUS
<1>2. DOMAIN r = RelationFields /\ r.ways = ways /\ r.shape = s
  BY <1>1 DEF EmptyRelation, RelationFields
<1>3. IsList(<< >>) /\ Len(<< >>) = 0 /\ ToSet(<< >>) = {} /\ Distinct(<< >>)
  <2>1. << >> \in Seq({})
    OBVIOUS
  <2>2. IsList(<< >>)
    BY <2>1 DEF IsList
  <2> QED BY <2>2 DEF ToSet, Distinct
<1>4. DOMAIN s = ShapeFields /\ s.line = << >> /\ s.opened = << >> /\ s.closed = << >> /\ s.ep = {}
  BY <1>1 DEF NoShape, ShapeFields
<1>5. Listed(s) /\ ClosedMeet(s)
  BY <1>3, <1>4 DEF Listed, ClosedMeet
<1>6. OpenApart(s, {}, O)
  BY <1>1, <1>3, <1>4 DEF OpenApart, Apart, EpOf, PointsAt
<1>7. OddEnds(ways, O)
  <2>1. DOMAIN ways = {}
    BY <1>1
  <2>2. Cardinality({}) = 0
    BY FS_EmptySet
  <2> QED BY <1>1, <2>1, <2>2 DEF OddEnds, Begins, Stops
<1>8. \A x : SegmentsIn(x, s) = Cardinality(LineHits(x, PointsOf(ways), 1 .. Len(ways)))
  <2> TAKE x
  <2>1. ToSet(s.opened) \cup ToSet(s.closed) = {} /\ 1 .. Len(ways) = {}
    BY <1>1, <1>3, <1>4
  <2>2. LineHits(x, s.line, {}) = {} /\ LineHits(x, PointsOf(ways), {}) = {}
    BY DEF LineHits
  <2> QED BY <2>1, <2>2 DEF SegmentsIn
<1>9. IsList(ways) /\ \A i \in 1 .. Len(ways) : IsLine(ways[i].points)
  BY <1>1, <1>3
<1> QED BY <1>1, <1>2, <1>5, <1>6, <1>7, <1>8, <1>9 DEF RelationInv, Assembled

\* A way more.
LEMMA WithWayInv ==
  ASSUME NEW r, RelationInv(r), NEW w, IsLine(w.points), NEW t, t = WithWay(r, w, TRUE)
  PROVE  RelationInv(t)
<1>1. PICK n, ways, more, s, pts, u :
        /\ n = Len(ways) /\ ways = r.ways /\ more = Append(ways, w) /\ s = r.shape /\ pts = w.points
        /\ u = ShapeMerged(s, pts, Meets(pts))
  OBVIOUS
<1>2. /\ DOMAIN r = RelationFields /\ IsList(ways) /\ \A i \in 1 .. n : IsLine(ways[i].points)
      /\ \A x : SegmentsIn(x, s) = Cardinality(LineHits(x, PointsOf(ways), 1 .. n))
  BY <1>1 DEF RelationInv
<1>3. PICK O : Assembled(s, {}, O) /\ OddEnds(ways, O)
  BY <1>1 DEF RelationInv
<1>4. DOMAIN t = RelationFields /\ t.ways = more /\ t.shape = u
  BY <1>1, <1>2 DEF WithWay, RelationFields
<1>5. IsLine(pts)
  BY <1>1
<1>6. Assembled(u, {}, After(O, pts)) /\ Grows(s, u, pts)
  BY <1>1, <1>3, <1>5, ShapeMergedIs
<1>7. OddEnds(more, After(O, pts))
  BY <1>1, <1>2, <1>3, OddEndsMore
<1>8. IsList(more) /\ Len(more) = n + 1 /\ more[n + 1] = w /\ \A i \in 1 .. n : more[i] = ways[i]
  <2>0. IsList(ways) /\ more = Append(ways, w)
    BY <1>1, <1>2
  <2>1. IsList(more) /\ Len(more) = Len(ways) + 1
    BY <2>0, ListAppend
  <2>2. more[Len(ways) + 1] = w
    BY <2>0, ListAppend
  <2>3. \A i \in 1 .. Len(ways) : more[i] = ways[i]
    BY <2>0, ListAppend
  <2> QED BY <1>1, <2>1, <2>2, <2>3
<1>9. n \in Nat
  BY <1>1, <1>2, ListIs
<1>10. 1 .. n + 1 = (1 .. n) \cup {n + 1} /\ n + 1 \notin 1 .. n
  BY <1>9
<1>11. \A i \in 1 .. n + 1 : IsLine(more[i].points)
  BY <1>1, <1>2, <1>5, <1>8, <1>10
<1>12. PICK a, b : a = PointsOf(ways) /\ b = PointsOf(more)
  OBVIOUS
<1>13. \A i \in 1 .. n : b[i] = a[i]
  BY <1>1, <1>8, <1>10, <1>12 DEF PointsOf
<1>14. b[n + 1] = pts
  BY <1>1, <1>8, <1>10, <1>12 DEF PointsOf
<1>15. ASSUME NEW x PROVE SegmentsIn(x, u) = Cardinality(LineHits(x, b, 1 .. n + 1))
  <2>1. PICK B, k : B = 1 .. n /\ k = n + 1
    OBVIOUS
  <2>2. IsFiniteSet(B) /\ k \notin B
    BY <1>9, <1>10, <2>1, FS_Interval
  <2>3. \A i \in B \cup {k} : IsList(b[i])
    BY <1>8, <1>10, <1>11, <1>12, <2>1 DEF PointsOf, IsLine
  <2>4. Cardinality(LineHits(x, b, B \cup {k}))
          = Cardinality(LineHits(x, b, B)) + Cardinality(Hits(x, b[k]))
    BY <2>2, <2>3, LineHitsMore
  <2>5. LineHits(x, b, B) = LineHits(x, a, B)
    BY <1>13, <2>1, LineHitsSame
  <2>6. SegmentsIn(x, u) = SegmentsIn(x, s) + Cardinality(Hits(x, pts))
    BY <1>6 DEF Grows
  <2>7. SegmentsIn(x, s) = Cardinality(LineHits(x, a, B))
    BY <1>2, <1>12, <2>1
  <2> QED BY <1>10, <1>14, <2>1, <2>4, <2>5, <2>6, <2>7
<1> QED BY <1>4, <1>6, <1>7, <1>8, <1>11, <1>12, <1>15 DEF RelationInv

\* A relation within a relation has no shape: it is loaded without one.
Plain(r) == DOMAIN r = RelationFields /\ r.shape = NoShape

\* It stays so.
LEMMA PlainSimple ==
  ASSUME NEW r, Plain(r), NEW m
  PROVE  Plain(WithSimple(r, m, FALSE, {}))
<1>1. Plain([r EXCEPT !.points = Append(@, m.point)])
  BY DEF Plain, RelationFields
<1>2. Plain(WithWay(r, m, FALSE))
  BY DEF Plain, RelationFields, WithWay
<1>3. \/ WithSimple(r, m, FALSE, {}) = [r EXCEPT !.points = Append(@, m.point)]
      \/ WithSimple(r, m, FALSE, {}) = WithWay(r, m, FALSE)
      \/ WithSimple(r, m, FALSE, {}) = r
  BY DEF WithSimple, WithPoint
<1> QED BY <1>1, <1>2, <1>3

\* The greatest element of a set, as FiniteSetsExt has it.
Greatest(s) == CHOOSE x \in s : \A y \in s : x >= y

\* A set of indices has a greatest one.
LEMMA GreatestIs ==
  ASSUME NEW N \in Nat, NEW s \in SUBSET (1 .. N), s # {}
  PROVE  Greatest(s) \in s /\ \A y \in s : Greatest(s) >= y
<1>1. PICK T : T = {N - y : y \in s}
  OBVIOUS
<1>2. T \in SUBSET Nat /\ T # {}
  <2>1. \A y \in s : N - y \in Nat
    OBVIOUS
  <2> QED BY <1>1, <2>1
<1>3. PICK n \in T : \A m \in T : n <= m
  BY <1>2, LeastElement
<1>4. PICK x \in s : n = N - x
  BY <1>1, <1>3
<1>5. \A y \in s : x >= y
  <2> TAKE y \in s
  <2>1. n <= N - y /\ x \in Int /\ y \in Int
    BY <1>1, <1>3
  <2> QED BY <1>4, <2>1
<1>6. \E z \in s : \A y \in s : z >= y
  BY <1>5
<1> QED BY <1>6, Zenon DEF Greatest

\* What a fold over members makes, of those with the indices in a set.
Loads(g, n, v, members, shaped) ==
  g = [s \in SUBSET (1 .. n) |->
         IF s = {} THEN v
         ELSE WithSimple(g[s \ {Greatest(s)}], members[Greatest(s)], shaped, {})]

\* There is such a function.
LEMMA LoadsExists ==
  ASSUME NEW N \in Nat, NEW v, NEW members, NEW shaped
  PROVE  \E g : Loads(g, N, v, members, shaped)
<1>1. PICK S : S = {n \in 0 .. N : \E g : Loads(g, n, v, members, shaped)}
  OBVIOUS
<1>2. 0 \in S
  <2>1. PICK g : g = [s \in SUBSET (1 .. 0) |-> v]
    OBVIOUS
  <2>2. \A s \in SUBSET (1 .. 0) : s = {}
    OBVIOUS
  <2>3. g = [s \in SUBSET (1 .. 0) |->
               IF s = {} THEN v
               ELSE WithSimple(g[s \ {Greatest(s)}], members[Greatest(s)], shaped, {})]
    BY <2>1, <2>2
  <2>4. Loads(g, 0, v, members, shaped)
    BY <2>3, Zenon DEF Loads
  <2>5. 0 \in 0 .. N
    OBVIOUS
  <2> QED BY <1>1, <2>4, <2>5
<1>3. ASSUME NEW n \in 1 .. N, n - 1 \in S PROVE n \in S
  <2>1. PICK g : Loads(g, n - 1, v, members, shaped)
    BY <1>1, <1>3
  <2>2. PICK h : h = [s \in SUBSET (1 .. n) |->
                        IF n \in s THEN WithSimple(g[s \ {n}], members[n], shaped, {}) ELSE g[s]]
    OBVIOUS
  <2>3. ASSUME NEW s \in SUBSET (1 .. n)
        PROVE  /\ s \ {n} \in SUBSET (1 .. n - 1) /\ s \ {n} \in SUBSET (1 .. n) /\ n \notin s \ {n}
               /\ n \notin s => s \in SUBSET (1 .. n - 1)
    OBVIOUS
  <2>4. ASSUME NEW s \in SUBSET (1 .. n), n \in s PROVE Greatest(s) = n
    <3>1. Greatest(s) \in s /\ \A y \in s : Greatest(s) >= y
      BY <2>4, GreatestIs
    <3>2. Greatest(s) \in 1 .. n /\ Greatest(s) >= n
      BY <2>4, <3>1
    <3> QED BY <3>2
  <2>5. ASSUME NEW s \in SUBSET (1 .. n - 1)
        PROVE  g[s] = IF s = {} THEN v
                      ELSE WithSimple(g[s \ {Greatest(s)}], members[Greatest(s)], shaped, {})
    BY <2>1 DEF Loads
  <2>6. ASSUME NEW s \in SUBSET (1 .. n)
        PROVE  h[s] = IF s = {} THEN v
                      ELSE WithSimple(h[s \ {Greatest(s)}], members[Greatest(s)], shaped, {})
    <3>1. CASE n \in s
      <4>1. s # {} /\ Greatest(s) = n
        BY <2>4, <3>1
      <4>2. h[s \ {n}] = g[s \ {n}]
        BY <2>2, <2>3
      <4>3. h[s] = WithSimple(g[s \ {n}], members[n], shaped, {})
        BY <2>2, <3>1
      <4> QED BY <4>1, <4>2, <4>3
    <3>2. CASE n \notin s
      <4>1. s \in SUBSET (1 .. n - 1)
        BY <2>3, <3>2
      <4>2. h[s] = g[s]
        BY <2>2, <3>2
      <4>3. PICK x : x = Greatest(s)
        OBVIOUS
      <4>4. s \ {x} \in SUBSET (1 .. n) /\ n \notin s \ {x}
        BY <3>2
      <4>5. h[s \ {x}] = g[s \ {x}]
        BY <2>2, <4>4
      <4>6. g[s] = IF s = {} THEN v ELSE WithSimple(g[s \ {x}], members[x], shaped, {})
        BY <2>5, <4>1, <4>3
      <4> QED BY <4>2, <4>3, <4>5, <4>6
    <3> QED BY <3>1, <3>2
  <2>7. h = [s \in SUBSET (1 .. n) |-> h[s]]
    BY <2>2
  <2>8. h = [s \in SUBSET (1 .. n) |->
               IF s = {} THEN v
               ELSE WithSimple(h[s \ {Greatest(s)}], members[Greatest(s)], shaped, {})]
    BY <2>6, <2>7, Zenon
  <2>9. Loads(h, n, v, members, shaped)
    BY <2>8, Zenon DEF Loads
  <2>10. n \in 0 .. N
    OBVIOUS
  <2> QED BY <1>1, <2>9, <2>10
<1>4. N \in S
  BY <1>2, <1>3, StepInduction
<1> QED BY <1>1, <1>4

\* What SubRelation makes of all its members.
LEMMA SubRelationPlain ==
  ASSUME NEW m, IsList(m.members), NEW limit, limit = {}
  PROVE  Plain(SubRelation(m, limit))
<1>1. PICK N, v : N = Len(m.members) /\ v = [EmptyRelation EXCEPT !.tags = m.tags]
  OBVIOUS
<1>2. N \in Nat /\ DOMAIN m.members = 1 .. N
  BY <1>1, ListIs
<1>3. (limit # {}) = FALSE
  OBVIOUS
<1>4. \E g : Loads(g, N, [EmptyRelation EXCEPT !.tags = m.tags], m.members, limit # {})
  BY <1>2, LoadsExists
<1>5. PICK h : h = CHOOSE iter : iter =
                     [s \in SUBSET (1 .. N) |->
                        IF s = {} THEN [EmptyRelation EXCEPT !.tags = m.tags]
                        ELSE WithSimple(iter[s \ {Greatest(s)}], m.members[Greatest(s)],
                                        limit # {}, {})]
  OBVIOUS
<1>6. Loads(h, N, [EmptyRelation EXCEPT !.tags = m.tags], m.members, limit # {})
  BY <1>4, <1>5, Zenon DEF Loads
<1>7. Loads(h, N, v, m.members, FALSE)
  BY <1>1, <1>3, <1>6, Zenon
<1>8. SubRelation(m, limit) = h[1 .. N]
  BY <1>2, <1>5, Zenon DEF SubRelation, FoldLeft, MapThenFoldSet, Max, Greatest
<1>9. Plain(v)
  BY <1>1 DEF Plain, EmptyRelation, RelationFields
<1>10. PICK T : T = {n \in 0 .. N : Plain(h[1 .. n])}
  OBVIOUS
<1>11. 0 \in T
  <2>1. 1 .. 0 = {} /\ {} \in SUBSET (1 .. N) /\ 0 \in 0 .. N
    BY <1>2
  <2>2. h[{}] = v
    BY <1>7, <2>1 DEF Loads
  <2> QED BY <1>9, <1>10, <2>1, <2>2
<1>12. ASSUME NEW n \in 1 .. N, n - 1 \in T PROVE n \in T
  <2>1. 1 .. n \in SUBSET (1 .. N) /\ 1 .. n # {} /\ (1 .. n) \ {n} = 1 .. n - 1 /\ n \in 0 .. N
    BY <1>2
  <2>2. Greatest(1 .. n) = n
    <3>1. Greatest(1 .. n) \in 1 .. n /\ \A y \in 1 .. n : Greatest(1 .. n) >= y
      BY <1>2, <2>1, GreatestIs
    <3> QED BY <3>1
  <2>3. h[1 .. n] = WithSimple(h[1 .. n - 1], m.members[n], FALSE, {})
    BY <1>7, <2>1, <2>2 DEF Loads
  <2>4. Plain(h[1 .. n - 1])
    BY <1>10, <1>12
  <2> QED BY <1>10, <2>1, <2>3, <2>4, PlainSimple
<1>13. N \in T
  BY <1>2, <1>11, <1>12, StepInduction
<1> QED BY <1>8, <1>10, <1>13

\* No lines to be joined.
LEMMA WithNoLines ==
  ASSUME NEW shape, NEW sub, sub = NoShape
  PROVE  WithLines(shape, sub) = shape
<1>1. DOMAIN sub.closed = {} /\ DOMAIN sub.opened = {}
  BY DEF NoShape
<1>2. {} \in SUBSET {} /\ \A t \in SUBSET {} : t = {}
  OBVIOUS
<1>3. PICK g : g = [t \in SUBSET {} |-> shape]
  OBVIOUS
<1>4. PICK h : h = CHOOSE iter : iter =
                     [t \in SUBSET {} |->
                        IF t = {} THEN shape
                        ELSE ShapeMerged(iter[t \ {Greatest(t)}],
                                         sub.line[sub.closed[Greatest(t)]], TRUE)]
  OBVIOUS
<1>5. h[{}] = shape
  <2>1. g = [t \in SUBSET {} |->
               IF t = {} THEN shape
               ELSE ShapeMerged(g[t \ {Greatest(t)}], sub.line[sub.closed[Greatest(t)]], TRUE)]
    BY <1>2, <1>3
  <2>2. h = [t \in SUBSET {} |->
               IF t = {} THEN shape
               ELSE ShapeMerged(h[t \ {Greatest(t)}], sub.line[sub.closed[Greatest(t)]], TRUE)]
    BY <1>4, <2>1, Zenon
  <2> QED BY <1>2, <2>2
<1>6. FoldLeft(LAMBDA s, id : ShapeMerged(s, sub.line[id], TRUE), shape, sub.closed) = h[{}]
  BY <1>1, <1>4, Zenon DEF FoldLeft, MapThenFoldSet, Max, Greatest
<1>7. PICK k : k = CHOOSE iter : iter =
                     [t \in SUBSET {} |->
                        IF t = {} THEN shape
                        ELSE ShapeMerged(iter[t \ {Greatest(t)}],
                                         sub.line[sub.opened[Greatest(t)]], FALSE)]
  OBVIOUS
<1>8. k[{}] = shape
  <2>1. g = [t \in SUBSET {} |->
               IF t = {} THEN shape
               ELSE ShapeMerged(g[t \ {Greatest(t)}], sub.line[sub.opened[Greatest(t)]], FALSE)]
    BY <1>2, <1>3
  <2>2. k = [t \in SUBSET {} |->
               IF t = {} THEN shape
               ELSE ShapeMerged(k[t \ {Greatest(t)}], sub.line[sub.opened[Greatest(t)]], FALSE)]
    BY <1>7, <2>1, Zenon
  <2> QED BY <1>2, <2>2
<1>9. FoldLeft(LAMBDA s, id : ShapeMerged(s, sub.line[id], FALSE), shape, sub.opened) = k[{}]
  BY <1>1, <1>7, Zenon DEF FoldLeft, MapThenFoldSet, Max, Greatest
<1> DEFINE closed == FoldLeft(LAMBDA s, id : ShapeMerged(s, sub.line[id], TRUE), shape, sub.closed)
<1>10. WithLines(shape, sub)
         = FoldLeft(LAMBDA s, id : ShapeMerged(s, sub.line[id], FALSE), closed, sub.opened)
  BY DEF WithLines
<1>11. closed = shape
  BY <1>5, <1>6
<1> HIDE DEF closed
<1>12. WithLines(shape, sub)
         = FoldLeft(LAMBDA s, id : ShapeMerged(s, sub.line[id], FALSE), shape, sub.opened)
  BY <1>10, <1>11, Zenon
<1> QED BY <1>8, <1>9, <1>12

\* One member more, loaded without a limit and with a shape.
LEMMA WithMemberInv ==
  ASSUME NEW r, RelationInv(r), NEW m \in Members, NEW recurs, NEW limit, limit = {},
         NEW t, t = WithMember(r, m, recurs, TRUE, limit)
  PROVE  RelationInv(t)
<1>1. DOMAIN r = RelationFields
  BY DEF RelationInv
<1>2. ASSUME NEW u, DOMAIN u = RelationFields, u.ways = r.ways, u.shape = r.shape
      PROVE  RelationInv(u)
  BY <1>2 DEF RelationInv
<1>3. CASE m.type # "relation"
  <2>1. t = WithSimple(r, m, TRUE, {})
    BY <1>3 DEF WithMember
  <2>2. CASE m.type = "point"
    <3>1. t = [r EXCEPT !.points = Append(@, m.point)]
      BY <2>1, <2>2 DEF WithSimple, WithPoint
    <3>2. DOMAIN t = RelationFields /\ t.ways = r.ways /\ t.shape = r.shape
      BY <1>1, <3>1 DEF RelationFields
    <3> QED BY <1>2, <3>2
  <2>3. CASE m.type = "way" /\ m.points # << >>
    <3>1. LoadWay(m, {}) # {}
      BY <2>3 DEF LoadWay
    <3>2. t = WithWay(r, m, TRUE)
      BY <2>1, <2>3, <3>1 DEF WithSimple
    <3>3. IsLine(m.points)
      <4>1. m.points \in Seq(ToSet(m.points))
        BY <2>3, MemberAssumption
      <4>2. IsList(m.points)
        BY <4>1 DEF IsList
      <4>3. Len(m.points) # 0
        BY <2>3, <4>1, EmptySeq
      <4> QED BY <4>2, <4>3, ListIs DEF IsLine
    <3> QED BY <3>2, <3>3, WithWayInv
  <2>4. CASE m.type # "point" /\ ~(m.type = "way" /\ m.points # << >>)
    <3>1. m.type = "way" => LoadWay(m, {}) = {}
      BY <2>4 DEF LoadWay
    <3>2. t = r
      BY <2>1, <2>4, <3>1 DEF WithSimple
    <3> QED BY <3>2
  <2> QED BY <2>2, <2>3, <2>4
<1>4. CASE m.type = "relation"
  <2>1. PICK sub : sub = SubRelation(m, limit)
    OBVIOUS
  <2>2. t = r \/ t = WithRelation(r, sub, TRUE)
    BY <1>4, <2>1 DEF WithMember
  <2>3. IsList(m.members)
    BY <1>4, MemberAssumption DEF IsList
  <2>4. sub.shape = NoShape
    BY <2>1, <2>3, SubRelationPlain DEF Plain
  <2>5. PICK shape : shape = r.shape
    OBVIOUS
  <2>6. WithLines(shape, sub.shape) = shape
    BY <2>4, WithNoLines
  <2>7. WithRelation(r, sub, TRUE)
          = [r EXCEPT !.relations = Append(@, sub), !.rect = Join(@, sub.rect),
                      !.shape = WithLines(@, sub.shape)]
    BY DEF WithRelation
  <2>8. ASSUME t = WithRelation(r, sub, TRUE)
        PROVE  DOMAIN t = RelationFields /\ t.ways = r.ways /\ t.shape = r.shape
    BY <1>1, <2>5, <2>6, <2>7, <2>8 DEF RelationFields
  <2> QED BY <1>2, <2>2, <2>8
<1> QED BY <1>3, <1>4

\* The shape that is asked for, of what has been loaded.
LoadFields == {"recurs", "computeShape", "limit", "count"}
ShapeInv ==
  /\ DOMAIN loading = LoadFields
  /\ loading.computeShape => loading.limit = {} /\ RelationInv(relation)

\* Nothing is asked for.
LEMMA ShapeInvStart == ShapeInit => ShapeInv
  BY DEF ShapeInit, ShapeInv, NoLoad, LoadFields

\* Every step keeps to it, and only those of a relation concern it.
LEMMA ShapeInvStep == ShapeInv /\ [Next]_vars => ShapeInv'
<1> SUFFICES ASSUME ShapeInv, [Next]_vars PROVE ShapeInv'
  OBVIOUS
<1>1. CASE UNCHANGED shapeVars
  BY <1>1 DEF ShapeInv, shapeVars
<1>2. CASE ShowRelation
  <2>1. PICK c \in Calls : StartLoading(c)
    BY <1>2 DEF ShowRelation
  <2>2. loading' = c /\ relation' = EmptyRelation
    BY <2>1 DEF StartLoading
  <2>3. DOMAIN c = LoadFields /\ (c.computeShape => c.limit = {})
    BY CallAssumption DEF LoadFields
  <2> QED BY <2>2, <2>3, EmptyRelationInv DEF ShapeInv
<1>3. CASE LoadMember
  <2>1. PICK m \in Members : LinkMember(m)
    BY <1>3 DEF LoadMember
  <2>2. PICK l, next, r, t : /\ l = loading /\ next = loading' /\ r = relation /\ t = relation'
                             /\ next = [l EXCEPT !.count = @ + 1]
                             /\ t = WithMember(r, m, l.recurs, l.computeShape, l.limit)
    BY <2>1 DEF LinkMember
  <2>3. DOMAIN l = LoadFields /\ (l.computeShape => l.limit = {} /\ RelationInv(r))
    BY <2>2 DEF ShapeInv
  <2>4. DOMAIN next = LoadFields /\ next.computeShape = l.computeShape /\ next.limit = l.limit
    BY <2>2, <2>3 DEF LoadFields
  <2>5. ASSUME l.computeShape PROVE RelationInv(t)
    <3>1. t = WithMember(r, m, l.recurs, TRUE, l.limit)
      BY <2>2, <2>5 DEF WithMember, WithSimple, WithWay, WithRelation
    <3> QED BY <2>3, <2>5, <3>1, WithMemberInv
  <2>6. DOMAIN next = LoadFields /\ (next.computeShape => next.limit = {} /\ RelationInv(t))
    BY <2>3, <2>4, <2>5
  <2> QED BY <2>2, <2>6 DEF ShapeInv
<1>4. CASE \E length \in AnswerLengths : EndRelation(length)
  <2>1. loading' = NoLoad
    BY <1>4 DEF EndRelation, ReturnRelation
  <2> QED BY <2>1 DEF ShapeInv, NoLoad, LoadFields
<1>5. UNCHANGED shapeVars \/ ShowRelation \/ LoadMember
        \/ \E length \in AnswerLengths : EndRelation(length)
  <2>1. Next => UNCHANGED shapeVars \/ ShowRelation \/ LoadMember
                  \/ \E length \in AnswerLengths : EndRelation(length)
    BY DEF Next, Exchange, DrawTile, StartPage, FillPage, PrintPiece, EndPath, Search, SearchOn,
           EndPage, SearchForNothing, ReturnSearch, LoadPoints, serving
  <2>2. UNCHANGED vars => UNCHANGED shapeVars
    BY DEF vars
  <2> QED BY <2>1, <2>2
<1> QED BY <1>1, <1>2, <1>3, <1>4, <1>5

\* A point is an end of an open line exactly if an odd number of open ways end there.
LEMMA OddEndsAreOpen ==
  ASSUME ShapeInv
  PROVE  OpenEndsAreOdd
<1> SUFFICES ASSUME loading.computeShape PROVE OpenEndsAreOdd
  BY DEF OpenEndsAreOdd
<1>1. PICK r, s : r = relation /\ s = r.shape
  OBVIOUS
<1>2. RelationInv(r)
  BY <1>1 DEF ShapeInv
<1>3. PICK O : Assembled(s, {}, O) /\ OddEnds(r.ways, O)
  BY <1>1, <1>2 DEF RelationInv
<1>4. PICK line, A : line = s.line /\ A = ToSet(s.opened)
  OBVIOUS
<1>5. Apart(line, A) /\ s.ep = EpOf(line, A) /\ O = PointsAt(line, A)
  <2>1. A \ {} = A
    OBVIOUS
  <2> QED BY <1>3, <1>4, <2>1 DEF Assembled, OpenApart
<1>6. \A id \in ToSet(s.closed) : Meets(line[id])
  BY <1>3, <1>4 DEF Assembled, ClosedMeet
<1>7. \A id \in A : EndsOf(line[id]) = {line[id][1], Last(line[id])}
  BY DEF EndsOf
<1>8. s.ep = UNION {{line[id][1], Last(line[id])} \X {id} : id \in A}
  BY <1>5 DEF EpOf, EndsOf
<1>9. \A p : p \in O <=> Degree(r, p) % 2 = 1
  BY <1>3 DEF OddEnds, Begins, Stops, Degree
<1>10. ASSUME NEW p PROVE Degree(r, p) \in Nat
  <2>1. IsList(r.ways)
    BY <1>2 DEF RelationInv
  <2>2. PICK n, C, D : n = Len(r.ways) /\ C = Begins(r.ways, p) /\ D = Stops(r.ways, p)
    OBVIOUS
  <2>3. n \in Nat /\ DOMAIN r.ways = 1 .. n
    BY <2>1, <2>2, ListIs
  <2>4. C \in SUBSET (1 .. n) /\ D \in SUBSET (1 .. n)
    BY <2>2, <2>3 DEF Begins, Stops
  <2>5. Cardinality(C) \in Nat /\ Cardinality(D) \in Nat
    BY <2>3, <2>4, SizeMore
  <2>6. Degree(r, p) = Cardinality(C) + Cardinality(D)
    BY <2>2 DEF Degree, Begins, Stops
  <2> QED BY <2>5, <2>6
<1>11. ASSUME NEW p
       PROVE  Cardinality({id \in A : p \in {line[id][1], Last(line[id])}}) = Degree(r, p) % 2
  <2>1. PICK S : S = {id \in A : p \in {line[id][1], Last(line[id])}}
    OBVIOUS
  <2>2. S = {id \in A : p \in EndsOf(line[id])}
    BY <2>1 DEF EndsOf
  <2>3. CASE p \in O
    <3>1. PICK id \in A : p \in EndsOf(line[id])
      BY <1>5, <2>3 DEF PointsAt
    <3>2. S = {id}
      BY <1>5, <2>2, <3>1 DEF Apart
    <3>3. Cardinality(S) = 1
      BY <3>2, FS_Singleton
    <3> QED BY <1>9, <2>1, <2>3, <3>3
  <2>4. CASE p \notin O
    <3>1. S = {}
      BY <1>5, <2>2, <2>4 DEF PointsAt
    <3>2. Cardinality(S) = 0
      BY <3>1, FS_EmptySet
    <3>3. Degree(r, p) % 2 = 0
      BY <1>9, <1>10, <2>4
    <3> QED BY <2>1, <3>2, <3>3
  <2> QED BY <2>3, <2>4
<1> QED BY <1>1, <1>4, <1>6, <1>8, <1>11 DEF OpenEndsAreOdd

\* The lines of the shape have the segments of the ways.
LEMMA SegmentsKept ==
  ASSUME ShapeInv
  PROVE  SegmentsAreKept
<1> SUFFICES ASSUME loading.computeShape PROVE SegmentsAreKept
  BY DEF SegmentsAreKept
<1>1. PICK r, s, q, n, ways, lines :
        /\ r = relation /\ s = r.shape /\ q = PointsOf(r.ways) /\ n = Len(r.ways)
        /\ ways = Segments(q) /\ lines = Segments(Lines(s))
  OBVIOUS
<1>2. RelationInv(r)
  BY <1>1 DEF ShapeInv
<1>3. IsList(r.ways) /\ (\A i \in 1 .. n : IsLine(r.ways[i].points))
  BY <1>1, <1>2 DEF RelationInv
<1>4. n \in Nat /\ DOMAIN r.ways = 1 .. n
  BY <1>1, <1>3, ListIs
<1>5. q = [i \in 1 .. n |-> r.ways[i].points]
  BY <1>1 DEF PointsOf
<1>6. IsList(q) /\ Len(q) = n
  <2>1. q = [i \in 1 .. n |-> q[i]]
    BY <1>5
  <2> QED BY <1>4, <2>1, ListOf
<1>7. \A i \in 1 .. n : IsLine(q[i])
  BY <1>3, <1>5
<1>8. \A x : Times(x, ways) = Cardinality(LineHits(x, q, 1 .. n))
  BY <1>1, <1>4, <1>6, <1>7, TimesAll
<1>9. PICK O : Assembled(s, {}, O)
  BY <1>1, <1>2 DEF RelationInv
<1>10. \A x : Times(x, lines) = SegmentsIn(x, s)
  BY <1>1, <1>9, LinesTimes
<1>11. \A x : SegmentsIn(x, s) = Cardinality(LineHits(x, q, 1 .. n))
  BY <1>1, <1>2 DEF RelationInv
<1>12. \A x : Times(x, ways) = Times(x, lines)
  BY <1>8, <1>10, <1>11
<1>13. [i \in DOMAIN relation.ways |-> relation.ways[i].points] = q
  BY <1>1, <1>4, <1>5
<1> QED BY <1>1, <1>12, <1>13 DEF SegmentsAreKept

\* However the ways of a relation are joined, turned and closed, as few lines stay open as
\* can be.
THEOREM OpenEndsOdd == Spec => []OpenEndsAreOdd
<1>1. Init => ShapeInv
  BY ShapeInvStart DEF Init
<1> QED BY <1>1, ShapeInvStep, OddEndsAreOpen, PTL DEF Spec

\* However they are, every segment of a way is in the lines, as often as in the ways.
THEOREM SegmentsStay == Spec => []SegmentsAreKept
<1>1. Init => ShapeInv
  BY ShapeInvStart DEF Init
<1> QED BY <1>1, ShapeInvStep, SegmentsKept, PTL DEF Spec
-----------------------------------------------------------------------------
(* What is printed. *)

\* p are the powers of ten up to that of n.
Powers(p, n) == p = [k \in 0 .. n |-> IF k = 0 THEN 1 ELSE 10 * p[k - 1]]

\* There is such a function.
LEMMA PowersExist == \E p : Powers(p, 20)
<1>1. PICK S : S = {n \in 0 .. 20 : \E p : Powers(p, n)}
  OBVIOUS
<1>2. 0 \in S
  <2>1. PICK p : p = [k \in 0 .. 0 |-> 1]
    OBVIOUS
  <2>2. \A k \in 0 .. 0 : k = 0
    OBVIOUS
  <2>3. p = [k \in 0 .. 0 |-> IF k = 0 THEN 1 ELSE 10 * p[k - 1]]
    BY <2>1, <2>2
  <2> QED BY <1>1, <2>3 DEF Powers
<1>3. ASSUME NEW n \in 1 .. 20, n - 1 \in S PROVE n \in S
  <2>1. PICK p : Powers(p, n - 1)
    BY <1>1, <1>3
  <2>2. PICK q : q = [k \in 0 .. n |-> IF k = n THEN 10 * p[n - 1] ELSE p[k]]
    OBVIOUS
  <2>3. ASSUME NEW k \in 0 .. n PROVE q[k] = IF k = 0 THEN 1 ELSE 10 * q[k - 1]
    <3>1. CASE k = 0
      <4>1. 0 \in 0 .. n - 1 /\ 0 # n
        OBVIOUS
      <4>2. p[0] = 1
        BY <2>1, <4>1 DEF Powers
      <4> QED BY <2>2, <3>1, <4>1, <4>2
    <3>2. CASE k = n
      <4>1. n - 1 \in 0 .. n /\ n - 1 # n /\ n # 0
        OBVIOUS
      <4>2. q[n - 1] = p[n - 1] /\ q[n] = 10 * p[n - 1]
        BY <2>2, <4>1
      <4> QED BY <3>2, <4>1, <4>2
    <3>3. CASE k # 0 /\ k # n
      <4>1. k \in 0 .. n - 1 /\ k - 1 \in 0 .. n /\ k - 1 # n
        BY <3>3
      <4>2. q[k] = p[k] /\ q[k - 1] = p[k - 1]
        BY <2>2, <3>3, <4>1
      <4>3. p[k] = 10 * p[k - 1]
        BY <2>1, <3>3, <4>1 DEF Powers
      <4> QED BY <3>3, <4>2, <4>3
    <3> QED BY <3>1, <3>2, <3>3
  <2>4. q = [k \in 0 .. n |-> q[k]]
    BY <2>2
  <2>5. q = [k \in 0 .. n |-> IF k = 0 THEN 1 ELSE 10 * q[k - 1]]
    BY <2>3, <2>4, Zenon
  <2>6. n \in 0 .. 20
    OBVIOUS
  <2> QED BY <1>1, <2>5, <2>6, Zenon DEF Powers
<1>4. 20 \in S
  BY <1>2, <1>3, StepInduction
<1> QED BY <1>1, <1>4

\* So Power is what its definition says.
LEMMA PowerIs ==
  /\ Power[0] = 1 /\ \A k \in 1 .. 20 : Power[k] = 10 * Power[k - 1]
  /\ \A k \in 0 .. 20 : Power[k] \in Nat /\ Power[k] > 0
<1>1. PICK p : p = CHOOSE q : q = [k \in 0 .. 20 |-> IF k = 0 THEN 1 ELSE 10 * q[k - 1]]
  OBVIOUS
<1>2. Powers(p, 20)
  BY <1>1, PowersExist, Zenon DEF Powers
<1>3. Power = p
  BY <1>1, Zenon DEF Power
<1>4. p[0] = 1 /\ \A k \in 1 .. 20 : p[k] = 10 * p[k - 1]
  <2>1. \A k \in 0 .. 20 : p[k] = IF k = 0 THEN 1 ELSE 10 * p[k - 1]
    BY <1>2 DEF Powers
  <2> QED BY <2>1
<1>5. PICK S : S = {k \in 0 .. 20 : p[k] \in Nat /\ p[k] > 0}
  OBVIOUS
<1>6. 0 \in S
  BY <1>4, <1>5
<1>7. ASSUME NEW k \in 1 .. 20, k - 1 \in S PROVE k \in S
  BY <1>4, <1>5, <1>7
<1>8. \A k \in 0 .. 20 : k \in S
  BY <1>6, <1>7, StepInduction
<1> QED BY <1>3, <1>4, <1>5, <1>8

\* The comparisons find the number of digits.
LEMMA DigitCountIs ==
  ASSUME NEW n \in Nat, Short(n), NEW k, k = DigitCount(n)
  PROVE  k \in 1 .. 20 /\ n < Power[k] /\ (k = 1 \/ n >= Power[k - 1])
<1>1. PICK T : T = {j \in 1 .. 20 : n < Power[j]}
  OBVIOUS
<1>2. T \in SUBSET Nat /\ T # {}
  BY <1>1 DEF Short
<1>3. PICK j \in T : \A i \in T : j <= i
  BY <1>2, LeastElement
<1>4. j = 1 \/ n >= Power[j - 1]
  <2> SUFFICES ASSUME j # 1 PROVE n >= Power[j - 1]
    OBVIOUS
  <2>1. j \in 1 .. 20 /\ j - 1 \in 1 .. 20 /\ j - 1 \in 0 .. 20 /\ ~(j <= j - 1)
    BY <1>1
  <2>2. ~(n < Power[j - 1])
    BY <1>1, <1>3, <2>1
  <2>3. Power[j - 1] \in Nat
    BY <2>1, PowerIs
  <2> QED BY <2>2, <2>3
<1>5. \E i \in 1 .. 20 : n < Power[i] /\ (i = 1 \/ n >= Power[i - 1])
  BY <1>1, <1>3, <1>4
<1> QED BY <1>5, Zenon DEF DigitCount

\* Lists with the same elements are the same.
LEMMA SameList ==
  ASSUME NEW s, IsList(s), NEW t, IsList(t), Len(s) = Len(t),
         \A i \in 1 .. Len(s) : s[i] = t[i]
  PROVE  s = t
<1>1. PICK R : s \in Seq(R)
  BY DEF IsList
<1>2. PICK Q : t \in Seq(Q)
  BY DEF IsList
<1>3. PICK V : V = R \cup Q
  OBVIOUS
<1>4. s \in Seq(V) /\ t \in Seq(V)
  <2>1. R \subseteq V /\ Q \subseteq V
    BY <1>3
  <2> QED BY <1>1, <1>2, <2>1, SeqMonotonic
<1> QED BY <1>4, SeqEqual

\* v is what digits count up to, from the highest place on.
Counts(v, digits) ==
  v = [i \in 0 .. Len(digits) |-> IF i = 0 THEN 0 ELSE 10 * v[i - 1] + digits[i]]

\* A number with one digit more is ten times the number, and the digit.
LEMMA DigitMore ==
  ASSUME NEW n \in Nat, NEW d \in Nat, d > 0
  PROVE  n \div d = 10 * (n \div (10 * d)) + ((n \div d) % 10)
<1>1. PICK m \in Nat : m = n \div d
  OBVIOUS
<1>2. m \div 10 = n \div (10 * d)
  BY <1>1
<1>3. m = 10 * (m \div 10) + (m % 10)
  OBVIOUS
<1> QED BY <1>1, <1>2, <1>3

\* The digits of a number count up to it, and none is needless.
LEMMA DigitsCount ==
  ASSUME NEW n \in Nat, Short(n), NEW s, s = Digits(n)
  PROVE  /\ IsList(s) /\ Len(s) >= 1 /\ \A i \in 1 .. Len(s) : s[i] \in 0 .. 9
         /\ s[1] # 0 \/ Len(s) = 1
         /\ \E v : Counts(v, s) /\ \A w : Counts(w, s) => w[Len(s)] = n
<1>1. PICK k : k = DigitCount(n)
  OBVIOUS
<1>2. k \in 1 .. 20 /\ n < Power[k] /\ (k = 1 \/ n >= Power[k - 1])
  BY <1>1, DigitCountIs
<1>3. s = [i \in 1 .. k |-> (n \div Power[k - i]) % 10]
  BY <1>1 DEF Digits
<1>4. \A i \in 0 .. k : k - i \in 0 .. 20 /\ Power[k - i] \in Nat /\ Power[k - i] > 0
  BY <1>2, PowerIs
<1>5. PICK g : g = [i \in 0 .. k |-> n \div Power[k - i]]
  OBVIOUS
<1>6. ASSUME NEW i \in 0 .. k PROVE g[i] \in Nat /\ g[i] % 10 \in 0 .. 9
  <2>1. PICK d \in Nat : d = Power[k - i] /\ d > 0
    BY <1>4
  <2>2. n \div d \in Nat /\ (n \div d) % 10 \in 0 .. 9
    BY <2>1
  <2> QED BY <1>5, <2>1, <2>2
<1>7. \A i \in 1 .. k : s[i] = g[i] % 10
  BY <1>3, <1>5
<1>8. IsList(s) /\ Len(s) = k
  <2>1. s = [i \in 1 .. k |-> s[i]] /\ k \in Nat
    BY <1>2, <1>3
  <2> QED BY <2>1, ListOf
<1>9. \A i \in 1 .. k : s[i] \in 0 .. 9
  BY <1>2, <1>6, <1>7
<1>10. s[1] # 0 \/ k = 1
  <2> SUFFICES ASSUME k # 1 PROVE s[1] # 0
    OBVIOUS
  <2>1. PICK d \in Nat : d = Power[k - 1] /\ d > 0
    BY <1>2, <1>4
  <2>2. Power[k] = 10 * d
    BY <1>2, <2>1, PowerIs
  <2>3. n >= d /\ n < 10 * d
    BY <1>2, <2>1, <2>2
  <2>4. PICK m \in 1 .. 9 : m = n \div d
    BY <2>1, <2>3
  <2>5. s[1] = m % 10
    BY <1>2, <1>3, <2>1, <2>4
  <2>6. m % 10 = m
    OBVIOUS
  <2> QED BY <2>4, <2>5, <2>6
<1>11. g[0] = 0
  <2>0. 0 \in 0 .. k /\ k - 0 = k
    BY <1>2
  <2>1. g[0] = n \div Power[k] /\ Power[k] \in Nat /\ Power[k] > 0
    BY <1>4, <1>5, <2>0
  <2>2. PICK d \in Nat : d = Power[k] /\ d > 0 /\ n < d
    BY <1>2, <2>1
  <2>3. n \div d = 0
    BY <2>2
  <2> QED BY <2>1, <2>2, <2>3
<1>12. ASSUME NEW i \in 1 .. k PROVE g[i] = 10 * g[i - 1] + s[i]
  <2>1. PICK d \in Nat : d = Power[k - i] /\ d > 0
    BY <1>4
  <2>2. k - (i - 1) = (k - i) + 1 /\ k - (i - 1) \in 1 .. 20 /\ (k - (i - 1)) - 1 = k - i
    BY <1>2
  <2>3. Power[k - (i - 1)] = 10 * d
    BY <2>1, <2>2, PowerIs
  <2>4. i - 1 \in 0 .. k /\ i \in 0 .. k
    BY <1>2
  <2>5. g[i] = n \div d /\ g[i - 1] = n \div (10 * d) /\ s[i] = (n \div d) % 10
    BY <1>3, <1>5, <2>1, <2>3, <2>4
  <2> QED BY <2>1, <2>5, DigitMore
<1>13. g[k] = n
  <2>1. g[k] = n \div Power[k - k] /\ k - k = 0
    BY <1>2, <1>5
  <2> QED BY <2>1, PowerIs
<1>14. Counts(g, s)
  <2>1. \A i \in 0 .. k : g[i] = IF i = 0 THEN 0 ELSE 10 * g[i - 1] + s[i]
    BY <1>11, <1>12
  <2>2. g = [i \in 0 .. k |-> g[i]]
    BY <1>5
  <2>3. g = [i \in 0 .. k |-> IF i = 0 THEN 0 ELSE 10 * g[i - 1] + s[i]]
    BY <2>1, <2>2, Zenon
  <2> QED BY <1>8, <2>3 DEF Counts
<1>15. ASSUME NEW v, Counts(v, s) PROVE v[k] = n
  <2>1. \A i \in 0 .. k : v[i] = IF i = 0 THEN 0 ELSE 10 * v[i - 1] + s[i]
    BY <1>8, <1>15 DEF Counts
  <2>2. PICK S : S = {i \in 0 .. k : v[i] = g[i]}
    OBVIOUS
  <2>3. 0 \in S
    BY <1>2, <1>11, <2>1, <2>2
  <2>4. ASSUME NEW i \in 1 .. k, i - 1 \in S PROVE i \in S
    <3>1. v[i - 1] = g[i - 1] /\ i \in 0 .. k /\ i # 0
      BY <2>2, <2>4
    <3>2. v[i] = 10 * v[i - 1] + s[i]
      BY <2>1, <3>1
    <3> QED BY <1>12, <2>2, <3>1, <3>2
  <2>5. k \in S
    BY <1>2, <2>3, <2>4, StepInduction
  <2> QED BY <1>13, <2>2, <2>5
<1> QED BY <1>2, <1>8, <1>9, <1>10, <1>14, <1>15

\* So Counted gives what they count up to.
LEMMA CountedIs ==
  ASSUME NEW s, NEW n, \E v : Counts(v, s), \A v : Counts(v, s) => v[Len(s)] = n
  PROVE  Counted(s) = n
<1>1. PICK v : v = CHOOSE w : w = [i \in 0 .. Len(s) |-> IF i = 0 THEN 0 ELSE 10 * w[i - 1] + s[i]]
  OBVIOUS
<1>2. Counts(v, s)
  BY <1>1, Zenon DEF Counts
<1>3. Counted(s) = v[Len(s)]
  BY <1>1, Zenon DEF Counted
<1> QED BY <1>2, <1>3

\* The type of a piece that is a number.
Numeric == Unsigned \cup SignedTypes

\* The digits alone, the way a number without a sign is printed.
LEMMA PlainReads ==
  ASSUME NEW p, p.type \in Numeric, p.number \in Nat, Short(p.number), NEW s, s = Digits(p.number)
  PROVE  IsList(s) /\ Reads(s, p)
<1>1. PICK n \in Nat : n = p.number /\ Short(n)
  OBVIOUS
<1>2. /\ IsList(s) /\ Len(s) >= 1 /\ \A i \in 1 .. Len(s) : s[i] \in 0 .. 9
      /\ s[1] # 0 \/ Len(s) = 1
      /\ \E v : Counts(v, s) /\ \A w : Counts(w, s) => w[Len(s)] = n
  BY <1>1, DigitsCount
<1>3. Len(s) \in Nat /\ DOMAIN s = 1 .. Len(s)
  BY <1>2, ListIs
<1>4. s[1] \in 0 .. 9 /\ s[1] # Minus
  BY <1>2, <1>3 DEF Minus
<1>5. ToSet(s) \subseteq 0 .. 9
  BY <1>2, <1>3 DEF ToSet
<1>6. Counted(s) = n
  BY <1>2, CountedIs
<1>9. p.type # "text"
  BY DEF Numeric, Unsigned, SignedTypes
<1>10. p.number = Counted(s)
  BY <1>1, <1>6
<1>11. Reads(s, p)
  BY <1>2, <1>4, <1>5, <1>9, <1>10, Zenon DEF Reads
<1> QED BY <1>2, <1>11

\* A sign in front of them.
LEMMA SignedReads ==
  ASSUME NEW p, p.type \in SignedTypes, p.number \in Int, -p.number \in Nat, p.number # 0,
         Short(-p.number), NEW s, s = <<Minus>> \o Digits(-p.number)
  PROVE  IsList(s) /\ Reads(s, p)
<1>1. PICK n \in Nat : n = -p.number /\ Short(n) /\ n > 0
  OBVIOUS
<1>2. PICK d : d = Digits(n)
  OBVIOUS
<1>3. /\ IsList(d) /\ Len(d) >= 1 /\ \A i \in 1 .. Len(d) : d[i] \in 0 .. 9
      /\ d[1] # 0 \/ Len(d) = 1
      /\ \E v : Counts(v, d) /\ \A w : Counts(w, d) => w[Len(d)] = n
  BY <1>1, <1>2, DigitsCount
<1>4. Len(d) \in Nat /\ DOMAIN d = 1 .. Len(d)
  BY <1>3, ListIs
<1>5. IsList(<<Minus>>) /\ Len(<<Minus>>) = 1 /\ <<Minus>>[1] = Minus
  <2>1. <<Minus>> \in Seq({Minus})
    OBVIOUS
  <2> QED BY <2>1 DEF IsList
<1>6. /\ IsList(s) /\ Len(s) = 1 + Len(d) /\ s[1] = Minus
      /\ \A i \in 1 .. Len(d) : s[1 + i] = d[i]
  <2>1. PICK m : m = <<Minus>>
    OBVIOUS
  <2>2. s = m \o d
    BY <1>1, <1>2, <2>1
  <2>3. IsList(m) /\ Len(m) = 1 /\ m[1] = Minus
    BY <1>5, <2>1
  <2>4. IsList(m) /\ IsList(d) /\ s = m \o d
    BY <1>3, <2>2, <2>3
  <2>5. IsList(s) /\ Len(s) = Len(m) + Len(d)
    BY <2>4, ListConcat
  <2>6. \A i \in 1 .. Len(m) : s[i] = m[i]
    BY <2>4, ListConcat
  <2>7. \A i \in 1 .. Len(d) : s[Len(m) + i] = d[i]
    BY <2>4, ListConcat
  <2>8. s[1] = m[1]
    BY <2>3, <2>6
  <2> QED BY <2>3, <2>5, <2>7, <2>8
<1>7. Tail(s) = d
  <2>1. Len(s) >= 1
    BY <1>4, <1>6
  <2>2. PICK t : t = Tail(s)
    OBVIOUS
  <2>3. IsList(t) /\ Len(t) = Len(d) /\ \A i \in 1 .. Len(d) : t[i] = d[i]
    <3>1. Len(s) - 1 = Len(d)
      BY <1>4, <1>6
    <3>2. IsList(t) /\ Len(t) = Len(s) - 1 /\ \A i \in 1 .. Len(s) - 1 : t[i] = s[i + 1]
      BY <1>6, <2>1, <2>2, ListTail
    <3>3. \A i \in 1 .. Len(d) : i + 1 = 1 + i
      BY <1>4
    <3> QED BY <1>6, <3>1, <3>2, <3>3
  <2>4. t = d
    BY <1>3, <2>3, SameList
  <2> QED BY <2>2, <2>4
<1>8. ToSet(d) \subseteq 0 .. 9
  BY <1>3, <1>4 DEF ToSet
<1>9. Counted(d) = n
  BY <1>3, CountedIs
<1>10. p.type # "text"
  BY DEF SignedTypes
<1>11. p.number = -n
  BY <1>1
<1>12. Counted(d) > 0 /\ p.number = -Counted(d)
  BY <1>1, <1>9, <1>11
<1>13. Reads(s, p)
  BY <1>3, <1>6, <1>7, <1>8, <1>10, <1>12, Zenon DEF Reads
<1> QED BY <1>6, <1>13

\* What Signed gives, with as many bits as the type has.
LEMMA SignedIs ==
  ASSUME NEW p, IsPiece(p), p.type \in SignedTypes, NEW s, s = Signed(p.number, Bits(p.type))
  PROVE  IsList(s) /\ Reads(s, p)
<1>1. PICK n : n = p.number
  OBVIOUS
<1>2. PICK b : b = Bits(p.type)
  OBVIOUS
<1>3. \/ n \in Nat /\ Short(n)
      \/ n \in Int /\ -n \in Nat /\ Short(-n)
  BY <1>1 DEF IsPiece, SignedTypes
<1>4. CASE n = -(2 ^ (b - 1))
  <2>1. s = <<Minus, Garbage>>
    BY <1>1, <1>2, <1>4 DEF Signed
  <2>2. s \in Seq({Minus, Garbage})
    BY <2>1
  <2>3. p.type # "text"
    BY DEF SignedTypes
  <2>4. Reads(s, p)
    BY <1>1, <1>2, <1>4, <2>3, Zenon DEF Reads
  <2> QED BY <2>2, <2>4 DEF IsList
<1>5. CASE n # -(2 ^ (b - 1)) /\ n < 0
  <2>1. s = <<Minus>> \o Digits(-n)
    BY <1>1, <1>2, <1>5 DEF Signed
  <2>2. n \in Int /\ -n \in Nat /\ Short(-n) /\ n # 0
    BY <1>3, <1>5
  <2> QED BY <1>1, <2>1, <2>2, SignedReads
<1>6. CASE n # -(2 ^ (b - 1)) /\ ~(n < 0)
  <2>1. s = Digits(n)
    BY <1>1, <1>2, <1>6 DEF Signed
  <2>2. n \in Nat
    BY <1>3, <1>6
  <2>3. Short(n)
    <3>1. CASE Short(-n) /\ -n \in Nat
      <4>1. n = 0 /\ -n = 0
        BY <2>2, <3>1
      <4> QED BY <3>1, <4>1
    <3> QED BY <1>3, <3>1
  <2>4. p.type \in Numeric
    BY DEF Numeric
  <2> QED BY <1>1, <2>1, <2>2, <2>3, <2>4, PlainReads
<1> QED BY <1>4, <1>5, <1>6

\* Whatever is printed is a text that reads as it should, put behind what the buffer has.
LEMMA StreamedIs ==
  ASSUME NEW p, IsPiece(p)
  PROVE  \E s : IsList(s) /\ Reads(s, p) /\ \A b : Streamed(b, p) = Concat(b, s)
<1>1. CASE p.type = "text"
  <2>1. p.text \in Seq(ToSet(p.text))
    BY <1>1 DEF IsPiece, Unsigned, SignedTypes
  <2>2. IsList(p.text) /\ Reads(p.text, p)
    BY <1>1, <2>1 DEF IsList, Reads
  <2>3. \A b : Streamed(b, p) = Concat(b, p.text)
    BY <1>1 DEF Streamed
  <2> QED BY <2>2, <2>3
<1>2. CASE p.type \in Unsigned
  <2>1. p.number \in Nat /\ Short(p.number) /\ p.type \in Numeric
    BY <1>2 DEF IsPiece, Unsigned, SignedTypes, Numeric
  <2>2. PICK s : s = Digits(p.number)
    OBVIOUS
  <2>3. IsList(s) /\ Reads(s, p)
    BY <2>1, <2>2, PlainReads
  <2>4. \A b : Streamed(b, p) = Concat(b, s)
    BY <1>2, <2>2 DEF Unsigned, Streamed, PutUint64, PutUint32, PutUint16, PutUint8
  <2> QED BY <2>3, <2>4
<1>3. CASE p.type \in SignedTypes
  <2>1. PICK s : s = Signed(p.number, Bits(p.type))
    OBVIOUS
  <2>2. IsList(s) /\ Reads(s, p)
    BY <1>3, <2>1, SignedIs
  <2>3. CASE p.type = "int64"
    <3>1. Bits(p.type) = LongBits
      BY <2>3 DEF Bits
    <3>2. \A b : Streamed(b, p) = Concat(b, s)
      BY <2>1, <2>3, <3>1 DEF Streamed, PutInt64
    <3> QED BY <2>2, <3>2
  <2>4. CASE p.type = "int32"
    <3>1. Bits(p.type) = IntBits
      BY <2>4 DEF Bits
    <3>2. \A b : Streamed(b, p) = Concat(b, s)
      BY <2>1, <2>4, <3>1 DEF Streamed, PutInt32
    <3> QED BY <2>2, <3>2
  <2>5. CASE p.type = "int16"
    <3>1. Bits(p.type) = 16
      BY <2>5 DEF Bits
    <3>2. \A b : Streamed(b, p) = Concat(b, s)
      BY <2>1, <2>5, <3>1 DEF Streamed, PutInt16
    <3> QED BY <2>2, <3>2
  <2>6. CASE p.type = "int8"
    <3>1. Bits(p.type) = 8
      BY <2>6 DEF Bits
    <3>2. \A b : Streamed(b, p) = Concat(b, s)
      BY <2>1, <2>6, <3>1 DEF Streamed, PutInt8
    <3> QED BY <2>2, <3>2
  <2> QED BY <1>3, <2>3, <2>4, <2>5, <2>6 DEF SignedTypes
<1> QED BY <1>1, <1>2, <1>3 DEF IsPiece

-----------------------------------------------------------------------------
(* Texts one after the other. *)

\* It does not matter which of three lists are joined first.
LEMMA ListAssociative ==
  ASSUME NEW s, IsList(s), NEW t, IsList(t), NEW u, IsList(u)
  PROVE  (s \o t) \o u = s \o (t \o u)
<1>1. PICK R : s \in Seq(R)
  BY DEF IsList
<1>2. PICK Q : t \in Seq(Q)
  BY DEF IsList
<1>3. PICK P : u \in Seq(P)
  BY DEF IsList
<1>4. PICK V : V = R \cup Q \cup P
  OBVIOUS
<1>5. s \in Seq(V) /\ t \in Seq(V) /\ u \in Seq(V)
  <2>1. R \subseteq V /\ Q \subseteq V /\ P \subseteq V
    BY <1>4
  <2> QED BY <1>1, <1>2, <1>3, <2>1, SeqMonotonic
<1> QED BY <1>5, ConcatAssociative

\* The list with nothing in it.
LEMMA ListEmpty ==
  /\ IsList(<< >>) /\ Len(<< >>) = 0 /\ DOMAIN << >> = {}
  /\ \A s : IsList(s) => << >> \o s = s /\ s \o << >> = s
<1>1. << >> \in Seq({}) /\ Len(<< >>) = 0 /\ DOMAIN << >> = {}
  OBVIOUS
<1>2. ASSUME NEW s, IsList(s) PROVE << >> \o s = s /\ s \o << >> = s
  <2>1. PICK R : s \in Seq(R)
    BY <1>2 DEF IsList
  <2> QED BY <2>1, ConcatEmptySeq
<1> QED BY <1>1, <1>2 DEF IsList

\* A list whose elements are lists.
IsLists(s) == IsList(s) /\ \A i \in 1 .. Len(s) : IsList(s[i])

\* One list more.
LEMMA AppendLists ==
  ASSUME NEW s, IsLists(s), NEW e, IsList(e), NEW t, t = Append(s, e)
  PROVE  IsLists(t)
<1>1. PICK n : n = Len(s)
  OBVIOUS
<1>2. n \in Nat
  BY <1>1, ListIs DEF IsLists
<1>3. /\ IsList(t) /\ Len(t) = n + 1 /\ t[n + 1] = e
      /\ \A i \in 1 .. n : t[i] = s[i]
  <2>1. IsList(s)
    BY DEF IsLists
  <2>2. IsList(t) /\ Len(t) = Len(s) + 1 /\ t[Len(s) + 1] = e
    BY <2>1, ListAppend
  <2>3. \A i \in 1 .. Len(s) : t[i] = s[i]
    BY <2>1, ListAppend
  <2> QED BY <1>1, <2>2, <2>3
<1>4. ASSUME NEW i \in 1 .. n + 1 PROVE IsList(t[i])
  <2>1. CASE i = n + 1
    BY <1>3, <2>1
  <2>2. CASE i # n + 1
    <3>1. i \in 1 .. n
      BY <1>2, <2>2
    <3> QED BY <1>1, <1>3, <3>1 DEF IsLists
  <2> QED BY <2>1, <2>2
<1> QED BY <1>3, <1>4 DEF IsLists

\* What is put behind the second of two lists is put behind both.
LEMMA ConcatAppend ==
  ASSUME NEW s, IsList(s), NEW u, IsList(u), NEW e
  PROVE  s \o Append(u, e) = Append(s \o u, e)
<1>1. PICK R : s \in Seq(R)
  BY DEF IsList
<1>2. PICK Q : u \in Seq(Q)
  BY DEF IsList
<1>3. PICK V : V = R \cup Q \cup {e}
  OBVIOUS
<1>4. s \in Seq(V) /\ u \in Seq(V) /\ e \in V
  <2>1. R \subseteq V /\ Q \subseteq V
    BY <1>3
  <2> QED BY <1>1, <1>2, <1>3, <2>1, SeqMonotonic
<1>5. Append(u, e) = u \o <<e>> /\ <<e>> \in Seq(V)
  BY <1>4, AppendIsConcat
<1>6. s \o u \in Seq(V)
  BY <1>4, ConcatProperties
<1>7. Append(s \o u, e) = (s \o u) \o <<e>>
  BY <1>4, <1>6, AppendIsConcat
<1> QED BY <1>4, <1>5, <1>7, ConcatAssociative

\* One list more is put at the end.
LEMMA FlattenAppend ==
  ASSUME NEW s, IsLists(s), NEW e, IsList(e), NEW t, t = Append(s, e)
  PROVE  FlattenSeq(t) = FlattenSeq(s) \o e
<1>1. PICK n : n = Len(s)
  OBVIOUS
<1>2. n \in Nat
  BY <1>1, ListIs DEF IsLists
<1>3. /\ IsList(t) /\ Len(t) = n + 1 /\ t[n + 1] = e
      /\ \A i \in 1 .. n : t[i] = s[i]
  <2>1. IsList(s)
    BY DEF IsLists
  <2>2. IsList(t) /\ Len(t) = Len(s) + 1 /\ t[Len(s) + 1] = e
    BY <2>1, ListAppend
  <2>3. \A i \in 1 .. Len(s) : t[i] = s[i]
    BY <2>1, ListAppend
  <2> QED BY <1>1, <2>2, <2>3
<1>4. PICK f : Flattens(f, n + 1, t) /\ FlattenSeq(t) = f[n + 1]
  <2>1. IsList(t) /\ Len(t) # 0 /\ Len(t) = n + 1
    BY <1>2, <1>3
  <2>2. \E f : Flattens(f, Len(t), t) /\ FlattenSeq(t) = f[Len(t)]
    BY <2>1, FlattenIs
  <2> QED BY <2>1, <2>2
<1>5. ASSUME NEW i \in 1 .. n + 1 PROVE f[i] = IF i = 1 THEN t[i] ELSE f[i - 1] \o t[i]
  BY <1>4 DEF Flattens
<1>6. CASE n = 0
  <2>1. s = << >>
    <3>1. Len(<< >>) = 0 /\ IsList(<< >>)
      BY ListEmpty
    <3>2. \A i \in 1 .. Len(s) : s[i] = << >>[i]
      BY <1>1, <1>6
    <3> QED BY <1>1, <1>6, <3>1, <3>2, SameList DEF IsLists
  <2>2. FlattenSeq(s) = << >>
    BY <1>1, <1>6, <2>1 DEF FlattenSeq
  <2>3. FlattenSeq(t) = e
    BY <1>3, <1>4, <1>5, <1>6
  <2> QED BY <2>2, <2>3, ListEmpty
<1>7. CASE n # 0
  <2>1. PICK g : Flattens(g, n, s) /\ FlattenSeq(s) = g[n]
    BY <1>1, <1>7, FlattenIs DEF IsLists
  <2>2. ASSUME NEW i \in 1 .. n PROVE g[i] = IF i = 1 THEN s[i] ELSE g[i - 1] \o s[i]
    BY <2>1 DEF Flattens
  <2>3. PICK S : S = {i \in 0 .. n : i = 0 \/ f[i] = g[i]}
    OBVIOUS
  <2>4. 0 \in S
    BY <1>2, <2>3
  <2>5. ASSUME NEW i \in 1 .. n, i - 1 \in S PROVE i \in S
    <3>1. i \in 1 .. n + 1 /\ i \in 0 .. n
      BY <1>2
    <3>2. t[i] = s[i]
      BY <1>3
    <3>3. f[i] = IF i = 1 THEN s[i] ELSE f[i - 1] \o s[i]
      BY <1>5, <3>1, <3>2
    <3>4. i = 1 \/ f[i - 1] = g[i - 1]
      BY <2>3, <2>5
    <3>5. f[i] = g[i]
      <4>1. g[i] = IF i = 1 THEN s[i] ELSE g[i - 1] \o s[i]
        BY <2>2
      <4> QED BY <3>3, <3>4, <4>1, Zenon
    <3> QED BY <2>3, <3>1, <3>5
  <2>6. \A i \in 0 .. n : i \in S
    BY <1>2, <2>4, <2>5, StepInduction
  <2>7. f[n] = g[n]
    <3>1. n \in 0 .. n
      BY <1>2
    <3> QED BY <1>7, <2>3, <2>6, <3>1
  <2>8. f[n + 1] = f[n] \o e
    <3>1. n + 1 \in 1 .. n + 1 /\ n + 1 # 1 /\ (n + 1) - 1 = n
      BY <1>2, <1>7
    <3> QED BY <1>3, <1>5, <3>1
  <2> QED BY <1>4, <2>1, <2>7, <2>8
<1> QED BY <1>6, <1>7

\* The first n of a list.
FirstPart(s, n) == [i \in 1 .. n |-> s[i]]

\* They are a list, and with one more a longer one.
LEMMA FirstPartMore ==
  ASSUME NEW s, IsLists(s), NEW n \in 1 .. Len(s)
  PROVE  /\ IsLists(FirstPart(s, n - 1)) /\ IsList(s[n])
         /\ FirstPart(s, n) = Append(FirstPart(s, n - 1), s[n])
<1>1. PICK u, v : u = FirstPart(s, n - 1) /\ v = FirstPart(s, n)
  OBVIOUS
<1>2. Len(s) \in Nat
  BY ListIs DEF IsLists
<1>3. n - 1 \in Nat /\ n \in Nat /\ 1 .. n - 1 \subseteq 1 .. Len(s)
  BY <1>2
<1>4. u = [i \in 1 .. n - 1 |-> s[i]] /\ v = [i \in 1 .. n |-> s[i]]
  BY <1>1 DEF FirstPart
<1>5. IsList(u) /\ Len(u) = n - 1
  <2>1. u = [i \in 1 .. n - 1 |-> u[i]]
    BY <1>4
  <2> QED BY <1>3, <2>1, ListOf
<1>6. IsList(v) /\ Len(v) = n
  <2>1. v = [i \in 1 .. n |-> v[i]]
    BY <1>4
  <2> QED BY <1>3, <2>1, ListOf
<1>7. IsLists(u)
  BY <1>3, <1>4, <1>5 DEF IsLists
<1>8. PICK t : t = Append(u, s[n])
  OBVIOUS
<1>9. /\ IsList(t) /\ Len(t) = (n - 1) + 1 /\ t[(n - 1) + 1] = s[n]
      /\ \A i \in 1 .. n - 1 : t[i] = u[i]
  <2>1. IsList(t) /\ Len(t) = Len(u) + 1 /\ t[Len(u) + 1] = s[n]
    BY <1>5, <1>8, ListAppend
  <2>2. \A i \in 1 .. Len(u) : t[i] = u[i]
    BY <1>5, <1>8, ListAppend
  <2> QED BY <1>5, <2>1, <2>2
<1>10. v = t
  <2>1. (n - 1) + 1 = n
    OBVIOUS
  <2>2. ASSUME NEW i \in 1 .. n PROVE v[i] = t[i]
    <3>1. CASE i = n
      BY <1>4, <1>9, <2>1, <3>1
    <3>2. CASE i # n
      <4>1. i \in 1 .. n - 1
        BY <3>2
      <4> QED BY <1>4, <1>9, <4>1
    <3> QED BY <3>1, <3>2
  <2> QED BY <1>6, <1>9, <2>1, <2>2, SameList
<1> QED BY <1>1, <1>7, <1>8, <1>10 DEF IsLists

\* All of them.
LEMMA FirstPartAll ==
  ASSUME NEW s, IsList(s)
  PROVE  FirstPart(s, Len(s)) = s /\ FirstPart(s, 0) = << >>
<1>1. PICK n, v, e : n = Len(s) /\ v = FirstPart(s, n) /\ e = FirstPart(s, 0)
  OBVIOUS
<1>2. n \in Nat
  BY <1>1, ListIs
<1>3. v = [i \in 1 .. n |-> s[i]] /\ e = [i \in 1 .. 0 |-> s[i]]
  BY <1>1 DEF FirstPart
<1>4. v = [i \in 1 .. n |-> v[i]] /\ e = [i \in 1 .. 0 |-> e[i]]
  BY <1>3
<1>5. IsList(v) /\ Len(v) = n
  BY <1>2, <1>4, ListOf
<1>6. IsList(e) /\ Len(e) = 0
  BY <1>4, ListOf
<1>7. v = s
  BY <1>1, <1>3, <1>5, SameList
<1>8. e = << >>
  <2>1. \A i \in 1 .. 0 : e[i] = << >>[i]
    OBVIOUS
  <2> QED BY <1>6, <2>1, ListEmpty, SameList
<1> QED BY <1>1, <1>7, <1>8

\* What lists have one after the other is a list.
LEMMA FlattenList ==
  ASSUME NEW s, IsLists(s)
  PROVE  IsList(FlattenSeq(s))
<1>1. PICK N : N = Len(s)
  OBVIOUS
<1>2. N \in Nat
  BY <1>1, ListIs DEF IsLists
<1>3. PICK S : S = {n \in 0 .. N : IsList(FlattenSeq(FirstPart(s, n)))}
  OBVIOUS
<1>4. 0 \in S
  <2>1. FlattenSeq(<< >>) = << >>
    BY DEF FlattenSeq
  <2>2. FirstPart(s, 0) = << >>
    BY FirstPartAll DEF IsLists
  <2> QED BY <1>2, <1>3, <2>1, <2>2, ListEmpty
<1>5. ASSUME NEW n \in 1 .. N, n - 1 \in S PROVE n \in S
  <2>1. PICK u, v : u = FirstPart(s, n - 1) /\ v = FirstPart(s, n)
    OBVIOUS
  <2>2. IsLists(u) /\ IsList(s[n]) /\ v = Append(u, s[n])
    BY <1>1, <2>1, FirstPartMore
  <2>3. FlattenSeq(v) = FlattenSeq(u) \o s[n]
    BY <2>2, FlattenAppend
  <2>4. IsList(FlattenSeq(u))
    BY <1>3, <1>5, <2>1
  <2>5. IsList(FlattenSeq(v))
    BY <2>2, <2>3, <2>4, ListConcat
  <2>6. n \in 0 .. N
    BY <1>2
  <2> QED BY <1>3, <2>1, <2>5, <2>6
<1>6. N \in S
  BY <1>2, <1>4, <1>5, StepInduction
<1>7. FirstPart(s, N) = s
  BY <1>1, FirstPartAll DEF IsLists
<1> QED BY <1>3, <1>6, <1>7

\* Two lists of lists are put together one after the other.
LEMMA FlattenConcat ==
  ASSUME NEW s, IsLists(s), NEW t, IsLists(t)
  PROVE  FlattenSeq(s \o t) = FlattenSeq(s) \o FlattenSeq(t)
<1>1. PICK N, F : N = Len(t) /\ F = FlattenSeq(s)
  OBVIOUS
<1>2. N \in Nat /\ IsList(F)
  BY <1>1, ListIs, FlattenList DEF IsLists
<1>3. PICK S : S = {n \in 0 .. N : /\ IsLists(s \o FirstPart(t, n))
                                   /\ FlattenSeq(s \o FirstPart(t, n))
                                        = F \o FlattenSeq(FirstPart(t, n))}
  OBVIOUS
<1>4. 0 \in S
  <2>1. FirstPart(t, 0) = << >>
    BY FirstPartAll DEF IsLists
  <2>2. s \o << >> = s /\ F \o << >> = F
    BY <1>2, ListEmpty DEF IsLists
  <2>3. FlattenSeq(<< >>) = << >>
    BY DEF FlattenSeq
  <2>4. 0 \in 0 .. N
    BY <1>2
  <2>5. /\ IsLists(s \o FirstPart(t, 0))
        /\ FlattenSeq(s \o FirstPart(t, 0)) = F \o FlattenSeq(FirstPart(t, 0))
    BY <1>1, <2>1, <2>2, <2>3
  <2> QED BY <1>3, <2>4, <2>5
<1>5. ASSUME NEW n \in 1 .. N, n - 1 \in S PROVE n \in S
  <2>1. PICK u, v, e, a, b :
          u = FirstPart(t, n - 1) /\ v = FirstPart(t, n) /\ e = t[n] /\ a = s \o u /\ b = s \o v
    OBVIOUS
  <2>2. IsLists(u) /\ IsList(e) /\ v = Append(u, e)
    BY <1>1, <2>1, FirstPartMore
  <2>3. IsLists(a) /\ FlattenSeq(a) = F \o FlattenSeq(u)
    BY <1>3, <1>5, <2>1
  <2>4. b = Append(a, e)
    BY <2>1, <2>2, ConcatAppend DEF IsLists
  <2>5. IsLists(b)
    BY <2>2, <2>3, <2>4, AppendLists
  <2>6. FlattenSeq(b) = (F \o FlattenSeq(u)) \o e
    <3>1. FlattenSeq(b) = FlattenSeq(a) \o e
      BY <2>2, <2>3, <2>4, FlattenAppend
    <3> QED BY <2>3, <3>1, Zenon
  <2>7. FlattenSeq(v) = FlattenSeq(u) \o e
    BY <2>2, FlattenAppend
  <2>8. FlattenSeq(b) = F \o FlattenSeq(v)
    <3>1. IsList(FlattenSeq(u))
      BY <2>2, FlattenList
    <3>2. (F \o FlattenSeq(u)) \o e = F \o (FlattenSeq(u) \o e)
      BY <1>2, <2>2, <3>1, ListAssociative
    <3> QED BY <2>6, <2>7, <3>2, Zenon
  <2>9. n \in 0 .. N
    BY <1>2
  <2> QED BY <1>3, <2>1, <2>5, <2>8, <2>9
<1>6. N \in S
  BY <1>2, <1>4, <1>5, StepInduction
<1>7. FirstPart(t, N) = t
  BY <1>1, FirstPartAll DEF IsLists
<1> QED BY <1>1, <1>3, <1>6, <1>7

-----------------------------------------------------------------------------
(* The page. *)

IsBuffer(b) == DOMAIN b = {"held", "out"} /\ IsList(b.held) /\ IsList(b.out)
IsPieces(s) == IsList(s) /\ \A i \in 1 .. Len(s) : IsPiece(s[i])

\* All that has been put in a buffer.
Contents(b) == b.out \o b.held

\* Wherever it falls on the end of the buffer, what is put in is behind what was there.
LEMMA ConcatIs ==
  ASSUME NEW b, IsBuffer(b), NEW s, IsList(s), NEW c, c = Concat(b, s)
  PROVE  IsBuffer(c) /\ Contents(c) = Contents(b) \o s
<1>1. PICK h, o : h = b.held /\ o = b.out
  OBVIOUS
<1>2. IsList(h) /\ IsList(o) /\ DOMAIN b = {"held", "out"}
  BY <1>1 DEF IsBuffer
<1>3. IsList(o \o h) /\ IsList((o \o h) \o s) /\ IsList(h \o s)
  <2>1. IsList(o \o h) /\ IsList(h \o s)
    BY <1>2, ListConcat
  <2> QED BY <2>1, ListConcat
<1>4. CASE Len(s) > BufferLength - Len(b.held)
  <2>1. c = [held |-> << >>, out |-> o \o h \o s]
    BY <1>1, <1>4 DEF Concat
  <2>2. Contents(c) = (o \o h) \o s
    BY <1>3, <2>1, ListEmpty DEF Contents
  <2> QED BY <1>1, <1>3, <2>1, <2>2, ListEmpty DEF Contents, IsBuffer
<1>5. CASE ~(Len(s) > BufferLength - Len(b.held))
  <2>1. c = [b EXCEPT !.held = h \o s]
    BY <1>1, <1>5 DEF Concat
  <2>2. c.held = h \o s /\ c.out = o /\ DOMAIN c = {"held", "out"}
    BY <1>1, <1>2, <2>1
  <2>3. o \o (h \o s) = (o \o h) \o s
    BY <1>2, ListAssociative
  <2>4. Contents(c) = Contents(b) \o s
    BY <1>1, <2>2, <2>3 DEF Contents
  <2> QED BY <1>2, <1>3, <2>2, <2>4 DEF IsBuffer
<1> QED BY <1>4, <1>5

\* The empty buffer.
LEMMA EmptyIs == IsBuffer(EmptyBuffer) /\ Contents(EmptyBuffer) = << >>
<1>1. DOMAIN EmptyBuffer = {"held", "out"} /\ EmptyBuffer.held = << >> /\ EmptyBuffer.out = << >>
  BY DEF EmptyBuffer
<1>2. << >> \o << >> = << >>
  BY ListEmpty
<1> QED BY <1>1, <1>2, ListEmpty DEF IsBuffer, Contents

\* A piece is printed as it reads, whatever the buffer holds.
LEMMA PieceIs ==
  ASSUME NEW p, IsPiece(p)
  PROVE  /\ IsList(TextOf(p)) /\ Reads(TextOf(p), p)
         /\ \A b : IsBuffer(b) =>
              IsBuffer(Streamed(b, p)) /\ Contents(Streamed(b, p)) = Contents(b) \o TextOf(p)
<1>1. PICK s : IsList(s) /\ Reads(s, p) /\ \A b : Streamed(b, p) = Concat(b, s)
  BY StreamedIs
<1>2. TextOf(p) = s
  <2>1. PICK c : c = Streamed(EmptyBuffer, p)
    OBVIOUS
  <2>2. c = Concat(EmptyBuffer, s)
    BY <1>1, <2>1
  <2>3. Contents(c) = Contents(EmptyBuffer) \o s
    BY <1>1, <2>2, EmptyIs, ConcatIs
  <2>4. Contents(c) = s
    BY <1>1, <2>3, EmptyIs, ListEmpty
  <2>5. TextOf(p) = Contents(c)
    BY <2>1 DEF TextOf, Contents
  <2> QED BY <2>4, <2>5
<1>3. ASSUME NEW b, IsBuffer(b)
      PROVE  IsBuffer(Streamed(b, p)) /\ Contents(Streamed(b, p)) = Contents(b) \o s
  <2>1. Streamed(b, p) = Concat(b, s)
    BY <1>1
  <2> QED BY <1>1, <1>3, <2>1, ConcatIs
<1> QED BY <1>1, <1>2, <1>3

\* The texts of some pieces.
TextsOf(pieces) == [i \in DOMAIN pieces |-> TextOf(pieces[i])]

\* They are lists.
LEMMA TextsAre ==
  ASSUME NEW s, IsPieces(s)
  PROVE  IsLists(TextsOf(s)) /\ Len(TextsOf(s)) = Len(s) /\ TextOfAll(s) = FlattenSeq(TextsOf(s))
<1>1. PICK n, t : n = Len(s) /\ t = TextsOf(s)
  OBVIOUS
<1>2. n \in Nat /\ DOMAIN s = 1 .. n
  BY <1>1, ListIs DEF IsPieces
<1>3. t = [i \in 1 .. n |-> TextOf(s[i])]
  BY <1>1, <1>2 DEF TextsOf
<1>4. IsList(t) /\ Len(t) = n
  <2>1. t = [i \in 1 .. n |-> t[i]]
    BY <1>3
  <2> QED BY <1>2, <2>1, ListOf
<1>5. \A i \in 1 .. n : IsList(t[i])
  BY <1>1, <1>3, PieceIs DEF IsPieces
<1>6. TextOfAll(s) = FlattenSeq(t)
  BY <1>1 DEF TextOfAll, TextsOf
<1> QED BY <1>1, <1>4, <1>5, <1>6 DEF IsLists

\* No pieces are no text.
LEMMA NoText == IsPieces(<< >>) /\ TextOfAll(<< >>) = << >>
<1>1. IsPieces(<< >>)
  BY ListEmpty DEF IsPieces
<1>2. TextsOf(<< >>) = << >>
  <2>1. IsList(TextsOf(<< >>)) /\ Len(TextsOf(<< >>)) = 0
    BY <1>1, ListEmpty, TextsAre DEF IsLists
  <2>2. \A i \in 1 .. 0 : TextsOf(<< >>)[i] = << >>[i]
    OBVIOUS
  <2> QED BY <2>1, <2>2, ListEmpty, SameList
<1>3. FlattenSeq(<< >>) = << >>
  BY DEF FlattenSeq
<1> QED BY <1>1, <1>2, <1>3, TextsAre

\* The text of two lists of pieces is that of the one and that of the other.
LEMMA TextConcat ==
  ASSUME NEW s, IsPieces(s), NEW u, IsPieces(u)
  PROVE  IsPieces(s \o u) /\ TextOfAll(s \o u) = TextOfAll(s) \o TextOfAll(u)
<1>1. PICK m, n, t : m = Len(s) /\ n = Len(u) /\ t = s \o u
  OBVIOUS
<1>2. IsList(s) /\ IsList(u)
  BY DEF IsPieces
<1>3. m \in Nat /\ n \in Nat /\ IsList(t) /\ Len(t) = m + n
  BY <1>1, <1>2, ListIs, ListConcat
<1>4. \A i \in 1 .. m : t[i] = s[i]
  BY <1>1, <1>2, ListConcat
<1>5. \A i \in 1 .. n : t[m + i] = u[i]
  BY <1>1, <1>2, ListConcat
<1>6. ASSUME NEW i \in 1 .. m + n PROVE i \in 1 .. m \/ \E j \in 1 .. n : i = m + j
  <2>1. CASE i <= m
    BY <1>3, <2>1
  <2>2. CASE ~(i <= m)
    <3>1. i - m \in 1 .. n /\ i = m + (i - m)
      BY <1>3, <2>2
    <3> QED BY <3>1
  <2> QED BY <2>1, <2>2
<1>7. IsPieces(t)
  BY <1>1, <1>3, <1>4, <1>5, <1>6 DEF IsPieces
<1>8. PICK a, b, c : a = TextsOf(s) /\ b = TextsOf(u) /\ c = TextsOf(t)
  OBVIOUS
<1>9. IsLists(a) /\ IsLists(b) /\ Len(a) = m /\ Len(b) = n /\ IsLists(c) /\ Len(c) = m + n
  BY <1>1, <1>3, <1>7, <1>8, TextsAre
<1>10. /\ \A i \in 1 .. m : a[i] = TextOf(s[i])
       /\ \A i \in 1 .. n : b[i] = TextOf(u[i])
       /\ \A i \in 1 .. m + n : c[i] = TextOf(t[i])
  <2>1. DOMAIN s = 1 .. m /\ DOMAIN u = 1 .. n /\ DOMAIN t = 1 .. m + n
    BY <1>1, <1>2, <1>3, ListIs
  <2> QED BY <1>8, <2>1 DEF TextsOf
<1>11. PICK d : d = a \o b
  OBVIOUS
<1>12. IsList(a) /\ IsList(b) /\ IsList(c)
  BY <1>9 DEF IsLists
<1>13. IsList(d) /\ Len(d) = m + n
  BY <1>9, <1>11, <1>12, ListConcat
<1>14. \A i \in 1 .. m : d[i] = a[i]
  <2>1. \A i \in 1 .. Len(a) : d[i] = a[i]
    BY <1>11, <1>12, ListConcat
  <2> QED BY <1>9, <2>1
<1>15. \A i \in 1 .. n : d[m + i] = b[i]
  <2>1. \A i \in 1 .. Len(b) : d[Len(a) + i] = b[i]
    BY <1>11, <1>12, ListConcat
  <2> QED BY <1>9, <2>1
<1>16. ASSUME NEW i \in 1 .. m + n PROVE c[i] = d[i]
  <2>1. c[i] = TextOf(t[i])
    BY <1>10
  <2>2. CASE i \in 1 .. m
    BY <1>4, <1>10, <1>14, <2>1, <2>2
  <2>3. ASSUME NEW j \in 1 .. n, i = m + j PROVE c[i] = d[i]
    <3>1. t[i] = u[j] /\ d[i] = b[j] /\ b[j] = TextOf(u[j])
      BY <1>5, <1>10, <1>15, <2>3
    <3> QED BY <2>1, <3>1
  <2> QED BY <1>6, <2>2, <2>3
<1>17. c = d
  BY <1>9, <1>12, <1>13, <1>16, SameList
<1>18. FlattenSeq(d) = FlattenSeq(a) \o FlattenSeq(b)
  BY <1>9, <1>11, FlattenConcat
<1>19. TextOfAll(s) = FlattenSeq(a) /\ TextOfAll(u) = FlattenSeq(b) /\ TextOfAll(t) = FlattenSeq(c)
  BY <1>7, <1>8, TextsAre
<1> QED BY <1>1, <1>7, <1>17, <1>18, <1>19

\* A piece more adds its text.
LEMMA TextAppend ==
  ASSUME NEW s, IsPieces(s), NEW p, IsPiece(p), NEW t, t = Append(s, p)
  PROVE  IsPieces(t) /\ TextOfAll(t) = TextOfAll(s) \o TextOf(p)
<1>1. IsList(s)
  BY DEF IsPieces
<1>2. PICK n : n = Len(s) /\ n \in Nat
  BY <1>1, ListIs
<1>3. IsList(t) /\ Len(t) = n + 1 /\ t[n + 1] = p
  BY <1>1, <1>2, ListAppend
<1>4. \A i \in 1 .. n : t[i] = s[i]
  BY <1>1, <1>2, ListAppend
<1>5. \A i \in 1 .. n + 1 : i \in 1 .. n \/ i = n + 1
  BY <1>2
<1>6. IsPieces(t)
  BY <1>2, <1>3, <1>4, <1>5 DEF IsPieces
<1>7. PICK a, c, e : a = TextsOf(s) /\ c = TextsOf(t) /\ e = TextOf(p)
  OBVIOUS
<1>8. IsLists(a) /\ Len(a) = n /\ IsLists(c) /\ Len(c) = n + 1 /\ IsList(e)
  BY <1>2, <1>3, <1>6, <1>7, TextsAre, PieceIs
<1>9. /\ \A i \in 1 .. n : a[i] = TextOf(s[i])
      /\ \A i \in 1 .. n + 1 : c[i] = TextOf(t[i])
  <2>1. DOMAIN s = 1 .. n /\ DOMAIN t = 1 .. n + 1
    BY <1>1, <1>2, <1>3, ListIs
  <2> QED BY <1>7, <2>1 DEF TextsOf
<1>10. PICK d : d = Append(a, e)
  OBVIOUS
<1>11. IsList(a) /\ IsList(c)
  BY <1>8 DEF IsLists
<1>12. IsList(d) /\ Len(d) = n + 1 /\ d[n + 1] = e
  BY <1>8, <1>10, <1>11, ListAppend
<1>13. \A i \in 1 .. n : d[i] = a[i]
  <2>1. \A i \in 1 .. Len(a) : d[i] = a[i]
    BY <1>10, <1>11, ListAppend
  <2> QED BY <1>8, <2>1
<1>14. \A i \in 1 .. n + 1 : c[i] = d[i]
  <2>1. n + 1 \in 1 .. n + 1
    BY <1>2
  <2>2. c[n + 1] = d[n + 1]
    BY <1>3, <1>7, <1>9, <1>12, <2>1
  <2>3. ASSUME NEW i \in 1 .. n PROVE c[i] = d[i]
    <3>1. i \in 1 .. n + 1
      BY <1>2
    <3>2. c[i] = TextOf(t[i]) /\ a[i] = TextOf(s[i]) /\ t[i] = s[i] /\ d[i] = a[i]
      BY <1>4, <1>9, <1>13, <3>1
    <3> QED BY <3>2
  <2> QED BY <1>5, <2>2, <2>3
<1>15. c = d
  BY <1>8, <1>11, <1>12, <1>14, SameList
<1>16. FlattenSeq(d) = FlattenSeq(a) \o e
  BY <1>8, <1>10, FlattenAppend
<1> QED BY <1>6, <1>7, <1>15, <1>16, TextsAre

\* The first of some pieces, and the others.
LEMMA PiecesLeft ==
  ASSUME NEW s, IsPieces(s), s # << >>
  PROVE  IsPiece(Head(s)) /\ IsPieces(Tail(s))
<1>1. IsList(s)
  BY DEF IsPieces
<1>2. PICK n : n = Len(s) /\ n \in Nat
  BY <1>1, ListIs
<1>3. n >= 1
  <2> SUFFICES ASSUME n = 0 PROVE FALSE
    BY <1>2
  <2>1. \A i \in 1 .. Len(s) : s[i] = << >>[i]
    BY <1>2
  <2> QED BY <1>1, <1>2, <2>1, ListEmpty, SameList
<1>4. PICK R : s \in Seq(R)
  BY <1>1 DEF IsList
<1>5. Head(s) = s[1]
  BY <1>4, HeadTailProperties
<1>6. 1 \in 1 .. n
  BY <1>2, <1>3
<1>7. IsPiece(Head(s))
  BY <1>2, <1>5, <1>6 DEF IsPieces
<1>8. PICK t : t = Tail(s)
  OBVIOUS
<1>9. IsList(t) /\ Len(t) = n - 1
  BY <1>1, <1>2, <1>3, <1>8, ListTail
<1>10. \A i \in 1 .. n - 1 : t[i] = s[i + 1]
  BY <1>1, <1>2, <1>3, <1>8, ListTail
<1>11. \A i \in 1 .. n - 1 : i + 1 \in 1 .. n
  BY <1>2
<1>12. \A i \in 1 .. n - 1 : IsPiece(t[i])
  BY <1>2, <1>10, <1>11 DEF IsPieces
<1> QED BY <1>7, <1>8, <1>9, <1>12 DEF IsPieces

\* The inductive invariant of printing: what path and page contain are the texts of the
\* pieces that were printed to them, and what is left can be printed.
InkInv ==
  ink # NoInk =>
    /\ DOMAIN ink = {"path", "page", "pieces", "drawn", "left"}
    /\ IsPieces(ink.pieces) /\ IsPieces(ink.drawn) /\ IsPieces(ink.left)
    /\ IsBuffer(ink.path) /\ Contents(ink.path) = TextOfAll(ink.pieces)
    /\ IsBuffer(ink.page) /\ Contents(ink.page) = TextOfAll(ink.drawn)

\* A blank page is one with nothing printed on it.
LEMMA BlankInk ==
  ASSUME NEW s, IsPieces(s), ink' = [BlankPage EXCEPT !.left = s]
  PROVE  InkInv'
<1>1. PICK b, k : b = BlankPage /\ k = ink'
  OBVIOUS
<1>2. /\ DOMAIN b = {"path", "page", "pieces", "drawn", "left"}
      /\ b.path = EmptyBuffer /\ b.page = EmptyBuffer /\ b.pieces = << >> /\ b.drawn = << >>
  BY <1>1 DEF BlankPage
<1>3. k = [b EXCEPT !.left = s]
  BY <1>1
<1>4. /\ DOMAIN k = {"path", "page", "pieces", "drawn", "left"} /\ k.left = s
      /\ k.path = EmptyBuffer /\ k.page = EmptyBuffer /\ k.pieces = << >> /\ k.drawn = << >>
  BY <1>2, <1>3
<1> QED BY <1>1, <1>4, EmptyIs, NoText DEF InkInv

\* Every step keeps to it.
LEMMA InkInvStep == InkInv /\ [Next]_vars => InkInv'
<1> SUFFICES ASSUME InkInv, [Next]_vars PROVE InkInv'
  OBVIOUS
<1>1. CASE UNCHANGED ink
  BY <1>1 DEF InkInv
<1>2. CASE StartPage
  <2>1. ink' = BlankPage
    BY <1>2 DEF StartPage
  <2>2. BlankPage = [BlankPage EXCEPT !.left = << >>]
    BY DEF BlankPage
  <2> QED BY <2>1, <2>2, NoText, BlankInk
<1>3. CASE FillPage
  <2>1. PICK s \in Pages : ink' = [ink EXCEPT !.left = s] /\ ink = BlankPage
    BY <1>3 DEF FillPage
  <2>2. s \in Seq(ToSet(s)) /\ \A p \in ToSet(s) : IsPiece(p)
    BY PageAssumption
  <2>3. IsList(s)
    BY <2>2 DEF IsList
  <2>4. IsPieces(s)
    BY <2>2, <2>3, ListIs DEF IsPieces, ToSet
  <2> QED BY <2>1, <2>4, BlankInk
<1>4. CASE PrintPiece
  <2>1. PICK k, l, p : k = ink /\ l = ink' /\ p = Head(k.left)
    OBVIOUS
  <2>2. /\ k # NoInk /\ k.left # << >>
        /\ l = [k EXCEPT !.path = Streamed(@, p), !.pieces = Append(@, p), !.left = Tail(@)]
    BY <1>4, <2>1 DEF PrintPiece
  <2>3. /\ DOMAIN k = {"path", "page", "pieces", "drawn", "left"}
        /\ IsPieces(k.pieces) /\ IsPieces(k.drawn) /\ IsPieces(k.left)
        /\ IsBuffer(k.path) /\ Contents(k.path) = TextOfAll(k.pieces)
        /\ IsBuffer(k.page) /\ Contents(k.page) = TextOfAll(k.drawn)
    BY <2>1, <2>2 DEF InkInv
  <2>4. /\ DOMAIN l = {"path", "page", "pieces", "drawn", "left"}
        /\ l.path = Streamed(k.path, p) /\ l.pieces = Append(k.pieces, p)
        /\ l.left = Tail(k.left) /\ l.page = k.page /\ l.drawn = k.drawn
    BY <2>2, <2>3
  <2>5. IsPiece(p) /\ IsPieces(Tail(k.left))
    BY <2>1, <2>2, <2>3, PiecesLeft
  <2>6. IsPieces(l.pieces) /\ TextOfAll(l.pieces) = TextOfAll(k.pieces) \o TextOf(p)
    BY <2>3, <2>4, <2>5, TextAppend
  <2>7. IsBuffer(l.path) /\ Contents(l.path) = Contents(k.path) \o TextOf(p)
    BY <2>3, <2>4, <2>5, PieceIs
  <2> QED BY <2>1, <2>3, <2>4, <2>5, <2>6, <2>7 DEF InkInv
<1>5. ASSUME NEW good \in BOOLEAN, EndPath(good) PROVE InkInv'
  <2>1. PICK k, l, path : /\ k = ink /\ l = ink'
                          /\ path = [k EXCEPT !.path = Clear(@), !.pieces = << >>]
    OBVIOUS
  <2>2. /\ k # NoInk
        /\ l = IF good THEN [path EXCEPT !.page = Concat(@, Flush(k.path).out),
                                         !.drawn = @ \o k.pieces]
               ELSE path
    BY <1>5, <2>1 DEF EndPath
  <2>3. /\ DOMAIN k = {"path", "page", "pieces", "drawn", "left"}
        /\ IsPieces(k.pieces) /\ IsPieces(k.drawn) /\ IsPieces(k.left)
        /\ IsBuffer(k.path) /\ Contents(k.path) = TextOfAll(k.pieces)
        /\ IsBuffer(k.page) /\ Contents(k.page) = TextOfAll(k.drawn)
    BY <2>1, <2>2 DEF InkInv
  <2>4. /\ DOMAIN path = {"path", "page", "pieces", "drawn", "left"}
        /\ path.path = EmptyBuffer /\ path.pieces = << >> /\ path.left = k.left
        /\ path.page = k.page /\ path.drawn = k.drawn
    BY <2>1, <2>3 DEF Clear
  <2>5. /\ DOMAIN l = {"path", "page", "pieces", "drawn", "left"}
        /\ l.path = EmptyBuffer /\ l.pieces = << >> /\ l.left = k.left
    BY <2>2, <2>4
  <2>6. IsPieces(l.drawn) /\ IsBuffer(l.page) /\ Contents(l.page) = TextOfAll(l.drawn)
    <3>1. CASE good
      <4>1. l.page = Concat(k.page, Flush(k.path).out) /\ l.drawn = k.drawn \o k.pieces
        BY <2>2, <2>4, <3>1
      <4>2. Flush(k.path).out = Contents(k.path)
        <5>1. PICK b : b = k.path
          OBVIOUS
        <5>2. DOMAIN b = {"held", "out"}
          BY <2>3, <5>1 DEF IsBuffer
        <5>3. Flush(b).out = b.out \o b.held
          BY <5>2 DEF Flush
        <5> QED BY <5>1, <5>3 DEF Contents
      <4>3. IsList(Contents(k.path))
        BY <2>3, ListConcat DEF Contents, IsBuffer
      <4>4. IsBuffer(l.page) /\ Contents(l.page) = Contents(k.page) \o Contents(k.path)
        <5>1. PICK b, u, c : b = k.page /\ u = Contents(k.path) /\ c = l.page
          OBVIOUS
        <5>2. IsBuffer(b) /\ IsList(u) /\ c = Concat(b, u)
          BY <2>3, <4>1, <4>2, <4>3, <5>1
        <5> QED BY <5>1, <5>2, ConcatIs
      <4>5. /\ IsPieces(l.drawn)
            /\ TextOfAll(l.drawn) = TextOfAll(k.drawn) \o TextOfAll(k.pieces)
        BY <2>3, <4>1, TextConcat
      <4> QED BY <2>3, <4>4, <4>5
    <3>2. CASE ~good
      BY <2>2, <2>3, <2>4, <3>2
    <3> QED BY <3>1, <3>2
  <2> QED BY <2>1, <2>3, <2>5, <2>6, EmptyIs, NoText DEF InkInv
<1>6. CASE \E length \in AnswerLengths : EndPage(length)
  <2>1. ink' = NoInk
    BY <1>6 DEF EndPage
  <2> QED BY <2>1 DEF InkInv
<1>7. UNCHANGED ink \/ StartPage \/ FillPage \/ PrintPiece \/ (\E good \in BOOLEAN : EndPath(good))
        \/ \E length \in AnswerLengths : EndPage(length)
  <2>1. Next => \/ UNCHANGED ink \/ StartPage \/ FillPage \/ PrintPiece
                \/ \E good \in BOOLEAN : EndPath(good)
                \/ \E length \in AnswerLengths : EndPage(length)
    BY DEF Next, Exchange, DrawTile, Search, SearchOn, ShowRelation, LoadMember,
           SearchForNothing, ReturnSearch, EndRelation, LoadPoints, serving
  <2>2. UNCHANGED vars => UNCHANGED ink
    BY DEF vars
  <2> QED BY <2>1, <2>2
<1> QED BY <1>1, <1>2, <1>3, <1>4, <1>5, <1>6, <1>7

\* What it says of the page is what is asked of it.
LEMMA InkInvIsEnough == InkInv => TextIsWhole
<1> SUFFICES ASSUME InkInv, ink # NoInk PROVE TextIsWhole
  BY DEF TextIsWhole
<1>1. PICK k, all : k = ink /\ all = k.drawn \o k.pieces
  OBVIOUS
<1>2. /\ IsPieces(k.pieces) /\ IsPieces(k.drawn)
      /\ Contents(k.path) = TextOfAll(k.pieces) /\ Contents(k.page) = TextOfAll(k.drawn)
  BY <1>1 DEF InkInv
<1>3. IsPieces(all)
  BY <1>1, <1>2, TextConcat
<1>4. \A p \in ToSet(all) : Reads(TextOf(p), p)
  <2>1. DOMAIN all = 1 .. Len(all)
    BY <1>3, ListIs DEF IsPieces
  <2> QED BY <1>3, <2>1, PieceIs DEF ToSet, IsPieces
<1> QED BY <1>1, <1>2, <1>4 DEF TextIsWhole, Contents

\* Of numbers of every length and pieces of every size, however they fall on the ends of
\* the buffers, each is printed as it reads, and the page has all of them in their order.
THEOREM TextWhole == Spec => []TextIsWhole
<1>1. Init => InkInv
  BY DEF Init, InkInv
<1> QED BY <1>1, InkInvStep, InkInvIsEnough, PTL DEF Spec
=============================================================================
