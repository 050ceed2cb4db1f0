---------------------------- MODULE StringBuffer ----------------------------
(***************************************************************************)
(* helpers/StringBuffer: a string that is written through a buffer of fixed *)
(* size, and the eight functions that print numbers into it, digit by       *)
(* digit.  A buffer is [held, out]: what it holds, and the string behind    *)
(* it; bytesLeft_ is BufferLength - Len(held).  A character is a number:    *)
(* a digit is itself, the others have names below.                          *)
(***************************************************************************)
EXTENDS Integers, Sequences, SequencesExt

CONSTANTS BufferLength,        \* CONCATENATOR_LENGTH, 65536
          IntBits, LongBits    \* 32 and 64

Minus == 10
Garbage == 11   \* what is printed for a number that is left negative
Letter == 12

EmptyBuffer == [held |-> << >>, out |-> << >>]

\* (Variant of Concat that does not empty the buffer when it is full.)
ConcatFull(b, s) ==
  IF Len(s) > BufferLength - Len(b.held) THEN [b EXCEPT !.out = b.out \o b.held \o s]
  ELSE [b EXCEPT !.held = @ \o s]

\* concat, for characters and for a string: what does not fit goes to the string
\* at once, behind what the buffer holds.
Concat(b, s) ==
  IF Len(s) > BufferLength - Len(b.held) THEN [held |-> << >>, out |-> b.out \o b.held \o s]
  ELSE [b EXCEPT !.held = @ \o s]

\* flush: the buffer is not emptied, so a second flush writes the same again.
Flush(b) == [b EXCEPT !.out = @ \o b.held]
Clear(b) == EmptyBuffer
-----------------------------------------------------------------------------
\* The powers of ten: 1, 10, 100 and so on.
Power[k \in 0 .. 20] == IF k = 0 THEN 1 ELSE 10 * Power[k - 1]

\* The comparisons at the start of each function.
DigitCount(n) == CHOOSE k \in 1 .. 20 : n < Power[k] /\ (k = 1 \/ n >= Power[k - 1])

\* The digits, from the highest place: each is as large as the rest allows.
Digits(n) == LET k == DigitCount(n) IN [i \in 1 .. k |-> (n \div Power[k - i]) % 10]

\* A negative number is negated, which leaves the least one of its width as it is;
\* all comparisons then take it for one digit.
Signed(n, bits) ==
  IF n = -(2 ^ (bits - 1)) THEN <<Minus, Garbage>>
  ELSE IF n < 0 THEN <<Minus>> \o Digits(-n) ELSE Digits(n)

PutUint64(b, n) == Concat(b, Digits(n))
PutInt64(b, n) == Concat(b, Signed(n, LongBits))
PutUint32(b, n) == Concat(b, Digits(n))
PutInt32(b, n) == Concat(b, Signed(n, IntBits))
PutUint16(b, n) == Concat(b, Digits(n))
PutInt16(b, n) == Concat(b, Signed(n, 16))
PutUint8(b, n) == Concat(b, Digits(n))
PutInt8(b, n) == Concat(b, Signed(n, 8))

\* What there is an operator<< for: text, and numbers of at most 20 digits.
Unsigned == {"uint64", "uint32", "uint16", "uint8"}
SignedTypes == {"int64", "int32", "int16", "int8"}
Short(n) == \E k \in 1 .. 20 : n < Power[k]
IsPiece(p) ==
  \/ p.type = "text" /\ p.text \in Seq(ToSet(p.text))
  \/ p.type \in Unsigned \cup SignedTypes /\ p.number \in Nat /\ Short(p.number)
  \/ p.type \in SignedTypes /\ p.number \in Int /\ -p.number \in Nat /\ Short(-p.number)

\* operator<< for a piece of text or a number of some type.
Streamed(b, piece) ==
  CASE piece.type = "text" -> Concat(b, piece.text)
    [] piece.type = "uint64" -> PutUint64(b, piece.number)
    [] piece.type = "int64" -> PutInt64(b, piece.number)
    [] piece.type = "uint32" -> PutUint32(b, piece.number)
    [] piece.type = "int32" -> PutInt32(b, piece.number)
    [] piece.type = "uint16" -> PutUint16(b, piece.number)
    [] piece.type = "int16" -> PutInt16(b, piece.number)
    [] piece.type = "uint8" -> PutUint8(b, piece.number)
    [] piece.type = "int8" -> PutInt8(b, piece.number)
-----------------------------------------------------------------------------
\* What a piece should read as: its text, or decimal digits without needless zeros
\* that count up to the number.  Nothing is said of the least signed numbers.
Bits(type) ==
  CASE type \in {"uint64", "int64"} -> LongBits [] type \in {"uint32", "int32"} -> IntBits
    [] type \in {"uint16", "int16"} -> 16 [] type \in {"uint8", "int8"} -> 8

Counted(digits) ==
  LET value[i \in 0 .. Len(digits)] == IF i = 0 THEN 0 ELSE 10 * value[i - 1] + digits[i]
  IN value[Len(digits)]

Reads(s, piece) ==
  LET digits == IF s[1] = Minus THEN Tail(s) ELSE s
      value == Counted(digits)
  IN \/ piece.type = "text" /\ s = piece.text
     \/ piece.type # "text" /\ piece.number = -(2 ^ (Bits(piece.type) - 1))
     \/ /\ piece.type # "text" /\ ToSet(digits) \subseteq 0 .. 9
        /\ digits[1] # 0 \/ Len(digits) = 1
        /\ IF s[1] = Minus THEN value > 0 /\ piece.number = -value ELSE piece.number = value
=============================================================================
