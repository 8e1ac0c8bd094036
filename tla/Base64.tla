------------------------------- MODULE Base64 -------------------------------
(***************************************************************************)
(* base64-encoding.cpp: three bytes become four characters.  A character   *)
(* of the alphabet is its index in base64_chars, 0 to 63.                  *)
(***************************************************************************)
EXTENDS Integers, Sequences

Octet == 0..255
Base64Char == 0..63
Pad == 64      \* '='
Dash == 65     \* '-', which separates the halves of a signature

is_base64(c) == c \in Base64Char

\* The bytes end in zeros as far as the last group of three needs them.
ByteOf(bytes, i) == IF i <= Len(bytes) THEN bytes[i] ELSE 0

Groups(bytes) == (Len(bytes) + 2) \div 3

\* Character p, whose group begins with byte b.
CharOf(bytes, p) ==
  LET b == 3 * ((p - 1) \div 4) + 1
  IN CASE p % 4 = 1 -> ByteOf(bytes, b) \div 4
       [] p % 4 = 2 -> (ByteOf(bytes, b) % 4) * 16 + ByteOf(bytes, b + 1) \div 16
       [] p % 4 = 3 -> (ByteOf(bytes, b + 1) % 16) * 4 + ByteOf(bytes, b + 2) \div 64
       [] p % 4 = 0 -> ByteOf(bytes, b + 2) % 64

\* A byte takes eight bits of six: n bytes need one character more than there
\* are bytes for each group that was begun.
base64_encode(bytes) ==
  [p \in 1..(4 * Groups(bytes)) |->
     IF p <= Len(bytes) + Groups(bytes) THEN CharOf(bytes, p) ELSE Pad]

\* Decoding stops at the first character that is not of the alphabet.
Readable(text) ==
  CHOOSE n \in 0..Len(text) :
    /\ \A p \in 1..n : is_base64(text[p])
    /\ n < Len(text) => ~is_base64(text[n + 1])

\* What stands for a missing character is find's npos, as an unsigned char.
ValueOf(text, p) == IF p <= Readable(text) THEN text[p] ELSE 255

\* Byte i, whose group begins with character p.  An unsigned char keeps 8 bits.
DecodedByte(text, i) ==
  LET p == 4 * ((i - 1) \div 3) + 1
  IN CASE i % 3 = 1 -> (ValueOf(text, p) * 4 + ((ValueOf(text, p + 1) \div 16) % 4)) % 256
       [] i % 3 = 2 ->
            ((ValueOf(text, p + 1) % 16) * 16 + ((ValueOf(text, p + 2) \div 4) % 16)) % 256
       [] i % 3 = 0 -> ((ValueOf(text, p + 2) % 4) * 64 + ValueOf(text, p + 3)) % 256

\* A group of fewer than four characters gives one byte less than it has
\* characters.
base64_decode(text) ==
  [i \in 1..(Readable(text) - (Readable(text) + 3) \div 4) |-> DecodedByte(text, i)]
=============================================================================
