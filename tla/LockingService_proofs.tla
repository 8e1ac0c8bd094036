------------------------ MODULE LockingService_proofs ------------------------
(***************************************************************************)
(* Theorems about LockingService and the modules it is made of: Base64, for*)
(* byte sequences of any length; KeyStorage, for any number of starts,     *)
(* stops and failures; the service, for any number of transactions, rows,  *)
(* keys and restarts, and for any length of a signature; the budget of     *)
(* DemandPaging, for any rows and whatever its arrays are left with; its   *)
(* tables, its signatures, its replies and two-phase locking, unless one   *)
(* of the two mistakes in how it copies arrays bites.                      *)
(***************************************************************************)
EXTENDS LockingService, SequenceTheorems, WellFoundedInduction, TLAPS

-----------------------------------------------------------------------------
(* Base64                                                                  *)

Bytes == Seq(Octet)

Used(bytes) == Len(bytes) + Groups(bytes)

\* A byte, or the zero that stands for one.
LEMMA ByteType ==
  ASSUME NEW bytes \in Bytes, NEW i \in Nat \ {0}
  PROVE  ByteOf(bytes, i) \in Octet
<1>1. i \in 1..Len(bytes) => bytes[i] \in Octet
  BY DEF Bytes
<1> QED
  BY <1>1 DEF ByteOf, Octet, Bytes

\* Each character that encodes bytes is one of the alphabet.
LEMMA CharType ==
  ASSUME NEW bytes \in Bytes, NEW p \in Nat \ {0}
  PROVE  CharOf(bytes, p) \in Base64Char
<1> DEFINE b == 3 * ((p - 1) \div 4) + 1
<1>1. b \in Nat \ {0}
  OBVIOUS
<1>2. /\ ByteOf(bytes, b) \in Octet
      /\ ByteOf(bytes, b + 1) \in Octet
      /\ ByteOf(bytes, b + 2) \in Octet
  BY <1>1, ByteType
<1>3. CASE p % 4 = 1
  BY <1>2, <1>3 DEF CharOf, Octet, Base64Char
<1>4. CASE p % 4 = 2
  BY <1>2, <1>4 DEF CharOf, Octet, Base64Char
<1>5. CASE p % 4 = 3
  BY <1>2, <1>5 DEF CharOf, Octet, Base64Char
<1>6. CASE p % 4 = 0
  BY <1>2, <1>6 DEF CharOf, Octet, Base64Char
<1> QED
  BY <1>3, <1>4, <1>5, <1>6

\* What is encoded: characters of the alphabet, as many as are used, and pads.
LEMMA EncodedText ==
  ASSUME NEW bytes \in Bytes
  PROVE  /\ Groups(bytes) \in Nat /\ Used(bytes) \in Nat
         /\ Used(bytes) <= 4 * Groups(bytes)
         /\ base64_encode(bytes) \in Seq(Base64Char \cup {Pad})
         /\ Len(base64_encode(bytes)) = 4 * Groups(bytes)
         /\ \A p \in 1..(4 * Groups(bytes)) : base64_encode(bytes)[p] =
              IF p <= Used(bytes) THEN CharOf(bytes, p) ELSE Pad
<1>1. Len(bytes) \in Nat
  BY DEF Bytes
<1>2. /\ Groups(bytes) \in Nat /\ Used(bytes) \in Nat
      /\ Used(bytes) <= 4 * Groups(bytes)
  BY <1>1 DEF Groups, Used
<1>3. \A p \in 1..(4 * Groups(bytes)) : CharOf(bytes, p) \in Base64Char
  BY <1>2, CharType
<1> QED
  BY <1>2, <1>3 DEF base64_encode, Used

\* Decoding reads the characters that are not pads.
LEMMA EncodedReadable ==
  ASSUME NEW bytes \in Bytes
  PROVE  Readable(base64_encode(bytes)) = Used(bytes)
<1> DEFINE text == base64_encode(bytes)
           Ends(n) == /\ \A p \in 1..n : is_base64(text[p])
                      /\ n < Len(text) => ~is_base64(text[n + 1])
<1>1. Used(bytes) \in 0..Len(text) /\ Len(text) \in Nat
  BY EncodedText
<1>2. \A p \in 1..Len(text) : is_base64(text[p]) <=> p <= Used(bytes)
  <2> SUFFICES ASSUME NEW p \in 1..Len(text)
               PROVE  is_base64(text[p]) <=> p <= Used(bytes)
    OBVIOUS
  <2>1. text[p] = IF p <= Used(bytes) THEN CharOf(bytes, p) ELSE Pad
    BY EncodedText
  <2>2. CharOf(bytes, p) \in Base64Char
    BY <1>1, CharType
  <2> QED
    BY <2>1, <2>2 DEF is_base64, Base64Char, Pad
<1>3. Ends(Used(bytes))
  BY <1>1, <1>2
<1>4. ASSUME NEW n \in 0..Len(text), Ends(n)
      PROVE  n = Used(bytes)
  <2>1. n <= Used(bytes)
    BY <1>1, <1>2, <1>4
  <2>2. n >= Used(bytes)
    BY <1>1, <1>2, <1>4
  <2> QED
    BY <1>1, <2>1, <2>2
<1> HIDE DEF text
<1>5. (CHOOSE n \in 0..Len(text) : Ends(n)) = Used(bytes)
  <2> HIDE DEF Ends
  <2> QED
    BY <1>1, <1>3, <1>4
<1> QED
  BY <1>5 DEF Readable, text

\* The four characters of group g, counted from 0.
LEMMA CharsOfGroup ==
  ASSUME NEW bytes \in Bytes, NEW g \in Nat
  PROVE  /\ CharOf(bytes, 4 * g + 1) = ByteOf(bytes, 3 * g + 1) \div 4
         /\ CharOf(bytes, 4 * g + 2) =
              (ByteOf(bytes, 3 * g + 1) % 4) * 16 + ByteOf(bytes, 3 * g + 2) \div 16
         /\ CharOf(bytes, 4 * g + 3) =
              (ByteOf(bytes, 3 * g + 2) % 16) * 4 + ByteOf(bytes, 3 * g + 3) \div 64
         /\ CharOf(bytes, 4 * g + 4) = ByteOf(bytes, 3 * g + 3) % 64
<1>1. \A k \in 1..4 : 3 * ((4 * g + k - 1) \div 4) + 1 = 3 * g + 1
  OBVIOUS
<1>2. 3 * g + 1 + 1 = 3 * g + 2 /\ 3 * g + 1 + 2 = 3 * g + 3
  OBVIOUS
<1>3. (4 * g + 1) % 4 = 1
  OBVIOUS
<1>4. (4 * g + 2) % 4 = 2
  OBVIOUS
<1>5. (4 * g + 3) % 4 = 3
  OBVIOUS
<1>6. (4 * g + 4) % 4 = 0
  OBVIOUS
<1>7. CharOf(bytes, 4 * g + 1) = ByteOf(bytes, 3 * g + 1) \div 4
  BY <1>1, <1>2, <1>3 DEF CharOf
<1>8. CharOf(bytes, 4 * g + 2) =
        (ByteOf(bytes, 3 * g + 1) % 4) * 16 + ByteOf(bytes, 3 * g + 2) \div 16
  BY <1>1, <1>2, <1>4 DEF CharOf
<1>9. CharOf(bytes, 4 * g + 3) =
        (ByteOf(bytes, 3 * g + 2) % 16) * 4 + ByteOf(bytes, 3 * g + 3) \div 64
  BY <1>1, <1>2, <1>5 DEF CharOf
<1>10. CharOf(bytes, 4 * g + 4) = ByteOf(bytes, 3 * g + 3) % 64
  BY <1>1, <1>2, <1>6 DEF CharOf
<1> QED
  BY <1>7, <1>8, <1>9, <1>10

\* The three bytes of group g, of any text.
LEMMA BytesOfGroup ==
  ASSUME NEW text, NEW g \in Nat
  PROVE  /\ DecodedByte(text, 3 * g + 1) =
              (ValueOf(text, 4 * g + 1) * 4 + ((ValueOf(text, 4 * g + 2) \div 16) % 4)) % 256
         /\ DecodedByte(text, 3 * g + 2) =
              ((ValueOf(text, 4 * g + 2) % 16) * 16
                 + ((ValueOf(text, 4 * g + 3) \div 4) % 16)) % 256
         /\ DecodedByte(text, 3 * g + 3) =
              ((ValueOf(text, 4 * g + 3) % 4) * 64 + ValueOf(text, 4 * g + 4)) % 256
<1>1. \A k \in 1..3 : 4 * ((3 * g + k - 1) \div 3) + 1 = 4 * g + 1
  OBVIOUS
<1>2. 4 * g + 1 + 1 = 4 * g + 2 /\ 4 * g + 1 + 2 = 4 * g + 3 /\ 4 * g + 1 + 3 = 4 * g + 4
  OBVIOUS
<1>3. (3 * g + 1) % 3 = 1
  OBVIOUS
<1>4. (3 * g + 2) % 3 = 2
  OBVIOUS
<1>5. (3 * g + 3) % 3 = 0
  OBVIOUS
<1>6. DecodedByte(text, 3 * g + 1) =
        (ValueOf(text, 4 * g + 1) * 4 + ((ValueOf(text, 4 * g + 2) \div 16) % 4)) % 256
  BY <1>1, <1>2, <1>3 DEF DecodedByte
<1>7. DecodedByte(text, 3 * g + 2) =
        ((ValueOf(text, 4 * g + 2) % 16) * 16 + ((ValueOf(text, 4 * g + 3) \div 4) % 16)) % 256
  BY <1>1, <1>2, <1>4 DEF DecodedByte
<1>8. DecodedByte(text, 3 * g + 3) =
        ((ValueOf(text, 4 * g + 3) % 4) * 64 + ValueOf(text, 4 * g + 4)) % 256
  BY <1>1, <1>2, <1>5 DEF DecodedByte
<1> QED
  BY <1>6, <1>7, <1>8

\* Taking bytes apart and putting them together.
LEMMA BitsOfBytes ==
  ASSUME NEW x \in Octet, NEW y \in Octet, NEW z \in Octet
  PROVE  /\ ((x \div 4) * 4 + ((((x % 4) * 16 + y \div 16) \div 16) % 4)) % 256 = x
         /\ ((((x % 4) * 16 + y \div 16) % 16) * 16
               + ((((y % 16) * 4 + z \div 64) \div 4) % 16)) % 256 = y
         /\ ((((y % 16) * 4 + z \div 64) % 4) * 64 + (z % 64)) % 256 = z
<1>1. /\ y \div 16 \in 0..15 /\ z \div 64 \in 0..3
      /\ x = 4 * (x \div 4) + (x % 4) /\ x % 4 \in 0..3 /\ x \div 4 \in 0..63
      /\ y = 16 * (y \div 16) + (y % 16) /\ y % 16 \in 0..15
      /\ z = 64 * (z \div 64) + (z % 64) /\ z % 64 \in 0..63
  BY DEF Octet
<1>2. /\ ((x % 4) * 16 + y \div 16) \div 16 = x % 4
      /\ ((x % 4) * 16 + y \div 16) % 16 = y \div 16
  BY <1>1
<1>3. /\ ((y % 16) * 4 + z \div 64) \div 4 = y % 16
      /\ ((y % 16) * 4 + z \div 64) % 4 = z \div 64
  BY <1>1
<1>4. ((x \div 4) * 4 + ((((x % 4) * 16 + y \div 16) \div 16) % 4)) % 256 = x
  BY <1>1, <1>2 DEF Octet
<1>5. ((((x % 4) * 16 + y \div 16) % 16) * 16
         + ((((y % 16) * 4 + z \div 64) \div 4) % 16)) % 256 = y
  BY <1>1, <1>2, <1>3 DEF Octet
<1>6. ((((y % 16) * 4 + z \div 64) % 4) * 64 + (z % 64)) % 256 = z
  BY <1>1, <1>3 DEF Octet
<1> QED
  BY <1>4, <1>5, <1>6

\* A character that is used is read back.
LEMMA EncodedValue ==
  ASSUME NEW bytes \in Bytes, NEW p \in 1..Used(bytes)
  PROVE  ValueOf(base64_encode(bytes), p) = CharOf(bytes, p)
<1>1. Used(bytes) \in Nat /\ p \in 1..(4 * Groups(bytes))
  BY EncodedText
<1>2. base64_encode(bytes)[p] = CharOf(bytes, p)
  BY <1>1, EncodedText
<1>3. p <= Readable(base64_encode(bytes))
  BY <1>1, EncodedReadable
<1> QED
  BY <1>2, <1>3 DEF ValueOf

\* Byte i of a text that encodes bytes.
LEMMA EncodedByte ==
  ASSUME NEW bytes \in Bytes, NEW i \in 1..Len(bytes)
  PROVE  DecodedByte(base64_encode(bytes), i) = bytes[i]
<1> DEFINE text == base64_encode(bytes)
           g == (i - 1) \div 3
<1>1. Len(bytes) \in Nat /\ g \in Nat
  BY DEF Bytes
<1>2. /\ ByteOf(bytes, 3 * g + 1) \in Octet
      /\ ByteOf(bytes, 3 * g + 2) \in Octet
      /\ ByteOf(bytes, 3 * g + 3) \in Octet
  BY <1>1, ByteType
<1>3. ByteOf(bytes, i) = bytes[i]
  BY <1>1 DEF ByteOf
<1>4. \A k \in 1..4 : 4 * g + k <= Used(bytes) =>
        ValueOf(text, 4 * g + k) = CharOf(bytes, 4 * g + k)
  BY <1>1, EncodedValue, EncodedText
<1>5. i \in {3 * g + 1, 3 * g + 2, 3 * g + 3}
  BY <1>1
<1>6. Used(bytes) = Len(bytes) + (Len(bytes) + 2) \div 3
  BY DEF Used, Groups
<1> HIDE DEF text, g
<1>7. CASE i = 3 * g + 1
  <2>1. 4 * g + 1 <= Used(bytes) /\ 4 * g + 2 <= Used(bytes)
    BY <1>1, <1>6, <1>7
  <2>2. ValueOf(text, 4 * g + 1) = CharOf(bytes, 4 * g + 1)
    BY <1>4, <2>1
  <2>3. ValueOf(text, 4 * g + 2) = CharOf(bytes, 4 * g + 2)
    BY <1>4, <2>1
  <2> QED
    BY <1>1, <1>2, <1>3, <1>7, <2>2, <2>3, CharsOfGroup, BytesOfGroup, BitsOfBytes DEF text
<1>8. CASE i = 3 * g + 2
  <2>1. 4 * g + 2 <= Used(bytes) /\ 4 * g + 3 <= Used(bytes)
    BY <1>1, <1>6, <1>8
  <2>2. ValueOf(text, 4 * g + 2) = CharOf(bytes, 4 * g + 2)
    BY <1>4, <2>1
  <2>3. ValueOf(text, 4 * g + 3) = CharOf(bytes, 4 * g + 3)
    BY <1>4, <2>1
  <2> QED
    BY <1>1, <1>2, <1>3, <1>8, <2>2, <2>3, CharsOfGroup, BytesOfGroup, BitsOfBytes DEF text
<1>9. CASE i = 3 * g + 3
  <2>1. 4 * g + 3 <= Used(bytes) /\ 4 * g + 4 <= Used(bytes)
    BY <1>1, <1>6, <1>9
  <2>2. ValueOf(text, 4 * g + 3) = CharOf(bytes, 4 * g + 3)
    BY <1>4, <2>1
  <2>3. ValueOf(text, 4 * g + 4) = CharOf(bytes, 4 * g + 4)
    BY <1>4, <2>1
  <2> QED
    BY <1>1, <1>2, <1>3, <1>9, <2>2, <2>3, CharsOfGroup, BytesOfGroup, BitsOfBytes DEF text
<1> QED
  BY <1>5, <1>7, <1>8, <1>9

\* Decoding what was encoded gives back the bytes, however many they are.
THEOREM DecodeInvertsEncode ==
  ASSUME NEW bytes \in Bytes
  PROVE  base64_decode(base64_encode(bytes)) = bytes
<1> DEFINE text == base64_encode(bytes)
<1>1. Readable(text) - (Readable(text) + 3) \div 4 = Len(bytes)
  <2>1. Len(bytes) \in Nat
    BY DEF Bytes
  <2> QED
    BY <2>1, EncodedReadable DEF Used, Groups
<1>2. base64_decode(text) = [i \in 1..Len(bytes) |-> DecodedByte(text, i)]
  BY <1>1 DEF base64_decode
<1>3. base64_decode(text) = [i \in 1..Len(bytes) |-> bytes[i]]
  BY <1>2, EncodedByte
<1> QED
  BY <1>3 DEF Bytes

-----------------------------------------------------------------------------
(* KeyStorage                                                              *)

\* The type alone: a key that is used for signing is one of those generated.
LEMMA KeyTypeCorrect == KeySpec => []KeyTypeOK
<1>1. KeyInit => KeyTypeOK
  BY DEF KeyInit, KeyTypeOK, Stages
<1>2. KeyTypeOK /\ [KeyNext]_keyVars => KeyTypeOK'
  <2> SUFFICES ASSUME KeyTypeOK, [KeyNext]_keyVars
               PROVE  KeyTypeOK'
    OBVIOUS
  <2> USE DEF KeyTypeOK, Stages, From, Fails
  <2>1. CASE load_and_initialize_enclave
    BY <2>1 DEF load_and_initialize_enclave
  <2>2. CASE LoadFails
    BY <2>2 DEF LoadFails
  <2>3. CASE read_and_unseal_keys
    BY <2>3 DEF read_and_unseal_keys, unseal_keys, Sealed
  <2>4. CASE NothingRead
    BY <2>4 DEF NothingRead, Sealed
  <2>5. CASE generate_key_pair
    BY <2>5 DEF generate_key_pair
  <2>6. CASE SealFails
    BY <2>6 DEF SealFails
  <2>7. CASE OpenKeyFile
    BY <2>7 DEF OpenKeyFile
  <2>8. CASE WriteKeyFile
    BY <2>8 DEF WriteKeyFile, seal_keys
  <2>9. CASE WriteFails
    BY <2>9 DEF WriteFails
  <2>10. CASE Stop
    BY <2>10 DEF Stop
  <2>11. CASE SignWithKey
    BY <2>11 DEF SignWithKey, Running
  <2>12. CASE GenerateFails
    BY <2>12 DEF GenerateFails
  <2>13. CASE UNCHANGED keyVars
    BY <2>13 DEF keyVars
  <2> QED
    BY <2>1, <2>2, <2>3, <2>4, <2>5, <2>6, <2>7, <2>8, <2>9, <2>10, <2>11, <2>12, <2>13
    DEF KeyNext, Starting
<1> QED
  BY <1>1, <1>2, PTL DEF KeySpec

\* While no call has failed: a server that answers clients has its key in the file, a
\* key that was generated, and one that is about to replace the file found no key in it,
\* so that no client has a signature.
KeyInv ==
  failures = 0 =>
    /\ signed # NoKey => saved = signed
    /\ saved # Zeros
    /\ stage = "up" => key = saved /\ saved \in Key
    /\ stage \in {"generate", "seal", "write"} => signed = NoKey
    /\ stage \in {"seal", "write"} => key \in Key

LEMMA KeyInvImplies == KeyInv => KeysSurvive
  BY DEF KeyInv, KeysSurvive

LEMMA KeyInvStep ==
  ASSUME KeyTypeOK, KeyInv, [KeyNext]_keyVars
  PROVE  KeyInv'
<1> USE KeyAssumption DEF KeyTypeOK, KeyInv, From
<1>1. CASE load_and_initialize_enclave
  BY <1>1 DEF load_and_initialize_enclave
<1>2. CASE LoadFails
  BY <1>2 DEF LoadFails, Fails
<1>3. CASE read_and_unseal_keys
  BY <1>3 DEF read_and_unseal_keys, unseal_keys, Sealed
<1>4. CASE NothingRead
  BY <1>4 DEF NothingRead, Fails, Sealed
<1>5. CASE generate_key_pair
  BY <1>5 DEF generate_key_pair
<1>6. CASE SealFails
  BY <1>6 DEF SealFails, Fails
<1>7. CASE OpenKeyFile
  BY <1>7 DEF OpenKeyFile
<1>8. CASE WriteKeyFile
  BY <1>8 DEF WriteKeyFile, seal_keys
<1>9. CASE WriteFails
  BY <1>9 DEF WriteFails, Fails
<1>10. CASE Stop
  BY <1>10 DEF Stop
<1>11. CASE SignWithKey
  BY <1>11 DEF SignWithKey, Running
<1>12. CASE GenerateFails
  BY <1>12 DEF GenerateFails, Fails
<1>13. CASE UNCHANGED keyVars
  BY <1>13 DEF keyVars
<1> QED
  BY <1>1, <1>2, <1>3, <1>4, <1>5, <1>6, <1>7, <1>8, <1>9, <1>10, <1>11, <1>12, <1>13
  DEF KeyNext, Starting

\* Unless a call failed, the keys of signatures that clients have outlive the
\* server: KeysSurvive, for any number of keys, starts and stops.
THEOREM KeysAlwaysSurvive == KeySpec => []KeysSurvive
<1>1. KeyInit => KeyInv
  BY KeyAssumption DEF KeyInit, KeyInv
<1>2. KeyTypeOK /\ KeyInv /\ [KeyNext]_keyVars => KeyInv'
  BY KeyInvStep
<1> QED
  BY <1>1, <1>2, KeyInvImplies, KeyTypeCorrect, PTL DEF KeySpec

-----------------------------------------------------------------------------
(* LockingService                                                          *)

\* The two numbers of a signature, encoded: no dash among the characters.
LEMMA EncodedHalf ==
  ASSUME NEW h \in Half
  PROVE  /\ base64_encode(h) \in Seq(Base64Char \cup {Pad})
         /\ Len(base64_encode(h)) = 4 * ((HalfSize + 2) \div 3)
         /\ \A p \in 1..Len(base64_encode(h)) : base64_encode(h)[p] # Dash
         /\ Number(base64_encode(h)) = h
<1>1. h \in Bytes /\ Len(h) = HalfSize
  BY HalfSizeAssumption DEF Half, Bytes
<1>2. /\ base64_encode(h) \in Seq(Base64Char \cup {Pad})
      /\ Len(base64_encode(h)) = 4 * ((HalfSize + 2) \div 3)
  BY <1>1, EncodedText DEF Groups
<1>3. \A p \in 1..Len(base64_encode(h)) : base64_encode(h)[p] # Dash
  <2>1. Dash \notin Base64Char \cup {Pad}
    BY DEF Dash, Base64Char, Pad
  <2> QED
    BY <1>2, <2>1
<1>4. Number(base64_encode(h)) = h
  <2>1. base64_decode(base64_encode(h)) = h
    BY <1>1, DecodeInvertsEncode
  <2>2. h = [i \in 1..HalfSize |-> h[i]]
    BY DEF Half
  <2> QED
    BY <2>1, <2>2 DEF Number
<1> QED
  BY <1>2, <1>3, <1>4

\* The worker copies the whole text, and it comes apart at the dash.
LEMMA SignatureComesApart ==
  ASSUME NEW sig \in [x : Half, y : Half]
  PROVE  /\ return_value(sig) = encoded_signature(sig)
         /\ Halves(return_value(sig)) = [x |-> base64_encode(sig.x), y |-> base64_encode(sig.y)]
<1> DEFINE x == base64_encode(sig.x)
           y == base64_encode(sig.y)
           n == 4 * ((HalfSize + 2) \div 3)
           text == encoded_signature(sig)
           Chars == Base64Char \cup {Pad, Dash}
<1>1. /\ x \in Seq(Chars) /\ Len(x) = n /\ \A p \in 1..n : x[p] # Dash
      /\ y \in Seq(Chars) /\ Len(y) = n
  BY EncodedHalf
<1>2. n \in Nat
  BY HalfSizeAssumption
<1>3. <<Dash>> \in Seq(Chars)
  OBVIOUS
<1> HIDE DEF x, y, n, Chars
<1>4. /\ text \in Seq(Chars) /\ Len(text) = 2 * n + 1
      /\ \A p \in 1..n : text[p] = x[p]
      /\ text[n + 1] = Dash
      /\ \A p \in 1..n : text[n + 1 + p] = y[p]
  <2>1. text = x \o <<Dash>> \o y
    BY DEF encoded_signature, x, y
  <2> DEFINE head == x \o <<Dash>>
  <2>2. /\ head \in Seq(Chars) /\ Len(head) = n + 1
        /\ \A p \in 1..n : head[p] = x[p]
        /\ head[n + 1] = Dash
    BY <1>1, <1>2, <1>3
  <2> HIDE DEF head
  <2>3. text = head \o y
    BY <2>1 DEF head
  <2> HIDE DEF text
  <2>4. /\ text \in Seq(Chars) /\ Len(text) = Len(head) + Len(y)
        /\ \A p \in 1..(Len(head) + Len(y)) :
             text[p] = IF p <= Len(head) THEN head[p] ELSE y[p - Len(head)]
    BY <1>1, <2>2, <2>3, ConcatProperties, Zenon
  <2>5. \A p \in 1..(n + 1) : text[p] = head[p]
    BY <1>1, <1>2, <2>2, <2>4
  <2>6. ASSUME NEW p \in 1..n
        PROVE  text[n + 1 + p] = y[p]
    <3> DEFINE q == n + 1 + p
    <3>1. q \in 1..(Len(head) + Len(y)) /\ ~(q <= Len(head)) /\ q - Len(head) = p
      BY <1>1, <1>2, <2>2
    <3> HIDE DEF q
    <3>2. text[q] = y[q - Len(head)]
      BY <2>4, <3>1
    <3> QED
      BY <3>1, <3>2 DEF q
  <2> QED
    BY <1>1, <1>2, <2>2, <2>4, <2>5, <2>6
<1>5. SIGNATURE_SIZE = 2 * n + 1
  BY DEF SIGNATURE_SIZE, n
<1>6. return_value(sig) = text
  BY <1>2, <1>4, <1>5 DEF return_value
<1> HIDE DEF text
<1>7. DashAt(text, n + 1)
  BY <1>1, <1>2, <1>4 DEF DashAt
<1>8. ASSUME NEW q \in 1..Len(text), DashAt(text, q)
      PROVE  q = n + 1
  BY <1>1, <1>2, <1>4, <1>8 DEF DashAt
<1>9. n + 1 \in 1..Len(text)
  BY <1>2, <1>4
<1> DEFINE d == CHOOSE q \in 1..Len(text) : DashAt(text, q)
<1>10. d = n + 1
  BY <1>7, <1>8, <1>9
<1>11. ~\A p \in 1..Len(text) : text[p] # Dash
  BY <1>4, <1>9
<1>12. Halves(text) = [x |-> SubSeq(text, 1, d - 1), y |-> SubSeq(text, d + 1, Len(text))]
  BY <1>11, Zenon DEF Halves
<1> HIDE DEF d
<1>13. SubSeq(text, 1, d - 1) = x
  BY <1>1, <1>2, <1>4, <1>10
<1>14. SubSeq(text, d + 1, Len(text)) = y
  BY <1>1, <1>2, <1>4, <1>10
<1> QED
  BY <1>6, <1>12, <1>13, <1>14 DEF x, y, text

\* A signature made with a key verifies with that key for the lock that was
\* signed, and for no other.
LEMMA VerifiesForItsLock ==
  ASSUME NEW k \in Key,
         NEW t \in Transaction, NEW r \in Row, NEW x \in BOOLEAN,
         NEW u \in Transaction, NEW s \in Row, NEW z \in BOOLEAN
  PROVE  verify_signature(k, SignatureText[<<k, lock_to_string(t, r, x)>>], u, s, z)
           <=> Sign(t, r, x) = Sign(u, s, z)
<1> DEFINE Lock == {lock_to_string(a, b, c) : a \in Transaction, b \in Row, c \in BOOLEAN}
           made == Ecdsa[<<k, lock_to_string(t, r, x)>>]
           other == Ecdsa[<<k, lock_to_string(u, s, z)>>]
<1>1. /\ <<k, lock_to_string(t, r, x)>> \in Key \X Lock
      /\ <<k, lock_to_string(u, s, z)>> \in Key \X Lock
  OBVIOUS
<1>2. /\ Ecdsa \in [Key \X Lock -> [x : Half, y : Half]]
      /\ \A a, b \in Key \X Lock : Ecdsa[a] = Ecdsa[b] => a = b
  BY EcdsaAssumption
<1>3. made \in [x : Half, y : Half]
  BY <1>1, <1>2
<1>4. SignatureText[<<k, lock_to_string(t, r, x)>>] = return_value(made)
  BY <1>1, <1>2 DEF SignatureText
<1>5. made = other <=> lock_to_string(t, r, x) = lock_to_string(u, s, z)
  BY <1>1, <1>2
<1>6. lock_to_string(t, r, x) = lock_to_string(u, s, z) <=> t = u /\ r = s /\ x = z
  BY DEF lock_to_string
<1>7. Sign(t, r, x) = Sign(u, s, z) <=> t = u /\ r = s /\ x = z
  BY DEF Sign
<1> HIDE DEF made, other
<1>8. /\ Number(Halves(return_value(made)).x) = made.x
      /\ Number(Halves(return_value(made)).y) = made.y
  BY <1>3, SignatureComesApart, EncodedHalf
<1>9. [x |-> made.x, y |-> made.y] = made
  BY <1>3
<1>10. verify_signature(k, return_value(made), u, s, z) <=> made = other
  BY <1>8, <1>9 DEF verify_signature, verify, other
<1> QED
  BY <1>4, <1>5, <1>6, <1>7, <1>10

-----------------------------------------------------------------------------

\* What a step of the server does to the key is a step of KeyStorage.
LEMMA KeyStep ==
  ASSUME [ServiceNext]_serviceVars
  PROVE  [KeyNext]_keyVars
<1>1. CASE StartServer
  BY <1>1 DEF StartServer, KeyNext
<1>2. CASE StopServer
  BY <1>2 DEF StopServer, KeyNext
<1>3. CASE Call
  <2>1. ASSUME NEW t \in Transaction, NEW way, RegisterCall(t, way)
        PROVE  UNCHANGED keyVars
    BY <2>1 DEF RegisterCall
  <2>2. ASSUME NEW t \in Transaction, NEW r \in Row, NEW way, UnlockCall(t, r, way)
        PROVE  UNCHANGED keyVars
    BY <2>2 DEF UnlockCall
  <2>3. ASSUME NEW t \in Transaction, NEW r \in Row, NEW x \in BOOLEAN, NEW way,
               LockCall(t, r, x, way)
        PROVE  SignWithKey \/ UNCHANGED keyVars
    BY <2>3 DEF LockCall, Keep
  <2> QED
    BY <1>3, <2>1, <2>2, <2>3 DEF Call, KeyNext
<1>4. CASE UNCHANGED serviceVars
  BY <1>4 DEF serviceVars
<1> QED
  BY <1>1, <1>2, <1>3, <1>4 DEF ServiceNext

\* The server uses and keeps its key as KeyStorage does, whatever its clients
\* ask for: unless a call failed, the keys of their signatures outlive it.
THEOREM ServerKeepsItsKey == ServiceSpec => []KeysSurvive
<1>1. ServiceInit => KeyInit
  BY DEF ServiceInit
<1>2. [ServiceNext]_serviceVars => [KeyNext]_keyVars
  BY KeyStep
<1>3. ServiceSpec => KeySpec
  BY <1>1, <1>2, PTL DEF ServiceSpec, KeySpec
<1> QED
  BY <1>3, KeysAlwaysSurvive, PTL

-----------------------------------------------------------------------------

\* While no call has failed, Observer's signature is one of a lock and was made
\* with the key that signed last.
GrantInv ==
  failures = 0 /\ grant # Null =>
    \E t \in Transaction, r \in Row, x \in BOOLEAN :
      /\ signed \in Key
      /\ grant.lock = Sign(t, r, x)
      /\ grant.text = SignatureText[<<signed, lock_to_string(t, r, x)>>]

\* A text that a caller gets is the signature of the lock that was granted.
LEMMA ResultIsSignature ==
  ASSUME NEW t \in Transaction, NEW r \in Row, NEW x \in BOOLEAN, NEW way,
         Granted(t, r, x) \/ Refused(t, r, x), NEW job,
         LockResult(job, way).signature # NO_SIGNATURE
  PROVE  /\ signature' = Sign(t, r, x)
         /\ LockResult(job, way).signature = SignatureText[<<key, lock_to_string(t, r, x)>>]
<1> DEFINE error == signature' = Null
           text == IF error THEN unwritten ELSE Text(signature')
           result == create_enclave_job(job, error, text)
<1>1. LockResult(job, way).signature \in {NO_SIGNATURE, result.signature}
  BY DEF LockResult, requestLock
<1>2. result.signature # NO_SIGNATURE
  BY <1>1
<1>3. ~error /\ result.signature = text
  BY <1>2 DEF create_enclave_job
<1>4. signature' = Sign(t, r, x)
  <2>1. CASE Refused(t, r, x)
    BY <1>3, <2>1 DEF Refused, Unchanged, Abort
  <2>2. CASE x /\ Upgrade(t, r)
    BY <2>2 DEF Upgrade
  <2>3. CASE AddLock(t, r, x)
    BY <2>3 DEF AddLock
  <2> QED
    BY <2>1, <2>2, <2>3 DEF Granted
<1>5. Text(signature') = SignatureText[<<key, lock_to_string(t, r, x)>>]
  BY <1>4 DEF Text, Sign
<1> QED
  BY <1>1, <1>3, <1>4, <1>5

LEMMA GrantInvStep ==
  ASSUME KeyTypeOK, KeyInv, GrantInv, [ServiceNext]_serviceVars
  PROVE  GrantInv'
<1>1. CASE UNCHANGED <<grant, signed>> /\ (failures' = 0 => failures = 0)
  BY <1>1 DEF GrantInv
<1>2. CASE StartServer
  <2>1. UNCHANGED <<grant, signed>>
    BY <1>2 DEF StartServer, Starting, load_and_initialize_enclave, LoadFails,
      read_and_unseal_keys, NothingRead, generate_key_pair, GenerateFails, SealFails,
      OpenKeyFile, WriteKeyFile, WriteFails
  <2>2. failures' = failures \/ failures' = failures + 1
    BY <1>2 DEF StartServer, Starting, load_and_initialize_enclave, LoadFails,
      read_and_unseal_keys, NothingRead, generate_key_pair, GenerateFails, SealFails,
      OpenKeyFile, WriteKeyFile, WriteFails, Fails
  <2> QED
    BY <1>1, <2>1, <2>2 DEF KeyTypeOK
<1>3. CASE StopServer
  BY <1>1, <1>3 DEF StopServer, Stop
<1>4. CASE Call
  <2>1. ASSUME NEW t \in Transaction, NEW way, RegisterCall(t, way)
        PROVE  GrantInv'
    BY <1>1, <2>1 DEF RegisterCall, keyVars
  <2>2. ASSUME NEW t \in Transaction, NEW r \in Row, NEW way, UnlockCall(t, r, way)
        PROVE  GrantInv'
    BY <1>1, <2>2 DEF UnlockCall, keyVars
  <2>3. ASSUME NEW t \in Transaction, NEW r \in Row, NEW x \in BOOLEAN, NEW way,
               LockCall(t, r, x, way)
        PROVE  GrantInv'
    <3> DEFINE job == Job(IF x THEN "EXCLUSIVE" ELSE "SHARED", t, r, way.wait)
               result == LockResult(job, way)
    <3>1. Granted(t, r, x) \/ Refused(t, r, x)
      BY <2>3 DEF LockCall
    <3>2. Keep(t, result)
      BY <2>3 DEF LockCall
    <3>3. CASE result.signature = NO_SIGNATURE
      BY <1>1, <3>2, <3>3 DEF Keep, keyVars
    <3>4. CASE result.signature # NO_SIGNATURE
      <4>1. /\ signature' = Sign(t, r, x)
            /\ result.signature = SignatureText[<<key, lock_to_string(t, r, x)>>]
        BY <3>1, <3>4, ResultIsSignature
      <4>2. /\ key \in Key /\ signed' = key /\ failures' = failures
            /\ grant' = IF t = Observer THEN [lock |-> signature', text |-> result.signature]
                        ELSE grant
            /\ stage = "up"
        BY <3>2, <3>4 DEF Keep, SignWithKey, Running
      <4>3. CASE t = Observer
        <5>1. /\ grant'.lock = Sign(t, r, x)
              /\ grant'.text = SignatureText[<<signed', lock_to_string(t, r, x)>>]
          BY <4>1, <4>2, <4>3
        <5> QED
          BY <4>2, <5>1 DEF GrantInv
      <4>4. CASE t # Observer /\ failures = 0 /\ grant # Null
        <5>1. signed \in Key
          BY <4>4 DEF GrantInv
        <5>2. signed = key
          BY <4>2, <4>4, <5>1, KeyAssumption DEF KeyInv
        <5> QED
          BY <1>1, <4>2, <4>4, <5>2
      <4>5. CASE t # Observer /\ ~(failures = 0 /\ grant # Null)
        BY <4>2, <4>5 DEF GrantInv
      <4> QED
        BY <4>3, <4>4, <4>5
    <3> QED
      BY <3>3, <3>4
  <2> QED
    BY <1>4, <2>1, <2>2, <2>3 DEF Call
<1>5. CASE UNCHANGED serviceVars
  BY <1>1, <1>5 DEF serviceVars, keyVars
<1> QED
  BY <1>2, <1>3, <1>4, <1>5 DEF ServiceNext

LEMMA GrantInvImplies ==
  ASSUME KeyInv, GrantInv
  PROVE  SignaturesVerify
<1> SUFFICES ASSUME Running, failures = 0, grant # Null,
                    NEW u \in Transaction, NEW s \in Row, NEW z \in BOOLEAN
             PROVE  verify_signature(key, grant.text, u, s, z) <=> grant.lock = Sign(u, s, z)
  BY DEF SignaturesVerify
<1>1. PICK t \in Transaction, r \in Row, x \in BOOLEAN :
        /\ signed \in Key
        /\ grant.lock = Sign(t, r, x)
        /\ grant.text = SignatureText[<<signed, lock_to_string(t, r, x)>>]
  BY DEF GrantInv
<1>2. signed = key
  BY <1>1, KeyAssumption DEF KeyInv, Running
<1>3. verify_signature(key, SignatureText[<<key, lock_to_string(t, r, x)>>], u, s, z)
        <=> Sign(t, r, x) = Sign(u, s, z)
  BY <1>1, <1>2, VerifiesForItsLock
<1> QED
  BY <1>1, <1>2, <1>3

\* From the tables through base64 and the caller's copy to a later run of the
\* server with the unsealed key: a signature that a client once received
\* verifies for the lock that was granted and for no other.
THEOREM SignaturesAlwaysVerify == ServiceSpec => []SignaturesVerify
<1>1. ServiceInit => KeyInit /\ KeyInv /\ GrantInv
  BY KeyAssumption DEF ServiceInit, KeyInit, KeyInv, GrantInv
<1>2. [ServiceNext]_serviceVars => [KeyNext]_keyVars
  BY KeyStep
<1>3. KeyTypeOK /\ KeyInv /\ [KeyNext]_keyVars => KeyInv'
  BY KeyInvStep
<1>4. KeyTypeOK /\ KeyInv /\ GrantInv /\ [ServiceNext]_serviceVars => GrantInv'
  BY GrantInvStep
<1>5. KeyInv /\ GrantInv => SignaturesVerify
  BY GrantInvImplies
<1>6. ServiceSpec => KeySpec
  BY <1>1, <1>2, PTL DEF ServiceSpec, KeySpec
<1> QED
  BY <1>1, <1>2, <1>3, <1>4, <1>5, <1>6, KeyTypeCorrect, PTL DEF ServiceSpec

-----------------------------------------------------------------------------
(* DemandPaging                                                            *)

\* The object of a transaction has three fields, and while the transaction has
\* released nothing, the locks it has taken and the locks it may still take add
\* up to its budget.
PaysForLocks(t) ==
  LET rows == Tx(t).locked_rows
      left == Tx(t).lock_budget
  IN /\ Tx(t) = [growing_phase |-> Tx(t).growing_phase, lock_budget |-> left,
                 locked_rows |-> rows]
     /\ Tx(t).growing_phase =>
          rows \in Seq(Row) /\ left \in Nat /\ Len(rows) + left = Budget[t]

BudgetInv ==
  /\ transactionTable = [t \in Transaction |-> transactionTable[t]]
  /\ \A t \in Transaction : Registered(t) => PaysForLocks(t)

LEMMA BudgetInvImplies == BudgetInv => BudgetPaysForLocks
  BY BudgetAssumption DEF BudgetInv, PaysForLocks, BudgetPaysForLocks

LEMMA BudgetAtFirst ==
  ASSUME transactionTable = newHashTable(Transaction)
  PROVE  BudgetInv
  BY DEF BudgetInv, newHashTable, Registered, contains

\* One transaction's object changes or goes; the others stay.
LEMMA OneObjectMoves ==
  ASSUME BudgetInv, NEW t \in Transaction, NEW object,
         transactionTable' = [transactionTable EXCEPT ![t] = object],
         Registered(t)' => PaysForLocks(t)'
  PROVE  BudgetInv'
<1>1. transactionTable' = [u \in Transaction |-> transactionTable'[u]]
  BY DEF BudgetInv
<1>2. \A u \in Transaction \ {t} : transactionTable'[u] = transactionTable[u]
  BY DEF BudgetInv
<1>3. \A u \in Transaction \ {t} : Registered(u)' => PaysForLocks(u)'
  BY <1>2 DEF BudgetInv, Registered, contains, PaysForLocks, Tx, get
<1> QED
  BY <1>1, <1>3 DEF BudgetInv

LEMMA BudgetStep ==
  ASSUME BudgetInv, Next \/ UNCHANGED transactionTable
  PROVE  BudgetInv'
<1> USE BudgetAssumption
<1>1. ASSUME NEW t \in Transaction, Register(t)
      PROVE  BudgetInv'
  <2> DEFINE object == newTransaction(Budget[t])
  <2>1. transactionTable' = [transactionTable EXCEPT ![t] = object]
    BY <1>1 DEF Register, set, Registered, contains, BudgetInv
  <2>2. transactionTable'[t] = object
    BY <2>1 DEF BudgetInv
  <2>3. PaysForLocks(t)'
    BY <2>2 DEF PaysForLocks, Tx, get, newTransaction
  <2> HIDE DEF object
  <2> QED
    BY <2>1, <2>3, OneObjectMoves
<1>2. ASSUME NEW t \in Transaction, NEW r \in Row, Upgrade(t, r)
      PROVE  BudgetInv'
  BY <1>2 DEF Upgrade, BudgetInv, Registered, contains, PaysForLocks, Tx, get
<1>3. ASSUME NEW t \in Transaction, NEW r \in Row, NEW x \in BOOLEAN, AddLock(t, r, x)
      PROVE  BudgetInv'
  <2> DEFINE object == addRow(Tx(t), r)
             rows == Tx(t).locked_rows
             left == Tx(t).lock_budget
             longer == Append(rows, r)
  <2>1. transactionTable' = [transactionTable EXCEPT ![t] = object]
    BY <1>3 DEF AddLock, Tx, get
  <2>2. PaysForLocks(t) /\ Tx(t).growing_phase /\ left >= 1
    BY <1>3 DEF AddLock, MayAdd, MayAcquire, BudgetInv
  <2>3. rows \in Seq(Row) /\ left \in Nat /\ Len(rows) + left = Budget[t]
    BY <2>2 DEF PaysForLocks
  <2>4. longer \in Seq(Row) /\ Len(longer) = Len(rows) + 1
    BY <2>3
  <2>5. object = [growing_phase |-> Tx(t).growing_phase, lock_budget |-> left - 1,
                  locked_rows |-> longer]
    <3> HIDE DEF longer
    <3>1. Tx(t) = [growing_phase |-> Tx(t).growing_phase, lock_budget |-> left,
                   locked_rows |-> rows]
      BY <2>2 DEF PaysForLocks
    <3>2. object = [Tx(t) EXCEPT !.locked_rows = longer, !.lock_budget = left - 1]
      BY DEF addRow, longer
    <3> HIDE DEF object
    <3> QED
      BY <3>1, <3>2
  <2> HIDE DEF object, longer
  <2>6. transactionTable'[t] = object
    BY <2>1 DEF BudgetInv
  <2>7. PaysForLocks(t)'
    <3>1. /\ Tx(t)' = object /\ object.growing_phase = Tx(t).growing_phase
          /\ object.lock_budget = left - 1 /\ object.locked_rows = longer
      BY <2>5, <2>6 DEF Tx, get
    <3>2. left - 1 \in Nat /\ Len(longer) + (left - 1) = Budget[t]
      <4>1. Len(rows) \in Nat
        BY <2>3
      <4>2. left >= 1
        BY <2>2
      <4> HIDE DEF left, rows
      <4> QED
        BY <2>3, <2>4, <4>1, <4>2
    <3> QED
      BY <2>4, <2>5, <3>1, <3>2 DEF PaysForLocks
  <2> QED
    BY <2>1, <2>7, OneObjectMoves
<1>4. ASSUME NEW t \in Transaction, NEW r \in Row, NEW x \in BOOLEAN, Abort(t, r, x)
      PROVE  BudgetInv'
  <2>1. transactionTable' = [transactionTable EXCEPT ![t] = Null]
    BY <1>4 DEF Abort, remove
  <2>2. ~Registered(t)'
    BY <2>1 DEF BudgetInv, Registered, contains
  <2> QED
    BY <2>1, <2>2, OneObjectMoves
<1>5. ASSUME NEW t \in Transaction, NEW r \in Row, Unlock(t, r)
      PROVE  BudgetInv'
  <2>1. PICK after \in IF hasLock(Tx(t), r) THEN AfterRelease(Tx(t), r) ELSE {Tx(t)} :
          transactionTable' = IF after.locked_rows = <<>> THEN remove(transactionTable, t)
                              ELSE [transactionTable EXCEPT ![t] = after]
    BY <1>5 DEF Unlock
  <2>2. PaysForLocks(t)
    BY <1>5 DEF Unlock, BudgetInv
  <2>3. CASE after.locked_rows = <<>>
    <3>1. transactionTable' = [transactionTable EXCEPT ![t] = Null]
      BY <2>1, <2>3 DEF remove
    <3>2. ~Registered(t)'
      BY <3>1 DEF BudgetInv, Registered, contains
    <3> QED
      BY <3>1, <3>2, OneObjectMoves
  <2>4. CASE after.locked_rows # <<>>
    <3>1. transactionTable' = [transactionTable EXCEPT ![t] = after]
      BY <2>1, <2>4
    <3>2. Tx(t)' = after
      BY <3>1 DEF BudgetInv, Tx, get
    <3>3. CASE after = Tx(t)
      BY <2>2, <3>1, <3>2, <3>3, OneObjectMoves DEF PaysForLocks
    <3>4. CASE after \in AfterRelease(Tx(t), r)
      <4> DEFINE kept == Copied(Tx(t).locked_rows, r)
      <4>1. PICK garbage \in [1..(Len(Tx(t).locked_rows) - 1 - Len(kept)) ->
                                Row \cup {StrayRow}] :
              after = [Tx(t) EXCEPT !.locked_rows = kept \o garbage, !.growing_phase = FALSE]
        BY <3>4 DEF AfterRelease
      <4> DEFINE rest == kept \o garbage
      <4>2. after = [Tx(t) EXCEPT !.locked_rows = rest, !.growing_phase = FALSE]
        BY <4>1
      <4> HIDE DEF rest
      <4>3. after = [growing_phase |-> FALSE, lock_budget |-> Tx(t).lock_budget,
                     locked_rows |-> rest]
        BY <2>2, <4>2 DEF PaysForLocks
      <4>4. PaysForLocks(t)'
        BY <3>2, <4>3 DEF PaysForLocks
      <4> QED
        BY <3>1, <4>4, OneObjectMoves
    <3> QED
      BY <2>1, <3>3, <3>4
  <2> QED
    BY <2>3, <2>4
<1>6. CASE UNCHANGED transactionTable
  BY <1>6 DEF BudgetInv, Registered, contains, PaysForLocks, Tx, get
<1> QED
  BY <1>1, <1>2, <1>3, <1>4, <1>5, <1>6 DEF Next

\* No transaction that is still growing holds more locks than it registered
\* for, and each of them was paid for once: acquire_lock, abort_transaction and
\* release_lock of enclave.cpp with transaction.cpp.
THEOREM BudgetAlwaysPays == Spec => []BudgetPaysForLocks
<1>1. Init => BudgetInv
  BY BudgetAtFirst DEF Init
<1>2. BudgetInv /\ [Next]_vars => BudgetInv'
  BY BudgetStep DEF vars
<1> QED
  BY <1>1, <1>2, BudgetInvImplies, PTL DEF Spec

\* What a call does to the transactions is one step of the tables, or none.
LEMMA ServiceBudgetStep ==
  ASSUME BudgetInv, [ServiceNext]_serviceVars
  PROVE  BudgetInv'
<1>1. CASE StartServer
  BY <1>1, BudgetStep DEF StartServer, tables
<1>2. CASE StopServer
  <2>1. transactionTable' = newHashTable(Transaction)
    BY <1>2 DEF StopServer
  <2> QED
    BY <2>1 DEF BudgetInv, newHashTable, Registered, contains
<1>3. CASE Call
  <2>1. ASSUME NEW t \in Transaction, NEW way, RegisterCall(t, way)
        PROVE  Next \/ UNCHANGED transactionTable
    BY <2>1 DEF RegisterCall, Unchanged, Next
  <2>2. ASSUME NEW t \in Transaction, NEW r \in Row, NEW way, UnlockCall(t, r, way)
        PROVE  Next \/ UNCHANGED transactionTable
    BY <2>2 DEF UnlockCall, Unchanged, Next
  <2>3. ASSUME NEW t \in Transaction, NEW r \in Row, NEW x \in BOOLEAN, NEW way,
               LockCall(t, r, x, way)
        PROVE  Next \/ UNCHANGED transactionTable
    BY <2>3 DEF LockCall, Granted, Refused, Unchanged, Next
  <2> QED
    BY <1>3, <2>1, <2>2, <2>3, BudgetStep DEF Call
<1>4. CASE UNCHANGED serviceVars
  BY <1>4, BudgetStep DEF serviceVars, tables
<1> QED
  BY <1>1, <1>2, <1>3, <1>4 DEF ServiceNext

\* The same of the whole service, whose calls come directly or from remote
\* clients, may lose their answers, and whose server may be stopped at any time.
THEOREM ServiceBudgetAlwaysPays == ServiceSpec => []BudgetPaysForLocks
<1>1. ServiceInit => BudgetInv
  BY BudgetAtFirst DEF ServiceInit, Init
<1>2. BudgetInv /\ [ServiceNext]_serviceVars => BudgetInv'
  BY ServiceBudgetStep
<1> QED
  BY <1>1, <1>2, BudgetInvImplies, PTL DEF ServiceSpec

-----------------------------------------------------------------------------
(* Sequences that lose an element, and walks over locked_rows              *)

\* A sequence without its element at position p.
Omit(s, p) == [j \in 1..(Len(s) - 1) |-> IF j < p THEN s[j] ELSE s[j + 1]]

LEMMA OmitIs ==
  ASSUME NEW S, NEW s \in Seq(S), IsInjective(s), NEW p \in 1..Len(s)
  PROVE  /\ Omit(s, p) \in Seq(S)
         /\ Len(Omit(s, p)) = Len(s) - 1
         /\ IsInjective(Omit(s, p))
         /\ Range(Omit(s, p)) = Range(s) \ {s[p]}
<1> DEFINE n == Len(s)
           o == Omit(s, p)
<1>1. n \in Nat /\ n >= 1 /\ p \in Int /\ 1 <= p /\ p <= n /\ n - 1 \in Nat
  OBVIOUS
<1>2. \A k \in 1..n : s[k] \in S
  OBVIOUS
<1>3. DOMAIN s = 1..n
  OBVIOUS
<1>4. \A j, k \in 1..n : s[j] = s[k] => j = k
  BY <1>3 DEF IsInjective
<1>5. o = [j \in 1..(n - 1) |-> IF j < p THEN s[j] ELSE s[j + 1]]
  BY DEF Omit
<1> HIDE DEF n, o
<1>6. \A j \in 1..(n - 1) : j \in 1..n /\ j + 1 \in 1..n
  BY <1>1
<1>7. \A j \in 1..(n - 1) : o[j] = IF j < p THEN s[j] ELSE s[j + 1]
  BY <1>5
<1>8. \A j \in 1..(n - 1) : o[j] \in S
  BY <1>2, <1>6, <1>7
<1>9. o \in [1..(n - 1) -> S]
  BY <1>5, <1>8
<1>10. o \in Seq(S) /\ Len(o) = n - 1 /\ DOMAIN o = 1..(n - 1)
  BY <1>1, <1>9
<1>11. ASSUME NEW j \in 1..(n - 1), NEW k \in 1..(n - 1), o[j] = o[k]
       PROVE  j = k
  <2>1. PICK a \in 1..n : o[j] = s[a] /\ a = IF j < p THEN j ELSE j + 1
    BY <1>6, <1>7
  <2>2. PICK b \in 1..n : o[k] = s[b] /\ b = IF k < p THEN k ELSE k + 1
    BY <1>6, <1>7
  <2>3. a = b
    BY <1>4, <1>11, <2>1, <2>2
  <2> QED
    BY <1>1, <2>1, <2>2, <2>3
<1>12. ASSUME NEW j \in 1..(n - 1)
       PROVE  o[j] \in Range(s) \ {s[p]}
  <2>1. PICK a \in 1..n : o[j] = s[a] /\ a = IF j < p THEN j ELSE j + 1
    BY <1>6, <1>7
  <2>2. a # p
    BY <1>1, <2>1
  <2>3. s[a] # s[p]
    BY <1>1, <1>4, <2>2
  <2> QED
    BY <1>3, <2>1, <2>3 DEF Range
<1>13. ASSUME NEW k \in 1..n, s[k] # s[p]
       PROVE  \E j \in 1..(n - 1) : o[j] = s[k]
  <2>1. CASE k < p
    <3>1. k \in 1..(n - 1)
      BY <1>1, <2>1
    <3> QED
      BY <1>7, <2>1, <3>1
  <2>2. CASE ~(k < p)
    <3>1. k # p
      BY <1>13
    <3>2. k - 1 \in 1..(n - 1) /\ ~(k - 1 < p) /\ k - 1 + 1 = k
      BY <1>1, <2>2, <3>1
    <3> QED
      BY <1>7, <3>2
  <2> QED
    BY <2>1, <2>2
<1>14. Range(o) = Range(s) \ {s[p]}
  <2>1. ASSUME NEW e \in Range(o)
        PROVE  e \in Range(s) \ {s[p]}
    <3>1. PICK j \in 1..(n - 1) : e = o[j]
      BY <1>10 DEF Range
    <3> QED
      BY <1>12, <3>1
  <2>2. ASSUME NEW e \in Range(s), e # s[p]
        PROVE  e \in Range(o)
    <3>1. PICK k \in 1..n : e = s[k]
      BY <1>3 DEF Range
    <3>2. PICK j \in 1..(n - 1) : o[j] = s[k]
      BY <1>13, <2>2, <3>1
    <3> QED
      BY <1>10, <3>1, <3>2 DEF Range
  <2> QED
    BY <2>1, <2>2
<1> QED
  BY <1>10, <1>11, <1>14 DEF IsInjective, n, o

\* What lock.cpp does to the owners when the owner that goes is one of the last
\* two.
LEMMA WithoutIs ==
  ASSUME NEW owners \in Seq(Transaction), IsInjective(owners),
         NEW i \in 1..Len(owners), i >= Len(owners) - 1
  PROVE  Without(owners, owners[i]) = Omit(owners, i)
<1> DEFINE n == Len(owners)
           t == owners[i]
           j == CHOOSE k \in DOMAIN owners :
                  owners[k] = t /\ \A l \in DOMAIN owners : owners[l] = t => k <= l
           moved == IF j < Len(owners) THEN [owners EXCEPT ![j] = owners[j + 1]] ELSE owners
<1>1. n \in Nat /\ i \in Int /\ 1 <= i /\ i <= n /\ i >= n - 1 /\ n - 1 \in Nat
  OBVIOUS
<1>2. DOMAIN owners = 1..n
  OBVIOUS
<1>3. \A k \in DOMAIN owners : owners[k] = t => k = i
  BY <1>2 DEF IsInjective
<1>4. owners[i] = t /\ \A l \in DOMAIN owners : owners[l] = t => i <= l
  BY <1>2, <1>3
<1>5. j = i
  BY <1>2, <1>3, <1>4
<1>6. Without(owners, t) = SubSeq(moved, 1, Len(moved) - 1)
  BY DEF Without, Front
<1> HIDE DEF j, t
<1>7. /\ moved \in Seq(Transaction) /\ Len(moved) = n /\ DOMAIN moved = 1..n
      /\ \A k \in 1..n : moved[k] = IF k = i /\ i < n THEN owners[i + 1] ELSE owners[k]
  <2>1. CASE i < n
    <3>1. i + 1 \in 1..n
      BY <1>1, <2>1
    <3>2. owners[i + 1] \in Transaction
      BY <3>1
    <3>3. moved = [owners EXCEPT ![i] = owners[i + 1]]
      BY <1>5, <2>1
    <3> DEFINE e == owners[i + 1]
    <3>4. owners \in [1..n -> Transaction] /\ e \in Transaction
      BY <3>2
    <3> HIDE DEF moved, e, n
    <3>5. /\ moved \in [1..n -> Transaction]
          /\ \A k \in 1..n : moved[k] = IF k = i THEN e ELSE owners[k]
      BY <3>3, <3>4 DEF e
    <3>6. moved \in Seq(Transaction) /\ Len(moved) = n /\ DOMAIN moved = 1..n
      BY <1>1, <3>5
    <3> QED
      BY <2>1, <3>5, <3>6 DEF e, n
  <2>2. CASE ~(i < n)
    <3>1. moved = owners
      BY <1>5, <2>2
    <3> QED
      BY <1>2, <2>2, <3>1
  <2> QED
    BY <2>1, <2>2
<1> HIDE DEF moved, n
<1>8. SubSeq(moved, 1, n - 1) = [k \in 1..(n - 1) |-> moved[k]]
  BY <1>1, <1>7
<1>9. \A k \in 1..(n - 1) : moved[k] = IF k < i THEN owners[k] ELSE owners[k + 1]
  BY <1>1, <1>7
<1>10. Omit(owners, i) = [k \in 1..(n - 1) |-> IF k < i THEN owners[k] ELSE owners[k + 1]]
  BY DEF Omit, n
<1> QED
  BY <1>6, <1>7, <1>8, <1>9, <1>10 DEF t

LEMMA FirstOf ==
  ASSUME NEW T \in SUBSET Nat, T # {}
  PROVE  \E m \in T : \A k \in T : m <= k
<1> DEFINE R == OpToRel(<, Nat)
<1>1. IsWellFoundedOn(R, Nat)
  BY NatLessThanWellFounded
<1>2. \A x, y \in Nat : x < y => <<x, y>> \in R
  BY DEF OpToRel
<1> HIDE DEF R
<1>3. PICK m \in T : \A k \in T : ~(<<k, m>> \in R)
  BY <1>1, WFMin
<1>4. ASSUME NEW k \in T
      PROVE  m <= k
  <2>1. k \in Nat /\ m \in Nat /\ ~(k < m)
    BY <1>2, <1>3
  <2> QED
    BY <2>1
<1> QED
  BY <1>4

\* What releaseLock of transaction.cpp has copied after i elements of a
\* sequence, when `!row == rowId' tells the row at position p from the others.
CopiedSoFar(s, p, i) ==
  [j \in 1..(IF i < p THEN i ELSE i - 1) |-> IF j < p THEN s[j] ELSE s[j + 1]]

LEMMA CopiedSoFarGrows ==
  ASSUME NEW S, NEW s \in Seq(S), NEW p \in 1..Len(s), NEW i \in 1..Len(s)
  PROVE  CopiedSoFar(s, p, i) =
           IF i = p THEN CopiedSoFar(s, p, i - 1)
           ELSE Append(CopiedSoFar(s, p, i - 1), s[i])
<1> DEFINE n == Len(s)
           before == CopiedSoFar(s, p, i - 1)
           m == IF i - 1 < p THEN i - 1 ELSE i - 2
<1>1. n \in Nat /\ p \in Int /\ 1 <= p /\ p <= n /\ i \in Int /\ 1 <= i /\ i <= n
  OBVIOUS
<1>2. \A k \in 1..n : s[k] \in S
  OBVIOUS
<1>3. i - 1 - 1 = i - 2
  BY <1>1
<1>4. before = [j \in 1..m |-> IF j < p THEN s[j] ELSE s[j + 1]]
  BY <1>3 DEF CopiedSoFar
<1>5. m \in Nat /\ \A j \in 1..m : j \in 1..n /\ j + 1 \in 1..n
  BY <1>1
<1> HIDE DEF n, before
<1>6. before \in [1..m -> S]
  BY <1>2, <1>4, <1>5
<1>7. before \in Seq(S) /\ Len(before) = m
  BY <1>5, <1>6
<1>8. CASE i = p
  <2>1. (IF i < p THEN i ELSE i - 1) = m
    BY <1>1, <1>8
  <2> QED
    BY <1>4, <1>8, <2>1 DEF CopiedSoFar, before
<1>9. CASE i # p
  <2>1. (IF i < p THEN i ELSE i - 1) = m + 1
    BY <1>1, <1>9
  <2>2. s[i] = IF m + 1 < p THEN s[m + 1] ELSE s[m + 1 + 1]
    <3>1. CASE i < p
      BY <1>1, <3>1
    <3>2. CASE ~(i < p)
      <4>1. m = i - 2 /\ ~(m + 1 < p) /\ m + 1 + 1 = i
        BY <1>1, <1>9, <3>2
      <4> QED
        BY <4>1
    <3> QED
      BY <3>1, <3>2
  <2> HIDE DEF m
  <2>3. s[i] \in S
    BY <1>2 DEF n
  <2>4. Append(before, s[i]) = [j \in 1..(m + 1) |-> IF j <= m THEN before[j] ELSE s[i]]
    BY <1>7, <2>3
  <2>5. \A j \in 1..(m + 1) :
          (IF j <= m THEN before[j] ELSE s[i]) = IF j < p THEN s[j] ELSE s[j + 1]
    <3> SUFFICES ASSUME NEW j \in 1..(m + 1)
                 PROVE  (IF j <= m THEN before[j] ELSE s[i]) = IF j < p THEN s[j] ELSE s[j + 1]
      OBVIOUS
    <3>1. CASE j <= m
      <4>1. j \in 1..m
        BY <1>5, <3>1
      <4> QED
        BY <1>4, <3>1, <4>1
    <3>2. CASE ~(j <= m)
      <4>1. j = m + 1
        BY <1>5, <3>2
      <4> QED
        BY <2>2, <3>2, <4>1
    <3> QED
      BY <3>1, <3>2
  <2>6. CopiedSoFar(s, p, i) = [j \in 1..(m + 1) |-> IF j < p THEN s[j] ELSE s[j + 1]]
    BY <2>1 DEF CopiedSoFar
  <2> QED
    BY <1>9, <2>4, <2>5, <2>6 DEF before
<1> QED
  BY <1>8, <1>9

\* The copy leaves out the row that is released, when the comparison is right
\* for the rows there are.
LEMMA CopiedIs ==
  ASSUME NEW S, NEW rows \in Seq(S), IsInjective(rows), NEW p \in 1..Len(rows),
         \A s \in Range(rows) : (Not(s) = rows[p]) <=> (s # rows[p])
  PROVE  Copied(rows, rows[p]) = Omit(rows, p)
<1> DEFINE n == Len(rows)
           row == rows[p]
           D == 0..n
           f == [i \in D |-> CopiedSoFar(rows, p, i)]
           Walks(g) == g = [i \in D |-> IF i = 0 THEN <<>>
                                        ELSE IF Not(rows[i]) = row
                                        THEN Append(g[i - 1], rows[i])
                                        ELSE g[i - 1]]
<1>1. n \in Nat /\ p \in Int /\ 1 <= p /\ p <= n /\ DOMAIN rows = 1..n
  OBVIOUS
<1>2. \A i \in 1..n : (Not(rows[i]) = row) <=> i # p
  BY <1>1 DEF Range, IsInjective
<1>3. CopiedSoFar(rows, p, 0) = <<>>
  <2>1. (IF 0 < p THEN 0 ELSE 0 - 1) = 0
    BY <1>1
  <2> QED
    BY <2>1 DEF CopiedSoFar
<1>4. \A i \in 1..n : CopiedSoFar(rows, p, i) =
        IF i = p THEN CopiedSoFar(rows, p, i - 1)
        ELSE Append(CopiedSoFar(rows, p, i - 1), rows[i])
  BY CopiedSoFarGrows
<1>5. \A i \in D : i # 0 => i \in 1..n /\ i - 1 \in D
  BY <1>1
<1>6. Walks(f)
  <2>1. \A i \in D : f[i] = IF i = 0 THEN <<>>
                            ELSE IF Not(rows[i]) = row THEN Append(f[i - 1], rows[i])
                            ELSE f[i - 1]
    BY <1>2, <1>3, <1>4, <1>5
  <2> QED
    BY <2>1
<1> HIDE DEF row
<1>7. ASSUME NEW g, Walks(g)
      PROVE  g = f
  <2> DEFINE T == {i \in D : g[i] # f[i]}
  <2>1. \A i \in D : g[i] = IF i = 0 THEN <<>>
                            ELSE IF Not(rows[i]) = row THEN Append(g[i - 1], rows[i])
                            ELSE g[i - 1]
    BY <1>7
  <2>2. \A i \in D : f[i] = IF i = 0 THEN <<>>
                            ELSE IF Not(rows[i]) = row THEN Append(f[i - 1], rows[i])
                            ELSE f[i - 1]
    BY <1>6
  <2>3. g = [i \in D |-> g[i]] /\ f = [i \in D |-> f[i]]
    BY <1>7
  <2> HIDE DEF f, Walks
  <2>4. T = {}
    <3> SUFFICES ASSUME T # {} PROVE FALSE
      OBVIOUS
    <3>1. T \in SUBSET Nat
      BY <1>1
    <3>2. PICK m \in T : \A k \in T : m <= k
      BY <3>1, FirstOf
    <3>3. m # 0 /\ m \in D /\ g[m] # f[m]
      BY <2>1, <2>2, <3>2
    <3>4. m - 1 \in D /\ m - 1 \notin T
      BY <1>1, <3>2, <3>3
    <3>5. g[m - 1] = f[m - 1]
      BY <3>4
    <3> QED
      BY <2>1, <2>2, <3>3, <3>5
  <2> QED
    BY <2>3, <2>4
<1>8. Copied(rows, row) = f[n]
  <2> DEFINE kept == CHOOSE g : Walks(g)
  <2>1. Copied(rows, row) = kept[n]
    <3> HIDE DEF f
    <3> QED
      BY DEF Copied
  <2> HIDE DEF f, Walks
  <2>2. Walks(kept)
    BY <1>6
  <2>3. kept = f
    BY <1>7, <2>2
  <2> QED
    BY <2>1, <2>3
<1>9. f[n] = Omit(rows, p)
  <2>1. ~(n < p) /\ n \in D
    BY <1>1
  <2>2. f[n] = CopiedSoFar(rows, p, n)
    BY <2>1
  <2>3. CopiedSoFar(rows, p, n) =
          [j \in 1..(n - 1) |-> IF j < p THEN rows[j] ELSE rows[j + 1]]
    BY <2>1 DEF CopiedSoFar
  <2> QED
    BY <2>2, <2>3 DEF Omit
<1> QED
  BY <1>8, <1>9 DEF row

\* What is left of a lock in the table when a transaction has released it.
Released(lock, t) ==
  IF release(lock, t).owners = <<>> THEN Null ELSE release(lock, t)

\* The lock table when the first i elements of a sequence of rows are released.
ReleasedSoFar(table, rows, t, i) ==
  [r \in Row |-> IF \E j \in 1..i : rows[j] = r THEN Released(table[r], t) ELSE table[r]]

LEMMA ReleasedSoFarGrows ==
  ASSUME NEW table, table = [r \in Row |-> table[r]], NEW t,
         NEW rows \in Seq(Row), IsInjective(rows), NEW i \in 1..Len(rows)
  PROVE  LET before == ReleasedSoFar(table, rows, t, i - 1)
             r == rows[i]
         IN /\ before[r] = table[r]
            /\ ReleasedSoFar(table, rows, t, i) = Kept(before, r, release(before[r], t))
<1> DEFINE n == Len(rows)
           before == ReleasedSoFar(table, rows, t, i - 1)
           row == rows[i]
           gone == release(table[row], t)
<1>1. n \in Nat /\ i \in Int /\ 1 <= i /\ i <= n /\ DOMAIN rows = 1..n /\ row \in Row
  OBVIOUS
<1>2. \A j \in 1..(i - 1) : rows[j] # row
  BY <1>1 DEF IsInjective
<1>3. before = [r \in Row |-> IF \E j \in 1..(i - 1) : rows[j] = r THEN Released(table[r], t)
                              ELSE table[r]]
  BY DEF ReleasedSoFar
<1>4. before[row] = table[row]
  BY <1>1, <1>2, <1>3
<1>5. Kept(before, row, gone) = [before EXCEPT ![row] = Released(table[row], t)]
  BY DEF Kept, remove, Released
<1>6. \A r \in Row :
        (\E j \in 1..i : rows[j] = r) <=> (\E j \in 1..(i - 1) : rows[j] = r) \/ r = row
  BY <1>1
<1> HIDE DEF before, row, gone
<1>7. [before EXCEPT ![row] = Released(table[row], t)] =
        [r \in Row |-> IF r = row THEN Released(table[row], t) ELSE before[r]]
  BY <1>3
<1>8. \A r \in Row : (IF r = row THEN Released(table[row], t) ELSE before[r]) =
        IF \E j \in 1..i : rows[j] = r THEN Released(table[r], t) ELSE table[r]
  BY <1>3, <1>6
<1>9. ReleasedSoFar(table, rows, t, i) = Kept(before, row, gone)
  BY <1>5, <1>7, <1>8 DEF ReleasedSoFar
<1> QED
  BY <1>4, <1>9 DEF before, row, gone

LEMMA WalkMembers ==
  ASSUME NEW table, NEW after, NEW c
  PROVE  [[table |-> table, crashed |-> c] EXCEPT !.table = after] =
           [table |-> after, crashed |-> c]
<1> DEFINE done == [table |-> table, crashed |-> c]
           S == {table, after}
           C == {c}
<1>1. done \in [table : S, crashed : C] /\ done.crashed = c /\ after \in S
  OBVIOUS
<1> HIDE DEF done, S, C
<1>2. [done EXCEPT !.table = after] = [table |-> after, crashed |-> done.crashed]
  BY <1>1
<1> QED
  BY <1>1, <1>2 DEF done

\* An abort whose transaction finds a lock on every row leaves out the
\* transaction everywhere, and follows no null pointer.
LEMMA ReleaseAllIs ==
  ASSUME NEW table, table = [r \in Row |-> table[r]], NEW t,
         Tx(t).locked_rows \in Seq(Row), IsInjective(Tx(t).locked_rows),
         \A r \in Range(Tx(t).locked_rows) : table[r] # Null
  PROVE  releaseAllLocks(table, t) =
           [table |-> [r \in Row |-> IF hasLock(Tx(t), r) THEN Released(table[r], t) ELSE table[r]],
            crashed |-> FALSE]
<1> DEFINE rows == Tx(t).locked_rows
           n == Len(rows)
           D == 0..n
           After(i) == ReleasedSoFar(table, rows, t, i)
           f == [i \in D |-> [table |-> After(i), crashed |-> FALSE]]
           Next1(done, r) ==
             IF done.crashed \/ r \notin Row \/ get(done.table, r) = Null
             THEN [done EXCEPT !.crashed = TRUE]
             ELSE [done EXCEPT !.table = Kept(@, r, release(get(@, r), t))]
           First == [table |-> table, crashed |-> FALSE]
           Walks(g) == g = [i \in D |-> IF i = 0 THEN First ELSE Next1(g[i - 1], rows[i])]
<1>1. n \in Nat /\ rows \in Seq(Row) /\ DOMAIN rows = 1..n
  OBVIOUS
<1>2. \A i \in D : i # 0 => i \in 1..n /\ i - 1 \in D
  BY <1>1
<1>3. After(0) = table
  BY DEF ReleasedSoFar
<1>4. ASSUME NEW i \in 1..n
      PROVE  Next1([table |-> After(i - 1), crashed |-> FALSE], rows[i]) =
               [table |-> After(i), crashed |-> FALSE]
  <2> DEFINE before == After(i - 1)
             done == [table |-> before, crashed |-> FALSE]
             r == rows[i]
  <2>1. r \in Row /\ table[r] # Null
    <3>1. r \in Range(rows)
      BY <1>1 DEF Range
    <3>2. r \in Row
      BY <1>1
    <3> QED
      BY <3>1, <3>2
  <2>2. before[r] = table[r] /\ After(i) = Kept(before, r, release(before[r], t))
    BY ReleasedSoFarGrows
  <2> HIDE DEF before, r, After
  <2>3. done.table = before /\ done.crashed = FALSE
    OBVIOUS
  <2>4. Next1(done, r) = [done EXCEPT !.table = Kept(@, r, release(get(@, r), t))]
    BY <2>1, <2>2, <2>3 DEF get
  <2>5. [done EXCEPT !.table = Kept(@, r, release(get(@, r), t))] =
          [table |-> Kept(before, r, release(before[r], t)), crashed |-> FALSE]
    <3> DEFINE smaller == Kept(before, r, release(before[r], t))
    <3>1. Kept(done.table, r, release(get(done.table, r), t)) = smaller
      BY <2>3 DEF get
    <3> HIDE DEF smaller
    <3>2. [done EXCEPT !.table = smaller] = [table |-> smaller, crashed |-> FALSE]
      BY WalkMembers
    <3> QED
      BY <3>1, <3>2 DEF smaller
  <2> QED
    BY <2>2, <2>4, <2>5 DEF before, r
<1> HIDE DEF After, Next1
<1>5. Walks(f)
  <2>1. \A i \in D : f[i] = IF i = 0 THEN First ELSE Next1(f[i - 1], rows[i])
    BY <1>2, <1>3, <1>4
  <2> QED
    BY <2>1
<1>6. ASSUME NEW g, Walks(g)
      PROVE  g = f
  <2> DEFINE T == {i \in D : g[i] # f[i]}
  <2>1. \A i \in D : g[i] = IF i = 0 THEN First ELSE Next1(g[i - 1], rows[i])
    BY <1>6
  <2>2. \A i \in D : f[i] = IF i = 0 THEN First ELSE Next1(f[i - 1], rows[i])
    BY <1>5
  <2>3. g = [i \in D |-> g[i]] /\ f = [i \in D |-> f[i]]
    BY <1>6
  <2> HIDE DEF f, Walks, First
  <2>4. T = {}
    <3> SUFFICES ASSUME T # {} PROVE FALSE
      OBVIOUS
    <3>1. T \in SUBSET Nat
      BY <1>1
    <3>2. PICK m \in T : \A k \in T : m <= k
      BY <3>1, FirstOf
    <3>3. m # 0 /\ m \in D /\ g[m] # f[m]
      BY <2>1, <2>2, <3>2
    <3>4. m - 1 \in D /\ m - 1 \notin T
      BY <1>1, <3>2, <3>3
    <3>5. g[m - 1] = f[m - 1]
      BY <3>4
    <3> QED
      BY <2>1, <2>2, <3>3, <3>5
  <2> QED
    BY <2>3, <2>4
<1>7. releaseAllLocks(table, t) = f[n]
  <2> DEFINE done == CHOOSE g : Walks(g)
  <2>1. releaseAllLocks(table, t) = done[n]
    <3> HIDE DEF f
    <3> QED
      BY DEF releaseAllLocks, Next1
  <2> HIDE DEF f, Walks
  <2>2. Walks(done)
    BY <1>5
  <2>3. done = f
    BY <1>6, <2>2
  <2> QED
    BY <2>1, <2>3
<1>8. f[n] = [table |-> After(n), crashed |-> FALSE]
  BY <1>1
<1>9. After(n) = [r \in Row |-> IF hasLock(Tx(t), r) THEN Released(table[r], t) ELSE table[r]]
  <2>1. \A r \in Row : (\E j \in 1..n : rows[j] = r) <=> hasLock(Tx(t), r)
    BY <1>1 DEF hasLock, Range
  <2> QED
    BY <2>1 DEF After, ReleasedSoFar
<1> QED
  BY <1>7, <1>8, <1>9

-----------------------------------------------------------------------------
(* The tables of DemandPaging agree.  Two mistakes of the code stand in the  *)
(* way (they are what the runs demand_paging_rows and demand_paging_owners   *)
(* show), and what is proved is that they are the only ones: in a behaviour  *)
(* in which neither of them bites, for any rows, transactions and budgets.   *)

\* The comparison `!row == rowId' of transaction.cpp tells r from the other rows
\* of the transaction.  (It does for row 0, for row 1 beside row 0, and for a
\* transaction's only row.)
ComparesRight(t, r) ==
  \A s \in Range(Tx(t).locked_rows) : (Not(s) = r) <=> (s # r)

\* The loop of lock.cpp that closes the gap has only one element to move.
CopiesRight(t, r) ==
  \E i \in DOMAIN lockTable[r].owners :
    lockTable[r].owners[i] = t /\ i >= Len(lockTable[r].owners) - 1

\* A step that releases locks meets neither mistake.
Careful ==
  /\ \A t \in Transaction, r \in Row :
       Unlock(t, r) /\ Holds(t, r) => ComparesRight(t, r) /\ CopiesRight(t, r)
  /\ \A t \in Transaction, r \in Row, x \in BOOLEAN :
       Abort(t, r, x) => \A s \in Row : Holds(t, s) => CopiesRight(t, s)

\* An object whose locked_rows has no uninitialised element.
CleanObject == [growing_phase : BOOLEAN, lock_budget : Int, locked_rows : Seq(Row)]

ObjectFits(t) ==
  Registered(t) => Tx(t) \in CleanObject /\ IsInjective(Tx(t).locked_rows)

\* An exclusive lock has one owner.  (A lock that was made for a request which
\* was then refused has none.)
GoodLock(lock) ==
  /\ lock \in LockObject /\ IsInjective(lock.owners)
  /\ lock.exclusive => \E t \in Transaction : lock.owners = <<t>>

LockFits(r) == lockTable[r] # Null => GoodLock(lockTable[r])

TablesInv ==
  /\ transactionTable = [t \in Transaction |-> transactionTable[t]]
  /\ lockTable = [r \in Row |-> lockTable[r]]
  /\ \A t \in Transaction : ObjectFits(t)
  /\ \A r \in Row : LockFits(r)
  /\ \A t \in Transaction, r \in Row : Holds(t, r) <=> t \in Owners(r)
  /\ crashed = FALSE

LEMMA TablesInvImplies == TablesInv => TablesAgree /\ NeverCrashes
  BY DEF TablesInv, TablesAgree, NeverCrashes, ObjectFits, LockFits, GoodLock

LEMMA NullIsNothing ==
  /\ Null \notin CleanObject
  /\ Null \notin LockObject
  /\ \A t \in Transaction, r \in Row, x \in BOOLEAN : Sign(t, r, x) # Null
<1>1. Seq(Row) \subseteq Seq(Nat)
  <2>1. Row \subseteq Nat
    BY RowAssumption
  <2>2. ASSUME NEW s \in Seq(Row)
        PROVE  s \in Seq(Nat)
    <3>1. s \in [1..Len(s) -> Row] /\ Len(s) \in Nat
      OBVIOUS
    <3>2. s \in [1..Len(s) -> Nat]
      BY <2>1, <3>1
    <3> QED
      BY <3>1, <3>2
  <2> QED
    BY <2>2
<1>2. Null \notin CleanObject
  BY <1>1, NullAssumption DEF CleanObject, TransactionObject
<1>3. \A t \in Transaction, r \in Row, x \in BOOLEAN : Sign(t, r, x) \in SignedLock
  BY DEF Sign, SignedLock
<1> QED
  BY <1>2, <1>3, NullAssumption

\* The assignments to the members of a lock.
LEMMA LockMembers ==
  ASSUME NEW lock \in LockObject, NEW x \in BOOLEAN, NEW owners \in Seq(Transaction)
  PROVE  /\ [exclusive |-> x, owners |-> owners] \in LockObject
         /\ [lock EXCEPT !.exclusive = x] = [exclusive |-> x, owners |-> lock.owners]
         /\ [lock EXCEPT !.owners = owners] = [exclusive |-> lock.exclusive, owners |-> owners]
  BY DEF LockObject

LEMMA TablesAtFirst ==
  ASSUME transactionTable = newHashTable(Transaction), lockTable = newHashTable(Row),
         crashed = FALSE
  PROVE  TablesInv
<1>1. \A t \in Transaction : ~Registered(t)
  BY DEF newHashTable, Registered, contains
<1>2. \A r \in Row : lockTable[r] = Null
  BY DEF newHashTable
<1> QED
  BY <1>1, <1>2
  DEF TablesInv, newHashTable, ObjectFits, LockFits, Holds, Owners

\* One transaction's object changes: nothing is different for the others.
LEMMA OthersStay ==
  ASSUME TablesInv, NEW t \in Transaction, NEW object,
         transactionTable' = [transactionTable EXCEPT ![t] = object]
  PROVE  /\ transactionTable' = [u \in Transaction |-> transactionTable'[u]]
         /\ transactionTable'[t] = object
         /\ \A u \in Transaction \ {t} :
              /\ transactionTable'[u] = transactionTable[u]
              /\ Registered(u)' <=> Registered(u)
              /\ Tx(u)' = Tx(u)
              /\ ObjectFits(u)'
              /\ \A s \in Row : Holds(u, s)' <=> Holds(u, s)
<1>1. /\ transactionTable' = [u \in Transaction |-> transactionTable'[u]]
      /\ transactionTable'[t] = object
      /\ \A u \in Transaction \ {t} : transactionTable'[u] = transactionTable[u]
  BY DEF TablesInv
<1> QED
  BY <1>1 DEF TablesInv, Registered, contains, Tx, get, ObjectFits, Holds

\* One lock changes: the others are as before.
LEMMA OtherLocksStay ==
  ASSUME TablesInv, NEW r \in Row, NEW lock,
         lockTable' = [lockTable EXCEPT ![r] = lock]
  PROVE  /\ lockTable' = [s \in Row |-> lockTable'[s]]
         /\ lockTable'[r] = lock
         /\ \A s \in Row \ {r} :
              /\ LockFits(s)'
              /\ Owners(s)' = Owners(s)
              /\ Exclusive(s)' <=> Exclusive(s)
<1>1. /\ lockTable' = [s \in Row |-> lockTable'[s]]
      /\ lockTable'[r] = lock
      /\ \A s \in Row \ {r} : lockTable'[s] = lockTable[s]
  BY DEF TablesInv
<1> QED
  BY <1>1 DEF TablesInv, LockFits, Owners, Exclusive

LEMMA LocksStay ==
  ASSUME TablesInv, lockTable' = lockTable
  PROVE  /\ lockTable' = [s \in Row |-> lockTable'[s]]
         /\ \A s \in Row : LockFits(s)' /\ Owners(s)' = Owners(s)
         /\ \A s \in Row : Exclusive(s)' <=> Exclusive(s)
  BY DEF TablesInv, LockFits, Owners, Exclusive

\* The lock that a request finds or makes.
LEMMA LockOfIs ==
  ASSUME TablesInv, NEW r \in Row
  PROVE  /\ WithLock(r) = [lockTable EXCEPT ![r] = LockOf(r)]
         /\ LockOf(r) = IF lockTable[r] = Null THEN newLock ELSE lockTable[r]
         /\ GoodLock(LockOf(r))
         /\ Range(LockOf(r).owners) = Owners(r)
         /\ LockOf(r).exclusive <=> Exclusive(r)
<1>1. newLock \in LockObject /\ newLock.owners = <<>> /\ newLock.exclusive = FALSE
  <2>1. <<>> \in Seq(Transaction)
    OBVIOUS
  <2> QED
    BY <2>1 DEF newLock, LockObject
<1>2. GoodLock(newLock) /\ Range(newLock.owners) = {}
  BY <1>1 DEF GoodLock, IsInjective, Range
<1>3. /\ LockOf(r) = IF lockTable[r] = Null THEN newLock ELSE lockTable[r]
      /\ WithLock(r) = [lockTable EXCEPT ![r] = LockOf(r)]
  BY DEF LockOf, WithLock, get, set, TablesInv
<1>4. lockTable[r] # Null => GoodLock(lockTable[r])
  BY DEF TablesInv, LockFits
<1> QED
  BY <1>1, <1>2, <1>3, <1>4 DEF Owners, Exclusive

LEMMA AppendIs ==
  ASSUME NEW S, NEW s \in Seq(S), NEW e \in S, IsInjective(s), e \notin Range(s)
  PROVE  /\ Append(s, e) \in Seq(S)
         /\ IsInjective(Append(s, e))
         /\ Range(Append(s, e)) = Range(s) \cup {e}
<1> DEFINE n == Len(s)
           a == Append(s, e)
<1>1. n \in Nat /\ DOMAIN s = 1..n
  OBVIOUS
<1>2. a \in Seq(S) /\ Len(a) = n + 1 /\ DOMAIN a = 1..(n + 1)
  OBVIOUS
<1>3. a[n + 1] = e /\ \A k \in 1..n : a[k] = s[k]
  OBVIOUS
<1> HIDE DEF a, n
<1>4. \A k \in 1..(n + 1) : k \in 1..n \/ k = n + 1
  BY <1>1
<1>5. \A k \in 1..n : s[k] # e
  BY <1>1 DEF Range
<1>6. IsInjective(a)
  BY <1>1, <1>2, <1>3, <1>4, <1>5 DEF IsInjective
<1>7. n + 1 \in 1..(n + 1) /\ 1..n \subseteq 1..(n + 1)
  BY <1>1
<1>8. Range(a) = Range(s) \cup {e}
  BY <1>1, <1>2, <1>3, <1>4, <1>7 DEF Range
<1> QED
  BY <1>2, <1>6, <1>8 DEF a

\* A lock after its release by an owner that is one of the last two, if the
\* table keeps it.
LEMMA ReleasedIs ==
  ASSUME TablesInv, NEW t \in Transaction, NEW r \in Row, t \in Owners(r), CopiesRight(t, r)
  PROVE  LET after == Released(lockTable[r], t)
         IN /\ after # Null => GoodLock(after) /\ after.exclusive = FALSE
            /\ (IF after = Null THEN {} ELSE Range(after.owners)) = Owners(r) \ {t}
            /\ \A u \in Owners(r) : u # t => ~Exclusive(r)
<1> DEFINE lock == lockTable[r]
           owners == lock.owners
           after == release(lock, t)
<1>1. lock # Null /\ GoodLock(lock) /\ Owners(r) = Range(owners)
  BY DEF TablesInv, LockFits, Owners
<1>2. owners \in Seq(Transaction) /\ IsInjective(owners) /\ DOMAIN owners = 1..Len(owners)
      /\ Len(owners) \in Nat
  BY <1>1 DEF GoodLock, LockObject
<1>3. PICK i \in 1..Len(owners) : owners[i] = t /\ i >= Len(owners) - 1
  BY <1>2 DEF CopiesRight
<1>4. after = [exclusive |-> FALSE, owners |-> Omit(owners, i)]
  <2>1. Without(owners, t) = Omit(owners, i)
    BY <1>2, <1>3, WithoutIs
  <2> QED
    BY <1>1, <2>1 DEF release, Owns
<1> DEFINE rest == Omit(owners, i)
<1>5. /\ rest \in Seq(Transaction) /\ IsInjective(rest)
      /\ Range(rest) = Range(owners) \ {t}
  BY <1>2, <1>3, OmitIs
<1> HIDE DEF rest
<1>6. after.exclusive = FALSE /\ after.owners = rest
  BY <1>4 DEF rest
<1>7. after \in LockObject
  BY <1>4, <1>5 DEF LockObject, rest
<1>8. GoodLock(after) /\ after # Null
  BY <1>5, <1>6, <1>7, NullIsNothing DEF GoodLock
<1>9. rest = <<>> => Range(rest) = {}
  BY DEF Range
<1>10. Released(lock, t) = IF rest = <<>> THEN Null ELSE after
  BY <1>6 DEF Released
<1>11. ASSUME NEW u \in Owners(r), u # t, Exclusive(r)
       PROVE  FALSE
  <2>1. PICK v \in Transaction : owners = <<v>>
    BY <1>1, <1>11 DEF GoodLock, Exclusive
  <2>2. Range(owners) = {v}
    BY <2>1 DEF Range
  <2> QED
    BY <1>1, <1>11, <2>2
<1> HIDE DEF after, lock, owners
<1> QED
  BY <1>1, <1>5, <1>6, <1>8, <1>9, <1>10, <1>11 DEF lock

-----------------------------------------------------------------------------
(* What each action of DemandPaging does to who holds what                 *)

\* The modes are those of lockTable, as the abstract specification sees them.
HeldAsBefore ==
  /\ \A u \in Transaction, s \in Row : Holds(u, s)' <=> Holds(u, s)
  /\ \A s \in Row : Exclusive(s)' <=> Exclusive(s)

LEMMA RegisterEffect ==
  ASSUME TablesInv, NEW t \in Transaction, Register(t)
  PROVE  /\ TablesInv' /\ HeldAsBefore
         /\ Registered(t)' /\ Tx(t)' = newTransaction(Budget[t])
         /\ \A u \in Transaction \ {t} : transactionTable'[u] = transactionTable[u]
<1> DEFINE object == newTransaction(Budget[t])
<1>1. object \in CleanObject /\ object.locked_rows = <<>>
  <2>1. <<>> \in Seq(Row) /\ Budget[t] \in Int
    BY BudgetAssumption
  <2> QED
    BY <2>1 DEF newTransaction, CleanObject
<1>2. IsInjective(<<>>) /\ Range(<<>>) = {}
  BY DEF IsInjective, Range
<1>3. transactionTable' = [transactionTable EXCEPT ![t] = object]
  BY DEF Register, set, Registered, contains, TablesInv
<1>4. lockTable' = lockTable /\ crashed' = FALSE
  BY DEF Register, TablesInv
<1> HIDE DEF object
<1>5. /\ transactionTable' = [u \in Transaction |-> transactionTable'[u]]
      /\ transactionTable'[t] = object
      /\ \A u \in Transaction \ {t} :
           /\ transactionTable'[u] = transactionTable[u]
           /\ ObjectFits(u)' /\ \A s \in Row : Holds(u, s)' <=> Holds(u, s)
  BY <1>3, OthersStay
<1>6. Registered(t)' /\ Tx(t)' = object /\ ObjectFits(t)'
  BY <1>1, <1>2, <1>5, NullIsNothing DEF Registered, contains, Tx, get, ObjectFits
<1>7. \A s \in Row : ~Holds(t, s) /\ ~Holds(t, s)'
  BY <1>1, <1>2, <1>6 DEF Holds, hasLock, Register
<1>8. /\ lockTable' = [s \in Row |-> lockTable'[s]]
      /\ \A s \in Row : LockFits(s)' /\ Owners(s)' = Owners(s)
      /\ \A s \in Row : Exclusive(s)' <=> Exclusive(s)
  BY <1>4, LocksStay
<1>9. HeldAsBefore
  BY <1>5, <1>7, <1>8 DEF HeldAsBefore
<1>10. \A u \in Transaction : ObjectFits(u)'
  BY <1>5, <1>6
<1>11. \A u \in Transaction, s \in Row : Holds(u, s)' <=> u \in Owners(s)'
  BY <1>8, <1>9 DEF HeldAsBefore, TablesInv
<1> QED
  BY <1>4, <1>5, <1>6, <1>8, <1>9, <1>10, <1>11 DEF TablesInv, object

\* Only the transaction that is upgraded holds the row.
LEMMA UpgradeEffect ==
  ASSUME TablesInv, NEW t \in Transaction, NEW r \in Row, Upgrade(t, r)
  PROVE  /\ TablesInv' /\ transactionTable' = transactionTable
         /\ \A u \in Transaction, s \in Row : Holds(u, s)' <=> Holds(u, s)
         /\ \A s \in Row \ {r} : Exclusive(s)' <=> Exclusive(s)
         /\ Exclusive(r)' /\ ~Exclusive(r)
         /\ Registered(t) /\ Tx(t).growing_phase /\ Holds(t, r)
         /\ \A u \in Transaction \ {t} : ~Holds(u, r)
<1> DEFINE lock == lockTable[r]
           after == [exclusive |-> TRUE, owners |-> <<t>>]
<1>1. /\ Registered(t) /\ hasLock(Tx(t), r) /\ Tx(t).growing_phase
      /\ ~LockOf(r).exclusive /\ LockOf(r).owners = <<t>>
  BY DEF Upgrade, MayUpgrade, MayAcquire, CanUpgrade
<1>2. Holds(t, r) /\ t \in Owners(r)
  BY <1>1 DEF Holds, TablesInv
<1>3. lock # Null
  BY <1>2 DEF Owners
<1>4. LockOf(r) = lock
  BY <1>3, LockOfIs
<1>5. lock \in LockObject /\ lock.owners = <<t>> /\ lock.exclusive = FALSE
  BY <1>1, <1>4, LockOfIs DEF GoodLock, LockObject
<1>6. lockTable' = [lockTable EXCEPT ![r] = after]
  <2>1. lockTable' = [lockTable EXCEPT ![r] = [lock EXCEPT !.exclusive = TRUE]]
    BY DEF Upgrade
  <2>2. <<t>> \in Seq(Transaction)
    OBVIOUS
  <2>3. [lock EXCEPT !.exclusive = TRUE] = [exclusive |-> TRUE, owners |-> lock.owners]
    BY <1>5, <2>2, LockMembers
  <2> QED
    BY <1>5, <2>1, <2>3
<1>7. <<t>> \in Seq(Transaction) /\ Range(<<t>>) = {t} /\ IsInjective(<<t>>)
  BY DEF Range, IsInjective
<1>8. after \in LockObject /\ GoodLock(after) /\ after # Null
  <2>1. after \in LockObject /\ after.owners = <<t>>
    BY <1>7 DEF LockObject
  <2> HIDE DEF after
  <2> QED
    BY <1>7, <2>1, NullIsNothing DEF GoodLock
<1>9. Owners(r) = {t}
  BY <1>3, <1>5, <1>7 DEF Owners
<1>10. after.owners = <<t>> /\ after.exclusive
  OBVIOUS
<1> HIDE DEF after
<1>11. /\ lockTable' = [s \in Row |-> lockTable'[s]]
       /\ lockTable'[r] = after
       /\ \A s \in Row \ {r} :
            LockFits(s)' /\ Owners(s)' = Owners(s) /\ (Exclusive(s)' <=> Exclusive(s))
  BY <1>6, OtherLocksStay
<1>12. LockFits(r)' /\ Owners(r)' = {t} /\ Exclusive(r)'
  BY <1>7, <1>8, <1>10, <1>11 DEF LockFits, Owners, Exclusive
<1>13. transactionTable' = transactionTable /\ crashed' = FALSE
  BY DEF Upgrade, TablesInv
<1>14. \A u \in Transaction : ObjectFits(u)' /\ \A s \in Row : Holds(u, s)' <=> Holds(u, s)
  BY <1>13 DEF TablesInv, ObjectFits, Registered, contains, Tx, get, Holds
<1>15. \A u \in Transaction, s \in Row : Holds(u, s)' <=> u \in Owners(s)'
  BY <1>9, <1>11, <1>12, <1>14 DEF TablesInv
<1>16. TablesInv'
  BY <1>11, <1>12, <1>13, <1>14, <1>15 DEF TablesInv
<1>17. ~Exclusive(r)
  BY <1>5 DEF Exclusive
<1> QED
  BY <1>1, <1>2, <1>9, <1>11, <1>12, <1>13, <1>14, <1>16, <1>17 DEF TablesInv

\* A lock is added in a mode that agrees with those of the other owners.
LEMMA AddLockEffect ==
  ASSUME TablesInv, NEW t \in Transaction, NEW r \in Row, NEW x \in BOOLEAN, AddLock(t, r, x)
  PROVE  /\ TablesInv'
         /\ \A u \in Transaction, s \in Row :
              Holds(u, s)' <=> Holds(u, s) \/ (u = t /\ s = r)
         /\ \A s \in Row \ {r} : Exclusive(s)' <=> Exclusive(s)
         /\ Exclusive(r)' <=> x
         /\ x => \A u \in Transaction : ~Holds(u, r)
         /\ ~Exclusive(r) /\ ~Holds(t, r)
         /\ Registered(t) /\ Registered(t)'
         /\ Tx(t).growing_phase /\ Tx(t)'.growing_phase
         /\ \A u \in Transaction \ {t} : transactionTable'[u] = transactionTable[u]
<1> DEFINE rows == Tx(t).locked_rows
           object == addRow(Tx(t), r)
           longer == Append(rows, r)
           old == LockOf(r)
           lock == IF x THEN getExclusiveAccess(old, t) ELSE getSharedAccess(old, t)
<1>1. /\ Registered(t) /\ ~hasLock(Tx(t), r) /\ Tx(t).growing_phase
      /\ IF x THEN CanOwnExclusively(old) ELSE CanShare(old, t)
  BY DEF AddLock, MayAdd, MayAcquire
<1>2. Tx(t) \in CleanObject /\ IsInjective(rows)
  BY <1>1 DEF TablesInv, ObjectFits
<1>3. rows \in Seq(Row) /\ r \notin Range(rows)
  BY <1>1, <1>2 DEF CleanObject, hasLock
<1>4. longer \in Seq(Row) /\ IsInjective(longer) /\ Range(longer) = Range(rows) \cup {r}
  BY <1>2, <1>3, AppendIs
<1>5. object = [growing_phase |-> TRUE, lock_budget |-> Tx(t).lock_budget - 1,
                locked_rows |-> longer]
  <2> HIDE DEF longer
  <2>1. Tx(t) = [growing_phase |-> Tx(t).growing_phase, lock_budget |-> Tx(t).lock_budget,
                 locked_rows |-> rows]
    BY <1>2 DEF CleanObject
  <2>2. Tx(t).growing_phase = TRUE
    BY <1>1, <1>2 DEF CleanObject
  <2>3. object = [Tx(t) EXCEPT !.locked_rows = longer, !.lock_budget = @ - 1]
    BY DEF addRow, longer
  <2> HIDE DEF object, rows
  <2> QED
    BY <2>1, <2>2, <2>3
<1>6. Tx(t).lock_budget - 1 \in Int
  BY <1>2 DEF CleanObject
<1> HIDE DEF longer
<1>7. /\ object \in CleanObject /\ object # Null
      /\ object.growing_phase /\ object.locked_rows = longer
  <2> DEFINE left == Tx(t).lock_budget - 1
             new == [growing_phase |-> TRUE, lock_budget |-> left, locked_rows |-> longer]
  <2> HIDE DEF left
  <2>1. new \in CleanObject /\ new.growing_phase /\ new.locked_rows = longer
    BY <1>4, <1>6 DEF CleanObject, left
  <2>2. object = new
    BY <1>5 DEF left
  <2> HIDE DEF new, object
  <2> QED
    BY <2>1, <2>2, NullIsNothing
<1>8. transactionTable' = [transactionTable EXCEPT ![t] = object]
  BY DEF AddLock, Tx, get
<1>9. lockTable' = [lockTable EXCEPT ![r] = lock]
  BY DEF AddLock
<1>10. GoodLock(old) /\ Range(old.owners) = Owners(r) /\ (old.exclusive <=> Exclusive(r))
  BY LockOfIs
<1>11. t \notin Owners(r) /\ ~Holds(t, r)
  BY <1>1 DEF Holds, TablesInv
<1>12. /\ GoodLock(lock) /\ lock # Null
       /\ Range(lock.owners) = Owners(r) \cup {t}
       /\ lock.exclusive <=> x
       /\ x => Owners(r) = {}
       /\ ~Exclusive(r)
  <2>1. CASE x
    <3>1. <<t>> \in Seq(Transaction) /\ Range(<<t>>) = {t} /\ IsInjective(<<t>>)
      BY DEF Range, IsInjective
    <3>2. lock = [exclusive |-> TRUE, owners |-> <<t>>]
      BY <2>1 DEF getExclusiveAccess
    <3> DEFINE new == [exclusive |-> TRUE, owners |-> <<t>>]
    <3>9. new \in LockObject /\ new.owners = <<t>> /\ new.exclusive
      BY <3>1 DEF LockObject
    <3> HIDE DEF new
    <3>10. GoodLock(new)
      BY <3>1, <3>9 DEF GoodLock
    <3>3. lock \in LockObject /\ GoodLock(lock) /\ lock.owners = <<t>> /\ lock.exclusive
      BY <3>2, <3>9, <3>10 DEF new
    <3>4. old.owners = <<>>
      BY <1>1, <2>1 DEF CanOwnExclusively
    <3>5. Range(old.owners) = {}
      BY <3>4 DEF Range
    <3>6. Owners(r) = {}
      BY <1>10, <3>5
    <3>7. ~old.exclusive
      BY <1>10, <3>4 DEF GoodLock
    <3> HIDE DEF lock
    <3> QED
      BY <1>10, <2>1, <3>1, <3>3, <3>6, <3>7, NullIsNothing
  <2>2. CASE ~x
    <3> DEFINE more == Append(old.owners, t)
    <3>1. ~old.exclusive /\ t \notin Range(old.owners)
      BY <1>1, <2>2 DEF CanShare, Owns
    <3>2. old \in LockObject /\ old.owners \in Seq(Transaction) /\ IsInjective(old.owners)
      BY <1>10 DEF GoodLock, LockObject
    <3>3. /\ more \in Seq(Transaction) /\ IsInjective(more)
          /\ Range(more) = Range(old.owners) \cup {t}
      BY <3>1, <3>2, AppendIs
    <3>4. lock = [exclusive |-> FALSE, owners |-> more]
      <4>1. old.exclusive = FALSE
        BY <3>1, <3>2 DEF LockObject
      <4>2. lock = [old EXCEPT !.owners = more]
        BY <2>2 DEF getSharedAccess
      <4> HIDE DEF lock, more, old
      <4> QED
        BY <3>2, <3>3, <4>1, <4>2, LockMembers
    <3> HIDE DEF more
    <3> DEFINE new == [exclusive |-> FALSE, owners |-> more]
    <3>6. new \in LockObject /\ new.owners = more /\ new.exclusive = FALSE
      BY <3>3 DEF LockObject
    <3> HIDE DEF new
    <3>7. GoodLock(new)
      BY <3>3, <3>6 DEF GoodLock
    <3>5. lock \in LockObject /\ GoodLock(lock) /\ lock.owners = more /\ lock.exclusive = FALSE
      BY <3>4, <3>6, <3>7 DEF new
    <3> HIDE DEF lock
    <3> QED
      BY <1>10, <2>2, <3>1, <3>3, <3>5, NullIsNothing
  <2> QED
    BY <2>1, <2>2
<1> HIDE DEF object, lock, old
<1>13. /\ transactionTable' = [u \in Transaction |-> transactionTable'[u]]
       /\ transactionTable'[t] = object
       /\ \A u \in Transaction \ {t} :
            /\ transactionTable'[u] = transactionTable[u]
            /\ ObjectFits(u)' /\ \A s \in Row : Holds(u, s)' <=> Holds(u, s)
  BY <1>8, OthersStay
<1>14. /\ lockTable' = [s \in Row |-> lockTable'[s]]
       /\ lockTable'[r] = lock
       /\ \A s \in Row \ {r} :
            LockFits(s)' /\ Owners(s)' = Owners(s) /\ (Exclusive(s)' <=> Exclusive(s))
  BY <1>9, OtherLocksStay
<1>15. LockFits(r)' /\ Owners(r)' = Owners(r) \cup {t} /\ (Exclusive(r)' <=> x)
  BY <1>12, <1>14 DEF LockFits, Owners, Exclusive
<1>16. Registered(t)' /\ Tx(t)' = object /\ ObjectFits(t)'
  BY <1>4, <1>7, <1>13 DEF Registered, contains, Tx, get, ObjectFits
<1>17. \A s \in Row : Holds(t, s)' <=> Holds(t, s) \/ s = r
  BY <1>1, <1>4, <1>7, <1>16 DEF Holds, hasLock
<1>18. \A u \in Transaction, s \in Row : Holds(u, s)' <=> Holds(u, s) \/ (u = t /\ s = r)
  BY <1>13, <1>17
<1>19. \A u \in Transaction, s \in Row : Holds(u, s)' <=> u \in Owners(s)'
  BY <1>14, <1>15, <1>18 DEF TablesInv
<1>20. crashed' = FALSE
  BY DEF AddLock, TablesInv
<1>21. \A u \in Transaction : ObjectFits(u)'
  BY <1>13, <1>16
<1>22. \A s \in Row : LockFits(s)'
  BY <1>14, <1>15
<1>23. TablesInv'
  BY <1>13, <1>14, <1>19, <1>20, <1>21, <1>22 DEF TablesInv
<1>24. x => \A u \in Transaction : ~Holds(u, r)
  BY <1>12 DEF TablesInv
<1> QED
  BY <1>1, <1>7, <1>11, <1>12, <1>13, <1>14, <1>15, <1>16, <1>18, <1>23, <1>24

\* An abort ends a transaction, and leaves the locks of the others in their
\* modes.
LEMMA AbortEffect ==
  ASSUME TablesInv, NEW t \in Transaction, NEW r \in Row, NEW x \in BOOLEAN, Abort(t, r, x),
         \A s \in Row : Holds(t, s) => CopiesRight(t, s)
  PROVE  /\ TablesInv'
         /\ \A u \in Transaction, s \in Row : Holds(u, s)' <=> Holds(u, s) /\ u # t
         /\ \A u \in Transaction, s \in Row :
              Holds(u, s)' => (Exclusive(s)' <=> Exclusive(s))
         /\ Registered(t) /\ ~Registered(t)'
         /\ \A u \in Transaction \ {t} : transactionTable'[u] = transactionTable[u]
<1> DEFINE table == WithLock(r)
           rows == Tx(t).locked_rows
           after == [s \in Row |-> IF hasLock(Tx(t), s) THEN Released(table[s], t) ELSE table[s]]
<1>1. Registered(t)
  BY DEF Abort
<1>2. rows \in Seq(Row) /\ IsInjective(rows)
  BY <1>1 DEF TablesInv, ObjectFits, CleanObject
<1>3. /\ table = [lockTable EXCEPT ![r] = LockOf(r)] /\ GoodLock(LockOf(r))
      /\ LockOf(r) = IF lockTable[r] = Null THEN newLock ELSE lockTable[r]
      /\ Range(LockOf(r).owners) = Owners(r)
      /\ LockOf(r).exclusive <=> Exclusive(r)
  BY LockOfIs
<1>4. table = [s \in Row |-> table[s]] /\ table[r] = LockOf(r)
      /\ \A s \in Row \ {r} : table[s] = lockTable[s]
  BY <1>3 DEF TablesInv
<1>5. ASSUME NEW s \in Row, hasLock(Tx(t), s)
      PROVE  /\ t \in Owners(s) /\ Holds(t, s)
             /\ table[s] = lockTable[s] /\ table[s] # Null
  <2>1. Holds(t, s)
    BY <1>1, <1>5 DEF Holds
  <2>2. t \in Owners(s)
    BY <2>1 DEF TablesInv
  <2>3. lockTable[s] # Null
    BY <2>2 DEF Owners
  <2> QED
    BY <1>3, <1>4, <2>1, <2>2, <2>3
<1>6. \A s \in Range(rows) : table[s] # Null
  <2>1. \A s \in Range(rows) : s \in Row /\ hasLock(Tx(t), s)
    BY <1>2 DEF hasLock, Range
  <2> QED
    BY <1>5, <2>1
<1>7. releaseAllLocks(table, t) = [table |-> after, crashed |-> FALSE]
  <2> HIDE DEF table
  <2> QED
    BY <1>2, <1>4, <1>6, ReleaseAllIs
<1>8. lockTable' = after /\ crashed' = FALSE
  <2>1. lockTable' = releaseAllLocks(table, t).table /\ crashed' = releaseAllLocks(table, t).crashed
    BY DEF Abort
  <2> HIDE DEF after
  <2> QED
    BY <1>7, <2>1
<1>9. transactionTable' = [transactionTable EXCEPT ![t] = Null]
  BY DEF Abort, remove
<1>10. /\ transactionTable' = [u \in Transaction |-> transactionTable'[u]]
       /\ transactionTable'[t] = Null
       /\ \A u \in Transaction \ {t} :
            /\ transactionTable'[u] = transactionTable[u]
            /\ ObjectFits(u)' /\ \A s \in Row : Holds(u, s)' <=> Holds(u, s)
  BY <1>9, OthersStay
<1>11. ~Registered(t)' /\ ObjectFits(t)' /\ \A s \in Row : ~Holds(t, s)'
  BY <1>10 DEF Registered, contains, ObjectFits, Holds
<1>12. \A u \in Transaction, s \in Row : Holds(u, s)' <=> Holds(u, s) /\ u # t
  BY <1>10, <1>11
<1>13. lockTable' = [s \in Row |-> lockTable'[s]]
  BY <1>8
<1>14. ASSUME NEW s \in Row
       PROVE  /\ LockFits(s)' /\ Owners(s)' = Owners(s) \ {t}
              /\ (\E u \in Transaction : Holds(u, s)') => (Exclusive(s)' <=> Exclusive(s))
  <2>1. CASE hasLock(Tx(t), s)
    <3>1. /\ t \in Owners(s) /\ Holds(t, s) /\ table[s] = lockTable[s]
      BY <1>5, <2>1
    <3>2. lockTable'[s] = Released(lockTable[s], t)
      BY <1>8, <2>1, <3>1
    <3>3. CopiesRight(t, s)
      BY <3>1
    <3>4. /\ lockTable'[s] # Null => GoodLock(lockTable'[s]) /\ lockTable'[s].exclusive = FALSE
          /\ (IF lockTable'[s] = Null THEN {} ELSE Range(lockTable'[s].owners)) = Owners(s) \ {t}
          /\ \A u \in Owners(s) : u # t => ~Exclusive(s)
      BY <3>1, <3>2, <3>3, ReleasedIs
    <3>5. LockFits(s)' /\ Owners(s)' = Owners(s) \ {t} /\ ~Exclusive(s)'
      BY <3>4 DEF LockFits, Owners, Exclusive
    <3>6. ASSUME NEW u \in Transaction, Holds(u, s)'
          PROVE  ~Exclusive(s)
      <4>1. Holds(u, s) /\ u # t
        BY <1>12, <3>6
      <4>2. u \in Owners(s)
        BY <4>1 DEF TablesInv
      <4> QED
        BY <3>4, <4>1, <4>2
    <3> QED
      BY <3>5, <3>6
  <2>2. CASE ~hasLock(Tx(t), s)
    <3>1. lockTable'[s] = table[s]
      BY <1>8, <2>2
    <3>2. t \notin Owners(s)
      BY <2>2 DEF TablesInv, Holds
    <3>3. CASE s = r
      <4>1. lockTable'[s] = LockOf(r)
        BY <1>4, <3>1, <3>3
      <4>2. LockOf(r) # Null
        BY <1>3, NullIsNothing DEF GoodLock
      <4> QED
        BY <1>3, <3>2, <3>3, <4>1, <4>2 DEF LockFits, Owners, Exclusive
    <3>4. CASE s # r
      <4>1. lockTable'[s] = lockTable[s]
        BY <1>4, <3>1, <3>4
      <4> QED
        BY <3>2, <4>1 DEF LockFits, Owners, Exclusive, TablesInv
    <3> QED
      BY <3>3, <3>4
  <2> QED
    BY <2>1, <2>2
<1>15. \A u \in Transaction, s \in Row : Holds(u, s)' <=> u \in Owners(s)'
  BY <1>12, <1>14 DEF TablesInv
<1>16. \A u \in Transaction : ObjectFits(u)'
  BY <1>10, <1>11
<1>17. \A s \in Row : LockFits(s)'
  BY <1>14
<1>18. TablesInv'
  BY <1>8, <1>10, <1>13, <1>15, <1>16, <1>17 DEF TablesInv
<1> QED
  BY <1>1, <1>10, <1>11, <1>12, <1>14, <1>18

\* What an unlock of a row leaves of the transaction.
LEMMA AfterReleaseIs ==
  ASSUME TablesInv, NEW t \in Transaction, NEW r \in Row, Holds(t, r), ComparesRight(t, r),
         NEW after \in AfterRelease(Tx(t), r)
  PROVE  /\ after \in CleanObject /\ IsInjective(after.locked_rows)
         /\ after.growing_phase = FALSE
         /\ Range(after.locked_rows) = Range(Tx(t).locked_rows) \ {r}
<1> DEFINE rows == Tx(t).locked_rows
<1>1. Tx(t) \in CleanObject /\ IsInjective(rows) /\ r \in Range(rows)
  BY DEF TablesInv, ObjectFits, Holds, hasLock
<1>2. rows \in Seq(Row) /\ DOMAIN rows = 1..Len(rows) /\ Len(rows) \in Nat
  BY <1>1 DEF CleanObject
<1>3. PICK p \in 1..Len(rows) : rows[p] = r
  BY <1>1, <1>2 DEF Range
<1> DEFINE kept == Copied(rows, r)
           rest == Omit(rows, p)
<1>4. kept = rest
  BY <1>1, <1>2, <1>3, CopiedIs DEF ComparesRight
<1>5. /\ rest \in Seq(Row) /\ IsInjective(rest) /\ Len(rest) = Len(rows) - 1
      /\ Range(rest) = Range(rows) \ {r}
  BY <1>1, <1>2, <1>3, OmitIs
<1>6. PICK garbage \in [1..(Len(rows) - 1 - Len(kept)) -> Row \cup {StrayRow}] :
        after = [Tx(t) EXCEPT !.locked_rows = kept \o garbage, !.growing_phase = FALSE]
  BY DEF AfterRelease
<1> HIDE DEF rest, kept
<1>7. Len(rows) - 1 - Len(kept) = 0
  BY <1>2, <1>4, <1>5
<1>8. garbage = <<>>
  <2>1. garbage \in [1..0 -> Row \cup {StrayRow}]
    BY <1>6, <1>7
  <2>2. garbage \in Seq(Row \cup {StrayRow}) /\ Len(garbage) = 0
    BY <2>1
  <2> QED
    BY <2>2, EmptySeq
<1>9. kept \o garbage = rest
  BY <1>4, <1>5, <1>8
<1>10. after = [growing_phase |-> FALSE, lock_budget |-> Tx(t).lock_budget, locked_rows |-> rest]
  <2>1. Tx(t) = [growing_phase |-> Tx(t).growing_phase, lock_budget |-> Tx(t).lock_budget,
                 locked_rows |-> rows]
    BY <1>1 DEF CleanObject
  <2>2. after = [Tx(t) EXCEPT !.locked_rows = rest, !.growing_phase = FALSE]
    BY <1>6, <1>9
  <2> HIDE DEF rows
  <2> QED
    BY <2>1, <2>2
<1>11. Tx(t).lock_budget \in Int
  BY <1>1 DEF CleanObject
<1> QED
  BY <1>5, <1>10, <1>11 DEF CleanObject

\* An unlock takes one row from one transaction.
LEMMA UnlockEffect ==
  ASSUME TablesInv, NEW t \in Transaction, NEW r \in Row, Unlock(t, r),
         Holds(t, r) => ComparesRight(t, r) /\ CopiesRight(t, r)
  PROVE  /\ TablesInv'
         /\ \A u \in Transaction, s \in Row :
              Holds(u, s)' <=> Holds(u, s) /\ ~(u = t /\ s = r)
         /\ \A u \in Transaction, s \in Row :
              Holds(u, s)' => (Exclusive(s)' <=> Exclusive(s))
         /\ Registered(t)
         /\ Registered(t)' => IF Holds(t, r) THEN ~Tx(t)'.growing_phase
                              ELSE transactionTable'[t] = transactionTable[t]
         /\ \A u \in Transaction \ {t} : transactionTable'[u] = transactionTable[u]
<1>1. PICK after \in IF hasLock(Tx(t), r) THEN AfterRelease(Tx(t), r) ELSE {Tx(t)} :
        transactionTable' = IF after.locked_rows = <<>> THEN remove(transactionTable, t)
                            ELSE [transactionTable EXCEPT ![t] = after]
  BY DEF Unlock
<1>2. /\ Registered(t) /\ Tx(t) \in CleanObject /\ IsInjective(Tx(t).locked_rows)
      /\ hasLock(Tx(t), r) <=> Holds(t, r)
  BY DEF Unlock, TablesInv, ObjectFits, Holds
<1> DEFINE object == IF after.locked_rows = <<>> THEN Null ELSE after
<1>3. transactionTable' = [transactionTable EXCEPT ![t] = object]
  BY <1>1 DEF remove
<1>4. /\ after \in CleanObject /\ IsInjective(after.locked_rows)
      /\ Range(after.locked_rows) = Range(Tx(t).locked_rows) \ {r}
      /\ IF Holds(t, r) THEN after.growing_phase = FALSE ELSE after = Tx(t)
  <2>1. CASE Holds(t, r)
    <3>1. ComparesRight(t, r) /\ after \in AfterRelease(Tx(t), r)
      BY <1>1, <1>2, <2>1
    <3> QED
      BY <2>1, <3>1, AfterReleaseIs
  <2>2. CASE ~Holds(t, r)
    BY <1>1, <1>2, <2>2 DEF hasLock
  <2> QED
    BY <2>1, <2>2
<1>5. after # Null /\ (after.locked_rows = <<>> => Range(after.locked_rows) = {})
  BY <1>4, NullIsNothing DEF Range
<1>6. \A s \in Row : Holds(t, s) <=> s \in Range(Tx(t).locked_rows)
  BY <1>2 DEF Holds, hasLock
<1> HIDE DEF object
<1>7. /\ transactionTable' = [u \in Transaction |-> transactionTable'[u]]
      /\ transactionTable'[t] = object
      /\ \A u \in Transaction \ {t} :
           /\ transactionTable'[u] = transactionTable[u]
           /\ ObjectFits(u)' /\ \A s \in Row : Holds(u, s)' <=> Holds(u, s)
  BY <1>3, OthersStay
<1>8. /\ ObjectFits(t)'
      /\ \A s \in Row : Holds(t, s)' <=> s \in Range(after.locked_rows)
      /\ Registered(t)' => transactionTable'[t] = after
  BY <1>4, <1>5, <1>7
  DEF object, ObjectFits, Registered, contains, Tx, get, Holds, hasLock
<1>9. \A u \in Transaction, s \in Row : Holds(u, s)' <=> Holds(u, s) /\ ~(u = t /\ s = r)
  BY <1>4, <1>6, <1>7, <1>8
<1>10. Registered(t)' => IF Holds(t, r) THEN ~Tx(t)'.growing_phase
                         ELSE transactionTable'[t] = transactionTable[t]
  BY <1>4, <1>8 DEF Tx, get
<1>11. crashed' = FALSE
  BY DEF Unlock, TablesInv
<1>12. /\ lockTable' = [s \in Row |-> lockTable'[s]]
       /\ \A s \in Row \ {r} :
            LockFits(s)' /\ Owners(s)' = Owners(s) /\ (Exclusive(s)' <=> Exclusive(s))
       /\ LockFits(r)' /\ Owners(r)' = Owners(r) \ {t}
       /\ (\E u \in Transaction : Holds(u, r)') => (Exclusive(r)' <=> Exclusive(r))
  <2>1. CASE Holds(t, r)
    <3> DEFINE lock == Released(lockTable[r], t)
    <3>1. lockTable' = [lockTable EXCEPT ![r] = lock]
      BY <1>2, <2>1 DEF Unlock, Kept, remove, get, Released
    <3>2. t \in Owners(r) /\ CopiesRight(t, r)
      BY <2>1 DEF TablesInv
    <3>3. /\ lock # Null => GoodLock(lock) /\ lock.exclusive = FALSE
          /\ (IF lock = Null THEN {} ELSE Range(lock.owners)) = Owners(r) \ {t}
          /\ \A u \in Owners(r) : u # t => ~Exclusive(r)
      BY <3>2, ReleasedIs
    <3> HIDE DEF lock
    <3>4. /\ lockTable' = [s \in Row |-> lockTable'[s]]
          /\ lockTable'[r] = lock
          /\ \A s \in Row \ {r} :
               LockFits(s)' /\ Owners(s)' = Owners(s) /\ (Exclusive(s)' <=> Exclusive(s))
      BY <3>1, OtherLocksStay
    <3>5. LockFits(r)' /\ Owners(r)' = Owners(r) \ {t} /\ ~Exclusive(r)'
      BY <3>3, <3>4 DEF LockFits, Owners, Exclusive
    <3>6. ASSUME NEW u \in Transaction, Holds(u, r)'
          PROVE  ~Exclusive(r)
      <4>1. Holds(u, r) /\ u # t
        BY <1>9, <3>6
      <4>2. u \in Owners(r)
        BY <4>1 DEF TablesInv
      <4> QED
        BY <3>3, <4>1, <4>2
    <3> QED
      BY <3>4, <3>5, <3>6
  <2>2. CASE ~Holds(t, r)
    <3>1. lockTable' = lockTable
      BY <1>2, <2>2 DEF Unlock
    <3>2. t \notin Owners(r)
      BY <2>2 DEF TablesInv
    <3>3. /\ lockTable' = [s \in Row |-> lockTable'[s]]
          /\ \A s \in Row : LockFits(s)' /\ Owners(s)' = Owners(s)
          /\ \A s \in Row : Exclusive(s)' <=> Exclusive(s)
      BY <3>1, LocksStay
    <3> QED
      BY <3>2, <3>3
  <2> QED
    BY <2>1, <2>2
<1>13. \A u \in Transaction, s \in Row : Holds(u, s)' <=> u \in Owners(s)'
  BY <1>9, <1>12 DEF TablesInv
<1>14. \A u \in Transaction, s \in Row : Holds(u, s)' => (Exclusive(s)' <=> Exclusive(s))
  BY <1>12
<1>15. \A u \in Transaction : ObjectFits(u)'
  BY <1>7, <1>8
<1>16. \A s \in Row : LockFits(s)'
  BY <1>12
<1>17. TablesInv'
  BY <1>7, <1>11, <1>12, <1>13, <1>15, <1>16 DEF TablesInv
<1> QED
  BY <1>2, <1>7, <1>9, <1>10, <1>14, <1>17

-----------------------------------------------------------------------------
(* The tables agree in every careful behaviour                             *)

LEMMA TablesStay ==
  ASSUME TablesInv, UNCHANGED <<transactionTable, lockTable, crashed>>
  PROVE  TablesInv' /\ HeldAsBefore
<1>1. \A u \in Transaction : ObjectFits(u)' /\ \A s \in Row : Holds(u, s)' <=> Holds(u, s)
  BY DEF TablesInv, ObjectFits, Registered, contains, Tx, get, Holds
<1>2. /\ lockTable' = [s \in Row |-> lockTable'[s]]
      /\ \A s \in Row : LockFits(s)' /\ Owners(s)' = Owners(s)
      /\ \A s \in Row : Exclusive(s)' <=> Exclusive(s)
  BY LocksStay
<1>3. \A u \in Transaction, s \in Row : Holds(u, s)' <=> u \in Owners(s)'
  BY <1>1, <1>2 DEF TablesInv
<1> QED
  BY <1>1, <1>2, <1>3 DEF TablesInv, HeldAsBefore

\* A signature that was just made is true of the tables after the step.
LEMMA SignedTruly ==
  ASSUME TablesInv', NEW t \in Transaction, NEW r \in Row, NEW x \in BOOLEAN,
         signature' = Sign(t, r, x), Holds(t, r)', Exclusive(r)' <=> x,
         x => \A u \in Transaction \ {t} : ~Holds(u, r)'
  PROVE  SignatureIsTrue'
<1>1. /\ signature'.transaction_id = t /\ signature'.row_id = r
      /\ signature'.exclusive = x
  BY DEF Sign
<1>2. (t \in Owners(r))'
  BY DEF TablesInv
<1>3. (x = Exclusive(r))'
  <2>1. (Exclusive(r))' \in BOOLEAN
    BY DEF Exclusive, TablesInv, LockFits, GoodLock, LockObject
  <2> QED
    BY <2>1
<1> QED
  BY <1>1, <1>2, <1>3 DEF SignatureIsTrue

LEMMA TablesStep ==
  ASSUME TablesInv, SignatureIsTrue,
         (Next /\ Careful) \/ Unchanged \/ UNCHANGED tables
  PROVE  TablesInv' /\ SignatureIsTrue'
<1>1. ASSUME NEW t \in Transaction, Register(t)
      PROVE  TablesInv' /\ SignatureIsTrue'
  <2>1. signature' = Null
    BY <1>1 DEF Register
  <2> QED
    BY <1>1, <2>1, RegisterEffect DEF SignatureIsTrue
<1>2. ASSUME NEW t \in Transaction, NEW r \in Row, Upgrade(t, r)
      PROVE  TablesInv' /\ SignatureIsTrue'
  <2>1. /\ TablesInv'
        /\ \A u \in Transaction, s \in Row : Holds(u, s)' <=> Holds(u, s)
        /\ Exclusive(r)' /\ Holds(t, r)
        /\ \A u \in Transaction \ {t} : ~Holds(u, r)
    BY <1>2, UpgradeEffect
  <2>2. signature' = Sign(t, r, TRUE)
    BY <1>2 DEF Upgrade
  <2>3. \A u \in Transaction \ {t} : ~Holds(u, r)'
    BY <2>1
  <2> QED
    BY <2>1, <2>2, <2>3, SignedTruly
<1>3. ASSUME NEW t \in Transaction, NEW r \in Row, NEW x \in BOOLEAN, AddLock(t, r, x)
      PROVE  TablesInv' /\ SignatureIsTrue'
  <2>1. /\ TablesInv'
        /\ \A u \in Transaction, s \in Row :
             Holds(u, s)' <=> Holds(u, s) \/ (u = t /\ s = r)
        /\ Exclusive(r)' <=> x
        /\ x => \A u \in Transaction : ~Holds(u, r)
    BY <1>3, AddLockEffect
  <2>2. signature' = Sign(t, r, x)
    BY <1>3 DEF AddLock
  <2>3. Holds(t, r)' /\ (x => \A u \in Transaction \ {t} : ~Holds(u, r)')
    BY <2>1
  <2> QED
    BY <2>1, <2>2, <2>3, SignedTruly
<1>4. ASSUME NEW t \in Transaction, NEW r \in Row, NEW x \in BOOLEAN, Abort(t, r, x), Careful
      PROVE  TablesInv' /\ SignatureIsTrue'
  <2>1. signature' = Null
    BY <1>4 DEF Abort
  <2>2. \A s \in Row : Holds(t, s) => CopiesRight(t, s)
    BY <1>4 DEF Careful
  <2>3. TablesInv'
    BY <1>4, <2>2, AbortEffect
  <2> QED
    BY <2>1, <2>3 DEF SignatureIsTrue
<1>5. ASSUME NEW t \in Transaction, NEW r \in Row, Unlock(t, r), Careful
      PROVE  TablesInv' /\ SignatureIsTrue'
  <2>1. signature' = Null
    BY <1>5 DEF Unlock
  <2>2. Holds(t, r) => ComparesRight(t, r) /\ CopiesRight(t, r)
    BY <1>5 DEF Careful
  <2>3. TablesInv'
    BY <1>5, <2>2, UnlockEffect
  <2> QED
    BY <2>1, <2>3 DEF SignatureIsTrue
<1>6. CASE Unchanged
  BY <1>6, TablesStay DEF Unchanged, SignatureIsTrue
<1>7. CASE UNCHANGED tables
  <2>1. TablesInv' /\ signature' = signature
    BY <1>7, TablesStay DEF tables
  <2>2. SignatureIsTrue'
    BY <1>7
    DEF tables, SignatureIsTrue, Holds, Owners, Exclusive, Registered, contains, Tx, get
  <2> QED
    BY <2>1, <2>2
<1> QED
  BY <1>1, <1>2, <1>3, <1>4, <1>5, <1>6, <1>7 DEF Next

LEMMA CarefulTables ==
  Spec /\ [][Careful]_vars => [](TablesInv /\ SignatureIsTrue)
<1>1. Init => TablesInv /\ SignatureIsTrue
  BY TablesAtFirst DEF Init, SignatureIsTrue
<1>2. TablesInv /\ SignatureIsTrue /\ [Next]_vars /\ [Careful]_vars =>
        TablesInv' /\ SignatureIsTrue'
  BY TablesStep DEF vars, tables
<1> QED
  BY <1>1, <1>2, PTL DEF Spec

\* Unless one of the two mistakes bites, an abort finds a lock for every row of
\* its transaction (transaction.cpp), for any rows, transactions and budgets.
THEOREM CarefulNeverCrashes == Spec /\ [][Careful]_vars => []NeverCrashes
  BY CarefulTables, TablesInvImplies, PTL

\* Unless one of the two mistakes bites, locked_rows of transaction.cpp and
\* owners of lock.cpp say the same and name nothing twice.
THEOREM CarefulTablesAgree == Spec /\ [][Careful]_vars => []TablesAgree
  BY CarefulTables, TablesInvImplies, PTL

\* Unless one of the two mistakes bites, what acquire_lock of enclave.cpp has
\* just signed is true.
THEOREM CarefulSignatures == Spec /\ [][Careful]_vars => []SignatureIsTrue
  BY CarefulTables, PTL

\* An unlock that compares right and copies right (transaction.cpp) takes one row
\* out of locked_rows: the mistake of UnlockForgetsOneRow's run is the comparison.
THEOREM CarefulUnlockForgets == Spec /\ [][Careful]_vars => UnlockForgetsOneRow
<1>1. TablesInv /\ SignatureIsTrue /\ [Next]_vars /\ [Careful]_vars =>
        [\A t \in Transaction, r, s \in Row :
           Unlock(t, r) /\ Holds(t, r) => (Holds(t, s)' <=> Holds(t, s) /\ s # r)]_vars
  BY UnlockEffect DEF Careful
<1> QED
  BY <1>1, CarefulTables, PTL DEF Spec, UnlockForgetsOneRow

\* And it leaves the other owners alone (lock.cpp): the mistake of
\* UnlockKeepsOtherOwners's run is the loop that closes the gap.
THEOREM CarefulUnlockKeeps == Spec /\ [][Careful]_vars => UnlockKeepsOtherOwners
<1>1. ASSUME TablesInv, [Careful]_vars, ~UNCHANGED vars,
             NEW t \in Transaction, NEW u \in Transaction, NEW r \in Row,
             Unlock(t, r), u # t, u \in Owners(r)
      PROVE  (u \in Owners(r))'
  <2>1. Holds(t, r) => ComparesRight(t, r) /\ CopiesRight(t, r)
    BY <1>1 DEF Careful
  <2>2. TablesInv' /\ \A w \in Transaction, s \in Row :
          Holds(w, s)' <=> Holds(w, s) /\ ~(w = t /\ s = r)
    BY <1>1, <2>1, UnlockEffect
  <2>3. Holds(u, r)
    BY <1>1 DEF TablesInv
  <2>4. Holds(u, r)'
    BY <1>1, <2>2, <2>3
  <2> QED
    BY <2>2, <2>4 DEF TablesInv
<1>2. TablesInv /\ SignatureIsTrue /\ [Next]_vars /\ [Careful]_vars =>
        [\A t, u \in Transaction, r \in Row :
           Unlock(t, r) /\ u # t /\ u \in Owners(r) => (u \in Owners(r))']_vars
  BY <1>1
<1> QED
  BY <1>2, CarefulTables, PTL DEF Spec, UnlockKeepsOtherOwners

\* With at most two transactions, and the rows 0 and 1 or one lock for each transaction,
\* neither mistake can bite.
TooSmallForMistakes ==
  /\ Row \subseteq {0, 1} \/ \A t \in Transaction : Budget[t] <= 1
  /\ \A t, u, v \in Transaction : t = u \/ u = v \/ t = v

\* A transaction that may take one lock ends when it releases it.
OneLockInv ==
  (\A t \in Transaction : Budget[t] <= 1) =>
    \A t \in Transaction : Registered(t) => Tx(t).growing_phase

LEMMA OneRowEach ==
  ASSUME BudgetInv, OneLockInv, \A t \in Transaction : Budget[t] <= 1,
         NEW t \in Transaction, NEW r \in Row, Holds(t, r)
  PROVE  Range(Tx(t).locked_rows) = {r}
<1> DEFINE rows == Tx(t).locked_rows
<1>1. rows \in Seq(Row) /\ Tx(t).lock_budget \in Nat /\ Len(rows) + Tx(t).lock_budget = Budget[t]
  BY DEF BudgetInv, OneLockInv, PaysForLocks, Holds
<1>2. Len(rows) \in Nat /\ Len(rows) <= 1 /\ DOMAIN rows = 1..Len(rows)
  BY <1>1, BudgetAssumption
<1>3. r \in Range(rows)
  BY DEF Holds, hasLock
<1> HIDE DEF rows
<1> QED
  BY <1>2, <1>3 DEF Range, rows

LEMMA OneLockStep ==
  ASSUME TablesInv, BudgetInv, OneLockInv,
         (Next /\ Careful) \/ UNCHANGED transactionTable
  PROVE  OneLockInv'
<1> SUFFICES ASSUME \A t \in Transaction : Budget[t] <= 1
             PROVE  \A t \in Transaction : Registered(t)' => Tx(t)'.growing_phase
  BY DEF OneLockInv
<1>1. \A t \in Transaction : Registered(t) => Tx(t).growing_phase
  BY DEF OneLockInv
<1>2. ASSUME NEW t \in Transaction, transactionTable'[t] = transactionTable[t]
      PROVE  Registered(t)' => Tx(t)'.growing_phase
  BY <1>1, <1>2 DEF Registered, contains, Tx, get
<1>3. ASSUME NEW t \in Transaction, Register(t)
      PROVE  \A u \in Transaction : Registered(u)' => Tx(u)'.growing_phase
  <2>1. Tx(t)' = newTransaction(Budget[t])
        /\ \A u \in Transaction \ {t} : transactionTable'[u] = transactionTable[u]
    BY <1>3, RegisterEffect
  <2>2. Tx(t)'.growing_phase
    BY <2>1 DEF newTransaction
  <2> QED
    BY <1>2, <2>1, <2>2
<1>4. ASSUME NEW t \in Transaction, NEW r \in Row, Upgrade(t, r)
      PROVE  \A u \in Transaction : Registered(u)' => Tx(u)'.growing_phase
  BY <1>2, <1>4 DEF Upgrade
<1>5. ASSUME NEW t \in Transaction, NEW r \in Row, NEW x \in BOOLEAN, AddLock(t, r, x)
      PROVE  \A u \in Transaction : Registered(u)' => Tx(u)'.growing_phase
  BY <1>2, <1>5, AddLockEffect
<1>6. ASSUME NEW t \in Transaction, NEW r \in Row, NEW x \in BOOLEAN, Abort(t, r, x), Careful
      PROVE  \A u \in Transaction : Registered(u)' => Tx(u)'.growing_phase
  <2>1. \A s \in Row : Holds(t, s) => CopiesRight(t, s)
    BY <1>6 DEF Careful
  <2> QED
    BY <1>2, <1>6, <2>1, AbortEffect
<1>7. ASSUME NEW t \in Transaction, NEW r \in Row, Unlock(t, r), Careful
      PROVE  \A u \in Transaction : Registered(u)' => Tx(u)'.growing_phase
  <2>1. Holds(t, r) => ComparesRight(t, r) /\ CopiesRight(t, r)
    BY <1>7 DEF Careful
  <2>2. /\ TablesInv'
        /\ \A u \in Transaction, s \in Row :
             Holds(u, s)' <=> Holds(u, s) /\ ~(u = t /\ s = r)
        /\ Registered(t)' /\ ~Holds(t, r) => transactionTable'[t] = transactionTable[t]
        /\ \A u \in Transaction \ {t} : transactionTable'[u] = transactionTable[u]
    BY <1>7, <2>1, UnlockEffect
  <2>3. Holds(t, r) => ~Registered(t)'
    <3> SUFFICES ASSUME Holds(t, r), Registered(t)' PROVE FALSE
      OBVIOUS
    <3>1. Range(Tx(t).locked_rows) = {r}
      BY OneRowEach
    <3>2. \A s \in Row : ~Holds(t, s)'
      BY <2>2, <3>1 DEF Holds, hasLock
    <3> DEFINE rows == Tx(t)'.locked_rows
    <3>3. rows \in Seq(Row)
      BY <2>2 DEF TablesInv, ObjectFits, CleanObject
    <3>4. rows # <<>>
      BY <1>7 DEF Unlock, Registered, contains, Tx, get, remove, TablesInv
    <3> HIDE DEF rows
    <3>5. 1 \in DOMAIN rows /\ rows[1] \in Row /\ rows[1] \in Range(rows)
      BY <3>3, <3>4 DEF Range
    <3> QED
      BY <3>2, <3>5 DEF Holds, hasLock, rows
  <2> QED
    BY <1>2, <2>2, <2>3
<1> QED
  BY <1>2, <1>3, <1>4, <1>5, <1>6, <1>7 DEF Next

LEMMA SmallIsCareful ==
  ASSUME TooSmallForMistakes, TablesInv, BudgetInv, OneLockInv
  PROVE  Careful
<1>1. ASSUME NEW t \in Transaction, NEW r \in Row, Holds(t, r)
      PROVE  CopiesRight(t, r)
  <2> DEFINE owners == lockTable[r].owners
  <2>1. /\ t \in Owners(r) /\ lockTable[r] # Null /\ GoodLock(lockTable[r])
    BY <1>1 DEF TablesInv, Owners, LockFits
  <2>2. /\ owners \in Seq(Transaction) /\ DOMAIN owners = 1..Len(owners) /\ Len(owners) \in Nat
        /\ IsInjective(owners) /\ t \in Range(owners)
    BY <2>1 DEF GoodLock, LockObject, Owners
  <2> HIDE DEF owners
  <2>3. ~(Len(owners) >= 3)
    <3> SUFFICES ASSUME Len(owners) >= 3 PROVE FALSE
      OBVIOUS
    <3>1. 1 \in DOMAIN owners /\ 2 \in DOMAIN owners /\ 3 \in DOMAIN owners
      BY <2>2
    <3>2. owners[1] \in Transaction /\ owners[2] \in Transaction /\ owners[3] \in Transaction
      BY <2>2, <3>1
    <3>3. owners[1] # owners[2] /\ owners[2] # owners[3] /\ owners[1] # owners[3]
      BY <2>2, <3>1 DEF IsInjective
    <3> QED
      BY <3>2, <3>3 DEF TooSmallForMistakes
  <2>4. PICK i \in DOMAIN owners : owners[i] = t
    BY <2>2 DEF Range
  <2>5. i >= Len(owners) - 1
    BY <2>2, <2>3
  <2> QED
    BY <2>4, <2>5 DEF CopiesRight, owners
<1>2. ASSUME NEW t \in Transaction, NEW r \in Row, Holds(t, r)
      PROVE  ComparesRight(t, r)
  <2>1. CASE Row \subseteq {0, 1}
    <3>1. Tx(t).locked_rows \in Seq(Row)
      BY <1>2 DEF Holds, TablesInv, ObjectFits, CleanObject
    <3>2. ASSUME NEW s \in Range(Tx(t).locked_rows)
          PROVE  s \in {0, 1}
      <4>1. s \in Row
        BY <3>1, <3>2 DEF Range
      <4> QED
        BY <2>1, <4>1
    <3>3. r \in {0, 1}
      BY <2>1
    <3> QED
      BY <3>2, <3>3 DEF ComparesRight, Not
  <2>2. CASE \A u \in Transaction : Budget[u] <= 1
    <3>1. Range(Tx(t).locked_rows) = {r}
      BY <1>2, <2>2, OneRowEach
    <3>2. Not(r) # r
      BY RowAssumption DEF Not
    <3> QED
      BY <3>1, <3>2 DEF ComparesRight
  <2> QED
    BY <2>1, <2>2 DEF TooSmallForMistakes
<1> QED
  BY <1>1, <1>2 DEF Careful

-----------------------------------------------------------------------------
(* The service                                                             *)

\* A call is one step of the tables, or leaves them alone.
LEMMA CallSteps ==
  ASSUME Call
  PROVE  Next \/ Unchanged
<1>1. ASSUME NEW t \in Transaction, NEW way, RegisterCall(t, way)
      PROVE  Next \/ Unchanged
  BY <1>1 DEF RegisterCall, Next
<1>2. ASSUME NEW t \in Transaction, NEW r \in Row, NEW way, UnlockCall(t, r, way)
      PROVE  Next \/ Unchanged
  BY <1>2 DEF UnlockCall, Next
<1>3. ASSUME NEW t \in Transaction, NEW r \in Row, NEW x \in BOOLEAN, NEW way,
             LockCall(t, r, x, way)
      PROVE  Next \/ Unchanged
  BY <1>3 DEF LockCall, Granted, Refused, Next
<1> QED
  BY <1>1, <1>2, <1>3 DEF Call

LEMMA ServiceTablesStep ==
  ASSUME TablesInv, SignatureIsTrue, [ServiceNext]_serviceVars, [Careful]_serviceVars
  PROVE  TablesInv' /\ SignatureIsTrue'
<1>1. CASE StartServer
  BY <1>1, TablesStep DEF StartServer
<1>2. CASE StopServer
  <2>1. /\ transactionTable' = newHashTable(Transaction) /\ lockTable' = newHashTable(Row)
        /\ crashed' = FALSE /\ signature' = Null
    BY <1>2 DEF StopServer
  <2>2. TablesInv'
    <3>1. \A t \in Transaction : ~Registered(t)'
      BY <2>1 DEF newHashTable, Registered, contains
    <3>2. \A r \in Row : lockTable'[r] = Null
      BY <2>1 DEF newHashTable
    <3> QED
      BY <2>1, <3>1, <3>2
      DEF TablesInv, newHashTable, ObjectFits, LockFits, Holds, Owners
  <2> QED
    BY <2>1, <2>2 DEF SignatureIsTrue
<1>3. CASE Call
  <2>1. Next \/ Unchanged
    BY <1>3, CallSteps
  <2>2. Careful \/ UNCHANGED tables
    BY DEF serviceVars
  <2> QED
    BY <2>1, <2>2, TablesStep
<1>4. CASE UNCHANGED serviceVars
  BY <1>4, TablesStep DEF serviceVars
<1> QED
  BY <1>1, <1>2, <1>3, <1>4 DEF ServiceNext

LEMMA CarefulService ==
  ServiceSpec /\ [][Careful]_serviceVars => [](TablesInv /\ SignatureIsTrue)
<1>1. ServiceInit => TablesInv /\ SignatureIsTrue
  BY TablesAtFirst DEF ServiceInit, Init, SignatureIsTrue
<1>2. TablesInv /\ SignatureIsTrue /\ [ServiceNext]_serviceVars /\ [Careful]_serviceVars =>
        TablesInv' /\ SignatureIsTrue'
  BY ServiceTablesStep
<1> QED
  BY <1>1, <1>2, PTL DEF ServiceSpec

\* The same for the server and its clients, through restarts, failures and lost
\* answers.
THEOREM ServiceNeverCrashes == ServiceSpec /\ [][Careful]_serviceVars => []NeverCrashes
  BY CarefulService, TablesInvImplies, PTL

\* Unless one of the two mistakes bites, the server's two tables always agree.
THEOREM ServiceTablesAgree == ServiceSpec /\ [][Careful]_serviceVars => []TablesAgree
  BY CarefulService, TablesInvImplies, PTL

\* Unless one of the two mistakes bites, the lock that the server has just signed is held
\* in the mode that was signed, and nobody holds the row in another.
THEOREM ServiceSignatures == ServiceSpec /\ [][Careful]_serviceVars => []SignatureIsTrue
  BY CarefulService, PTL

\* The text of a signature is not the empty string of a refusal.
LEMMA TextIsNoRefusal ==
  ASSUME NEW k \in Key, NEW t \in Transaction, NEW r \in Row, NEW x \in BOOLEAN
  PROVE  SignatureText[<<k, lock_to_string(t, r, x)>>] # NO_SIGNATURE
<1> DEFINE Lock == {lock_to_string(a, b, c) : a \in Transaction, b \in Row, c \in BOOLEAN}
           sig == Ecdsa[<<k, lock_to_string(t, r, x)>>]
<1>1. <<k, lock_to_string(t, r, x)>> \in Key \X Lock
  OBVIOUS
<1>2. DOMAIN Ecdsa = Key \X Lock
  BY EcdsaAssumption
<1>3. SignatureText[<<k, lock_to_string(t, r, x)>>] = return_value(sig)
  BY <1>1, <1>2 DEF SignatureText
<1>4. SIGNATURE_SIZE \in Nat /\ SIGNATURE_SIZE >= 1
  BY HalfSizeAssumption DEF SIGNATURE_SIZE
<1>5. DOMAIN return_value(sig) = 1..SIGNATURE_SIZE
  BY DEF return_value
<1>6. 1 \in DOMAIN return_value(sig) /\ 1 \notin DOMAIN <<>>
  BY <1>4, <1>5
<1> QED
  BY <1>3, <1>6 DEF NO_SIGNATURE

\* A caller that waits and gets an answer without a signature has been refused.
LEMMA RefusalIsTrue ==
  ASSUME TablesInv, NEW t \in Transaction, NEW r \in Row, NEW x \in BOOLEAN, NEW way,
         way.wait, way.arrives, Running, Granted(t, r, x) \/ Refused(t, r, x),
         Careful,
         NEW job, job.wait_for_result = way.wait,
         LockResult(job, way).signature = NO_SIGNATURE
  PROVE  ~Registered(t)'
<1>1. ~Granted(t, r, x)
  <2> SUFFICES ASSUME Granted(t, r, x) PROVE FALSE
    OBVIOUS
  <2>1. signature' = Sign(t, r, x)
    BY DEF Granted, Upgrade, AddLock
  <2>2. signature' # Null
    BY <2>1, NullIsNothing
  <2> DEFINE text == Text(signature')
             granted == [signature |-> text, ok |-> TRUE]
  <2>3. text # NO_SIGNATURE
    BY <2>1, TextIsNoRefusal DEF Text, Sign, Running
  <2> HIDE DEF text
  <2>4. create_enclave_job(job, signature' = Null,
                           IF signature' = Null THEN unwritten ELSE Text(signature')) = granted
    BY <2>2 DEF create_enclave_job, text
  <2>5. LockResult(job, way) = granted
    BY <2>4 DEF LockResult, requestLock, Received, LockStatus
  <2> QED
    BY <2>3, <2>5
<1>2. CASE ~Registered(t) /\ Unchanged
  BY <1>2 DEF Unchanged, Registered, contains
<1>3. CASE Abort(t, r, x)
  <2>1. \A s \in Row : Holds(t, s) => CopiesRight(t, s)
    BY <1>3 DEF Careful
  <2> QED
    BY <1>3, <2>1, AbortEffect
<1> QED
  BY <1>1, <1>2, <1>3 DEF Refused

\* What RepliesAreTrue asks of a reply, whose command decides what it is about.
LEMMA TrueReply ==
  ASSUME NEW t, NEW r, NEW job, NEW returned,
         reply' = [job |-> job, result |-> returned],
         job.transaction_id = t, job.row_id = r,
         job.command \in {"REGISTER", "UNLOCK"} => returned.signature = NO_SIGNATURE,
         job.command = "REGISTER" =>
           Registered(t)' /\ (returned.ok => Tx(t)' = newTransaction(Budget[t])),
         job.command = "UNLOCK" => (returned.ok => ~Holds(t, r)'),
         job.command \notin {"REGISTER", "UNLOCK"} =>
           IF returned.signature # NO_SIGNATURE THEN Holds(t, r)' ELSE ~Registered(t)'
  PROVE  RepliesAreTrue'
<1>1. /\ reply'.job.transaction_id = t /\ reply'.job.row_id = r
      /\ reply'.job.command = job.command /\ reply'.result = returned
  OBVIOUS
<1>2. CASE job.command = "REGISTER"
  <2>1. job.command # "UNLOCK"
    BY <1>2
  <2> QED
    BY <1>1, <1>2, <2>1 DEF RepliesAreTrue, Registered, Tx, contains, get
<1>3. CASE job.command = "UNLOCK"
  <2>1. job.command # "REGISTER"
    BY <1>3
  <2> QED
    BY <1>1, <1>3, <2>1 DEF RepliesAreTrue
<1>4. CASE job.command \notin {"REGISTER", "UNLOCK"}
  BY <1>1, <1>4 DEF RepliesAreTrue
<1> QED
  BY <1>2, <1>3, <1>4

LEMMA RepliesStep ==
  ASSUME TablesInv, SignatureIsTrue, RepliesAreTrue,
         [ServiceNext]_serviceVars, [Careful]_serviceVars
  PROVE  RepliesAreTrue'
<1>1. ASSUME UNCHANGED <<transactionTable, reply>>
      PROVE  RepliesAreTrue'
  BY <1>1 DEF RepliesAreTrue, Registered, contains, Tx, get, Holds
<1>2. ASSUME reply' = Null
      PROVE  RepliesAreTrue'
  BY <1>2 DEF RepliesAreTrue
<1>3. TablesInv' /\ SignatureIsTrue'
  BY ServiceTablesStep
<1>4. CASE UNCHANGED serviceVars
  BY <1>1, <1>4 DEF serviceVars, tables
<1>5. ASSUME NEW t \in Transaction, NEW way, RegisterCall(t, way)
      PROVE  RepliesAreTrue'
  <2> SUFFICES ASSUME reply' # Null
               PROVE  RepliesAreTrue'
    BY <1>2
  <2> DEFINE job == Job("REGISTER", t, 0, TRUE)
             error == Registered(t)
             result == create_enclave_job(job, error, NO_SIGNATURE)
             returned == IF way.remote
               THEN registerTransaction(Received(RegisterTransaction(result), way.arrives))
               ELSE result
  <2>1. reply' = [job |-> job, result |-> returned]
    BY <1>5 DEF RegisterCall, Returns
  <2>2. /\ job.command = "REGISTER" /\ job.wait_for_result
        /\ job.transaction_id = t /\ job.row_id = 0
    BY DEF Job
  <2>3. returned.signature = NO_SIGNATURE /\ (returned.ok => ~error)
    BY <2>2 DEF create_enclave_job, registerTransaction, Received, RegisterTransaction
  <2>4. CASE error
    <3>1. transactionTable' = transactionTable
      BY <1>5, <2>4 DEF RegisterCall, Unchanged
    <3>2. Registered(t)'
      BY <2>4, <3>1 DEF Registered, contains
    <3> HIDE DEF job, returned
    <3> QED
      BY <2>1, <2>2, <2>3, <2>4, <3>2, TrueReply
  <2>5. CASE ~error
    <3>1. Register(t)
      BY <1>5, <2>5 DEF RegisterCall
    <3>2. Registered(t)' /\ Tx(t)' = newTransaction(Budget[t])
      BY <3>1, RegisterEffect
    <3> HIDE DEF job, returned
    <3> QED
      BY <2>1, <2>2, <2>3, <3>2, TrueReply
  <2> QED
    BY <2>4, <2>5
<1>6. ASSUME NEW t \in Transaction, NEW r \in Row, NEW way, UnlockCall(t, r, way), Careful
      PROVE  RepliesAreTrue'
  <2> SUFFICES ASSUME reply' # Null
               PROVE  RepliesAreTrue'
    BY <1>2
  <2> DEFINE job == Job("UNLOCK", t, r, way.wait)
             returned == requestUnlock(Received(UnlockStatus, way.arrives))
  <2>1. reply' = [job |-> job, result |-> returned] /\ returned.signature = NO_SIGNATURE
    BY <1>6 DEF UnlockCall, Returns, requestUnlock
  <2>2. job.command = "UNLOCK" /\ job.transaction_id = t /\ job.row_id = r
    BY DEF Job
  <2>3. ~Holds(t, r)'
    <3>1. CASE Registered(t) /\ get(lockTable, r) # Null
      <4>1. Unlock(t, r)
        BY <1>6, <3>1 DEF UnlockCall
      <4>2. Holds(t, r) => ComparesRight(t, r) /\ CopiesRight(t, r)
        BY <1>6, <4>1 DEF Careful
      <4> QED
        BY <4>1, <4>2, UnlockEffect
    <3>2. CASE ~(Registered(t) /\ get(lockTable, r) # Null)
      <4>1. transactionTable' = transactionTable
        BY <1>6, <3>2 DEF UnlockCall, Unchanged
      <4>2. ~Holds(t, r)
        BY <3>2 DEF Holds, TablesInv, Owners, get
      <4> QED
        BY <4>1, <4>2 DEF Holds, Registered, contains, Tx, get
    <3> QED
      BY <3>1, <3>2
  <2> HIDE DEF job, returned
  <2> QED
    BY <2>1, <2>2, <2>3, TrueReply
<1>7. ASSUME NEW t \in Transaction, NEW r \in Row, NEW x \in BOOLEAN, NEW way,
             LockCall(t, r, x, way), Careful
      PROVE  RepliesAreTrue'
  <2> SUFFICES ASSUME reply' # Null
               PROVE  RepliesAreTrue'
    BY <1>2
  <2> DEFINE command == IF x THEN "EXCLUSIVE" ELSE "SHARED"
             job == Job(command, t, r, way.wait)
             returned == LockResult(job, way)
  <2>1. reply' = [job |-> job, result |-> returned] /\ way.wait /\ way.arrives
    BY <1>7 DEF LockCall, Returns
  <2>2. /\ job.command \notin {"REGISTER", "UNLOCK"}
        /\ job.transaction_id = t /\ job.row_id = r /\ job.wait_for_result = way.wait
    BY DEF Job
  <2>3. Running /\ (Granted(t, r, x) \/ Refused(t, r, x))
    BY <1>7 DEF LockCall
  <2> HIDE DEF job
  <2>4. returned.signature # NO_SIGNATURE => Holds(t, r)'
    <3> SUFFICES ASSUME returned.signature # NO_SIGNATURE PROVE Holds(t, r)'
      OBVIOUS
    <3>1. signature' = Sign(t, r, x)
      BY <2>3, ResultIsSignature
    <3>2. signature' # Null /\ signature'.transaction_id = t /\ signature'.row_id = r
      BY <3>1, NullIsNothing DEF Sign
    <3> QED
      BY <1>3, <3>2 DEF SignatureIsTrue
  <2>5. returned.signature = NO_SIGNATURE => ~Registered(t)'
    BY <1>7, <2>1, <2>2, <2>3, RefusalIsTrue
  <2> HIDE DEF returned
  <2> QED
    BY <2>1, <2>2, <2>4, <2>5 DEF RepliesAreTrue
<1>8. CASE StartServer
  BY <1>1, <1>8 DEF StartServer, tables
<1>9. CASE StopServer
  BY <1>2, <1>9 DEF StopServer
<1>10. CASE Call /\ Careful
  BY <1>5, <1>6, <1>7, <1>10 DEF Call
<1> QED
  BY <1>4, <1>8, <1>9, <1>10 DEF ServiceNext

\* What a call returns through all layers (enclave.cpp, lockmanager.cpp, server.cpp and
\* client.cpp), direct or remote, waiting or not, with its answer lost or not, is what
\* happened to the tables, unless one of the two mistakes bites.
THEOREM ServiceReplies == ServiceSpec /\ [][Careful]_serviceVars => []RepliesAreTrue
<1>1. ServiceInit => RepliesAreTrue
  BY DEF ServiceInit, RepliesAreTrue
<1>2. TablesInv /\ SignatureIsTrue /\ RepliesAreTrue /\
        [ServiceNext]_serviceVars /\ [Careful]_serviceVars => RepliesAreTrue'
  BY RepliesStep
<1> QED
  BY <1>1, <1>2, CarefulService, PTL DEF ServiceSpec

-----------------------------------------------------------------------------
(* The tables implement TwoPhaseLocking: a step of them is one step of the  *)
(* abstract specification or leaves phase and held as they are:             *)
(*                                                                          *)
(*   Register(t)     Register(t)        AddLock(t, r, x)  Grant(t, r, mode) *)
(*   Upgrade(t, r)   Upgrade(t, r)      Abort(t, r, x)    End(t)            *)
(*   Unlock(t, r)    Release(t, r), or End(t) when nothing is left          *)

AbstractVars == <<[t \in Transaction |-> PhaseOf(t)],
                  [t \in Transaction |-> [r \in Row |-> ModeOf(t, r)]]>>

AbstractStep == Abstract!Next \/ UNCHANGED AbstractVars

LEMMA AsStutter ==
  ASSUME \A u \in Transaction : PhaseOf(u)' = PhaseOf(u),
         \A u \in Transaction, s \in Row : ModeOf(u, s)' = ModeOf(u, s)
  PROVE  AbstractStep
  BY DEF AbstractStep, AbstractVars

LEMMA AsRegister ==
  ASSUME NEW t \in Transaction, PhaseOf(t) = "none", PhaseOf(t)' = "growing",
         \A u \in Transaction : u # t => PhaseOf(u)' = PhaseOf(u),
         \A u \in Transaction, s \in Row : ModeOf(u, s)' = ModeOf(u, s)
  PROVE  AbstractStep
<1>1. Abstract!Register(t)
  BY DEF Abstract!Register
<1> QED
  BY <1>1 DEF AbstractStep, Abstract!Next

LEMMA AsGrant ==
  ASSUME NEW t \in Transaction, NEW r \in Row, NEW mode \in {"shared", "exclusive"},
         PhaseOf(t) = "growing", ModeOf(t, r) = "none",
         \A u \in Transaction : u # t /\ ModeOf(u, r) # "none" =>
           mode = "shared" /\ ModeOf(u, r) = "shared",
         ModeOf(t, r)' = mode,
         \A u \in Transaction : PhaseOf(u)' = PhaseOf(u),
         \A u \in Transaction, s \in Row : u # t \/ s # r => ModeOf(u, s)' = ModeOf(u, s)
  PROVE  AbstractStep
<1>1. Abstract!Agrees(t, r, mode)
  BY DEF Abstract!Agrees
<1>2. Abstract!Grant(t, r, mode)
  BY <1>1 DEF Abstract!Grant
<1> QED
  BY <1>2 DEF AbstractStep, Abstract!Next

LEMMA AsUpgrade ==
  ASSUME NEW t \in Transaction, NEW r \in Row,
         PhaseOf(t) = "growing", ModeOf(t, r) = "shared",
         \A u \in Transaction : u # t => ModeOf(u, r) = "none",
         ModeOf(t, r)' = "exclusive",
         \A u \in Transaction : PhaseOf(u)' = PhaseOf(u),
         \A u \in Transaction, s \in Row : u # t \/ s # r => ModeOf(u, s)' = ModeOf(u, s)
  PROVE  AbstractStep
<1>1. Abstract!Agrees(t, r, "exclusive")
  BY DEF Abstract!Agrees
<1>2. Abstract!Upgrade(t, r)
  BY <1>1 DEF Abstract!Upgrade
<1> QED
  BY <1>2 DEF AbstractStep, Abstract!Next

LEMMA AsRelease ==
  ASSUME NEW t \in Transaction, NEW r \in Row,
         ModeOf(t, r) # "none", ModeOf(t, r)' = "none", PhaseOf(t)' = "shrinking",
         \A u \in Transaction : u # t => PhaseOf(u)' = PhaseOf(u),
         \A u \in Transaction, s \in Row : u # t \/ s # r => ModeOf(u, s)' = ModeOf(u, s)
  PROVE  AbstractStep
<1>1. Abstract!Release(t, r)
  BY DEF Abstract!Release
<1> QED
  BY <1>1 DEF AbstractStep, Abstract!Next

LEMMA AsEnd ==
  ASSUME NEW t \in Transaction, PhaseOf(t) # "none", PhaseOf(t)' = "none",
         \A s \in Row : ModeOf(t, s)' = "none",
         \A u \in Transaction : u # t => PhaseOf(u)' = PhaseOf(u),
         \A u \in Transaction, s \in Row : u # t => ModeOf(u, s)' = ModeOf(u, s)
  PROVE  AbstractStep
<1>1. Abstract!End(t)
  BY DEF Abstract!End, Abstract!Nothing
<1> QED
  BY <1>1 DEF AbstractStep, Abstract!Next


\* What a step leaves of a transaction and of a lock is also left of its phase and
\* its mode.
LEMMA PhaseStays ==
  ASSUME NEW t \in Transaction, transactionTable'[t] = transactionTable[t]
  PROVE  PhaseOf(t)' = PhaseOf(t)
  BY DEF PhaseOf, Registered, contains, Tx, get

LEMMA ModeStays ==
  ASSUME NEW t \in Transaction, NEW r \in Row, Holds(t, r)' <=> Holds(t, r),
         Holds(t, r)' => (Exclusive(r)' <=> Exclusive(r))
  PROVE  ModeOf(t, r)' = ModeOf(t, r)
  BY DEF ModeOf

LEMMA StayAbstract ==
  ASSUME UNCHANGED <<transactionTable, lockTable>>
  PROVE  AbstractStep
<1>1. \A u \in Transaction : PhaseOf(u)' = PhaseOf(u)
  BY PhaseStays
<1>2. \A u \in Transaction, s \in Row :
        /\ Holds(u, s)' <=> Holds(u, s)
        /\ Exclusive(s)' <=> Exclusive(s)
  BY DEF Holds, Registered, contains, Tx, get, Exclusive
<1>3. \A u \in Transaction, s \in Row : ModeOf(u, s)' = ModeOf(u, s)
  BY <1>2, ModeStays
<1> QED
  BY <1>1, <1>3, AsStutter

LEMMA RegisterAbstract ==
  ASSUME TablesInv, NEW t \in Transaction, Register(t)
  PROVE  AbstractStep
<1>1. /\ HeldAsBefore
      /\ Registered(t)' /\ Tx(t)' = newTransaction(Budget[t])
      /\ \A u \in Transaction \ {t} : transactionTable'[u] = transactionTable[u]
  BY RegisterEffect
<1>2. PhaseOf(t) = "none"
  BY DEF Register, PhaseOf
<1>3. PhaseOf(t)' = "growing"
  <2>1. Tx(t)'.growing_phase
    BY <1>1 DEF newTransaction
  <2> QED
    BY <1>1, <2>1 DEF PhaseOf
<1>4. \A u \in Transaction : u # t => PhaseOf(u)' = PhaseOf(u)
  BY <1>1, PhaseStays
<1>5. \A u \in Transaction, s \in Row : ModeOf(u, s)' = ModeOf(u, s)
  BY <1>1, ModeStays DEF HeldAsBefore
<1> QED
  BY <1>2, <1>3, <1>4, <1>5, AsRegister

LEMMA UpgradeAbstract ==
  ASSUME TablesInv, NEW t \in Transaction, NEW r \in Row, Upgrade(t, r)
  PROVE  AbstractStep
<1>1. /\ transactionTable' = transactionTable
      /\ \A u \in Transaction, s \in Row : Holds(u, s)' <=> Holds(u, s)
      /\ \A s \in Row \ {r} : Exclusive(s)' <=> Exclusive(s)
      /\ Exclusive(r)' /\ ~Exclusive(r)
      /\ Registered(t) /\ Tx(t).growing_phase /\ Holds(t, r)
      /\ \A u \in Transaction \ {t} : ~Holds(u, r)
  BY UpgradeEffect
<1>2. PhaseOf(t) = "growing" /\ \A u \in Transaction : PhaseOf(u)' = PhaseOf(u)
  BY <1>1, PhaseStays DEF PhaseOf
<1>3. ModeOf(t, r) = "shared" /\ \A u \in Transaction : u # t => ModeOf(u, r) = "none"
  BY <1>1 DEF ModeOf
<1>4. ModeOf(t, r)' = "exclusive"
  BY <1>1 DEF ModeOf
<1>5. \A u \in Transaction, s \in Row : u # t \/ s # r => ModeOf(u, s)' = ModeOf(u, s)
  BY <1>1, ModeStays
<1> QED
  BY <1>2, <1>3, <1>4, <1>5, AsUpgrade

LEMMA AddLockAbstract ==
  ASSUME TablesInv, NEW t \in Transaction, NEW r \in Row, NEW x \in BOOLEAN, AddLock(t, r, x)
  PROVE  AbstractStep
<1> DEFINE mode == IF x THEN "exclusive" ELSE "shared"
<1>1. /\ \A u \in Transaction, s \in Row :
           Holds(u, s)' <=> Holds(u, s) \/ (u = t /\ s = r)
      /\ \A s \in Row \ {r} : Exclusive(s)' <=> Exclusive(s)
      /\ Exclusive(r)' <=> x
      /\ x => \A u \in Transaction : ~Holds(u, r)
      /\ ~Exclusive(r) /\ ~Holds(t, r)
      /\ Registered(t) /\ Registered(t)'
      /\ Tx(t).growing_phase /\ Tx(t)'.growing_phase
      /\ \A u \in Transaction \ {t} : transactionTable'[u] = transactionTable[u]
  BY AddLockEffect
<1>2. PhaseOf(t) = "growing" /\ PhaseOf(t)' = "growing"
  BY <1>1 DEF PhaseOf
<1>3. \A u \in Transaction : PhaseOf(u)' = PhaseOf(u)
  BY <1>1, <1>2, PhaseStays
<1>4. ModeOf(t, r) = "none"
  BY <1>1 DEF ModeOf
<1>5. \A u \in Transaction : u # t /\ ModeOf(u, r) # "none" =>
        mode = "shared" /\ ModeOf(u, r) = "shared"
  BY <1>1 DEF ModeOf
<1>6. ModeOf(t, r)' = mode
  BY <1>1 DEF ModeOf
<1>7. ASSUME NEW u \in Transaction, NEW s \in Row, u # t \/ s # r
      PROVE  ModeOf(u, s)' = ModeOf(u, s)
  <2>1. Holds(u, s)' <=> Holds(u, s)
    BY <1>1, <1>7
  <2>2. Holds(u, s) => (Exclusive(s)' <=> Exclusive(s))
    BY <1>1
  <2> QED
    BY <2>1, <2>2, ModeStays
<1>8. mode \in {"shared", "exclusive"}
  OBVIOUS
<1> HIDE DEF mode
<1> QED
  BY <1>2, <1>3, <1>4, <1>5, <1>6, <1>7, <1>8, AsGrant

LEMMA AbortAbstract ==
  ASSUME TablesInv, NEW t \in Transaction, NEW r \in Row, NEW x \in BOOLEAN, Abort(t, r, x),
         \A s \in Row : Holds(t, s) => CopiesRight(t, s)
  PROVE  AbstractStep
<1>1. /\ \A u \in Transaction, s \in Row : Holds(u, s)' <=> Holds(u, s) /\ u # t
      /\ \A u \in Transaction, s \in Row :
           Holds(u, s)' => (Exclusive(s)' <=> Exclusive(s))
      /\ Registered(t) /\ ~Registered(t)'
      /\ \A u \in Transaction \ {t} : transactionTable'[u] = transactionTable[u]
  BY AbortEffect
<1>2. PhaseOf(t) # "none" /\ PhaseOf(t)' = "none"
  BY <1>1 DEF PhaseOf
<1>3. \A s \in Row : ModeOf(t, s)' = "none"
  BY <1>1 DEF ModeOf
<1>4. \A u \in Transaction : u # t => PhaseOf(u)' = PhaseOf(u)
  BY <1>1, PhaseStays
<1>5. \A u \in Transaction, s \in Row : u # t => ModeOf(u, s)' = ModeOf(u, s)
  BY <1>1, ModeStays
<1> QED
  BY <1>2, <1>3, <1>4, <1>5, AsEnd

\* An unlock that takes the last row ends the transaction; if the transaction does not
\* hold the row, it ends only if it holds none.
LEMMA UnlockAbstract ==
  ASSUME TablesInv, NEW t \in Transaction, NEW r \in Row, Unlock(t, r),
         Holds(t, r) => ComparesRight(t, r) /\ CopiesRight(t, r)
  PROVE  AbstractStep
<1>1. /\ \A u \in Transaction, s \in Row :
           Holds(u, s)' <=> Holds(u, s) /\ ~(u = t /\ s = r)
      /\ \A u \in Transaction, s \in Row :
           Holds(u, s)' => (Exclusive(s)' <=> Exclusive(s))
      /\ Registered(t)
      /\ Registered(t)' => IF Holds(t, r) THEN ~Tx(t)'.growing_phase
                           ELSE transactionTable'[t] = transactionTable[t]
      /\ \A u \in Transaction \ {t} : transactionTable'[u] = transactionTable[u]
  BY UnlockEffect
<1>2. \A u \in Transaction : u # t => PhaseOf(u)' = PhaseOf(u)
  BY <1>1, PhaseStays
<1>3. \A u \in Transaction, s \in Row : u # t \/ s # r => ModeOf(u, s)' = ModeOf(u, s)
  BY <1>1, ModeStays
<1>4. ModeOf(t, r)' = "none"
  BY <1>1 DEF ModeOf
<1>5. CASE ~Registered(t)'
  <2>1. PhaseOf(t) # "none" /\ PhaseOf(t)' = "none"
    BY <1>1, <1>5 DEF PhaseOf
  <2>2. \A s \in Row : ModeOf(t, s)' = "none"
    BY <1>5 DEF ModeOf, Holds
  <2>3. \A u \in Transaction, s \in Row : u # t => ModeOf(u, s)' = ModeOf(u, s)
    BY <1>3
  <2> QED
    BY <1>2, <2>1, <2>2, <2>3, AsEnd
<1>6. CASE Registered(t)' /\ Holds(t, r)
  <2>1. PhaseOf(t)' = "shrinking"
    BY <1>1, <1>6 DEF PhaseOf
  <2>2. ModeOf(t, r) # "none"
    BY <1>6 DEF ModeOf
  <2> QED
    BY <1>2, <1>3, <1>4, <2>1, <2>2, AsRelease
<1>7. CASE Registered(t)' /\ ~Holds(t, r)
  <2>1. PhaseOf(t)' = PhaseOf(t)
    BY <1>1, <1>7, PhaseStays
  <2>2. ModeOf(t, r)' = ModeOf(t, r)
    BY <1>4, <1>7 DEF ModeOf
  <2>3. \A u \in Transaction : PhaseOf(u)' = PhaseOf(u)
    BY <1>2, <2>1
  <2>4. \A u \in Transaction, s \in Row : ModeOf(u, s)' = ModeOf(u, s)
    BY <1>3, <2>2
  <2> QED
    BY <2>3, <2>4, AsStutter
<1> QED
  BY <1>5, <1>6, <1>7

LEMMA TablesAbstract ==
  ASSUME TablesInv, (Next /\ Careful) \/ Unchanged \/ UNCHANGED tables
  PROVE  AbstractStep
<1>1. ASSUME NEW t \in Transaction, NEW r \in Row, NEW x \in BOOLEAN, Abort(t, r, x), Careful
      PROVE  AbstractStep
  <2>1. \A s \in Row : Holds(t, s) => CopiesRight(t, s)
    BY <1>1 DEF Careful
  <2> QED
    BY <1>1, <2>1, AbortAbstract
<1>2. ASSUME NEW t \in Transaction, NEW r \in Row, Unlock(t, r), Careful
      PROVE  AbstractStep
  <2>1. Holds(t, r) => ComparesRight(t, r) /\ CopiesRight(t, r)
    BY <1>2 DEF Careful
  <2> QED
    BY <1>2, <2>1, UnlockAbstract
<1>3. CASE Unchanged \/ UNCHANGED tables
  BY <1>3, StayAbstract DEF Unchanged, tables
<1> QED
  BY <1>1, <1>2, <1>3, RegisterAbstract, UpgradeAbstract, AddLockAbstract DEF Next

LEMMA EmptyAbstract ==
  ASSUME transactionTable = newHashTable(Transaction)
  PROVE  Abstract!Init
<1>1. \A t \in Transaction : ~Registered(t)
  BY DEF newHashTable, Registered, contains
<1>2. \A t \in Transaction, r \in Row : ~Holds(t, r)
  BY <1>1 DEF Holds
<1>3. /\ \A t \in Transaction : PhaseOf(t) = "none"
      /\ \A t \in Transaction, r \in Row : ModeOf(t, r) = "none"
  BY <1>1, <1>2 DEF PhaseOf, ModeOf
<1> QED
  BY <1>3 DEF Abstract!Init, Abstract!Nothing

\* The same after a step.
LEMMA EmptiedAbstract ==
  ASSUME transactionTable' = newHashTable(Transaction)
  PROVE  Abstract!Init'
<1>1. \A t \in Transaction : ~Registered(t)'
  BY DEF newHashTable, Registered, contains
<1>2. \A t \in Transaction, r \in Row : ~Holds(t, r)'
  BY <1>1 DEF Holds
<1>3. /\ \A t \in Transaction : PhaseOf(t)' = "none"
      /\ \A t \in Transaction, r \in Row : ModeOf(t, r)' = "none"
  BY <1>1, <1>2 DEF PhaseOf, ModeOf
<1> QED
  BY <1>3 DEF Abstract!Init, Abstract!Nothing

\* Unless one of the two mistakes bites, DemandPaging implements TwoPhaseLocking: its
\* requests register, grant, upgrade, release and end, and nothing else.
THEOREM CarefulTwoPhase == Spec /\ [][Careful]_vars => Abstract!Spec
<1>1. Init => Abstract!Init
  BY EmptyAbstract DEF Init
<1>2. TablesInv /\ [Next]_vars /\ [Careful]_vars => [Abstract!Next]_Abstract!vars
  <2> SUFFICES ASSUME TablesInv, [Next]_vars, [Careful]_vars
               PROVE  AbstractStep
    BY DEF AbstractStep, AbstractVars, Abstract!vars
  <2>1. (Next /\ Careful) \/ UNCHANGED tables
    BY DEF vars, tables
  <2> QED
    BY <2>1, TablesAbstract
<1> QED
  BY <1>1, <1>2, CarefulTables, PTL DEF Spec, Abstract!Spec

LEMMA ServiceAbstract ==
  ASSUME TablesInv, [ServiceNext]_serviceVars, [Careful]_serviceVars
  PROVE  AbstractStep \/ (Stop /\ Abstract!Init')
<1>1. CASE StartServer
  BY <1>1, TablesAbstract DEF StartServer
<1>2. CASE StopServer
  BY <1>2, EmptiedAbstract DEF StopServer
<1>3. CASE Call
  <2>1. Next \/ Unchanged
    BY <1>3, CallSteps
  <2>2. Careful \/ UNCHANGED tables
    BY DEF serviceVars
  <2> QED
    BY <2>1, <2>2, TablesAbstract
<1>4. CASE UNCHANGED serviceVars
  BY <1>4, TablesAbstract DEF serviceVars
<1> QED
  BY <1>1, <1>2, <1>3, <1>4 DEF ServiceNext

\* The server implements two-phase locking between its stops, whatever its clients call
\* and however, unless one of the two mistakes bites.
THEOREM ServiceTwoPhase == ServiceSpec /\ [][Careful]_serviceVars => TwoPhaseUntilStop
<1>1. ServiceInit => Abstract!Init
  BY EmptyAbstract DEF ServiceInit, Init
<1>2. TablesInv /\ [ServiceNext]_serviceVars /\ [Careful]_serviceVars =>
        [Abstract!Next \/ (Stop /\ Abstract!Init')]_Abstract!vars
  BY ServiceAbstract DEF AbstractStep, AbstractVars, Abstract!vars
<1> QED
  BY <1>1, <1>2, CarefulService, PTL DEF ServiceSpec, TwoPhaseUntilStop

-----------------------------------------------------------------------------
(* The instance that TLC checks is too small for the two mistakes, and so   *)
(* are two clients that take one lock each, on whatever row: nothing has to *)
(* be assumed of their behaviours.                                          *)

LEMMA OneLockAtFirst ==
  ASSUME transactionTable = newHashTable(Transaction)
  PROVE  OneLockInv
  BY DEF OneLockInv, newHashTable, Registered, contains

LEMMA ServiceOneLockStep ==
  ASSUME TablesInv, BudgetInv, OneLockInv, Careful, [ServiceNext]_serviceVars
  PROVE  OneLockInv'
<1>1. CASE StartServer
  BY <1>1, OneLockStep DEF StartServer, tables
<1>2. CASE StopServer
  <2>1. transactionTable' = newHashTable(Transaction)
    BY <1>2 DEF StopServer
  <2> QED
    BY <2>1 DEF OneLockInv, newHashTable, Registered, contains
<1>3. CASE Call
  <2>1. Next \/ Unchanged
    BY <1>3, CallSteps
  <2> QED
    BY <2>1, OneLockStep DEF Unchanged
<1>4. CASE UNCHANGED serviceVars
  BY <1>4, OneLockStep DEF serviceVars, tables
<1> QED
  BY <1>1, <1>2, <1>3, <1>4 DEF ServiceNext

LEMMA SmallServiceIsCareful ==
  ASSUME TooSmallForMistakes
  PROVE  ServiceSpec => [][Careful]_serviceVars
<1> DEFINE SmallInv == TablesInv /\ SignatureIsTrue /\ BudgetInv /\ OneLockInv
<1>1. ServiceInit => SmallInv
  BY TablesAtFirst, BudgetAtFirst, OneLockAtFirst DEF ServiceInit, Init, SignatureIsTrue
<1>2. SmallInv => Careful
  BY SmallIsCareful
<1>3. SmallInv /\ [ServiceNext]_serviceVars => SmallInv'
  BY <1>2, ServiceTablesStep, ServiceBudgetStep, ServiceOneLockStep
<1>4. SmallInv /\ [ServiceNext]_serviceVars => [Careful]_serviceVars
  BY <1>2
<1> QED
  BY <1>1, <1>3, <1>4, PTL DEF ServiceSpec

\* When it is too small for the mistakes the walk of an abort (abort_transaction) finds a
\* lock for every row, whatever the clients call and however often the server restarts.
THEOREM SmallServiceNeverCrashes ==
  ASSUME TooSmallForMistakes
  PROVE  ServiceSpec => []NeverCrashes
  BY SmallServiceIsCareful, ServiceNeverCrashes, PTL

\* When it is too small for the mistakes locked_rows (transaction.cpp) and owners
\* (lock.cpp) always say the same.
THEOREM SmallServiceTablesAgree ==
  ASSUME TooSmallForMistakes
  PROVE  ServiceSpec => []TablesAgree
  BY SmallServiceIsCareful, ServiceTablesAgree, PTL

\* When it is too small for the mistakes what acquire_lock signs is true.
THEOREM SmallServiceSignatures ==
  ASSUME TooSmallForMistakes
  PROVE  ServiceSpec => []SignatureIsTrue
  BY SmallServiceIsCareful, ServiceSignatures, PTL

\* When it is too small for the mistakes what a call returns through all layers is what
\* happened to the tables.
THEOREM SmallServiceReplies ==
  ASSUME TooSmallForMistakes
  PROVE  ServiceSpec => []RepliesAreTrue
  BY SmallServiceIsCareful, ServiceReplies, PTL

\* When it is too small for the mistakes the server implements two-phase locking between
\* its stops.
THEOREM SmallServiceTwoPhase ==
  ASSUME TooSmallForMistakes
  PROVE  ServiceSpec => TwoPhaseUntilStop
  BY SmallServiceIsCareful, ServiceTwoPhase, PTL
=============================================================================
