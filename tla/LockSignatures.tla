--------------------------- MODULE LockSignatures ---------------------------
(***************************************************************************)
(* lock_signatures.cpp: what is signed of a lock, the text a client        *)
(* receives as its signature, and how such a text is verified.             *)
(***************************************************************************)
EXTENDS Base64

CONSTANTS
  HalfSize,  \* the bytes of one of the two numbers of a signature; 32 in the code
  Ecdsa      \* what sgx_ecdsa_sign returns, a function of the key and the message

ASSUME HalfSizeAssumption == HalfSize \in Nat \ {0}

Half == [1..HalfSize -> Octet]

get_block_timeout == 0

\* "1_2_S_0"
lock_to_string(transactionId, rowId, isExclusive) ==
  <<transactionId, rowId, IF isExclusive THEN "X" ELSE "S", get_block_timeout>>

encoded_signature(sig) == base64_encode(sig.x) \o <<Dash>> \o base64_encode(sig.y)

SIGNATURE_SIZE == 2 * (4 * ((HalfSize + 2) \div 3)) + 1

\* The worker copies this many characters to the caller, and the caller to the
\* string it returns.
return_value(sig) == [p \in 1..SIGNATURE_SIZE |-> encoded_signature(sig)[p]]

DashAt(text, p) == text[p] = Dash /\ \A q \in 1..(p - 1) : text[q] # Dash

\* Fault: the halves are exchanged.
Reversed(text) ==
  LET p == CHOOSE q \in 1..Len(text) : DashAt(text, q)
  IN [x |-> SubSeq(text, p + 1, Len(text)), y |-> SubSeq(text, 1, p - 1)]

\* Without a dash both halves are the whole text, as npos + 1 is 0.
Halves(text) ==
  IF \A p \in 1..Len(text) : text[p] # Dash THEN [x |-> text, y |-> text]
  ELSE LET p == CHOOSE q \in 1..Len(text) : DashAt(text, q)
       IN [x |-> SubSeq(text, 1, p - 1), y |-> SubSeq(text, p + 1, Len(text))]

\* memcpy takes as many bytes as a number has; a shorter text is not a signature.
Number(text) == [i \in 1..HalfSize |-> base64_decode(text)[i]]

\* A signature is valid if signing that message with that key gives it.
verify(key_pair, message, sig) == sig = Ecdsa[<<key_pair, message>>]

verify_signature(key_pair, signature_string, transactionId, rowId, isExclusive) ==
  verify(key_pair, lock_to_string(transactionId, rowId, isExclusive),
         [x |-> Number(Halves(signature_string).x), y |-> Number(Halves(signature_string).y)])
=============================================================================
