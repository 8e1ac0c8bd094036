------------------------- MODULE OutOfEnclave_proofs -------------------------
(***************************************************************************)
(* Theorems about OutOfEnclave, for any number of clients, transactions,   *)
(* rows and buckets, any budgets, any room for owners and any queue.       *)
(***************************************************************************)
EXTENDS OutOfEnclave, FiniteSetTheorems, SequenceTheorems,
  WellFoundedInduction, TLAPS

-----------------------------------------------------------------------------
(* Sequences                                                               *)

\* What is behind the position that is removed moves up by one.
LEMMA RemoveAtProperties ==
  ASSUME NEW S, NEW seq \in Seq(S), NEW i \in 1..Len(seq)
  PROVE  /\ RemoveAt(seq, i) \in Seq(S)
         /\ Len(RemoveAt(seq, i)) = Len(seq) - 1
         /\ \A k \in 1..(Len(seq) - 1) :
              RemoveAt(seq, i)[k] = IF k < i THEN seq[k] ELSE seq[k + 1]
<1> DEFINE n == Len(seq)
           head == SubSeq(seq, 1, i - 1)
           tail == SubSeq(seq, i + 1, n)
<1>1. n \in Nat /\ i \in Nat /\ i >= 1 /\ i <= n
  BY LenProperties
<1>2. /\ head \in Seq(S) /\ Len(head) = i - 1
      /\ \A k \in 1..(i - 1) : head[k] = seq[k]
  BY <1>1
<1>3. /\ tail \in Seq(S) /\ Len(tail) = n - i
      /\ \A k \in 1..(n - i) : tail[k] = seq[i + k]
  BY <1>1
<1>4. RemoveAt(seq, i) = head \o tail
  BY DEF RemoveAt
<1> HIDE DEF head, tail
<1>5. /\ head \o tail \in Seq(S) /\ Len(head \o tail) = Len(head) + Len(tail)
      /\ \A k \in 1..(Len(head) + Len(tail)) : (head \o tail)[k] =
           IF k <= Len(head) THEN head[k] ELSE tail[k - Len(head)]
  BY <1>2, <1>3, ConcatProperties, Zenon
<1> DEFINE whole == head \o tail
<1> HIDE DEF whole
<1>6. Len(whole) = n - 1
  BY <1>1, <1>2, <1>3, <1>5 DEF whole
<1>7. ASSUME NEW k \in 1..(n - 1)
      PROVE  whole[k] = IF k < i THEN seq[k] ELSE seq[k + 1]
  <2>1. whole[k] = IF k <= i - 1 THEN head[k] ELSE tail[k - (i - 1)]
    BY <1>1, <1>2, <1>3, <1>5 DEF whole
  <2>2. CASE k < i
    BY <1>1, <1>2, <2>1, <2>2
  <2>3. CASE ~(k < i)
    <3> DEFINE j == k - (i - 1)
    <3>1. j \in 1..(n - i) /\ i + j = k + 1 /\ ~(k <= i - 1)
      BY <1>1, <2>3
    <3> HIDE DEF j
    <3>2. whole[k] = tail[j]
      BY <2>1, <3>1 DEF j
    <3> QED
      BY <1>3, <2>3, <3>1, <3>2
  <2> QED
    BY <2>2, <2>3
<1>8. whole \in Seq(S)
  BY <1>5 DEF whole
<1> QED
  BY <1>4, <1>6, <1>7, <1>8 DEF whole

\* Where x is first found in a sequence, and what is left without it.
FirstOf(seq, x, i) ==
  /\ i \in 1..Len(seq) /\ seq[i] = x
  /\ \A k \in 1..Len(seq) : seq[k] = x => i <= k

\* A set of natural numbers has a least element.
LEMMA LeastExists ==
  ASSUME NEW T \in SUBSET Nat, T # {}
  PROVE  \E m \in T : \A k \in T : m <= k
<1> DEFINE R == OpToRel(<, Nat)
<1>1. IsWellFoundedOn(R, Nat)
  BY NatLessThanWellFounded
<1>2. \A x, y \in Nat : x < y => <<x, y>> \in R
  BY DEF OpToRel
<1> HIDE DEF R
<1>3. PICK m \in T : \A k \in T : ~(<<k, m>> \in R)
  BY <1>1, WFMin
<1>4. \A k \in T : m <= k
  <2> SUFFICES ASSUME NEW k \in T
               PROVE  m <= k
    OBVIOUS
  <2>1. k \in Nat /\ m \in Nat /\ ~(k < m)
    BY <1>2, <1>3
  <2> QED
    BY <2>1
<1> QED
  BY <1>4

LEMMA FirstExists ==
  ASSUME NEW S, NEW seq \in Seq(S), NEW x \in Range(seq)
  PROVE  \E i \in 1..Len(seq) : FirstOf(seq, x, i)
<1> DEFINE At == {k \in 1..Len(seq) : seq[k] = x}
<1>1. Len(seq) \in Nat /\ DOMAIN seq = 1..Len(seq)
  BY LenProperties
<1>2. At # {}
  BY <1>1 DEF Range
<1>3. \E m \in At : \A k \in At : m <= k
  <2> HIDE DEF At
  <2>1. At \subseteq Nat
    BY <1>1 DEF At
  <2> QED
    BY <1>2, <2>1, LeastExists
<1> QED
  BY <1>3 DEF FirstOf

LEMMA WithoutProperties ==
  ASSUME NEW S, NEW seq \in Seq(S), NEW x \in Range(seq)
  PROVE  \E i \in 1..Len(seq) : FirstOf(seq, x, i) /\ Without(seq, x) = RemoveAt(seq, i)
<1>1. DOMAIN seq = 1..Len(seq)
  BY LenProperties
<1>2. PICK i \in 1..Len(seq) : FirstOf(seq, x, i)
  BY FirstExists
<1>3. ASSUME NEW j \in 1..Len(seq), FirstOf(seq, x, j)
      PROVE  j = i
  BY <1>2, <1>3 DEF FirstOf
<1>4. (CHOOSE j \in DOMAIN seq :
         seq[j] = x /\ \A k \in DOMAIN seq : seq[k] = x => j <= k) = i
  BY <1>1, <1>2, <1>3 DEF FirstOf
<1> QED
  BY <1>2, <1>4 DEF Without

-----------------------------------------------------------------------------
(* How often a sequence has an element                                     *)

Occurrences(x, seq) == {i \in DOMAIN seq : seq[i] = x}

LEMMA TimesType ==
  ASSUME NEW S, NEW seq \in Seq(S), NEW x
  PROVE  /\ IsFiniteSet(Occurrences(x, seq))
         /\ Times(x, seq) = Cardinality(Occurrences(x, seq))
         /\ Times(x, seq) \in Nat
         /\ Times(x, seq) > 0 <=> x \in Range(seq)
<1>1. Len(seq) \in Nat /\ DOMAIN seq = 1..Len(seq)
  BY LenProperties
<1>2. IsFiniteSet(1..Len(seq))
  BY <1>1, 1 \in Int, Len(seq) \in Int, FS_Interval
<1>3. IsFiniteSet(Occurrences(x, seq))
  BY <1>1, <1>2, FS_Subset DEF Occurrences
<1>4. Times(x, seq) = Cardinality(Occurrences(x, seq))
  BY DEF Times, Occurrences
<1>5. Times(x, seq) \in Nat
  BY <1>3, <1>4, FS_CardinalityType
<1>6. Times(x, seq) = 0 <=> Occurrences(x, seq) = {}
  BY <1>3, <1>4, FS_EmptySet
<1>7. Occurrences(x, seq) = {} <=> x \notin Range(seq)
  BY DEF Occurrences, Range
<1> QED
  BY <1>3, <1>4, <1>5, <1>6, <1>7

LEMMA TimesEmpty ==
  ASSUME NEW x
  PROVE  Times(x, <<>>) = 0
<1>1. {i \in DOMAIN <<>> : <<>>[i] = x} = {}
  OBVIOUS
<1> QED
  BY <1>1, FS_EmptySet DEF Times

LEMMA TimesAppend ==
  ASSUME NEW S, NEW seq \in Seq(S), NEW x, NEW y \in S
  PROVE  Times(x, Append(seq, y)) = Times(x, seq) + (IF x = y THEN 1 ELSE 0)
<1> DEFINE n == Len(seq)
           longer == Append(seq, y)
<1>1. n \in Nat /\ DOMAIN seq = 1..n
  BY LenProperties
<1>2. /\ longer \in Seq(S) /\ Len(longer) = n + 1
      /\ \A i \in 1..n : longer[i] = seq[i]
      /\ longer[n + 1] = y
  BY AppendProperties
<1>3. DOMAIN longer = 1..(n + 1)
  BY <1>2, LenProperties
<1> HIDE DEF longer, n
<1>4. n + 1 \notin Occurrences(x, seq)
  BY <1>1 DEF Occurrences
<1>5. Occurrences(x, longer) =
        IF x = y THEN Occurrences(x, seq) \cup {n + 1} ELSE Occurrences(x, seq)
  BY <1>1, <1>2, <1>3 DEF Occurrences
<1>6. /\ IsFiniteSet(Occurrences(x, seq)) /\ Times(x, seq) \in Nat
      /\ Times(x, seq) = Cardinality(Occurrences(x, seq))
  BY TimesType
<1>7. Times(x, longer) = Cardinality(Occurrences(x, longer))
  BY <1>2, TimesType
<1>8. CASE x = y
  <2>1. Cardinality(Occurrences(x, seq) \cup {n + 1}) = Cardinality(Occurrences(x, seq)) + 1
    BY <1>4, <1>6, FS_AddElement
  <2>2. Times(x, longer) = Times(x, seq) + 1
    BY <1>5, <1>6, <1>7, <1>8, <2>1
  <2> QED
    BY <1>8, <2>2 DEF longer
<1>9. CASE x # y
  BY <1>5, <1>6, <1>7, <1>9 DEF longer
<1> QED
  BY <1>8, <1>9

LEMMA TimesRemoveAt ==
  ASSUME NEW S, NEW seq \in Seq(S), NEW x, NEW i \in 1..Len(seq)
  PROVE  Times(x, RemoveAt(seq, i)) = Times(x, seq) - (IF x = seq[i] THEN 1 ELSE 0)
<1> DEFINE n == Len(seq)
           shorter == RemoveAt(seq, i)
           From(k) == IF k < i THEN k ELSE k + 1
           Left == Occurrences(x, shorter)
           Others == Occurrences(x, seq) \ {i}
<1>1. n \in Nat /\ DOMAIN seq = 1..n /\ i \in 1..n
  BY LenProperties
<1>2. /\ shorter \in Seq(S) /\ Len(shorter) = n - 1
      /\ \A k \in 1..(n - 1) : shorter[k] = seq[From(k)]
  BY RemoveAtProperties
<1>3. DOMAIN shorter = 1..(n - 1)
  BY <1>2, LenProperties
<1> HIDE DEF shorter, n
<1> DEFINE f == [k \in Left |-> From(k)]
<1>4. \A k \in Left : From(k) \in Others
  BY <1>1, <1>2, <1>3 DEF Occurrences
<1>5. \A k, m \in Left : From(k) = From(m) => k = m
  BY <1>1, <1>3 DEF Occurrences
<1>6. ASSUME NEW m \in Others
      PROVE  \E k \in Left : From(k) = m
  <2>1. m \in 1..n /\ m # i /\ seq[m] = x
    BY <1>1 DEF Occurrences
  <2>2. CASE m < i
    <3>1. m \in 1..(n - 1) /\ From(m) = m
      BY <1>1, <2>1, <2>2
    <3> QED
      BY <1>2, <1>3, <2>1, <3>1 DEF Occurrences
  <2>3. CASE m > i
    <3>1. m - 1 \in 1..(n - 1) /\ From(m - 1) = m
      BY <1>1, <2>1, <2>3
    <3> QED
      BY <1>2, <1>3, <2>1, <3>1 DEF Occurrences
  <2> QED
    BY <1>1, <2>1, <2>2, <2>3
<1> HIDE DEF Left, Others, From
<1>7. f \in [Left -> Others] /\ \A k \in Left : f[k] = From(k)
  BY <1>4
<1> HIDE DEF f
<1>8. f \in Bijection(Left, Others)
  BY <1>5, <1>6, <1>7 DEF Bijection, Injection, Surjection, IsInjective
<1>9. ExistsBijection(Left, Others)
  BY <1>8 DEF ExistsBijection
<1>10. /\ IsFiniteSet(Occurrences(x, seq)) /\ Times(x, seq) \in Nat
       /\ Times(x, seq) = Cardinality(Occurrences(x, seq))
  BY TimesType
<1>11. IsFiniteSet(Left) /\ Times(x, shorter) = Cardinality(Left)
  BY <1>2, TimesType DEF Left
<1>12. Cardinality(Others) = Cardinality(Left)
  BY <1>9, <1>11, FS_Bijection
<1>13. Cardinality(Others) = IF i \in Occurrences(x, seq) THEN Cardinality(Occurrences(x, seq)) - 1
                             ELSE Cardinality(Occurrences(x, seq))
  BY <1>10, FS_RemoveElement DEF Others
<1>14. i \in Occurrences(x, seq) <=> x = seq[i]
  BY <1>1 DEF Occurrences
<1>15. CASE x = seq[i]
  BY <1>10, <1>11, <1>12, <1>13, <1>14, <1>15 DEF shorter
<1>16. CASE x # seq[i]
  BY <1>10, <1>11, <1>12, <1>13, <1>14, <1>16 DEF shorter
<1> QED
  BY <1>15, <1>16

LEMMA TimesWithout ==
  ASSUME NEW S, NEW seq \in Seq(S), NEW x, NEW y \in Range(seq)
  PROVE  /\ Without(seq, y) \in Seq(S)
         /\ Len(Without(seq, y)) = Len(seq) - 1
         /\ Times(x, Without(seq, y)) = Times(x, seq) - (IF x = y THEN 1 ELSE 0)
<1>1. PICK i \in 1..Len(seq) : FirstOf(seq, y, i) /\ Without(seq, y) = RemoveAt(seq, i)
  BY WithoutProperties
<1>2. seq[i] = y
  BY <1>1 DEF FirstOf
<1> QED
  BY <1>1, <1>2, RemoveAtProperties, TimesRemoveAt

-----------------------------------------------------------------------------
(* The words of a copy                                                     *)

LEMMA SizeType == sizeOfSerializedLockEntry \in Nat /\ sizeOfSerializedLockEntry >= 4
  BY RoomAssumption DEF sizeOfSerializedLockEntry

\* Smaller factors, smaller products.
LEMMA Products ==
  ASSUME NEW s \in Nat, NEW a \in Int, NEW b \in Int, a <= b
  PROVE  a * s <= b * s
<1>1. (b - a) * s >= 0
  OBVIOUS
<1>2. b * s = a * s + (b - a) * s
  OBVIOUS
<1> QED
  BY <1>1, <1>2

\* Field f of entry q, both counted from 0.
LEMMA Division ==
  ASSUME NEW s \in Nat \ {0}, NEW q \in Nat, NEW f \in 0..(s - 1)
  PROVE  (q * s + f) \div s = q /\ (q * s + f) % s = f
<1> DEFINE w == q * s + f
           d == w \div s
           m == w % s
<1>1. w \in Nat /\ q * s \in Nat
  OBVIOUS
<1> HIDE DEF w
<1>2. d \in Int /\ m \in 0..(s - 1) /\ w = s * d + m
  BY <1>1
<1> HIDE DEF d, m
<1>3. q * s + f = d * s + m
  BY <1>2 DEF w
<1>4. ~(d >= q + 1)
  <2> SUFFICES ASSUME q + 1 <= d
               PROVE  FALSE
    BY <1>2
  <2>1. (q + 1) * s <= d * s
    BY <1>2, Products
  <2>2. (q + 1) * s = q * s + s
    OBVIOUS
  <2> QED
    BY <1>1, <1>2, <1>3, <2>1, <2>2
<1>5. ~(d <= q - 1)
  <2> SUFFICES ASSUME d <= q - 1
               PROVE  FALSE
    OBVIOUS
  <2>1. d * s <= (q - 1) * s
    BY <1>2, Products
  <2>2. (q - 1) * s = q * s - s
    OBVIOUS
  <2> QED
    BY <1>1, <1>2, <1>3, <2>1, <2>2
<1>6. d = q
  BY <1>2, <1>4, <1>5
<1>7. m = f
  BY <1>1, <1>2, <1>3, <1>6
<1> QED
  BY <1>6, <1>7 DEF d, m, w

\* Each word is a field of an entry.
LEMMA WordsAreFields ==
  ASSUME NEW n \in Nat, NEW w \in Entries(n)
  PROVE  /\ w \in Nat
         /\ w \div sizeOfSerializedLockEntry \in 0..(n - 1)
         /\ w % sizeOfSerializedLockEntry \in 0..(sizeOfSerializedLockEntry - 1)
         /\ w = (w \div sizeOfSerializedLockEntry) * sizeOfSerializedLockEntry
                + (w % sizeOfSerializedLockEntry)
<1> DEFINE s == sizeOfSerializedLockEntry
           d == w \div s
           m == w % s
<1>1. s \in Nat /\ s >= 4
  BY SizeType
<1> HIDE DEF s
<1>2. n * s \in Nat
  BY <1>1
<1>3. w \in Nat /\ w < n * s
  BY <1>1, <1>2 DEF Entries, s
<1>4. d \in Int /\ d >= 0 /\ m \in 0..(s - 1) /\ w = s * d + m
  BY <1>1, <1>3
<1> HIDE DEF d, m
<1>5. w = d * s + m
  BY <1>1, <1>4
<1>6. d < n
  <2> SUFFICES ASSUME n <= d
               PROVE  FALSE
    BY <1>4
  <2>1. n * s <= d * s
    BY <1>1, <1>4, Products
  <2> QED
    BY <1>1, <1>2, <1>3, <1>4, <1>5, <2>1
<1> QED
  BY <1>3, <1>4, <1>5, <1>6 DEF d, m, s

\* A field of an entry is a word.
LEMMA FieldsAreWords ==
  ASSUME NEW n \in Nat, NEW q \in 0..(n - 1),
         NEW f \in 0..(sizeOfSerializedLockEntry - 1)
  PROVE  /\ q * sizeOfSerializedLockEntry + f \in Entries(n)
         /\ q * sizeOfSerializedLockEntry \in Nat
         /\ (q * sizeOfSerializedLockEntry + f) \div sizeOfSerializedLockEntry = q
         /\ (q * sizeOfSerializedLockEntry + f) % sizeOfSerializedLockEntry = f
<1> DEFINE s == sizeOfSerializedLockEntry
<1>1. s \in Nat \ {0}
  BY SizeType
<1> HIDE DEF s
<1>2. q * s \in Nat /\ q * s <= (n - 1) * s
  BY <1>1, Products
<1>3. (n - 1) * s = n * s - s /\ n * s \in Nat
  BY <1>1
<1>4. f \in 0..(s - 1)
  BY DEF s
<1>5. q * s + f \in 0..(n * s - 1)
  BY <1>1, <1>2, <1>3, <1>4
<1>6. (q * s + f) \div s = q /\ (q * s + f) % s = f
  BY <1>1, <1>4, Division
<1> QED
  BY <1>2, <1>5, <1>6 DEF Entries, s

\* Word f of entry q.
Word(q, f) == q * sizeOfSerializedLockEntry + f

Fields == 0..(sizeOfSerializedLockEntry - 1)

LEMMA SameWord ==
  ASSUME NEW n \in Nat, NEW q \in 0..(n - 1), NEW f \in Fields,
         NEW p \in 0..(n - 1), NEW g \in Fields
  PROVE  Word(q, f) = Word(p, g) <=> q = p /\ f = g
<1>1. /\ Word(q, f) \div sizeOfSerializedLockEntry = q
      /\ Word(q, f) % sizeOfSerializedLockEntry = f
  BY FieldsAreWords DEF Word, Fields
<1>2. /\ Word(p, g) \div sizeOfSerializedLockEntry = p
      /\ Word(p, g) % sizeOfSerializedLockEntry = g
  BY FieldsAreWords DEF Word, Fields
<1> QED
  BY <1>1, <1>2

LEMMA EveryWord ==
  ASSUME NEW n \in Nat, NEW w \in Entries(n)
  PROVE  \E q \in 0..(n - 1), f \in Fields : w = Word(q, f)
  BY WordsAreFields DEF Word, Fields

Copy(locks) == locktable_bucket_to_uint32_t(locks)

LEMMA CopiedWord ==
  ASSUME NEW S, NEW locks \in Seq(S), NEW q \in 0..(Len(locks) - 1), NEW f \in Fields
  PROVE  /\ Word(q, f) \in Entries(Len(locks))
         /\ Copy(locks)[Word(q, f)] = Field(locks[q + 1], f)
<1>1. Len(locks) \in Nat
  BY LenProperties
<1>2. /\ Word(q, f) \in Entries(Len(locks))
      /\ Word(q, f) \div sizeOfSerializedLockEntry = q
      /\ Word(q, f) % sizeOfSerializedLockEntry = f
  BY <1>1, FieldsAreWords DEF Word, Fields
<1> QED
  BY <1>2 DEF Copy, locktable_bucket_to_uint32_t

RowsOnce(locks) ==
  \A i, j \in DOMAIN locks : locks[i].row = locks[j].row => i = j

\* The entry of a row is found where the lock is in the list.
LEMMA EntryOfRow ==
  ASSUME NEW S, NEW locks \in Seq(S), RowsOnce(locks), NEW p \in DOMAIN locks
  PROVE  /\ EntryOf(Copy(locks), locks[p].row) = Word(p - 1, 0)
         /\ p - 1 \in 0..(Len(locks) - 1)
<1> DEFINE n == Len(locks)
           Is(i) == i % sizeOfSerializedLockEntry = 0 /\ Copy(locks)[i] = locks[p].row
<1>1. n \in Nat /\ DOMAIN locks = 1..n /\ p \in 1..n /\ p - 1 \in 0..(n - 1)
  BY LenProperties
<1>2. DOMAIN Copy(locks) = Entries(n)
  BY DEF Copy, locktable_bucket_to_uint32_t
<1>3. 0 \in Fields /\ \A lock : Field(lock, 0) = lock.row
  BY SizeType DEF Fields, Field
<1>4. /\ Word(p - 1, 0) \in Entries(n)
      /\ Copy(locks)[Word(p - 1, 0)] = Field(locks[p - 1 + 1], 0)
  BY <1>1, <1>3, CopiedWord
<1>5. Word(p - 1, 0) % sizeOfSerializedLockEntry = 0
  BY <1>1, <1>3, FieldsAreWords DEF Word, Fields
<1>6. Is(Word(p - 1, 0))
  BY <1>1, <1>3, <1>4, <1>5
<1>7. ASSUME NEW i \in Entries(n), Is(i)
      PROVE  i = Word(p - 1, 0)
  <2>1. PICK q \in 0..(n - 1), f \in Fields : i = Word(q, f)
    BY <1>1, EveryWord
  <2>2. i % sizeOfSerializedLockEntry = f
    BY <1>1, <2>1, FieldsAreWords DEF Word, Fields
  <2>3. f = 0
    BY <1>7, <2>2
  <2>4. Copy(locks)[i] = locks[q + 1].row
    BY <1>1, <1>3, <2>1, <2>3, CopiedWord
  <2>5. q + 1 = p
    <3>1. q + 1 \in 1..n
      BY <1>1
    <3> QED
      BY <1>1, <1>7, <2>4, <3>1 DEF RowsOnce
  <2> QED
    BY <1>1, <2>1, <2>3, <2>5
<1> HIDE DEF Is, n
<1>8. (CHOOSE i \in Entries(n) : Is(i)) = Word(p - 1, 0)
  BY <1>4, <1>6, <1>7
<1> QED
  BY <1>1, <1>2, <1>8 DEF EntryOf, Is, n

\* A lock with one owner more, field by field.
LEMMA AddedField ==
  ASSUME NEW lock \in Lock, NEW t \in Transaction, NEW x \in BOOLEAN, NEW f \in Fields
  PROVE  Field(AddOwner(lock, t, x), f) =
           IF f = 1 THEN IF x THEN 1 ELSE 0
           ELSE IF f = 2 THEN Len(lock.owners) + 1
           ELSE IF f = 3 + Len(lock.owners) THEN t
           ELSE Field(lock, f)
<1> DEFINE owners == lock.owners
           longer == Append(owners, t)
           after == AddOwner(lock, t, x)
<1>1. owners \in Seq(Transaction) /\ Len(owners) \in Nat
  BY LenProperties DEF Lock
<1>2. /\ Len(longer) = Len(owners) + 1
      /\ \A i \in 1..Len(owners) : longer[i] = owners[i]
      /\ longer[Len(owners) + 1] = t
  BY <1>1, AppendProperties
<1>3. after = [lock EXCEPT !.exclusive = x, !.owners = longer]
  BY DEF AddOwner
<1> HIDE DEF longer, after
<1>4. after.row = lock.row /\ after.exclusive = x /\ after.owners = longer
  BY <1>3 DEF Lock
<1>5. f \in Nat
  BY SizeType DEF Fields
<1>6. CASE f \in {0, 1, 2}
  BY <1>1, <1>2, <1>4, <1>6 DEF Field, after
<1>7. CASE f > 2
  <2>1. /\ Field(after, f) = IF f - 2 <= Len(longer) THEN longer[f - 2] ELSE 0
        /\ Field(lock, f) = IF f - 2 <= Len(owners) THEN owners[f - 2] ELSE 0
    BY <1>4, <1>5, <1>7 DEF Field
  <2>2. CASE f - 2 <= Len(owners)
    BY <1>1, <1>2, <1>5, <1>7, <2>1, <2>2 DEF after
  <2>3. CASE f - 2 = Len(owners) + 1
    BY <1>1, <1>2, <1>5, <1>7, <2>1, <2>3 DEF after
  <2>4. CASE f - 2 > Len(owners) + 1
    BY <1>1, <1>2, <1>5, <1>7, <2>1, <2>4 DEF after
  <2> QED
    BY <1>1, <1>5, <2>2, <2>3, <2>4
<1> QED
  BY <1>5, <1>6, <1>7

\* What acquire_lock does to the lock of a row.
Acquired(locks, p, t, x) ==
  IF CanOwn(locks[p], x) THEN [locks EXCEPT ![p] = AddOwner(@, t, x)] ELSE locks

LEMMA AddOwnerType ==
  ASSUME NEW lock \in Lock, NEW t \in Transaction, NEW x \in BOOLEAN
  PROVE  /\ AddOwner(lock, t, x) \in Lock
         /\ AddOwner(lock, t, x) = [row |-> lock.row, exclusive |-> x,
                                    owners |-> Append(lock.owners, t)]
<1> DEFINE longer == Append(lock.owners, t)
<1>1. longer \in Seq(Transaction)
  BY AppendProperties DEF Lock
<1>2. AddOwner(lock, t, x) = [lock EXCEPT !.exclusive = x, !.owners = longer]
  BY DEF AddOwner
<1> HIDE DEF longer
<1>3. AddOwner(lock, t, x) = [row |-> lock.row, exclusive |-> x, owners |-> longer]
  BY <1>2 DEF Lock
<1> QED
  BY <1>1, <1>3 DEF Lock, longer

LEMMA AcquiredType ==
  ASSUME NEW locks \in Seq(Lock), NEW p \in DOMAIN locks,
         NEW t \in Transaction, NEW x \in BOOLEAN
  PROVE  /\ Acquired(locks, p, t, x) \in Seq(Lock)
         /\ Len(Acquired(locks, p, t, x)) = Len(locks)
         /\ \A i \in DOMAIN locks : Acquired(locks, p, t, x)[i] =
              IF i = p /\ CanOwn(locks[p], x) THEN AddOwner(locks[p], t, x) ELSE locks[i]
<1> DEFINE lock == AddOwner(locks[p], t, x)
<1>1. locks[p] \in Lock
  BY ElementOfSeq, LenProperties
<1>2. lock \in Lock
  BY <1>1, AddOwnerType
<1>3. Acquired(locks, p, t, x) = IF CanOwn(locks[p], x) THEN [locks EXCEPT ![p] = lock]
                                 ELSE locks
  BY DEF Acquired
<1> HIDE DEF lock
<1> QED
  BY <1>2, <1>3, ExceptSeq, LenProperties DEF lock

\* add_lock_trusted does to the copy what acquire_lock does to the table, as
\* long as there is room for the owner.
LEMMA TrustedAdd ==
  ASSUME NEW locks \in Seq(Lock), RowsOnce(locks), NEW p \in DOMAIN locks,
         NEW t \in Transaction, NEW x \in BOOLEAN,
         Len(Acquired(locks, p, t, x)[p].owners) <= kTransactionBudget,
         NEW w \in Entries(Len(locks))
  PROVE  add_lock_trusted(Copy(locks), t, locks[p].row, x)[w] = Copy(Acquired(locks, p, t, x))[w]
<1> DEFINE n == Len(locks)
           lock == locks[p]
           k == Len(lock.owners)
           copy == Copy(locks)
           after == Acquired(locks, p, t, x)
           e == EntryOf(copy, lock.row)
<1>1. n \in Nat /\ DOMAIN locks = 1..n /\ p \in 1..n /\ p - 1 \in 0..(n - 1)
  BY LenProperties
<1>2. lock \in Lock /\ k \in Nat /\ lock.exclusive \in BOOLEAN
  <2>1. lock \in Lock
    BY <1>1, ElementOfSeq
  <2> HIDE DEF lock
  <2>2. lock.owners \in Seq(Transaction) /\ lock.exclusive \in BOOLEAN
    BY <2>1 DEF Lock
  <2> QED
    BY <2>1, <2>2, LenProperties
<1>3. /\ after \in Seq(Lock) /\ Len(after) = n
      /\ \A i \in 1..n : after[i] =
           IF i = p /\ CanOwn(lock, x) THEN AddOwner(lock, t, x) ELSE locks[i]
  BY <1>1, AcquiredType
<1>4. e = Word(p - 1, 0)
  BY <1>1, EntryOfRow
<1>5. PICK q \in 0..(n - 1), f \in Fields : w = Word(q, f)
  BY <1>1, EveryWord
<1>6. copy[w] = Field(locks[q + 1], f) /\ Copy(after)[w] = Field(after[q + 1], f)
  BY <1>3, <1>5, CopiedWord
<1>7. /\ sizeOfSerializedLockEntry = 3 + kTransactionBudget
      /\ kTransactionBudget \in Nat /\ kTransactionBudget >= 1
  BY RoomAssumption DEF sizeOfSerializedLockEntry
<1>8. 0 \in Fields /\ 1 \in Fields /\ 2 \in Fields /\ 3 \in Fields /\ Fields \subseteq Nat
  BY <1>7 DEF Fields
<1>9. /\ copy[e + 1] = Field(lock, 1)
      /\ copy[e + 2] = Field(lock, 2)
  <2>1. e + 1 = Word(p - 1, 1) /\ e + 2 = Word(p - 1, 2)
    BY <1>1, <1>4, <1>7 DEF Word
  <2>2. p - 1 + 1 = p
    BY <1>1
  <2> QED
    BY <1>1, <1>8, <2>1, <2>2, CopiedWord
<1>10. /\ copy[e + 1] = IF lock.exclusive THEN 1 ELSE 0
       /\ copy[e + 2] = k
  BY <1>9 DEF Field
<1>11. DOMAIN copy = Entries(n)
  BY DEF Copy, locktable_bucket_to_uint32_t
<1>12. q + 1 \in 1..n /\ (q + 1 = p <=> q = p - 1)
  BY <1>1
<1> DEFINE added == add_lock_trusted(copy, t, lock.row, x)
<1>13. added = IF x
               THEN IF copy[e + 2] # 0 THEN copy
                    ELSE [copy EXCEPT ![e + 1] = 1, ![e + 2] = 1, ![e + 3] = t]
               ELSE IF copy[e + 1] = 1 THEN copy
                    ELSE [copy EXCEPT ![e + 2] = @ + 1, ![e + 3 + copy[e + 2]] = t]
  BY DEF add_lock_trusted
<1>14. k = 0 <=> lock.owners = <<>>
  BY <1>2, EmptySeq, LenProperties DEF Lock
<1> HIDE DEF copy, added, e, k, lock, n
<1>15. CASE ~CanOwn(lock, x)
  <2>1. added = copy
    BY <1>10, <1>13, <1>14, <1>15 DEF CanOwn
  <2>2. after[q + 1] = locks[q + 1]
    BY <1>3, <1>12, <1>15
  <2> QED
    BY <1>6, <2>1, <2>2 DEF added, copy, lock
<1>16. CASE CanOwn(lock, x)
  <2>1. k + 1 <= kTransactionBudget /\ 3 + k \in Fields
    <3>1. after[p] = AddOwner(lock, t, x)
      BY <1>1, <1>3, <1>16
    <3>2. Len(after[p].owners) = Len(Append(lock.owners, t))
      BY <1>2, <3>1, AddOwnerType
    <3>3. Len(Append(lock.owners, t)) = k + 1
      BY <1>2, AppendProperties DEF Lock, k
    <3> QED
      BY <1>2, <1>7, <3>2, <3>3 DEF Fields
  <2>2. /\ e + 1 = Word(p - 1, 1) /\ e + 2 = Word(p - 1, 2) /\ e + 3 = Word(p - 1, 3)
        /\ e + 3 + k = Word(p - 1, 3 + k)
    BY <1>1, <1>2, <1>4, <1>7 DEF Word
  <2>3. \A g \in Fields : w = Word(p - 1, g) <=> q = p - 1 /\ f = g
    BY <1>1, <1>5, SameWord
  <2>4. added[w] = IF q # p - 1 THEN copy[w]
                   ELSE IF f = 1 THEN IF x THEN 1 ELSE 0
                   ELSE IF f = 2 THEN k + 1
                   ELSE IF f = 3 + k THEN t
                   ELSE copy[w]
    <3>1. w \in DOMAIN copy
      BY <1>11 DEF n
    <3>2. CASE x
      <4>1. k = 0
        BY <1>14, <1>16, <3>2 DEF CanOwn
      <4>2. added = [copy EXCEPT ![e + 1] = 1, ![e + 2] = 1, ![e + 3] = t]
        BY <1>10, <1>13, <3>2, <4>1
      <4>3. added[w] = IF w = e + 3 THEN t ELSE IF w = e + 2 THEN 1
                       ELSE IF w = e + 1 THEN 1 ELSE copy[w]
        BY <3>1, <4>2
      <4> QED
        BY <1>8, <2>2, <2>3, <3>2, <4>1, <4>3
    <3>3. CASE ~x
      <4>1. ~lock.exclusive /\ copy[e + 1] # 1
        BY <1>10, <1>16, <3>3 DEF CanOwn
      <4>2. added = [copy EXCEPT ![e + 2] = @ + 1, ![e + 3 + k] = t]
        BY <1>10, <1>13, <3>3, <4>1
      <4>3. added[w] = IF w = e + 3 + k THEN t ELSE IF w = e + 2 THEN copy[e + 2] + 1 ELSE copy[w]
        BY <3>1, <4>2
      <4>4. q = p - 1 /\ f = 1 => copy[w] = 0
        BY <1>5, <1>10, <2>2, <4>1
      <4> QED
        BY <1>2, <1>8, <1>10, <2>1, <2>2, <2>3, <3>3, <4>3, <4>4
    <3> QED
      BY <3>2, <3>3
  <2>5. CASE q # p - 1
    BY <1>3, <1>6, <1>12, <2>4, <2>5 DEF added, copy, lock
  <2>6. CASE q = p - 1
    <3>1. after[q + 1] = AddOwner(lock, t, x) /\ locks[q + 1] = lock
      BY <1>3, <1>12, <1>16, <2>6 DEF lock
    <3>2. Field(after[q + 1], f) =
            IF f = 1 THEN IF x THEN 1 ELSE 0
            ELSE IF f = 2 THEN k + 1
            ELSE IF f = 3 + k THEN t
            ELSE Field(lock, f)
      BY <1>2, <3>1, AddedField DEF k
    <3> QED
      BY <1>6, <2>4, <2>6, <3>1, <3>2 DEF added, copy, lock
  <2> QED
    BY <2>5, <2>6
<1> QED
  BY <1>15, <1>16

LEMMA ReleaseType ==
  ASSUME NEW lock \in Lock, NEW t \in Transaction
  PROVE  /\ release(lock, t) \in Lock
         /\ release(lock, t).row = lock.row
         /\ t \notin Range(lock.owners) => release(lock, t) = lock
         /\ t \in Range(lock.owners) =>
              release(lock, t) = [row |-> lock.row, exclusive |-> FALSE,
                                  owners |-> Without(lock.owners, t)]
<1>1. CASE t \notin Range(lock.owners)
  BY <1>1 DEF release
<1>2. CASE t \in Range(lock.owners)
  <2> DEFINE shorter == Without(lock.owners, t)
  <2>1. lock.owners \in Seq(Transaction)
    BY DEF Lock
  <2>2. shorter \in Seq(Transaction)
    BY <1>2, <2>1, TimesWithout
  <2>3. release(lock, t) = [lock EXCEPT !.exclusive = FALSE, !.owners = shorter]
    BY <1>2 DEF release
  <2> HIDE DEF shorter
  <2>4. release(lock, t) = [row |-> lock.row, exclusive |-> FALSE, owners |-> shorter]
    BY <2>3 DEF Lock
  <2> QED
    BY <1>2, <2>2, <2>4 DEF Lock, shorter
<1> QED
  BY <1>1, <1>2

\* A lock with one owner less, field by field.
LEMMA ReleasedField ==
  ASSUME NEW lock \in Lock, NEW t \in Transaction,
         NEW j \in 1..Len(lock.owners), lock.owners[j] = t,
         Without(lock.owners, t) = RemoveAt(lock.owners, j),
         NEW f \in Fields
  PROVE  Field(release(lock, t), f) =
           IF f = 1 THEN 0
           ELSE IF f = 2 THEN Len(lock.owners) - 1
           ELSE IF f = 2 + Len(lock.owners) THEN 0
           ELSE IF f \in (2 + j)..(1 + Len(lock.owners)) THEN Field(lock, f + 1)
           ELSE Field(lock, f)
<1> DEFINE owners == lock.owners
           k == Len(owners)
           shorter == RemoveAt(owners, j)
           after == release(lock, t)
<1>1. owners \in Seq(Transaction) /\ k \in Nat /\ j \in 1..k
  BY LenProperties DEF Lock
<1>2. /\ Len(shorter) = k - 1
      /\ \A i \in 1..(k - 1) : shorter[i] = IF i < j THEN owners[i] ELSE owners[i + 1]
  BY <1>1, RemoveAtProperties
<1>3. t \in Range(owners)
  BY <1>1, LenProperties DEF Range
<1>4. after.row = lock.row /\ after.exclusive = FALSE /\ after.owners = shorter
  BY <1>3, ReleaseType
<1>5. f \in Nat
  BY SizeType DEF Fields
<1> HIDE DEF owners, shorter, after, k
<1>6. CASE f \in {0, 1, 2}
  <2>1. /\ Field(after, 0) = Field(lock, 0)
        /\ Field(after, 1) = 0
        /\ Field(after, 2) = k - 1
    BY <1>2, <1>4 DEF Field
  <2>2. f \notin (2 + j)..(1 + k) /\ f # 2 + k
    BY <1>1, <1>6
  <2> QED
    BY <1>6, <2>1, <2>2 DEF after, k, owners
<1>7. CASE f > 2
  <2>1. Field(after, f) = IF f - 2 <= k - 1 THEN shorter[f - 2] ELSE 0
    BY <1>2, <1>4, <1>5, <1>7 DEF Field
  <2>2. \A g \in Nat : g > 2 => Field(lock, g) = IF g - 2 <= k THEN owners[g - 2] ELSE 0
    BY DEF Field, k, owners
  <2>3. CASE f - 2 < j
    <3>1. \/ shorter[f - 2] = owners[f - 2] /\ f - 2 <= k - 1
          \/ f - 2 = k
      BY <1>1, <1>2, <1>5, <1>7, <2>3
    <3> QED
      BY <1>1, <1>5, <1>7, <2>1, <2>2, <2>3, <3>1 DEF after, k, owners
  <2>4. CASE f - 2 >= j /\ f - 2 <= k - 1
    <3>1. shorter[f - 2] = owners[f - 2 + 1]
      BY <1>1, <1>2, <1>5, <1>7, <2>4
    <3>2. Field(lock, f + 1) = owners[f + 1 - 2]
      BY <1>1, <1>5, <1>7, <2>2, <2>4
    <3>3. f - 2 + 1 = f + 1 - 2
      BY <1>5
    <3> QED
      BY <1>1, <1>5, <1>7, <2>1, <2>4, <3>1, <3>2, <3>3 DEF after, k, owners
  <2>5. CASE f - 2 >= k
    <3>1. Field(after, f) = 0
      BY <1>1, <1>5, <2>1, <2>5
    <3>2. f - 2 > k => Field(lock, f) = 0
      BY <1>1, <1>5, <1>7, <2>2
    <3> QED
      BY <1>1, <1>5, <1>7, <2>5, <3>1, <3>2 DEF after, k, owners
  <2> QED
    BY <1>1, <1>5, <2>3, <2>4, <2>5
<1> QED
  BY <1>5, <1>6, <1>7

\* What release_lock does to the lock of a row, and to the list.
Released(locks, p, t) == [locks EXCEPT ![p] = release(@, t)]

Remaining(locks, p, t) ==
  IF Empty(release(locks[p], t)) THEN RemoveAt(Released(locks, p, t), p)
  ELSE Released(locks, p, t)

LEMMA ReleasedType ==
  ASSUME NEW locks \in Seq(Lock), NEW p \in DOMAIN locks, NEW t \in Transaction
  PROVE  /\ Released(locks, p, t) \in Seq(Lock)
         /\ Len(Released(locks, p, t)) = Len(locks)
         /\ \A i \in DOMAIN locks : Released(locks, p, t)[i] =
              IF i = p THEN release(locks[p], t) ELSE locks[i]
<1> DEFINE lock == release(locks[p], t)
<1>1. locks[p] \in Lock
  BY ElementOfSeq, LenProperties
<1>2. lock \in Lock
  BY <1>1, ReleaseType
<1>3. Released(locks, p, t) = [locks EXCEPT ![p] = lock]
  BY DEF Released
<1> HIDE DEF lock
<1> QED
  BY <1>2, <1>3, ExceptSeq, LenProperties DEF lock

\* The copy of a bucket after release_lock_trusted has taken the owner out.
TrustedRelease(copy, i, t) ==
  LET Owned == {j \in 0..(copy[i + 2] - 1) : copy[i + 3 + j] = t}
      first == CHOOSE j \in Owned : \A k \in Owned : j <= k
  IN IF Owned = {} THEN copy ELSE WithoutOwner(copy, i, first)

LEMMA TrustedReleaseUsed ==
  ASSUME NEW copy, NEW n, NEW t, NEW row
  PROVE  LET i == EntryOf(copy, row)
             after == TrustedRelease(copy, i, t)
         IN release_lock_trusted(copy, n, t, row) =
              IF after[i + 2] = 0
              THEN [bucket |-> WithoutEntry(after, i, n), numEntries |-> n - 1]
              ELSE [bucket |-> after, numEntries |-> n]
  BY Zenon DEF release_lock_trusted, TrustedRelease

\* It is the copy of the bucket after release of lock.cpp has done so.
LEMMA TrustedReleaseIsRelease ==
  ASSUME NEW locks \in Seq(Lock), NEW p \in DOMAIN locks, NEW t \in Transaction,
         Len(locks[p].owners) <= kTransactionBudget
  PROVE  TrustedRelease(Copy(locks), Word(p - 1, 0), t) = Copy(Released(locks, p, t))
<1> DEFINE n == Len(locks)
           lock == locks[p]
           owners == lock.owners
           k == Len(owners)
           copy == Copy(locks)
           e == Word(p - 1, 0)
           after == Released(locks, p, t)
           Owned == {j \in 0..(copy[e + 2] - 1) : copy[e + 3 + j] = t}
           first == CHOOSE j \in Owned : \A m \in Owned : j <= m
<1>1. n \in Nat /\ DOMAIN locks = 1..n /\ p \in 1..n /\ p - 1 \in 0..(n - 1)
  BY LenProperties
<1>2. lock \in Lock
  BY <1>1, ElementOfSeq
<1>3. owners \in Seq(Transaction) /\ k \in Nat /\ DOMAIN owners = 1..k
  <2>1. owners \in Seq(Transaction)
    BY <1>2 DEF Lock
  <2> QED
    BY <2>1, LenProperties
<1>4. /\ after \in Seq(Lock) /\ Len(after) = n
      /\ \A i \in 1..n : after[i] = IF i = p THEN release(lock, t) ELSE locks[i]
  BY <1>1, ReleasedType
<1>5. /\ sizeOfSerializedLockEntry = 3 + kTransactionBudget
      /\ kTransactionBudget \in Nat /\ kTransactionBudget >= 1
  BY RoomAssumption DEF sizeOfSerializedLockEntry
<1>6. /\ DOMAIN copy = Entries(n) /\ DOMAIN Copy(after) = Entries(n)
      /\ copy = [w \in Entries(n) |-> copy[w]]
      /\ Copy(after) = [w \in Entries(n) |-> Copy(after)[w]]
  BY <1>4 DEF Copy, locktable_bucket_to_uint32_t
<1>7. \A g \in Fields : Word(p - 1, g) \in Entries(n) /\ copy[Word(p - 1, g)] = Field(lock, g)
  <2>1. p - 1 + 1 = p
    BY <1>1
  <2> QED
    BY <1>1, <2>1, CopiedWord
<1>8. \A g \in Nat : e + g = Word(p - 1, g)
  BY <1>1, <1>5 DEF Word
<1>9. copy[e + 2] = k
  BY <1>5, <1>7, <1>8 DEF Field, Fields
<1>10. \A j \in 0..(k - 1) : copy[e + 3 + j] = owners[j + 1]
  <2> SUFFICES ASSUME NEW j \in 0..(k - 1)
               PROVE  copy[e + 3 + j] = owners[j + 1]
    OBVIOUS
  <2>1. 3 + j \in Fields /\ 3 + j \in Nat /\ 3 + j > 2 /\ 3 + j - 2 = j + 1 /\ j + 1 <= k
    BY <1>3, <1>5 DEF Fields
  <2>2. e + 3 + j = Word(p - 1, 3 + j)
    BY <1>1, <1>5, <2>1 DEF Word
  <2>3. Field(lock, 3 + j) = owners[j + 1]
    BY <2>1 DEF Field
  <2> QED
    BY <1>7, <2>1, <2>2, <2>3
<1>11. Owned = {j \in 0..(k - 1) : owners[j + 1] = t}
  BY <1>9, <1>10
<1>12. TrustedRelease(copy, e, t) = IF Owned = {} THEN copy ELSE WithoutOwner(copy, e, first)
  BY DEF TrustedRelease
<1>13. e \in Nat /\ k <= kTransactionBudget
  <2>1. 0 \in 0..(sizeOfSerializedLockEntry - 1)
    BY <1>5
  <2> QED
    BY <1>1, <2>1, FieldsAreWords DEF Word
<1> HIDE DEF copy, e, after, Owned, first
<1>14. CASE t \notin Range(owners)
  <2>1. Owned = {}
    <3>1. \A j \in 0..(k - 1) : owners[j + 1] # t
      <4>1. \A j \in 0..(k - 1) : j + 1 \in DOMAIN owners
        BY <1>3
      <4> QED
        BY <1>14, <4>1 DEF Range
    <3> QED
      BY <1>11, <3>1
  <2>2. release(lock, t) = lock
    BY <1>2, <1>14, ReleaseType
  <2>3. after = locks
    BY <1>1, <1>4, <2>2, SeqEqual
  <2> QED
    BY <1>12, <2>1, <2>3 DEF copy, e, after
<1>15. CASE t \in Range(owners)
  <2>1. PICK j \in 1..k : FirstOf(owners, t, j) /\ Without(owners, t) = RemoveAt(owners, j)
    BY <1>3, <1>15, WithoutProperties
  <2>2. owners[j] = t /\ \A m \in 1..k : owners[m] = t => j <= m
    BY <2>1 DEF FirstOf
  <2>3. first = j - 1 /\ Owned # {}
    <3>1. j - 1 \in Owned /\ \A m \in Owned : j - 1 <= m
      BY <1>3, <1>11, <2>2
    <3>2. Owned \subseteq Nat
      BY <1>3, <1>11
    <3>3. \A a \in Owned : (\A m \in Owned : a <= m) => a = j - 1
      BY <3>1, <3>2
    <3> QED
      BY <3>1, <3>3 DEF first
  <2>4. TrustedRelease(copy, e, t) = WithoutOwner(copy, e, j - 1)
    BY <1>12, <2>3
  <2>5. WithoutOwner(copy, e, j - 1) =
          [w \in Entries(n) |->
             CASE w = e + 1 -> 0
               [] w = e + 2 -> copy[w] - 1
               [] w = e + 3 + k - 1 -> 0
               [] w \in (e + 3 + (j - 1))..(e + 3 + k - 1 - 1) -> copy[w + 1]
               [] OTHER -> copy[w]]
    BY <1>6, <1>9 DEF WithoutOwner
  <2>6. ASSUME NEW w \in Entries(n)
        PROVE  WithoutOwner(copy, e, j - 1)[w] = Copy(after)[w]
    <3>1. PICK q \in 0..(n - 1), f \in Fields : w = Word(q, f)
      BY <1>1, EveryWord
    <3>2. copy[w] = Field(locks[q + 1], f) /\ Copy(after)[w] = Field(after[q + 1], f)
      BY <1>4, <3>1, CopiedWord DEF copy
    <3>3. \A g \in Fields : w = Word(p - 1, g) <=> q = p - 1 /\ f = g
      BY <1>1, <3>1, SameWord
    <3>4. q + 1 \in 1..n /\ (q + 1 = p <=> q = p - 1)
      BY <1>1
    <3>5. /\ f \in Nat /\ 1 \in Fields /\ 2 \in Fields /\ w \in Nat
          /\ \A g \in 0..(2 + k) : g \in Fields /\ g \in Nat
      <4> HIDE DEF lock, owners, k
      <4>1. w \in Nat
        BY <1>1, WordsAreFields
      <4> QED
        BY <1>3, <1>5, <1>13, <4>1 DEF Fields
    <3>6. w = e + 1 <=> q = p - 1 /\ f = 1
      BY <1>8, <3>3, <3>5
    <3>7. w = e + 2 <=> q = p - 1 /\ f = 2
      BY <1>8, <3>3, <3>5
    <3>8. w = e + 3 + k - 1 <=> q = p - 1 /\ f = 2 + k
      <4> HIDE DEF lock, owners, k
      <4>1. e + 3 + k - 1 = e + (2 + k)
        BY <1>3, <1>13
      <4>2. 2 + k \in Fields /\ 2 + k \in Nat
        BY <1>3, <3>5
      <4>3. e + (2 + k) = Word(p - 1, 2 + k)
        BY <1>8, <4>2
      <4> QED
        BY <3>3, <4>1, <4>2, <4>3
    <3>9. w \in (e + 3 + (j - 1))..(e + 3 + k - 1 - 1) <=> q = p - 1 /\ f \in (2 + j)..(1 + k)
      <4> HIDE DEF lock, owners, k
      <4>1. w \in (e + (2 + j))..(e + (1 + k)) <=>
              \E g \in (2 + j)..(1 + k) : w = e + g
        <5>1. w \in (e + (2 + j))..(e + (1 + k)) =>
                w - e \in (2 + j)..(1 + k) /\ w = e + (w - e)
          BY <1>3, <1>13, <3>5
        <5>2. ASSUME NEW g \in (2 + j)..(1 + k), w = e + g
              PROVE  w \in (e + (2 + j))..(e + (1 + k))
          BY <1>3, <1>13, <3>5, <5>2
        <5> QED
          BY <5>1, <5>2
      <4>2. \A g \in (2 + j)..(1 + k) : g \in 0..(2 + k)
        BY <1>3
      <4>3. \A g \in (2 + j)..(1 + k) : w = e + g <=> q = p - 1 /\ f = g
        BY <1>8, <3>3, <3>5, <4>2
      <4>4. e + 3 + (j - 1) = e + (2 + j) /\ e + 3 + k - 1 - 1 = e + (1 + k)
        BY <1>3, <1>13
      <4> QED
        BY <4>1, <4>3, <4>4
    <3>10. WithoutOwner(copy, e, j - 1)[w] =
             IF q # p - 1 THEN copy[w]
             ELSE IF f = 1 THEN 0
             ELSE IF f = 2 THEN copy[w] - 1
             ELSE IF f = 2 + k THEN 0
             ELSE IF f \in (2 + j)..(1 + k) THEN copy[w + 1]
             ELSE copy[w]
      <4> DEFINE C1 == w = e + 1
                 C2 == w = e + 2
                 C3 == w = e + 3 + k - 1
                 C4 == w \in (e + 3 + (j - 1))..(e + 3 + k - 1 - 1)
      <4>1. WithoutOwner(copy, e, j - 1)[w] =
              CASE C1 -> 0 [] C2 -> copy[w] - 1 [] C3 -> 0 [] C4 -> copy[w + 1]
                [] OTHER -> copy[w]
        BY <2>5
      <4>2. /\ C1 <=> q = p - 1 /\ f = 1
            /\ C2 <=> q = p - 1 /\ f = 2
            /\ C3 <=> q = p - 1 /\ f = 2 + k
            /\ C4 <=> q = p - 1 /\ f \in (2 + j)..(1 + k)
        BY <3>6, <3>7, <3>8, <3>9
      <4>3. k >= 1 /\ k \in Nat /\ j \in Nat /\ j >= 1
        BY <1>3
      <4> HIDE DEF C1, C2, C3, C4, lock, owners, k
      <4>4. ~(C1 /\ (C2 \/ C3 \/ C4)) /\ ~(C2 /\ (C3 \/ C4)) /\ ~(C3 /\ C4)
        BY <3>5, <4>2, <4>3
      <4>5. CASE C1
        BY <4>1, <4>2, <4>4, <4>5
      <4>6. CASE C2
        BY <4>1, <4>2, <4>4, <4>6
      <4>7. CASE C3
        BY <4>1, <4>2, <4>4, <4>7
      <4>8. CASE C4
        BY <4>1, <4>2, <4>4, <4>8
      <4>9. CASE ~(C1 \/ C2 \/ C3 \/ C4)
        BY <4>1, <4>2, <4>9
      <4> QED
        BY <4>5, <4>6, <4>7, <4>8, <4>9
    <3>11. CASE q # p - 1
      BY <1>4, <3>2, <3>4, <3>10, <3>11
    <3>12. CASE q = p - 1
      <4>1. after[q + 1] = release(lock, t) /\ locks[q + 1] = lock
        BY <1>4, <3>4, <3>12
      <4>2. Field(release(lock, t), f) =
              IF f = 1 THEN 0
              ELSE IF f = 2 THEN k - 1
              ELSE IF f = 2 + k THEN 0
              ELSE IF f \in (2 + j)..(1 + k) THEN Field(lock, f + 1)
              ELSE Field(lock, f)
        BY <1>2, <2>1, <2>2, ReleasedField
      <4>3. f = 2 => copy[w] = k
        BY <3>2, <4>1 DEF Field
      <4>4. f \in (2 + j)..(1 + k) => copy[w + 1] = Field(lock, f + 1)
        <5> SUFFICES ASSUME f \in (2 + j)..(1 + k)
                     PROVE  copy[w + 1] = Field(lock, f + 1)
          OBVIOUS
        <5>1. f + 1 \in Fields
          BY <1>3, <3>5
        <5>2. w + 1 = Word(p - 1, f + 1)
          BY <1>1, <1>5, <3>1, <3>5, <3>12 DEF Word
        <5> QED
          BY <1>7, <5>1, <5>2
      <4> HIDE DEF lock, owners, k
      <4> QED
        BY <3>2, <3>10, <3>12, <4>1, <4>2, <4>3, <4>4
    <3> QED
      BY <3>11, <3>12
  <2>7. WithoutOwner(copy, e, j - 1) = Copy(after)
    <3> DEFINE g == WithoutOwner(copy, e, j - 1)
    <3>1. g = [w \in Entries(n) |-> g[w]]
      BY <2>5
    <3> HIDE DEF g
    <3>2. \A w \in Entries(n) : g[w] = Copy(after)[w]
      BY <2>6 DEF g
    <3>3. g = Copy(after)
      BY <1>6, <3>1, <3>2
    <3> QED
      BY <3>3 DEF g
  <2> QED
    BY <2>4, <2>7 DEF copy, e, after
<1> QED
  BY <1>14, <1>15

LEMMA RemainingType ==
  ASSUME NEW locks \in Seq(Lock), NEW p \in DOMAIN locks, NEW t \in Transaction
  PROVE  /\ Remaining(locks, p, t) \in Seq(Lock)
         /\ Empty(release(locks[p], t)) =>
              /\ Len(Remaining(locks, p, t)) = Len(locks) - 1
              /\ \A i \in 1..(Len(locks) - 1) : Remaining(locks, p, t)[i] =
                   IF i < p THEN locks[i] ELSE locks[i + 1]
         /\ ~Empty(release(locks[p], t)) => Remaining(locks, p, t) = Released(locks, p, t)
<1> DEFINE n == Len(locks)
           changed == Released(locks, p, t)
<1>1. n \in Nat /\ DOMAIN locks = 1..n /\ p \in 1..n
  BY LenProperties
<1>2. /\ changed \in Seq(Lock) /\ Len(changed) = n
      /\ \A i \in 1..n : i # p => changed[i] = locks[i]
  BY <1>1, ReleasedType
<1> HIDE DEF changed, n
<1>3. /\ RemoveAt(changed, p) \in Seq(Lock) /\ Len(RemoveAt(changed, p)) = n - 1
      /\ \A i \in 1..(n - 1) :
           RemoveAt(changed, p)[i] = IF i < p THEN changed[i] ELSE changed[i + 1]
  BY <1>1, <1>2, RemoveAtProperties
<1>4. \A i \in 1..(n - 1) :
        RemoveAt(changed, p)[i] = IF i < p THEN locks[i] ELSE locks[i + 1]
  <2> SUFFICES ASSUME NEW i \in 1..(n - 1)
               PROVE  RemoveAt(changed, p)[i] = IF i < p THEN locks[i] ELSE locks[i + 1]
    OBVIOUS
  <2>1. CASE i < p
    BY <1>1, <1>2, <1>3, <2>1
  <2>2. CASE ~(i < p)
    BY <1>1, <1>2, <1>3, <2>2
  <2> QED
    BY <2>1, <2>2
<1> QED
  BY <1>2, <1>3, <1>4 DEF Remaining, changed, n

\* As many entries are left as locks.
LEMMA TrustedCount ==
  ASSUME NEW locks \in Seq(Lock), RowsOnce(locks), NEW p \in DOMAIN locks,
         NEW t \in Transaction, Len(locks[p].owners) <= kTransactionBudget
  PROVE  LET released == Released(locks, p, t)
             rest == release_lock_trusted(Copy(locks), Len(locks), t, locks[p].row)
         IN /\ rest.numEntries = Len(Remaining(locks, p, t))
            /\ rest.bucket = IF Empty(release(locks[p], t))
                             THEN WithoutEntry(Copy(released), Word(p - 1, 0), Len(locks))
                             ELSE Copy(released)
<1> DEFINE n == Len(locks)
           released == Released(locks, p, t)
           lock == release(locks[p], t)
           rest == release_lock_trusted(Copy(locks), n, t, locks[p].row)
           e == Word(p - 1, 0)
           copy == Copy(released)
<1>1. n \in Nat /\ DOMAIN locks = 1..n /\ p \in 1..n /\ p - 1 \in 0..(n - 1) /\ p - 1 + 1 = p
  BY LenProperties
<1>2. EntryOf(Copy(locks), locks[p].row) = e
  BY EntryOfRow
<1>3. TrustedRelease(Copy(locks), e, t) = copy
  BY TrustedReleaseIsRelease
<1>4. rest = IF copy[e + 2] = 0 THEN [bucket |-> WithoutEntry(copy, e, n), numEntries |-> n - 1]
             ELSE [bucket |-> copy, numEntries |-> n]
  BY <1>2, <1>3, TrustedReleaseUsed
<1>5. released \in Seq(Lock) /\ Len(released) = n /\ released[p] = lock
  BY <1>1, ReleasedType
<1>6. lock \in Lock
  BY <1>1, <1>5, ElementOfSeq
<1>7. copy[e + 2] = Len(lock.owners)
  <2>1. 0 \in Fields /\ 2 \in Fields /\ e + 2 = Word(p - 1, 2)
    BY <1>1, SizeType DEF Fields, Word
  <2>2. copy[Word(p - 1, 2)] = Field(released[p], 2)
    BY <1>1, <1>5, <2>1, CopiedWord
  <2> QED
    BY <1>5, <2>1, <2>2 DEF Field
<1>8. copy[e + 2] = 0 <=> Empty(lock)
  <2> HIDE DEF lock, copy, e
  <2>1. lock.owners \in Seq(Transaction)
    BY <1>6 DEF Lock
  <2> QED
    BY <1>7, <2>1, EmptySeq, LenProperties DEF Empty
<1>9. Len(Remaining(locks, p, t)) = IF Empty(lock) THEN n - 1 ELSE n
  BY <1>1, <1>5, RemainingType
<1> HIDE DEF rest, copy, lock, e, n
<1>10. CASE Empty(lock)
  BY <1>4, <1>8, <1>9, <1>10 DEF rest, copy, lock, e, n
<1>11. CASE ~Empty(lock)
  BY <1>4, <1>8, <1>9, <1>11 DEF rest, copy, lock, e, n
<1> QED
  BY <1>10, <1>11

\* What release_lock_trusted does to the copy is what release_lock does to the
\* table, unless a lock leaves the middle of the list.
LEMMA TrustedRemove ==
  ASSUME NEW locks \in Seq(Lock), RowsOnce(locks), NEW p \in DOMAIN locks,
         NEW t \in Transaction, Len(locks[p].owners) <= kTransactionBudget,
         Empty(release(locks[p], t)) => p \in {1, Len(locks)},
         NEW w \in Entries(Len(Remaining(locks, p, t)))
  PROVE  release_lock_trusted(Copy(locks), Len(locks), t, locks[p].row).bucket[w]
           = Copy(Remaining(locks, p, t))[w]
<1> DEFINE n == Len(locks)
           released == Released(locks, p, t)
           lock == release(locks[p], t)
           final == Remaining(locks, p, t)
           bucket == release_lock_trusted(Copy(locks), n, t, locks[p].row).bucket
           e == Word(p - 1, 0)
           s == sizeOfSerializedLockEntry
<1>1. n \in Nat /\ DOMAIN locks = 1..n /\ p \in 1..n
  BY LenProperties
<1>2. bucket = IF Empty(lock) THEN WithoutEntry(Copy(released), e, n) ELSE Copy(released)
  BY TrustedCount
<1>3. CASE ~Empty(lock)
  BY <1>2, <1>3, RemainingType
<1>4. CASE Empty(lock)
  <2>1. /\ final \in Seq(Lock) /\ Len(final) = n - 1
        /\ \A i \in 1..(n - 1) : final[i] = IF i < p THEN locks[i] ELSE locks[i + 1]
    BY <1>4, RemainingType
  <2>2. /\ released \in Seq(Lock) /\ Len(released) = n
        /\ \A i \in 1..n : i # p => released[i] = locks[i]
    BY <1>1, ReleasedType
  <2>3. s \in Nat /\ s >= 4
    BY SizeType
  <2>4. w \in Entries(n - 1)
    BY <2>1
  <2>5. PICK q \in 0..(n - 2), f \in Fields : w = Word(q, f)
    BY <1>1, <2>4, EveryWord
  <2>6. bucket[w] = IF w < 2 * e THEN Copy(released)[w] ELSE Copy(released)[w + s]
    BY <1>2, <1>4, <2>4 DEF WithoutEntry
  <2>7. Copy(final)[w] = Field(final[q + 1], f)
    BY <1>1, <2>1, <2>5, CopiedWord
  <2>8. Copy(released)[Word(q, f)] = Field(released[q + 1], f)
    BY <1>1, <2>2, <2>5, CopiedWord
  <2>9. Copy(released)[Word(q + 1, f)] = Field(released[q + 2], f)
    <3>1. q + 1 \in 0..(n - 1) /\ q + 1 + 1 = q + 2
      BY <1>1
    <3> QED
      BY <1>1, <2>2, <2>5, <3>1, CopiedWord
  <2>10. w + s = Word(q + 1, f) /\ w \in Nat /\ w < (n - 1) * s
    <3>1. (q + 1) * s = q * s + s /\ q * s \in Nat /\ (n - 1) * s \in Int /\ f \in Nat
      BY <1>1, <2>3 DEF Fields
    <3>2. w = q * s + f /\ Word(q + 1, f) = (q + 1) * s + f
      BY <2>5 DEF Word
    <3>3. w \in 0..((n - 1) * s - 1)
      BY <2>4 DEF Entries
    <3> DEFINE a == q * s
               b == (q + 1) * s
               c == (n - 1) * s
    <3>4. b = a + s /\ a \in Nat /\ c \in Int /\ f \in Nat /\ w = a + f /\ w \in 0..(c - 1)
      BY <3>1, <3>2, <3>3
    <3>5. Word(q + 1, f) = b + f
      BY <3>2
    <3> HIDE DEF a, b, c, s
    <3>6. w + s = b + f /\ w \in Nat /\ w < c
      BY <2>3, <3>4
    <3> QED
      BY <3>5, <3>6 DEF c
  <2> HIDE DEF bucket, final, released
  <2>11. CASE p = 1
    <3>1. e = 0
      BY <2>3, <2>11 DEF Word
    <3>2. bucket[w] = Copy(released)[w + s]
      BY <2>6, <2>10, <3>1
    <3>3. q + 1 \in 1..(n - 1) /\ ~(q + 1 < p) /\ q + 1 + 1 = q + 2 /\ q + 2 \in 1..n /\ q + 2 # p
      BY <1>1, <2>11
    <3>4. final[q + 1] = released[q + 2]
      BY <2>1, <2>2, <3>3
    <3> QED
      BY <2>7, <2>9, <2>10, <3>2, <3>4 DEF bucket, final
  <2>12. CASE p = n /\ p # 1
    <3>1. w < 2 * e
      <4>1. e = (n - 1) * s /\ e \in Nat
        BY <1>1, <2>3, <2>12 DEF Word
      <4> HIDE DEF e
      <4> QED
        BY <2>10, <4>1
    <3>2. bucket[w] = Copy(released)[w]
      BY <2>6, <3>1
    <3>3. q + 1 \in 1..(n - 1) /\ q + 1 < p /\ q + 1 \in 1..n /\ q + 1 # p
      <4> HIDE DEF n
      <4> QED
        BY <1>1, <2>5, <2>12
    <3>4. final[q + 1] = released[q + 1]
      BY <2>1, <2>2, <3>3
    <3> QED
      BY <2>5, <2>7, <2>8, <3>2, <3>4 DEF bucket, final
  <2> QED
    BY <1>4, <2>11, <2>12
<1> QED
  BY <1>3, <1>4

-----------------------------------------------------------------------------
(* The list of a bucket                                                    *)

\* A row has one lock, in its own bucket, and an exclusive lock has one owner.
GoodBucket(b, locks) ==
  /\ locks \in Seq(Lock)
  /\ RowsOnce(locks)
  /\ \A i \in DOMAIN locks :
       /\ BucketOf[locks[i].row] = b
       /\ locks[i].exclusive => Len(locks[i].owners) = 1

OwnersIn(locks, r) == IF HasRow(locks, r) THEN locks[Position(locks, r)].owners ELSE <<>>

LEMMA OwnersAtPosition ==
  ASSUME NEW locks, RowsOnce(locks), NEW p \in DOMAIN locks, NEW r
  PROVE  /\ locks[p].row = r => HasRow(locks, r) /\ Position(locks, r) = p
                                  /\ OwnersIn(locks, r) = locks[p].owners
         /\ ~HasRow(locks, r) => OwnersIn(locks, r) = <<>>
<1>1. ASSUME locks[p].row = r
      PROVE  Position(locks, r) = p
  BY <1>1 DEF RowsOnce, Position
<1>2. locks[p].row = r => HasRow(locks, r)
  BY DEF HasRow
<1> QED
  BY <1>1, <1>2 DEF OwnersIn

\* A list that has the same locks for a row has the same owners.
LEMMA SameOwners ==
  ASSUME NEW locks, RowsOnce(locks), NEW after, RowsOnce(after), NEW r,
         \A i \in DOMAIN locks : locks[i].row = r =>
           \E j \in DOMAIN after : after[j] = locks[i],
         \A j \in DOMAIN after : after[j].row = r =>
           \E i \in DOMAIN locks : after[j] = locks[i]
  PROVE  OwnersIn(after, r) = OwnersIn(locks, r)
<1>1. CASE HasRow(locks, r)
  <2>1. PICK i \in DOMAIN locks : locks[i].row = r
    BY <1>1 DEF HasRow
  <2>2. PICK j \in DOMAIN after : after[j] = locks[i]
    BY <2>1
  <2> QED
    BY <2>1, <2>2, OwnersAtPosition
<1>2. CASE ~HasRow(locks, r)
  <2>1. ~HasRow(after, r)
    BY <1>2 DEF HasRow
  <2> QED
    BY <1>2, <2>1 DEF OwnersIn
<1> QED
  BY <1>1, <1>2

\* lock() puts a lock at the end.
LEMMA PutLock ==
  ASSUME NEW b, NEW locks, GoodBucket(b, locks), NEW r \in Row, BucketOf[r] = b,
         ~HasRow(locks, r)
  PROVE  /\ GoodBucket(b, Put(locks, r))
         /\ Len(Put(locks, r)) = Len(locks) + 1
         /\ \A i \in 1..Len(locks) : Put(locks, r)[i] = locks[i]
         /\ Put(locks, r)[Len(locks) + 1] = newLock(r)
         /\ \A s : OwnersIn(Put(locks, r), s) = OwnersIn(locks, s)
<1> DEFINE n == Len(locks)
           after == Put(locks, r)
<1>1. locks \in Seq(Lock) /\ RowsOnce(locks) /\ n \in Nat /\ DOMAIN locks = 1..n
  BY LenProperties DEF GoodBucket
<1>2. /\ newLock(r) \in Lock /\ newLock(r).row = r /\ ~newLock(r).exclusive
      /\ newLock(r).owners = <<>>
  BY DEF newLock, Lock
<1>3. /\ after \in Seq(Lock) /\ Len(after) = n + 1
      /\ \A i \in 1..n : after[i] = locks[i]
      /\ after[n + 1] = newLock(r)
  BY <1>1, <1>2, AppendProperties DEF Put
<1>4. DOMAIN after = 1..(n + 1)
  BY <1>3, LenProperties
<1> HIDE DEF after, n
<1>5. \A i \in 1..n : locks[i].row # r
  BY <1>1 DEF HasRow
<1>6. RowsOnce(after)
  BY <1>1, <1>2, <1>3, <1>4, <1>5 DEF RowsOnce
<1>7. ASSUME NEW i \in DOMAIN after
      PROVE  BucketOf[after[i].row] = b /\ (after[i].exclusive => Len(after[i].owners) = 1)
  <2>1. CASE i \in 1..n
    BY <1>1, <1>3, <2>1 DEF GoodBucket
  <2>2. CASE i = n + 1
    BY <1>2, <1>3, <2>2
  <2> QED
    BY <1>1, <1>4, <2>1, <2>2
<1>8. ASSUME NEW s
      PROVE  OwnersIn(after, s) = OwnersIn(locks, s)
  <2>1. CASE s = r
    <3>1. OwnersIn(after, s) = <<>>
      <4>1. n + 1 \in DOMAIN after
        BY <1>1, <1>4
      <4> QED
        BY <1>2, <1>3, <1>6, <2>1, <4>1, OwnersAtPosition
    <3> QED
      BY <2>1, <3>1 DEF OwnersIn
  <2>2. CASE s # r
    <3>1. \A i \in DOMAIN locks : i \in DOMAIN after /\ after[i] = locks[i]
      BY <1>1, <1>3, <1>4
    <3>2. \A j \in DOMAIN after : after[j].row = s => j \in DOMAIN locks /\ after[j] = locks[j]
      BY <1>1, <1>2, <1>3, <1>4, <2>2
    <3> QED
      BY <1>1, <1>6, <3>1, <3>2, SameOwners
  <2> QED
    BY <2>1, <2>2
<1>9. GoodBucket(b, after)
  BY <1>3, <1>6, <1>7 DEF GoodBucket
<1> QED
  BY <1>3, <1>8, <1>9 DEF after, n

\* acquire_lock changes one lock, or none.
LEMMA AcquireInBucket ==
  ASSUME NEW b, NEW locks, GoodBucket(b, locks), NEW p \in DOMAIN locks,
         NEW t \in Transaction, NEW x \in BOOLEAN
  PROVE  LET after == Acquired(locks, p, t, x)
         IN /\ GoodBucket(b, after)
            /\ \A s : OwnersIn(after, s) =
                 IF s = locks[p].row /\ CanOwn(locks[p], x) THEN Append(OwnersIn(locks, s), t)
                 ELSE OwnersIn(locks, s)
<1> DEFINE after == Acquired(locks, p, t, x)
<1>1. locks \in Seq(Lock) /\ RowsOnce(locks) /\ Len(locks) \in Nat /\ DOMAIN locks = 1..Len(locks)
  BY LenProperties DEF GoodBucket
<1>2. CASE ~CanOwn(locks[p], x)
  BY <1>2 DEF Acquired
<1>3. CASE CanOwn(locks[p], x)
  <2> DEFINE lock == AddOwner(locks[p], t, x)
  <2>1. /\ after \in Seq(Lock) /\ DOMAIN after = DOMAIN locks
        /\ \A i \in DOMAIN locks : after[i] = IF i = p THEN lock ELSE locks[i]
    BY <1>1, <1>3, AcquiredType, LenProperties
  <2>2. locks[p] \in Lock
    BY <1>1, ElementOfSeq
  <2>3. /\ lock.row = locks[p].row /\ lock.exclusive = x
        /\ lock.owners = Append(locks[p].owners, t)
    BY <2>2, AddOwnerType
  <2> HIDE DEF after, lock
  <2>4. RowsOnce(after)
    BY <1>1, <2>1, <2>3 DEF RowsOnce
  <2>5. lock.exclusive => Len(lock.owners) = 1
    <3> SUFFICES ASSUME x
                 PROVE  Len(lock.owners) = 1
      BY <2>3
    <3>1. locks[p].owners = <<>>
      BY <1>3 DEF CanOwn
    <3> QED
      BY <2>3, <3>1
  <2>6. GoodBucket(b, after)
    BY <2>1, <2>3, <2>4, <2>5 DEF GoodBucket
  <2>7. ASSUME NEW s
        PROVE  OwnersIn(after, s) = IF s = locks[p].row THEN Append(OwnersIn(locks, s), t)
                                    ELSE OwnersIn(locks, s)
    <3>1. CASE s = locks[p].row
      <4>1. OwnersIn(locks, s) = locks[p].owners
        BY <1>1, <3>1, OwnersAtPosition
      <4>2. OwnersIn(after, s) = after[p].owners
        BY <2>1, <2>3, <2>4, <3>1, OwnersAtPosition
      <4> QED
        BY <2>1, <2>3, <3>1, <4>1, <4>2
    <3>2. CASE s # locks[p].row
      <4>1. \A i \in DOMAIN locks : locks[i].row = s => after[i] = locks[i]
        BY <2>1, <3>2
      <4>2. \A i \in DOMAIN after : after[i].row = s => after[i] = locks[i]
        BY <2>1, <2>3, <3>2
      <4>3. OwnersIn(after, s) = OwnersIn(locks, s)
        BY <1>1, <2>1, <2>4, <4>1, <4>2, SameOwners
      <4> QED
        BY <3>2, <4>3
    <3> QED
      BY <3>1, <3>2
  <2> QED
    BY <1>3, <2>6, <2>7 DEF after
<1> QED
  BY <1>2, <1>3

\* release_lock takes one owner from one lock, and the last one with its lock.
LEMMA ReleaseInBucket ==
  ASSUME NEW b, NEW locks, GoodBucket(b, locks), NEW p \in DOMAIN locks,
         NEW t \in Transaction, t \in Range(locks[p].owners)
  PROVE  LET after == Remaining(locks, p, t)
         IN /\ GoodBucket(b, after)
            /\ \A s : OwnersIn(after, s) =
                 IF s = locks[p].row THEN Without(OwnersIn(locks, s), t) ELSE OwnersIn(locks, s)
<1> DEFINE n == Len(locks)
           lock == release(locks[p], t)
           changed == Released(locks, p, t)
           after == Remaining(locks, p, t)
<1>1. locks \in Seq(Lock) /\ RowsOnce(locks) /\ n \in Nat /\ DOMAIN locks = 1..n
  BY LenProperties DEF GoodBucket
<1>2. locks[p] \in Lock
  BY <1>1, ElementOfSeq
<1>3. /\ lock.row = locks[p].row /\ lock.exclusive = FALSE
      /\ lock.owners = Without(locks[p].owners, t)
  BY <1>2, ReleaseType
<1>4. /\ changed \in Seq(Lock) /\ DOMAIN changed = 1..n
      /\ \A i \in 1..n : changed[i] = IF i = p THEN lock ELSE locks[i]
  BY <1>1, ReleasedType, LenProperties
<1>5. OwnersIn(locks, locks[p].row) = locks[p].owners
  BY <1>1, OwnersAtPosition
<1>6. CASE Empty(lock)
  <2>1. /\ after \in Seq(Lock) /\ DOMAIN after = 1..(n - 1)
        /\ \A i \in 1..(n - 1) : after[i] = IF i < p THEN locks[i] ELSE locks[i + 1]
    BY <1>1, <1>6, RemainingType, LenProperties
  <2> HIDE DEF after, lock, n
  <2>2. ASSUME NEW i \in DOMAIN after
        PROVE  \E j \in DOMAIN locks : after[i] = locks[j] /\ j # p /\
                 j = IF i < p THEN i ELSE i + 1
    BY <1>1, <2>1
  <2>3. ASSUME NEW j \in DOMAIN locks, j # p
        PROVE  \E i \in DOMAIN after : after[i] = locks[j]
    <3>1. CASE j < p
      BY <1>1, <2>1, <2>3, <3>1
    <3>2. CASE j > p
      <4>1. j - 1 \in 1..(n - 1) /\ ~(j - 1 < p) /\ j - 1 + 1 = j
        BY <1>1, <3>2
      <4> QED
        BY <2>1, <4>1
    <3> QED
      BY <1>1, <2>3, <3>1, <3>2
  <2>4. RowsOnce(after)
    <3> SUFFICES ASSUME NEW i \in DOMAIN after, NEW k \in DOMAIN after, after[i].row = after[k].row
                 PROVE  i = k
      BY DEF RowsOnce
    <3>1. PICK j \in DOMAIN locks : after[i] = locks[j] /\ j = IF i < p THEN i ELSE i + 1
      BY <2>2
    <3>2. PICK m \in DOMAIN locks : after[k] = locks[m] /\ m = IF k < p THEN k ELSE k + 1
      BY <2>2
    <3>3. j = m
      BY <1>1, <3>1, <3>2 DEF RowsOnce
    <3> QED
      BY <1>1, <2>1, <3>1, <3>2, <3>3
  <2>5. GoodBucket(b, after)
    BY <2>1, <2>2, <2>4 DEF GoodBucket
  <2>6. ASSUME NEW s
        PROVE  OwnersIn(after, s) =
                 IF s = locks[p].row THEN Without(OwnersIn(locks, s), t) ELSE OwnersIn(locks, s)
    <3>1. CASE s = locks[p].row
      <4>1. \A j \in DOMAIN locks : j # p => locks[j].row # s
        BY <1>1, <3>1 DEF RowsOnce
      <4>2. ~HasRow(after, s)
        BY <2>2, <4>1 DEF HasRow
      <4>3. OwnersIn(after, s) = <<>>
        BY <4>2 DEF OwnersIn
      <4> QED
        BY <1>3, <1>5, <1>6, <3>1, <4>3 DEF Empty
    <3>2. CASE s # locks[p].row
      <4>1. \A j \in DOMAIN locks : locks[j].row = s => j # p
        BY <3>2
      <4>2. OwnersIn(after, s) = OwnersIn(locks, s)
        BY <1>1, <2>2, <2>3, <2>4, <4>1, SameOwners
      <4> QED
        BY <3>2, <4>2
    <3> QED
      BY <3>1, <3>2
  <2> QED
    BY <2>5, <2>6 DEF after
<1>7. CASE ~Empty(lock)
  <2>1. after = changed
    BY <1>1, <1>7, RemainingType
  <2> HIDE DEF after, lock, changed, n
  <2>2. RowsOnce(changed)
    BY <1>1, <1>3, <1>4 DEF RowsOnce
  <2>3. GoodBucket(b, changed)
    BY <1>1, <1>3, <1>4, <2>2 DEF GoodBucket
  <2>4. ASSUME NEW s
        PROVE  OwnersIn(changed, s) =
                 IF s = locks[p].row THEN Without(OwnersIn(locks, s), t) ELSE OwnersIn(locks, s)
    <3>1. CASE s = locks[p].row
      <4>1. OwnersIn(changed, s) = changed[p].owners
        BY <1>1, <1>3, <1>4, <2>2, <3>1, OwnersAtPosition
      <4> QED
        BY <1>1, <1>3, <1>4, <1>5, <3>1, <4>1
    <3>2. CASE s # locks[p].row
      <4>1. \A i \in DOMAIN locks : locks[i].row = s => changed[i] = locks[i]
        BY <1>1, <1>4, <3>2
      <4>2. \A i \in DOMAIN changed : changed[i].row = s => changed[i] = locks[i]
        BY <1>1, <1>3, <1>4, <3>2
      <4>3. OwnersIn(changed, s) = OwnersIn(locks, s)
        BY <1>1, <1>4, <2>2, <4>1, <4>2, SameOwners
      <4> QED
        BY <3>2, <4>3
    <3> QED
      BY <3>1, <3>2
  <2> QED
    BY <2>1, <2>3, <2>4 DEF after
<1> QED
  BY <1>6, <1>7

-----------------------------------------------------------------------------
(* The invariant                                                           *)

\* The objects a transaction may have.
Objects(t) ==
  [growing_phase : BOOLEAN, lock_budget : 0..Budget[t], locked_rows : Seq(Row)]

QueuedJob == [ask : Request, caller : Client \cup {Null}]

\* Jobs and callers.
RequestInv ==
  /\ queue \in Seq(QueuedJob)
  /\ client \in [Client -> [step : {"idle", "send", "wait"}, job : Request \cup {Null}]]
  /\ \A c \in Client : client[c].step = "send" => client[c].job \in Request
  /\ crashed \in BOOLEAN

\* Every bucket is as it should be, there is room for its owners, and its hash
\* is one of locks in it.
BucketInv ==
  /\ lockTable = [b \in Bucket |-> lockTable[b]]
  /\ lockTableIntegrityHashes = [b \in Bucket |-> lockTableIntegrityHashes[b]]
  /\ \A b \in Bucket : GoodBucket(b, lockTable[b])
  /\ ~crashed => \A b \in Bucket : \A i \in DOMAIN lockTable[b] :
                   Len(lockTable[b][i].owners) <= kTransactionBudget
  /\ \A b \in Bucket : lockTableIntegrityHashes[b] # Null =>
       \E n \in 1..Len(lockTable[b]) : DOMAIN lockTableIntegrityHashes[b] = Entries(n)

ObjectInv ==
  /\ transactionTable = [t \in Transaction |-> transactionTable[t]]
  /\ \A t \in Transaction : transactionTable[t] # Null => transactionTable[t] \in Objects(t)

TableInv == BucketInv /\ ObjectInv /\ TablesAgree

LEMMA BucketOfRow ==
  ASSUME NEW r \in Row
  PROVE  BucketOf[r] \in Bucket
  BY BucketAssumption

LEMMA InvImplies == RequestInv /\ TableInv => TypeOK /\ ExclusiveAlone
<1> SUFFICES ASSUME RequestInv, TableInv
             PROVE  TypeOK /\ ExclusiveAlone
  OBVIOUS
<1>1. TypeOK
  BY DEF RequestInv, TableInv, BucketInv, ObjectInv, GoodBucket, TypeOK, QueuedJob, Objects
<1>2. ExclusiveAlone
  BY DEF TableInv, BucketInv, GoodBucket, ExclusiveAlone
<1> QED
  BY <1>1, <1>2

LEMMA OwnersOfIsOwnersIn ==
  ASSUME NEW r
  PROVE  OwnersOf(r) = OwnersIn(lockTable[BucketOf[r]], r)
  BY DEF OwnersOf, OwnersIn

LEMMA InvInit == Init => RequestInv /\ TableInv
<1> SUFFICES ASSUME Init
             PROVE  RequestInv /\ TableInv
  OBVIOUS
<1>1. RequestInv
  <2> DEFINE idle == [step |-> "idle", job |-> Null]
  <2>1. /\ idle \in [step : {"idle", "send", "wait"}, job : Request \cup {Null}]
        /\ idle.step # "send"
    OBVIOUS
  <2>2. client = [c \in Client |-> idle] /\ queue = <<>> /\ crashed = FALSE
    BY DEF Init
  <2>3. queue \in Seq(QueuedJob) /\ crashed \in BOOLEAN
    BY <2>2, EmptySeq
  <2> HIDE DEF idle
  <2>4. /\ client \in [Client -> [step : {"idle", "send", "wait"}, job : Request \cup {Null}]]
        /\ \A c \in Client : client[c].step # "send"
    BY <2>1, <2>2
  <2> QED
    BY <2>3, <2>4 DEF RequestInv
<1>2. \A b : GoodBucket(b, <<>>)
  BY DEF GoodBucket, RowsOnce
<1>3. BucketInv
  BY <1>2 DEF Init, BucketInv
<1>4. ObjectInv
  BY DEF Init, ObjectInv
<1>5. \A t \in Transaction, r \in Row : RowsOf(t) = <<>> /\ OwnersOf(r) = <<>>
  BY BucketOfRow DEF Init, RowsOf, OwnersOf, HasRow
<1>6. TablesAgree
  BY <1>5, TimesEmpty DEF TablesAgree
<1> QED
  BY <1>1, <1>3, <1>4, <1>6 DEF TableInv

-----------------------------------------------------------------------------
(* Jobs and callers                                                        *)

\* The job at the head of the queue.
LEMMA HeadJob ==
  ASSUME RequestInv, queue # <<>>
  PROVE  /\ Head(queue) \in QueuedJob
         /\ Ask \in Request
         /\ Ask.transaction_id \in Transaction /\ Ask.row_id \in Row
         /\ Ask.command \in {"SHARED", "EXCLUSIVE", "UNLOCK"}
         /\ B \in Bucket /\ B = BucketOf[Ask.row_id]
         /\ Exclusively \in BOOLEAN
<1>1. Head(queue) \in QueuedJob
  BY HeadTailProperties DEF RequestInv
<1>2. Ask \in Request
  BY <1>1 DEF Ask, QueuedJob
<1>3. Ask.transaction_id \in Transaction /\ Ask.row_id \in Row
      /\ Ask.command \in {"SHARED", "EXCLUSIVE", "UNLOCK"}
  BY <1>2 DEF Request
<1> QED
  BY <1>1, <1>2, <1>3, BucketOfRow DEF B, Exclusively

\* A job that is done leaves the queue.
LEMMA DoneKeepsRequests ==
  ASSUME RequestInv, queue # <<>>, Done, crashed' \in BOOLEAN
  PROVE  RequestInv'
<1>1. Head(queue) \in QueuedJob /\ Tail(queue) \in Seq(QueuedJob)
  BY HeadTailProperties DEF RequestInv
<1>2. queue' \in Seq(QueuedJob)
  BY <1>1 DEF Done
<1> DEFINE c == Head(queue).caller
<1>3. c \in Client \cup {Null}
  BY <1>1 DEF QueuedJob
<1>4. client' = IF c = Null THEN client
                ELSE [client EXCEPT ![c] = [step |-> "idle", job |-> Null]]
  BY DEF Done, Answer
<1> HIDE DEF c
<1>5. CASE c = Null
  BY <1>2, <1>4, <1>5 DEF RequestInv
<1>6. CASE c # Null
  BY <1>2, <1>3, <1>4, <1>6 DEF RequestInv
<1> QED
  BY <1>5, <1>6

LEMMA PushKeepsRequests ==
  ASSUME RequestInv, NEW c \in Client, NEW ask \in Request, Push(c, ask), UNCHANGED crashed
  PROVE  RequestInv'
<1>1. Job(c, ask) \in QueuedJob
  BY DEF Job, QueuedJob
<1>2. queue' \in Seq(QueuedJob)
  <2>1. queue' = queue \/ queue' = Append(queue, Job(c, ask))
    BY DEF Push
  <2> QED
    BY <1>1, <2>1, AppendProperties DEF RequestInv
<1>3. PICK step \in {"idle", "wait"} :
        client' = [client EXCEPT ![c] = [step |-> step, job |-> Null]]
  <2>1. CASE transactionTable[ask.transaction_id] = Null
    BY <2>1 DEF Push
  <2>2. CASE transactionTable[ask.transaction_id] # Null
    BY <2>2 DEF Push
  <2> QED
    BY <2>1, <2>2
<1>4. [step |-> step, job |-> Null] \in
        [step : {"idle", "send", "wait"}, job : Request \cup {Null}]
  OBVIOUS
<1> QED
  BY <1>2, <1>3, <1>4 DEF RequestInv

LEMMA RequestStep ==
  ASSUME RequestInv, [Next]_vars
  PROVE  RequestInv'
<1>1. ASSUME NEW c \in Client, NEW t \in Transaction, Register(c, t)
      PROVE  RequestInv'
  BY <1>1 DEF Register, RequestInv
<1>2. ASSUME NEW c \in Client, NEW ask \in Asks, AddEmptyLock(c, ask)
      PROVE  RequestInv'
  <2>1. ask \in Request
    BY AsksAssumption
  <2>2. [step |-> "send", job |-> ask] \in
          [step : {"idle", "send", "wait"}, job : Request \cup {Null}]
    BY <2>1
  <2>3. /\ client' = [client EXCEPT ![c] = [step |-> "send", job |-> ask]]
        /\ UNCHANGED <<queue, crashed>>
    BY <1>2 DEF AddEmptyLock
  <2> QED
    BY <2>1, <2>2, <2>3 DEF RequestInv
<1>3. ASSUME NEW c \in Client, NEW ask \in Asks, SendUnlock(c, ask)
      PROVE  RequestInv'
  BY <1>3, AsksAssumption, PushKeepsRequests DEF SendUnlock
<1>4. ASSUME NEW c \in Client, SendLock(c)
      PROVE  RequestInv'
  BY <1>4, PushKeepsRequests DEF SendLock, RequestInv
<1>5. CASE Work
  <2>1. CASE AcquireMissingLock
    BY <2>1 DEF AcquireMissingLock, RequestInv
  <2>2. CASE Work /\ ~AcquireMissingLock
    <3>1. Done /\ queue # <<>>
      BY <2>2 DEF Work, RefuseLock, AcquireLock, RefuseUnlock, ReleaseLock, ReleaseNothing,
        MayUnlock, Serving
    <3>2. crashed' \in BOOLEAN
      <4>1. CASE AcquireLock
        BY <4>1 DEF AcquireLock
      <4>2. CASE ~AcquireLock
        BY <2>2, <4>2 DEF Work, RefuseLock, RefuseUnlock, ReleaseLock, ReleaseNothing, RequestInv
      <4> QED
        BY <4>1, <4>2
    <3> QED
      BY <3>1, <3>2, DoneKeepsRequests
  <2> QED
    BY <1>5, <2>1, <2>2
<1>6. CASE UNCHANGED vars
  BY <1>6 DEF vars, RequestInv
<1> QED
  BY <1>1, <1>2, <1>3, <1>4, <1>5, <1>6 DEF Next

-----------------------------------------------------------------------------
(* The tables                                                              *)

\* A transaction that is registered has an object, whose rows are rows.
LEMMA ObjectType ==
  ASSUME ObjectInv, NEW t \in Transaction
  PROVE  /\ RowsOf(t) \in Seq(Row)
         /\ transactionTable[t] # Null =>
              /\ transactionTable[t] \in Objects(t)
              /\ RowsOf(t) = transactionTable[t].locked_rows
<1>1. CASE transactionTable[t] = Null
  BY <1>1, EmptySeq DEF RowsOf
<1>2. CASE transactionTable[t] # Null
  BY <1>2 DEF ObjectInv, RowsOf, Objects
<1> QED
  BY <1>1, <1>2

\* An object is not a null pointer.
LEMMA ObjectsExist ==
  ASSUME NEW t \in Transaction, NEW object \in Objects(t)
  PROVE  object # Null
<1>1. Budget[t] \in Nat
  BY BudgetAssumption
<1>2. object \in [growing_phase : BOOLEAN, lock_budget : Int, locked_rows : Seq(Row)]
  BY <1>1 DEF Objects
<1> QED
  BY <1>2, NullAssumption

LEMMA OneObject ==
  ASSUME ObjectInv, NEW t \in Transaction, NEW object, object = Null \/ object \in Objects(t),
         transactionTable' = [transactionTable EXCEPT ![t] = object]
  PROVE  /\ ObjectInv'
         /\ \A u \in Transaction : RowsOf(u)' = IF u # t THEN RowsOf(u)
                                                ELSE IF object = Null THEN <<>>
                                                ELSE object.locked_rows
<1>1. \A u \in Transaction : transactionTable'[u] = IF u = t THEN object ELSE transactionTable[u]
  BY DEF ObjectInv
<1>2. transactionTable' = [u \in Transaction |-> transactionTable'[u]]
  BY DEF ObjectInv
<1> QED
  BY <1>1, <1>2 DEF ObjectInv, RowsOf

LEMMA OneBucket ==
  ASSUME BucketInv, NEW b \in Bucket, NEW locks, GoodBucket(b, locks),
         lockTable' = [lockTable EXCEPT ![b] = locks], NEW hash,
         lockTableIntegrityHashes' = [lockTableIntegrityHashes EXCEPT ![b] = hash],
         hash # Null => \E n \in 1..Len(locks) : DOMAIN hash = Entries(n),
         ~crashed' => ~crashed /\ \A i \in DOMAIN locks : Len(locks[i].owners) <= kTransactionBudget
  PROVE  /\ BucketInv'
         /\ \A r \in Row : OwnersOf(r)' = IF BucketOf[r] = b THEN OwnersIn(locks, r)
                                          ELSE OwnersOf(r)
<1>1. /\ lockTable' = [c \in Bucket |-> lockTable'[c]]
      /\ lockTableIntegrityHashes' = [c \in Bucket |-> lockTableIntegrityHashes'[c]]
  BY DEF BucketInv
<1>2. \A c \in Bucket : /\ lockTable'[c] = IF c = b THEN locks ELSE lockTable[c]
                        /\ lockTableIntegrityHashes'[c] =
                             IF c = b THEN hash ELSE lockTableIntegrityHashes[c]
  BY DEF BucketInv
<1>3. \A c \in Bucket : GoodBucket(c, lockTable'[c])
  BY <1>2 DEF BucketInv
<1>4. ~crashed' => \A c \in Bucket : \A i \in DOMAIN lockTable'[c] :
                     Len(lockTable'[c][i].owners) <= kTransactionBudget
  BY <1>2 DEF BucketInv
<1>5. \A c \in Bucket : lockTableIntegrityHashes'[c] # Null =>
        \E n \in 1..Len(lockTable'[c]) : DOMAIN lockTableIntegrityHashes'[c] = Entries(n)
  BY <1>2 DEF BucketInv
<1>6. BucketInv'
  BY <1>1, <1>3, <1>4, <1>5 DEF BucketInv
<1>7. \A r \in Row : OwnersOf(r)' = IF BucketOf[r] = b THEN OwnersIn(locks, r) ELSE OwnersOf(r)
  BY <1>2, BucketOfRow DEF OwnersOf, OwnersIn
<1> QED
  BY <1>6, <1>7

\* Nothing happens to a table.
LEMMA TablesStay ==
  ASSUME TableInv,
         UNCHANGED <<lockTable, lockTableIntegrityHashes, transactionTable>>,
         crashed' \/ UNCHANGED crashed
  PROVE  TableInv'
<1>1. BucketInv'
  BY DEF TableInv, BucketInv
<1>2. ObjectInv'
  BY DEF TableInv, ObjectInv
<1>3. TablesAgree'
  <2>1. \A t \in Transaction : RowsOf(t)' = RowsOf(t)
    BY DEF RowsOf
  <2>2. \A r \in Row : OwnersOf(r)' = OwnersOf(r)
    BY DEF OwnersOf
  <2> QED
    BY <2>1, <2>2 DEF TableInv, TablesAgree
<1> QED
  BY <1>1, <1>2, <1>3 DEF TableInv

LEMMA RegisterKeepsTables ==
  ASSUME TableInv, NEW c \in Client, NEW t \in Transaction, Register(c, t)
  PROVE  TableInv'
<1> DEFINE object == newTransaction(Budget[t])
<1>1. object \in Objects(t) /\ object.locked_rows = <<>>
  <2>1. Budget[t] \in 0..Budget[t]
    BY BudgetAssumption
  <2> QED
    BY <2>1, EmptySeq DEF newTransaction, Objects
<1>2. /\ transactionTable' = [transactionTable EXCEPT ![t] = object]
      /\ transactionTable[t] = Null
      /\ UNCHANGED <<lockTable, lockTableIntegrityHashes, crashed>>
  BY DEF Register
<1> HIDE DEF object
<1>3. BucketInv'
  BY <1>2 DEF TableInv, BucketInv
<1>4. /\ ObjectInv'
      /\ \A u \in Transaction : RowsOf(u)' = IF u # t THEN RowsOf(u)
                                             ELSE IF object = Null THEN <<>>
                                             ELSE object.locked_rows
  BY <1>1, <1>2, OneObject DEF TableInv
<1>5. \A u \in Transaction : RowsOf(u)' = RowsOf(u)
  BY <1>1, <1>2, <1>4 DEF RowsOf
<1>6. \A r \in Row : OwnersOf(r)' = OwnersOf(r)
  BY <1>2 DEF OwnersOf
<1>7. TablesAgree'
  BY <1>5, <1>6 DEF TableInv, TablesAgree
<1> QED
  BY <1>3, <1>4, <1>7 DEF TableInv

LEMMA AddEmptyLockKeepsTables ==
  ASSUME TableInv, NEW c \in Client, NEW ask \in Request, AddEmptyLock(c, ask)
  PROVE  TableInv'
<1> DEFINE r == ask.row_id
           b == BucketOf[r]
           locks == lockTable[b]
<1>1. r \in Row /\ b \in Bucket
  BY BucketOfRow DEF Request
<1>2. /\ lockTable' = IF HasRow(locks, r) THEN lockTable
                      ELSE [lockTable EXCEPT ![b] = Put(locks, r)]
      /\ ~crashed
      /\ UNCHANGED <<lockTableIntegrityHashes, transactionTable, crashed>>
  BY DEF AddEmptyLock
<1>3. CASE HasRow(locks, r)
  BY <1>2, <1>3, TablesStay
<1>4. CASE ~HasRow(locks, r)
  <2> DEFINE after == Put(locks, r)
  <2>1. GoodBucket(b, locks)
    BY <1>1 DEF TableInv, BucketInv
  <2>2. /\ GoodBucket(b, after) /\ Len(after) = Len(locks) + 1
        /\ \A i \in 1..Len(locks) : after[i] = locks[i]
        /\ after[Len(locks) + 1] = newLock(r)
        /\ \A s : OwnersIn(after, s) = OwnersIn(locks, s)
    BY <1>1, <1>4, <2>1, PutLock
  <2>3. Len(locks) \in Nat /\ DOMAIN locks = 1..Len(locks) /\ DOMAIN after = 1..(Len(locks) + 1)
    BY <2>1, <2>2, LenProperties DEF GoodBucket
  <2> HIDE DEF after
  <2>4. \A i \in DOMAIN after : Len(after[i].owners) <= kTransactionBudget
    <3>1. \A i \in DOMAIN locks : Len(locks[i].owners) <= kTransactionBudget
      BY <1>1, <1>2 DEF TableInv, BucketInv
    <3>2. Len(newLock(r).owners) <= kTransactionBudget
      BY RoomAssumption DEF newLock
    <3>3. ASSUME NEW i \in DOMAIN after
          PROVE  Len(after[i].owners) <= kTransactionBudget
      <4>1. CASE i \in 1..Len(locks)
        BY <2>2, <2>3, <3>1, <4>1
      <4>2. CASE i = Len(locks) + 1
        BY <2>2, <3>2, <4>2
      <4> QED
        BY <2>3, <4>1, <4>2
    <3> QED
      BY <3>3
  <2> DEFINE hash == lockTableIntegrityHashes[b]
  <2>5. lockTableIntegrityHashes' = [lockTableIntegrityHashes EXCEPT ![b] = hash]
    BY <1>1, <1>2 DEF TableInv, BucketInv
  <2>6. hash # Null => \E n \in 1..Len(after) : DOMAIN hash = Entries(n)
    <3>1. hash # Null => \E n \in 1..Len(locks) : DOMAIN hash = Entries(n)
      BY <1>1 DEF TableInv, BucketInv
    <3>2. 1..Len(locks) \subseteq 1..Len(after)
      BY <2>2, <2>3
    <3> QED
      BY <3>1, <3>2
  <2>7. lockTable' = [lockTable EXCEPT ![b] = after]
    BY <1>2, <1>4 DEF after
  <2> HIDE DEF hash
  <2>8. /\ BucketInv'
        /\ \A s \in Row : OwnersOf(s)' = IF BucketOf[s] = b THEN OwnersIn(after, s) ELSE OwnersOf(s)
    BY <1>1, <1>2, <2>2, <2>4, <2>5, <2>6, <2>7, OneBucket DEF TableInv
  <2>9. \A s \in Row : OwnersOf(s)' = OwnersOf(s)
    BY <2>2, <2>8, OwnersOfIsOwnersIn
  <2>10. ObjectInv' /\ \A t \in Transaction : RowsOf(t)' = RowsOf(t)
    BY <1>2 DEF TableInv, ObjectInv, RowsOf
  <2>11. TablesAgree'
    BY <2>9, <2>10 DEF TableInv, TablesAgree
  <2> QED
    BY <2>8, <2>10, <2>11 DEF TableInv
<1> QED
  BY <1>3, <1>4

\* What AcquireLock does, said of the position of the row in the list.
LEMMA AcquireMoves ==
  ASSUME RequestInv, TableInv, AcquireLock
  PROVE  \E p \in DOMAIN Locks :
           LET t == Ask.transaction_id
               after == Acquired(Locks, p, t, Exclusively)
           IN /\ Locks[p].row = Ask.row_id
              /\ GoodBucket(B, Locks) /\ ~crashed
              /\ lockTable' = [lockTable EXCEPT ![B] = after]
              /\ lockTableIntegrityHashes' = [lockTableIntegrityHashes EXCEPT ![B] =
                   hash_locktable_bucket(
                     add_lock_trusted(Copy(Locks), t, Locks[p].row, Exclusively), Len(Locks))]
              /\ transactionTable' = [transactionTable EXCEPT ![t] =
                   IF CanOwn(Locks[p], Exclusively) THEN addRow(Tx, Ask.row_id) ELSE Tx]
              /\ crashed' = (Len(after[p].owners) > kTransactionBudget)
<1> DEFINE t == Ask.transaction_id
<1>1. queue # <<>> /\ ~crashed /\ HasRow(Locks, Ask.row_id)
  BY DEF AcquireLock, Serving
<1>2. t \in Transaction /\ Ask.row_id \in Row /\ B \in Bucket
  BY <1>1, HeadJob
<1>3. GoodBucket(B, Locks)
  BY <1>2 DEF TableInv, BucketInv, Locks
<1>4. PICK p \in DOMAIN Locks : Locks[p].row = Ask.row_id
  BY <1>1 DEF HasRow
<1>5. Position(Locks, Ask.row_id) = p
  BY <1>3, <1>4, OwnersAtPosition DEF GoodBucket
<1> DEFINE after == Acquired(Locks, p, t, Exclusively)
<1>6. /\ lockTable' = [lockTable EXCEPT ![B] = after]
      /\ crashed' = (Len(after[p].owners) > kTransactionBudget)
  BY <1>5 DEF AcquireLock, Acquired
<1>7. lockTableIntegrityHashes' = [lockTableIntegrityHashes EXCEPT ![B] =
        hash_locktable_bucket(
          add_lock_trusted(Copy(Locks), t, Locks[p].row, Exclusively), Len(Locks))]
  BY <1>4 DEF AcquireLock, UpdateHash, Copy
<1>8. transactionTable' = [transactionTable EXCEPT ![t] =
        IF CanOwn(Locks[p], Exclusively) THEN addRow(@, Ask.row_id) ELSE @]
  BY <1>5 DEF AcquireLock
<1>9. transactionTable' = [transactionTable EXCEPT ![t] =
        IF CanOwn(Locks[p], Exclusively) THEN addRow(Tx, Ask.row_id) ELSE Tx]
  BY <1>8 DEF Tx
<1> QED
  BY <1>1, <1>3, <1>4, <1>6, <1>7, <1>9

LEMMA AddRowType ==
  ASSUME NEW t \in Transaction, NEW object \in Objects(t), object.lock_budget >= 1, NEW r \in Row
  PROVE  /\ addRow(object, r) \in Objects(t)
         /\ addRow(object, r).locked_rows = Append(object.locked_rows, r)
<1> DEFINE rows == Append(object.locked_rows, r)
<1>1. rows \in Seq(Row)
  BY AppendProperties DEF Objects
<1>2. object.lock_budget - 1 \in 0..Budget[t]
  BY BudgetAssumption DEF Objects
<1>3. addRow(object, r) = [object EXCEPT !.locked_rows = rows, !.lock_budget = @ - 1]
  BY DEF addRow
<1> HIDE DEF rows
<1>4. addRow(object, r) = [growing_phase |-> object.growing_phase,
                           lock_budget |-> object.lock_budget - 1, locked_rows |-> rows]
  BY <1>3 DEF Objects
<1> QED
  BY <1>1, <1>2, <1>4 DEF Objects, rows

LEMMA AcquireKeepsTables ==
  ASSUME RequestInv, TableInv, AcquireLock
  PROVE  TableInv'
<1> DEFINE t == Ask.transaction_id
           r == Ask.row_id
           x == Exclusively
<1>1. queue # <<>> /\ ~crashed /\ Tx # Null /\ Tx.lock_budget >= 1
  BY DEF AcquireLock, Serving, MayAcquire
<1>2. t \in Transaction /\ r \in Row /\ B \in Bucket /\ B = BucketOf[r] /\ x \in BOOLEAN
  BY <1>1, HeadJob
<1>3. PICK p \in DOMAIN Locks :
        /\ Locks[p].row = r
        /\ GoodBucket(B, Locks)
        /\ lockTable' = [lockTable EXCEPT ![B] = Acquired(Locks, p, t, x)]
        /\ lockTableIntegrityHashes' = [lockTableIntegrityHashes EXCEPT ![B] =
             hash_locktable_bucket(
               add_lock_trusted(Copy(Locks), t, Locks[p].row, x), Len(Locks))]
        /\ transactionTable' = [transactionTable EXCEPT ![t] =
             IF CanOwn(Locks[p], x) THEN addRow(Tx, r) ELSE Tx]
        /\ crashed' = (Len(Acquired(Locks, p, t, x)[p].owners) > kTransactionBudget)
  BY AcquireMoves
<1> DEFINE locks == Locks
           after == Acquired(Locks, p, t, x)
           hash == hash_locktable_bucket(
                     add_lock_trusted(Copy(Locks), t, Locks[p].row, x), Len(Locks))
           object == IF CanOwn(Locks[p], x) THEN addRow(Tx, r) ELSE Tx
<1>4. Tx \in Objects(t) /\ RowsOf(t) = Tx.locked_rows
  BY <1>1, <1>2, ObjectType DEF TableInv, Tx
<1>5. /\ object \in Objects(t)
      /\ object.locked_rows = IF CanOwn(Locks[p], x) THEN Append(RowsOf(t), r) ELSE RowsOf(t)
  <2>1. CASE CanOwn(Locks[p], x)
    BY <1>1, <1>2, <1>4, <2>1, AddRowType
  <2>2. CASE ~CanOwn(Locks[p], x)
    BY <1>4, <2>2
  <2> QED
    BY <2>1, <2>2
<1>6. /\ GoodBucket(B, after)
      /\ \A s : OwnersIn(after, s) =
           IF s = r /\ CanOwn(Locks[p], x) THEN Append(OwnersIn(locks, s), t)
           ELSE OwnersIn(locks, s)
  <2>1. GoodBucket(B, locks) /\ p \in DOMAIN locks /\ locks[p].row = r
    BY <1>3
  <2> HIDE DEF t, r, x, locks
  <2>2. /\ GoodBucket(B, Acquired(locks, p, t, x))
        /\ \A s : OwnersIn(Acquired(locks, p, t, x), s) =
             IF s = locks[p].row /\ CanOwn(locks[p], x) THEN Append(OwnersIn(locks, s), t)
             ELSE OwnersIn(locks, s)
    BY <1>2, <2>1, AcquireInBucket
  <2> QED
    BY <2>1, <2>2 DEF locks
<1>7. /\ locks \in Seq(Lock) /\ Len(locks) \in Nat /\ DOMAIN locks = 1..Len(locks)
      /\ Len(after) = Len(locks) /\ DOMAIN after = DOMAIN locks
      /\ \A i \in DOMAIN locks : i # p => after[i] = locks[i]
  <2>1. locks \in Seq(Lock) /\ Len(locks) \in Nat /\ DOMAIN locks = 1..Len(locks)
    BY <1>3, LenProperties DEF GoodBucket
  <2>2. /\ after \in Seq(Lock) /\ Len(after) = Len(locks)
        /\ \A i \in DOMAIN locks : i # p => after[i] = locks[i]
    BY <1>2, <2>1, AcquiredType
  <2> QED
    BY <2>1, <2>2, LenProperties
<1>8. DOMAIN hash = Entries(Len(locks)) /\ Len(locks) \in 1..Len(after)
  BY <1>7 DEF hash_locktable_bucket
<1>9. ~crashed' => \A i \in DOMAIN after : Len(after[i].owners) <= kTransactionBudget
  <2> SUFFICES ASSUME ~crashed', NEW i \in DOMAIN after
               PROVE  Len(after[i].owners) <= kTransactionBudget
    OBVIOUS
  <2>1. \A j \in DOMAIN locks : Len(locks[j].owners) <= kTransactionBudget
    BY <1>1, <1>2 DEF TableInv, BucketInv, Locks
  <2>2. CASE i # p
    BY <1>7, <2>1, <2>2
  <2>3. CASE i = p
    <3>1. after[p] \in Lock
      BY <1>6, <1>7, ElementOfSeq DEF GoodBucket
    <3> DEFINE k == Len(after[p].owners)
    <3>2. k \in Nat /\ ~(k > kTransactionBudget)
      BY <1>3, <3>1, LenProperties DEF Lock
    <3> HIDE DEF k
    <3>3. k <= kTransactionBudget
      BY <3>2, RoomAssumption
    <3> QED
      BY <2>3, <3>3 DEF k
  <2> QED
    BY <2>2, <2>3
<1>10. /\ lockTable' = [lockTable EXCEPT ![B] = after]
       /\ lockTableIntegrityHashes' = [lockTableIntegrityHashes EXCEPT ![B] = hash]
       /\ transactionTable' = [transactionTable EXCEPT ![t] = object]
  BY <1>3
<1> HIDE DEF after, hash, object
<1>11. /\ BucketInv'
       /\ \A s \in Row : OwnersOf(s)' = IF BucketOf[s] = B THEN OwnersIn(after, s) ELSE OwnersOf(s)
  BY <1>1, <1>2, <1>6, <1>8, <1>9, <1>10, OneBucket DEF TableInv
<1>12. object # Null
  BY <1>2, <1>5, ObjectsExist
<1>13. /\ ObjectInv'
       /\ \A u \in Transaction : RowsOf(u)' = IF u # t THEN RowsOf(u)
                                              ELSE IF object = Null THEN <<>>
                                              ELSE object.locked_rows
  BY <1>2, <1>5, <1>10, OneObject DEF TableInv
<1>14. ASSUME NEW u \in Transaction, NEW s \in Row
       PROVE  Times(s, RowsOf(u)') = Times(u, OwnersOf(s)')
  <2>1. Times(s, RowsOf(u)) = Times(u, OwnersOf(s))
    BY DEF TableInv, TablesAgree
  <2>2. RowsOf(u)' = IF u = t /\ CanOwn(Locks[p], x) THEN Append(RowsOf(u), r) ELSE RowsOf(u)
    BY <1>5, <1>12, <1>13
  <2>3. OwnersOf(s)' = IF s = r /\ CanOwn(Locks[p], x) THEN Append(OwnersOf(s), t) ELSE OwnersOf(s)
    <3>1. BucketOf[s] = B => OwnersOf(s) = OwnersIn(locks, s)
      BY OwnersOfIsOwnersIn DEF Locks
    <3> QED
      BY <1>2, <1>6, <1>11, <3>1
  <2>4. RowsOf(u) \in Seq(Row)
    BY ObjectType DEF TableInv
  <2>5. s = r => OwnersOf(s) \in Seq(Transaction)
    <3>1. OwnersOf(r) = locks[p].owners
      BY <1>2, <1>3, OwnersAtPosition, OwnersOfIsOwnersIn DEF GoodBucket, Locks
    <3>2. locks[p] \in Lock
      BY <1>7, ElementOfSeq
    <3> QED
      BY <3>1, <3>2 DEF Lock
  <2>6. CASE ~CanOwn(Locks[p], x)
    BY <2>1, <2>2, <2>3, <2>6
  <2>7. CASE CanOwn(Locks[p], x)
    <3>1. Times(s, RowsOf(u)') = Times(s, RowsOf(u)) + (IF u = t /\ s = r THEN 1 ELSE 0)
      <4>1. CASE u = t
        BY <1>2, <2>2, <2>4, <2>7, <4>1, TimesAppend
      <4>2. CASE u # t
        <5>1. Times(s, RowsOf(u)) \in Nat
          BY <2>4, TimesType
        <5> QED
          BY <2>2, <4>2, <5>1
      <4> QED
        BY <4>1, <4>2
    <3>2. CASE s = r
      <4>1. OwnersOf(s)' = Append(OwnersOf(s), t)
        BY <2>3, <2>7, <3>2
      <4>2. Times(u, OwnersOf(s)') = Times(u, OwnersOf(s)) + (IF u = t THEN 1 ELSE 0)
        BY <1>2, <2>5, <3>2, <4>1, TimesAppend
      <4> QED
        BY <2>1, <3>1, <3>2, <4>2
    <3>3. CASE s # r
      <4>1. Times(s, RowsOf(u)) \in Nat
        BY <2>4, TimesType
      <4> QED
        BY <2>1, <2>3, <3>1, <3>3, <4>1
    <3> QED
      BY <3>2, <3>3
  <2> QED
    BY <2>6, <2>7
<1>15. TablesAgree'
  BY <1>14 DEF TablesAgree
<1> QED
  BY <1>11, <1>13, <1>15 DEF TableInv

\* A transaction holds a row if it owns the lock of the row.
LEMMA HeldLock ==
  ASSUME TableInv, NEW t \in Transaction, NEW r \in Row, r \in Range(RowsOf(t))
  PROVE  LET locks == lockTable[BucketOf[r]]
         IN \E p \in DOMAIN locks : locks[p].row = r /\ t \in Range(locks[p].owners)
<1> DEFINE b == BucketOf[r]
           locks == lockTable[b]
<1>1. b \in Bucket /\ GoodBucket(b, locks)
  BY BucketOfRow DEF TableInv, BucketInv
<1>2. Times(r, RowsOf(t)) > 0
  BY ObjectType, TimesType DEF TableInv
<1>3. Times(t, OwnersOf(r)) > 0
  BY <1>2 DEF TableInv, TablesAgree
<1>4. OwnersOf(r) = OwnersIn(locks, r)
  BY OwnersOfIsOwnersIn
<1>5. HasRow(locks, r)
  <2> SUFFICES ASSUME ~HasRow(locks, r)
               PROVE  FALSE
    OBVIOUS
  <2>1. OwnersOf(r) = <<>>
    BY <1>4 DEF OwnersIn
  <2> QED
    BY <1>3, <2>1, TimesEmpty
<1>6. PICK p \in DOMAIN locks : locks[p].row = r
  BY <1>5 DEF HasRow
<1>7. locks \in Seq(Lock) /\ OwnersOf(r) = locks[p].owners
  BY <1>1, <1>4, <1>6, OwnersAtPosition DEF GoodBucket
<1>8. locks[p] \in Lock
  BY <1>7, ElementOfSeq, LenProperties
<1>9. locks[p].owners \in Seq(Transaction)
  BY <1>8 DEF Lock
<1>10. t \in Range(locks[p].owners)
  BY <1>3, <1>7, <1>9, TimesType
<1> QED
  BY <1>6, <1>10

\* What ReleaseLock does, said of the position of the row in the list.
LEMMA ReleaseMoves ==
  ASSUME RequestInv, TableInv, ReleaseLock
  PROVE  \E p \in DOMAIN Locks :
           LET t == Ask.transaction_id
               rest == release_lock_trusted(Copy(Locks), Len(Locks), t, Locks[p].row)
               object == removeRow(Tx, Ask.row_id)
           IN /\ Locks[p].row = Ask.row_id /\ t \in Range(Locks[p].owners)
              /\ GoodBucket(B, Locks) /\ ~crashed
              /\ lockTable' = [lockTable EXCEPT ![B] = Remaining(Locks, p, t)]
              /\ lockTableIntegrityHashes' = [lockTableIntegrityHashes EXCEPT ![B] =
                   hash_locktable_bucket(rest.bucket, rest.numEntries)]
              /\ transactionTable' = [transactionTable EXCEPT ![t] =
                   IF object.locked_rows = <<>> THEN Null ELSE object]
<1> DEFINE t == Ask.transaction_id
           r == Ask.row_id
<1>1. queue # <<>> /\ ~crashed /\ Tx # Null /\ r \in Range(Tx.locked_rows)
  BY DEF ReleaseLock, MayUnlock, Serving
<1>2. t \in Transaction /\ r \in Row /\ B \in Bucket /\ B = BucketOf[r]
  BY <1>1, HeadJob
<1>3. GoodBucket(B, Locks)
  BY <1>2 DEF TableInv, BucketInv, Locks
<1>4. RowsOf(t) = Tx.locked_rows
  BY <1>1 DEF Tx, RowsOf
<1>5. PICK p \in DOMAIN Locks : Locks[p].row = r /\ t \in Range(Locks[p].owners)
  <2>1. r \in Range(RowsOf(t))
    BY <1>1, <1>4
  <2> HIDE DEF t, r
  <2>2. \E p \in DOMAIN lockTable[BucketOf[r]] :
          /\ lockTable[BucketOf[r]][p].row = r
          /\ t \in Range(lockTable[BucketOf[r]][p].owners)
    BY <1>2, <2>1, HeldLock
  <2> QED
    BY <1>2, <2>2 DEF Locks
<1>6. Position(Locks, r) = p
  BY <1>3, <1>5, OwnersAtPosition DEF GoodBucket
<1>7. lockTable' = [lockTable EXCEPT ![B] = Remaining(Locks, p, t)]
  BY <1>6 DEF ReleaseLock, Remaining, Released, Removed
<1>8. lockTableIntegrityHashes' = [lockTableIntegrityHashes EXCEPT ![B] =
        hash_locktable_bucket(
          release_lock_trusted(Copy(Locks), Len(Locks), t, Locks[p].row).bucket,
          release_lock_trusted(Copy(Locks), Len(Locks), t, Locks[p].row).numEntries)]
  BY <1>5 DEF ReleaseLock, UpdateHash, Copy
<1>9. transactionTable' = [transactionTable EXCEPT ![t] =
        IF removeRow(Tx, r).locked_rows = <<>> THEN Null ELSE removeRow(Tx, r)]
  BY DEF ReleaseLock
<1> QED
  BY <1>1, <1>3, <1>5, <1>7, <1>8, <1>9

LEMMA RemoveRowType ==
  ASSUME NEW t \in Transaction, NEW object \in Objects(t), NEW r \in Range(object.locked_rows)
  PROVE  /\ removeRow(object, r) \in Objects(t)
         /\ removeRow(object, r).locked_rows = Without(object.locked_rows, r)
<1> DEFINE rows == Without(object.locked_rows, r)
<1>1. object.locked_rows \in Seq(Row)
  BY DEF Objects
<1>2. rows \in Seq(Row)
  BY <1>1, TimesWithout
<1>3. removeRow(object, r) = [object EXCEPT !.locked_rows = rows, !.growing_phase = FALSE]
  BY DEF removeRow
<1> HIDE DEF rows
<1>4. removeRow(object, r) = [growing_phase |-> FALSE, lock_budget |-> object.lock_budget,
                              locked_rows |-> rows]
  BY <1>3 DEF Objects
<1> QED
  BY <1>2, <1>4 DEF Objects, rows

\* There is room for the owners of the locks that are left.
LEMMA RoomIsLeft ==
  ASSUME NEW locks \in Seq(Lock), NEW p \in DOMAIN locks, NEW t \in Range(locks[p].owners),
         t \in Transaction,
         \A i \in DOMAIN locks : Len(locks[i].owners) <= kTransactionBudget
  PROVE  \A i \in DOMAIN Remaining(locks, p, t) :
           Len(Remaining(locks, p, t)[i].owners) <= kTransactionBudget
<1> DEFINE n == Len(locks)
           after == Remaining(locks, p, t)
           lock == release(locks[p], t)
<1>1. n \in Nat /\ DOMAIN locks = 1..n /\ p \in 1..n
  BY LenProperties
<1>2. after \in Seq(Lock)
  BY RemainingType
<1>3. CASE Empty(lock)
  <2>1. /\ DOMAIN after = 1..(n - 1)
        /\ \A i \in 1..(n - 1) : after[i] = IF i < p THEN locks[i] ELSE locks[i + 1]
    BY <1>2, <1>3, RemainingType, LenProperties
  <2> HIDE DEF after, n
  <2>2. \A i \in 1..(n - 1) : i \in 1..n /\ i + 1 \in 1..n
    BY <1>1
  <2>3. \A i \in DOMAIN after : \E j \in DOMAIN locks : after[i] = locks[j]
    BY <1>1, <2>1, <2>2
  <2> QED
    BY <2>3 DEF after
<1>4. CASE ~Empty(lock)
  <2>1. after = Released(locks, p, t)
    BY <1>4, RemainingType
  <2>2. /\ DOMAIN after = 1..n
        /\ \A i \in 1..n : after[i] = IF i = p THEN lock ELSE locks[i]
    BY <1>1, <2>1, ReleasedType, LenProperties
  <2>3. locks[p] \in Lock
    BY <1>1, ElementOfSeq
  <2>4. locks[p].owners \in Seq(Transaction)
    BY <2>3 DEF Lock
  <2>5. lock.owners = Without(locks[p].owners, t)
    BY <2>3, ReleaseType
  <2>6. Len(lock.owners) = Len(locks[p].owners) - 1 /\ Len(locks[p].owners) \in Nat
    BY <2>4, <2>5, TimesWithout, LenProperties
  <2> DEFINE k == Len(locks[p].owners)
             m == Len(lock.owners)
  <2>7. m <= kTransactionBudget
    <3>1. m = k - 1 /\ k \in Nat /\ k <= kTransactionBudget
      BY <2>6
    <3> HIDE DEF m, k
    <3> QED
      BY <3>1, RoomAssumption
  <2> HIDE DEF m, after, lock
  <2> QED
    BY <1>1, <2>2, <2>7 DEF m, after
<1> QED
  BY <1>3, <1>4

\* The hash of the rest is one of as many entries as there are locks.
LEMMA HashOfRest ==
  ASSUME NEW b, NEW locks, GoodBucket(b, locks), NEW p \in DOMAIN locks, NEW t \in Transaction,
         Len(locks[p].owners) <= kTransactionBudget
  PROVE  LET rest == release_lock_trusted(Copy(locks), Len(locks), t, locks[p].row)
             hash == hash_locktable_bucket(rest.bucket, rest.numEntries)
             after == Remaining(locks, p, t)
         IN hash # Null => \E n \in 1..Len(after) : DOMAIN hash = Entries(n)
<1> DEFINE rest == release_lock_trusted(Copy(locks), Len(locks), t, locks[p].row)
           hash == hash_locktable_bucket(rest.bucket, rest.numEntries)
           after == Remaining(locks, p, t)
           n == Len(after)
<1>1. rest.numEntries = n
  BY TrustedCount DEF GoodBucket
<1>2. n \in Nat
  BY RemainingType, LenProperties DEF GoodBucket
<1> HIDE DEF rest, after, n
<1>3. CASE n = 0
  BY <1>1, <1>3 DEF hash_locktable_bucket, rest
<1>4. CASE n # 0
  <2>1. DOMAIN hash = Entries(n)
    BY <1>1, <1>4 DEF hash_locktable_bucket
  <2>2. n \in 1..n
    BY <1>2, <1>4
  <2> QED
    BY <2>1, <2>2 DEF rest, n, after
<1> QED
  BY <1>3, <1>4

LEMMA ReleaseKeepsTables ==
  ASSUME RequestInv, TableInv, ReleaseLock
  PROVE  TableInv'
<1> DEFINE t == Ask.transaction_id
           r == Ask.row_id
           locks == Locks
<1>1. queue # <<>> /\ ~crashed /\ Tx # Null /\ r \in Range(Tx.locked_rows) /\ UNCHANGED crashed
  BY DEF ReleaseLock, MayUnlock, Serving
<1>2. t \in Transaction /\ r \in Row /\ B \in Bucket /\ B = BucketOf[r]
  BY <1>1, HeadJob
<1>3. PICK p \in DOMAIN locks :
        LET rest == release_lock_trusted(Copy(locks), Len(locks), t, locks[p].row)
            left == removeRow(Tx, r)
        IN /\ locks[p].row = r /\ t \in Range(locks[p].owners)
           /\ GoodBucket(B, locks)
           /\ lockTable' = [lockTable EXCEPT ![B] = Remaining(locks, p, t)]
           /\ lockTableIntegrityHashes' = [lockTableIntegrityHashes EXCEPT ![B] =
                hash_locktable_bucket(rest.bucket, rest.numEntries)]
           /\ transactionTable' = [transactionTable EXCEPT ![t] =
                IF left.locked_rows = <<>> THEN Null ELSE left]
  BY ReleaseMoves
<1> DEFINE after == Remaining(locks, p, t)
           rest == release_lock_trusted(Copy(locks), Len(locks), t, locks[p].row)
           hash == hash_locktable_bucket(rest.bucket, rest.numEntries)
           left == removeRow(Tx, r)
           object == IF left.locked_rows = <<>> THEN Null ELSE left
<1>4. Tx \in Objects(t) /\ RowsOf(t) = Tx.locked_rows
  BY <1>1, <1>2, ObjectType DEF TableInv, Tx
<1>5. left \in Objects(t) /\ left.locked_rows = Without(RowsOf(t), r)
  BY <1>1, <1>2, <1>4, RemoveRowType
<1>6. left # Null
  BY <1>2, <1>5, ObjectsExist
<1>7. locks \in Seq(Lock) /\ \A i \in DOMAIN locks : Len(locks[i].owners) <= kTransactionBudget
  <2>1. \A b \in Bucket : GoodBucket(b, lockTable[b])
    BY DEF TableInv, BucketInv
  <2>2. \A b \in Bucket : \A i \in DOMAIN lockTable[b] :
          Len(lockTable[b][i].owners) <= kTransactionBudget
    BY <1>1 DEF TableInv, BucketInv
  <2> QED
    BY <1>2, <2>1, <2>2 DEF GoodBucket, Locks
<1>8. /\ p \in DOMAIN locks /\ locks[p].row = r /\ t \in Range(locks[p].owners)
      /\ GoodBucket(B, locks)
      /\ lockTable' = [lockTable EXCEPT ![B] = after]
      /\ lockTableIntegrityHashes' = [lockTableIntegrityHashes EXCEPT ![B] = hash]
      /\ transactionTable' = [transactionTable EXCEPT ![t] = object]
  BY <1>3
<1>9. locks = lockTable[BucketOf[r]]
  BY <1>2 DEF Locks
<1> HIDE DEF t, r, locks, left
<1>10. /\ GoodBucket(B, after)
       /\ \A s : OwnersIn(after, s) =
            IF s = r THEN Without(OwnersIn(locks, s), t) ELSE OwnersIn(locks, s)
  BY <1>2, <1>8, ReleaseInBucket
<1>11. hash # Null => \E n \in 1..Len(after) : DOMAIN hash = Entries(n)
  BY <1>2, <1>7, <1>8, HashOfRest
<1>12. \A i \in DOMAIN after : Len(after[i].owners) <= kTransactionBudget
  BY <1>2, <1>7, <1>8, RoomIsLeft
<1> HIDE DEF after, hash, rest
<1>13. /\ BucketInv'
       /\ \A s \in Row : OwnersOf(s)' = IF BucketOf[s] = B THEN OwnersIn(after, s) ELSE OwnersOf(s)
  BY <1>1, <1>2, <1>8, <1>10, <1>11, <1>12, OneBucket DEF TableInv
<1>14. object = Null \/ object \in Objects(t)
  BY <1>5
<1>15. IF object = Null THEN left.locked_rows = <<>> ELSE object = left
  BY <1>6
<1> HIDE DEF object
<1>16. /\ ObjectInv'
       /\ \A u \in Transaction : RowsOf(u)' = IF u # t THEN RowsOf(u)
                                              ELSE IF object = Null THEN <<>>
                                              ELSE object.locked_rows
  BY <1>2, <1>8, <1>14, OneObject DEF TableInv
<1>17. \A u \in Transaction :
         RowsOf(u)' = IF u = t THEN Without(RowsOf(t), r) ELSE RowsOf(u)
  BY <1>5, <1>15, <1>16
<1>18. OwnersOf(r) = locks[p].owners
  BY <1>2, <1>8, <1>9, OwnersAtPosition, OwnersOfIsOwnersIn DEF GoodBucket
<1>19. \A s \in Row : OwnersOf(s)' = IF s = r THEN Without(OwnersOf(r), t) ELSE OwnersOf(s)
  <2>1. \A s \in Row : BucketOf[s] = B => OwnersOf(s) = OwnersIn(locks, s)
    BY <1>2, <1>9, OwnersOfIsOwnersIn
  <2> QED
    BY <1>2, <1>10, <1>13, <2>1
<1>20. locks[p].owners \in Seq(Transaction)
  <2>1. locks[p] \in Lock
    BY <1>7, <1>8, ElementOfSeq, LenProperties
  <2> QED
    BY <2>1 DEF Lock
<1>21. RowsOf(t) \in Seq(Row) /\ r \in Range(RowsOf(t))
  BY <1>1, <1>2, <1>4, ObjectType DEF TableInv, r
<1>22. ASSUME NEW u \in Transaction, NEW s \in Row
       PROVE  Times(s, RowsOf(u)') = Times(u, OwnersOf(s)')
  <2>1. Times(s, RowsOf(u)) = Times(u, OwnersOf(s)) /\ Times(s, RowsOf(u)) \in Nat
    BY ObjectType, TimesType DEF TableInv, TablesAgree
  <2>2. Times(s, RowsOf(u)') = Times(s, RowsOf(u)) - (IF u = t /\ s = r THEN 1 ELSE 0)
    <3>1. CASE u = t
      BY <1>17, <1>21, <3>1, TimesWithout
    <3>2. CASE u # t
      BY <1>17, <2>1, <3>2
    <3> QED
      BY <3>1, <3>2
  <2>3. Times(u, OwnersOf(s)') = Times(u, OwnersOf(s)) - (IF u = t /\ s = r THEN 1 ELSE 0)
    <3>1. CASE s = r
      <4>1. OwnersOf(s)' = Without(locks[p].owners, t)
        BY <1>18, <1>19, <3>1
      <4> QED
        BY <1>8, <1>18, <1>20, <3>1, <4>1, TimesWithout
    <3>2. CASE s # r
      BY <1>19, <2>1, <3>2
    <3> QED
      BY <3>1, <3>2
  <2> QED
    BY <2>1, <2>2, <2>3
<1>23. TablesAgree'
  BY <1>22 DEF TablesAgree
<1> QED
  BY <1>13, <1>16, <1>23 DEF TableInv

LEMMA ReleaseNothingKeepsTables ==
  ASSUME RequestInv, TableInv, ReleaseNothing
  PROVE  TableInv'
<1> DEFINE t == Ask.transaction_id
           object == IF Tx.locked_rows = <<>> THEN Null ELSE Tx
<1>1. /\ queue # <<>> /\ Tx # Null
      /\ UNCHANGED <<lockTable, lockTableIntegrityHashes, crashed>>
  BY DEF ReleaseNothing, MayUnlock, Serving
<1>2. t \in Transaction
  BY <1>1, HeadJob
<1>3. Tx \in Objects(t) /\ RowsOf(t) = Tx.locked_rows
  BY <1>1, <1>2, ObjectType DEF TableInv, Tx
<1>4. transactionTable' = [transactionTable EXCEPT ![t] = object]
  BY DEF ReleaseNothing, Tx
<1>5. object = Null \/ object \in Objects(t)
  BY <1>3
<1>6. IF object = Null THEN RowsOf(t) = <<>> ELSE object.locked_rows = RowsOf(t)
  BY <1>1, <1>3
<1> HIDE DEF object, t
<1>7. /\ ObjectInv'
      /\ \A u \in Transaction : RowsOf(u)' = IF u # t THEN RowsOf(u)
                                             ELSE IF object = Null THEN <<>>
                                             ELSE object.locked_rows
  BY <1>2, <1>4, <1>5, OneObject DEF TableInv
<1>8. \A u \in Transaction : RowsOf(u)' = RowsOf(u)
  BY <1>6, <1>7
<1>9. \A r \in Row : OwnersOf(r)' = OwnersOf(r)
  BY <1>1 DEF OwnersOf
<1>10. TablesAgree'
  BY <1>8, <1>9 DEF TableInv, TablesAgree
<1>11. BucketInv'
  BY <1>1 DEF TableInv, BucketInv
<1> QED
  BY <1>7, <1>10, <1>11 DEF TableInv

LEMMA TableStep ==
  ASSUME RequestInv, TableInv, [Next]_vars
  PROVE  TableInv'
<1>1. ASSUME NEW c \in Client, NEW t \in Transaction, Register(c, t)
      PROVE  TableInv'
  BY <1>1, RegisterKeepsTables
<1>2. ASSUME NEW c \in Client, NEW ask \in Asks, AddEmptyLock(c, ask)
      PROVE  TableInv'
  BY <1>2, AsksAssumption, AddEmptyLockKeepsTables
<1>3. ASSUME NEW c \in Client, NEW ask \in Asks, SendUnlock(c, ask)
      PROVE  TableInv'
  BY <1>3, TablesStay DEF SendUnlock
<1>4. ASSUME NEW c \in Client, SendLock(c)
      PROVE  TableInv'
  BY <1>4, TablesStay DEF SendLock
<1>5. CASE AcquireLock
  BY <1>5, AcquireKeepsTables
<1>6. CASE ReleaseLock
  BY <1>6, ReleaseKeepsTables
<1>7. CASE ReleaseNothing
  BY <1>7, ReleaseNothingKeepsTables
<1>8. CASE RefuseLock \/ RefuseUnlock \/ AcquireMissingLock
  BY <1>8, TablesStay DEF RefuseLock, RefuseUnlock, AcquireMissingLock
<1>9. CASE UNCHANGED vars
  BY <1>9, TablesStay DEF vars
<1> QED
  BY <1>1, <1>2, <1>3, <1>4, <1>5, <1>6, <1>7, <1>8, <1>9 DEF Next, Work

LEMMA TableInvariant == Spec => [](RequestInv /\ TableInv)
<1>1. Init => RequestInv /\ TableInv
  BY InvInit
<1>2. RequestInv /\ TableInv /\ [Next]_vars => (RequestInv /\ TableInv)'
  BY RequestStep, TableStep
<1> QED
  BY <1>1, <1>2, PTL DEF Spec

\* The tables hold what lockmanager.h and transaction.h declare; a stored hash
\* is one of locks that are in its bucket, and no budget is overdrawn.
THEOREM OutOfEnclaveTypes == Spec => []TypeOK
<1>1. RequestInv /\ TableInv => TypeOK
  BY InvImplies
<1> QED
  BY <1>1, TableInvariant, PTL

\* lock.cpp: an exclusive lock has one owner, also where transactions acquire
\* and release a row several times.
THEOREM ExclusiveLocksHaveOneOwner == Spec => []ExclusiveAlone
<1>1. RequestInv /\ TableInv => ExclusiveAlone
  BY InvImplies
<1> QED
  BY <1>1, TableInvariant, PTL

\* enclave.cpp changes the lock table outside and the transaction table inside
\* together: a transaction owns the lock of a row as often as it has the row.
THEOREM OutOfEnclaveTablesAgree == Spec => []TablesAgree
<1>1. TableInv => TablesAgree
  BY DEF TableInv
<1> QED
  BY <1>1, TableInvariant, PTL

-----------------------------------------------------------------------------
(* The hashes.  WithoutEntry does not take a lock out of the middle of a   *)
(* list (integrity_verification.cpp:171), so that what follows is of       *)
(* tables in which no three rows share a bucket.                           *)

SmallBuckets ==
  \A r, s, u \in Row : BucketOf[r] = BucketOf[s] /\ BucketOf[s] = BucketOf[u]
                       => r = s \/ s = u \/ r = u

\* The locks with owners are the first n.
OwnedFirst(locks, n) == \A i \in DOMAIN locks : Empty(locks[i]) <=> i > n

Hashed(locks, stored) ==
  \E n \in 0..Len(locks) :
    OwnedFirst(locks, n) /\ verify_against_stored_hash(Copy(locks), n, stored)

LEMMA HashesMatchIsHashed ==
  HashesMatch <=> (~crashed => \A b \in Bucket \ disturbed :
                                 Hashed(lockTable[b], lockTableIntegrityHashes[b]))
  BY DEF HashesMatch, Hashed, OwnedFirst, Copy

LEMMA SameHash ==
  ASSUME NEW copy, NEW other, NEW n, \A w \in Entries(n) : copy[w] = other[w]
  PROVE  hash_locktable_bucket(copy, n) = hash_locktable_bucket(other, n)
<1>1. [w \in Entries(n) |-> copy[w]] = [w \in Entries(n) |-> other[w]]
  OBVIOUS
<1> QED
  BY <1>1 DEF hash_locktable_bucket

\* A lock that is added without owners is behind what is hashed.
LEMMA PutIsHashed ==
  ASSUME NEW b, NEW locks, GoodBucket(b, locks), NEW r \in Row, BucketOf[r] = b,
         ~HasRow(locks, r), NEW stored, Hashed(locks, stored)
  PROVE  Hashed(Put(locks, r), stored)
<1> DEFINE n == Len(locks)
           after == Put(locks, r)
<1>1. locks \in Seq(Lock) /\ n \in Nat /\ DOMAIN locks = 1..n
  BY LenProperties DEF GoodBucket
<1>2. /\ after \in Seq(Lock) /\ Len(after) = n + 1
      /\ \A i \in 1..n : after[i] = locks[i]
      /\ Empty(after[n + 1])
  <2>1. /\ GoodBucket(b, after) /\ Len(after) = n + 1
        /\ \A i \in 1..n : after[i] = locks[i]
        /\ after[n + 1] = newLock(r)
    BY PutLock
  <2> HIDE DEF after, n
  <2> QED
    BY <2>1 DEF GoodBucket, newLock, Empty
<1>3. DOMAIN after = 1..(n + 1)
  BY <1>2, LenProperties
<1> HIDE DEF after, n
<1>4. PICK m \in 0..n :
        OwnedFirst(locks, m) /\ verify_against_stored_hash(Copy(locks), m, stored)
  BY DEF Hashed, n
<1>5. OwnedFirst(after, m)
  BY <1>1, <1>2, <1>3, <1>4 DEF OwnedFirst
<1>6. \A w \in Entries(m) : Copy(after)[w] = Copy(locks)[w]
  <2> SUFFICES ASSUME NEW w \in Entries(m)
               PROVE  Copy(after)[w] = Copy(locks)[w]
    OBVIOUS
  <2>1. PICK q \in 0..(m - 1), f \in Fields : w = Word(q, f)
    BY <1>4, EveryWord
  <2>2. q \in 0..(Len(locks) - 1) /\ q \in 0..(Len(after) - 1) /\ q + 1 \in 1..n
    BY <1>1, <1>2, <1>4, <2>1 DEF n
  <2>3. Copy(after)[w] = Field(after[q + 1], f) /\ Copy(locks)[w] = Field(locks[q + 1], f)
    BY <1>1, <1>2, <2>1, <2>2, CopiedWord
  <2> QED
    BY <1>2, <2>2, <2>3
<1>7. verify_against_stored_hash(Copy(after), m, stored)
  BY <1>4, <1>6, SameHash DEF verify_against_stored_hash
<1>8. m \in 0..Len(after)
  BY <1>1, <1>2, <1>4
<1> QED
  BY <1>5, <1>7, <1>8 DEF Hashed, after

\* What acquire_lock hashes is the bucket it leaves, if all locks but perhaps
\* that of the row have owners.
LEMMA AcquiredIsHashed ==
  ASSUME NEW b, NEW locks, GoodBucket(b, locks), NEW p \in DOMAIN locks,
         NEW t \in Transaction, NEW x \in BOOLEAN,
         Len(Acquired(locks, p, t, x)[p].owners) <= kTransactionBudget,
         \A i \in DOMAIN locks : i # p => ~Empty(locks[i])
  PROVE  Hashed(Acquired(locks, p, t, x),
           hash_locktable_bucket(
             add_lock_trusted(Copy(locks), t, locks[p].row, x), Len(locks)))
<1> DEFINE n == Len(locks)
           after == Acquired(locks, p, t, x)
           copy == add_lock_trusted(Copy(locks), t, locks[p].row, x)
<1>1. locks \in Seq(Lock) /\ RowsOnce(locks) /\ n \in Nat /\ DOMAIN locks = 1..n
  BY LenProperties DEF GoodBucket
<1>2. /\ after \in Seq(Lock) /\ Len(after) = n
      /\ \A i \in 1..n : after[i] =
           IF i = p /\ CanOwn(locks[p], x) THEN AddOwner(locks[p], t, x) ELSE locks[i]
  BY <1>1, AcquiredType
<1>3. DOMAIN after = 1..n
  BY <1>2, LenProperties
<1>4. locks[p] \in Lock
  BY <1>1, ElementOfSeq
<1>5. ~Empty(after[p])
  <2>1. CASE CanOwn(locks[p], x)
    <3> DEFINE lock == locks[p]
               longer == Append(lock.owners, t)
    <3>1. after[p].owners = longer
      BY <1>1, <1>2, <1>4, <2>1, AddOwnerType
    <3>2. lock.owners \in Seq(Transaction)
      BY <1>4 DEF Lock
    <3> HIDE DEF lock
    <3>3. longer # <<>>
      BY <3>2
    <3> QED
      BY <3>1, <3>3 DEF Empty
  <2>2. CASE ~CanOwn(locks[p], x)
    <3>1. after[p] = locks[p]
      BY <1>1, <1>2, <2>2
    <3>2. locks[p].exclusive => Len(locks[p].owners) = 1
      BY DEF GoodBucket
    <3>3. locks[p].owners # <<>> \/ locks[p].exclusive
      BY <2>2 DEF CanOwn
    <3>4. Len(<<>>) # 1
      OBVIOUS
    <3> QED
      BY <3>1, <3>2, <3>3, <3>4 DEF Empty
  <2> QED
    BY <2>1, <2>2
<1>6. \A w \in Entries(n) : copy[w] = Copy(after)[w]
  BY <1>1, TrustedAdd
<1> HIDE DEF n, after, copy
<1>7. \A i \in 1..n : ~Empty(after[i])
  BY <1>1, <1>2, <1>5
<1>8. OwnedFirst(after, n)
  BY <1>1, <1>3, <1>7 DEF OwnedFirst
<1>9. verify_against_stored_hash(Copy(after), n, hash_locktable_bucket(copy, n))
  BY <1>6, SameHash DEF verify_against_stored_hash
<1>10. n \in 0..Len(after)
  BY <1>1, <1>2
<1>11. Hashed(after, hash_locktable_bucket(copy, n))
  BY <1>8, <1>9, <1>10 DEF Hashed
<1> QED
  BY <1>11 DEF n, after, copy

\* What release_lock hashes is the bucket it leaves, if all locks have owners
\* and the lock that goes is the first or the last.
LEMMA ReleasedIsHashed ==
  ASSUME NEW b, NEW locks, GoodBucket(b, locks), NEW p \in DOMAIN locks,
         NEW t \in Transaction, p \in {1, Len(locks)},
         Len(locks[p].owners) <= kTransactionBudget,
         \A i \in DOMAIN locks : ~Empty(locks[i])
  PROVE  LET rest == release_lock_trusted(Copy(locks), Len(locks), t, locks[p].row)
         IN Hashed(Remaining(locks, p, t), hash_locktable_bucket(rest.bucket, rest.numEntries))
<1> DEFINE n == Len(locks)
           after == Remaining(locks, p, t)
           m == Len(after)
           rest == release_lock_trusted(Copy(locks), n, t, locks[p].row)
<1>1. locks \in Seq(Lock) /\ RowsOnce(locks) /\ n \in Nat /\ DOMAIN locks = 1..n /\ p \in 1..n
  BY LenProperties DEF GoodBucket
<1>2. after \in Seq(Lock) /\ m \in Nat /\ DOMAIN after = 1..m
  BY <1>1, RemainingType, LenProperties
<1>3. rest.numEntries = m
  BY <1>1, TrustedCount
<1>4. \A w \in Entries(m) : rest.bucket[w] = Copy(after)[w]
  BY <1>1, TrustedRemove
<1>5. \A i \in 1..m : ~Empty(after[i])
  <2>1. CASE Empty(release(locks[p], t))
    <3>1. /\ m = n - 1
          /\ \A i \in 1..(n - 1) : after[i] = IF i < p THEN locks[i] ELSE locks[i + 1]
      BY <1>1, <2>1, RemainingType
    <3> HIDE DEF after, n, m
    <3>2. \A i \in 1..(n - 1) : i \in 1..n /\ i + 1 \in 1..n
      BY <1>1
    <3> QED
      BY <1>1, <3>1, <3>2
  <2>2. CASE ~Empty(release(locks[p], t))
    <3>1. m = n /\ \A i \in 1..n : after[i] = IF i = p THEN release(locks[p], t) ELSE locks[i]
      BY <1>1, <2>2, RemainingType, ReleasedType
    <3> HIDE DEF after, n, m
    <3> QED
      BY <1>1, <2>2, <3>1
  <2> QED
    BY <2>1, <2>2
<1> HIDE DEF n, m, after, rest
<1>6. OwnedFirst(after, m)
  BY <1>2, <1>5 DEF OwnedFirst
<1>7. verify_against_stored_hash(Copy(after), m, hash_locktable_bucket(rest.bucket, m))
  BY <1>4, SameHash DEF verify_against_stored_hash
<1>8. Hashed(after, hash_locktable_bucket(rest.bucket, rest.numEntries))
  BY <1>2, <1>3, <1>6, <1>7 DEF Hashed, m
<1> QED
  BY <1>8 DEF rest, after, n

\* With no three rows in a bucket every lock is the first or the last.
LEMMA FirstOrLast ==
  ASSUME SmallBuckets, NEW b, NEW locks, GoodBucket(b, locks), NEW p \in DOMAIN locks
  PROVE  p \in {1, Len(locks)}
<1> DEFINE n == Len(locks)
<1>1. n \in Nat /\ DOMAIN locks = 1..n /\ locks \in Seq(Lock)
  BY LenProperties DEF GoodBucket
<1> SUFFICES ASSUME p # 1, p # n
             PROVE  FALSE
  OBVIOUS
<1>2. \A i \in 1..n : locks[i].row \in Row /\ BucketOf[locks[i].row] = b
  <2> SUFFICES ASSUME NEW i \in 1..n
               PROVE  locks[i].row \in Row /\ BucketOf[locks[i].row] = b
    OBVIOUS
  <2>1. locks[i] \in Lock
    BY <1>1, ElementOfSeq
  <2> QED
    BY <1>1, <2>1 DEF Lock, GoodBucket
<1>3. \A i, j \in 1..n : i # j => locks[i].row # locks[j].row
  BY <1>1 DEF GoodBucket, RowsOnce
<1> HIDE DEF n
<1>4. 1 \in 1..n /\ n \in 1..n /\ p \in 1..n /\ 1 # n
  BY <1>1
<1>5. /\ locks[1].row # locks[p].row /\ locks[p].row # locks[n].row
      /\ locks[1].row # locks[n].row
  BY <1>3, <1>4
<1> QED
  BY <1>2, <1>4, <1>5 DEF SmallBuckets

\* A job that leaves its bucket undisturbed met no lock without owners, but
\* perhaps the last one, which was added for its row.
LEMMA Undisturbed ==
  ASSUME RequestInv, TableInv, queue # <<>>, Done, B \notin disturbed'
  PROVE  /\ B \notin disturbed
         /\ GoodBucket(B, Locks)
         /\ \A i \in DOMAIN Locks :
              Empty(Locks[i]) => i = Len(Locks) /\ Locks[i].row = Ask.row_id
<1>1. GoodBucket(B, Locks)
  BY HeadJob DEF TableInv, BucketInv, Locks
<1>2. Len(Locks) \in Nat /\ DOMAIN Locks = 1..Len(Locks)
  BY <1>1, LenProperties DEF GoodBucket
<1>3. disturbed' = IF OthersEmpty THEN disturbed \cup {B} ELSE disturbed
  BY DEF Done
<1>4. ~OthersEmpty /\ B \notin disturbed
  BY <1>3
<1>5. \A i \in DOMAIN Locks :
        Empty(Locks[i]) => ~(i < Len(Locks)) /\ Locks[i].row = Ask.row_id
  BY <1>4 DEF OthersEmpty
<1> QED
  BY <1>1, <1>2, <1>4, <1>5

\* Where the lock of the row has an owner, all have.
LEMMA AllOwned ==
  ASSUME RequestInv, TableInv, queue # <<>>, Done, B \notin disturbed',
         Ask.row_id \in Range(RowsOf(Ask.transaction_id))
  PROVE  \A i \in DOMAIN Locks : ~Empty(Locks[i])
<1>1. PICK p \in DOMAIN Locks :
        Locks[p].row = Ask.row_id /\ Ask.transaction_id \in Range(Locks[p].owners)
  BY HeadJob, HeldLock DEF Locks
<1>2. ~Empty(Locks[p])
  <2>1. Range(<<>>) = {}
    BY DEF Range
  <2> QED
    BY <1>1, <2>1 DEF Empty
<1>3. GoodBucket(B, Locks)
      /\ \A i \in DOMAIN Locks : Empty(Locks[i]) => Locks[i].row = Ask.row_id
  BY Undisturbed
<1> QED
  BY <1>1, <1>2, <1>3 DEF GoodBucket, RowsOnce

\* One bucket and its hash change, if any.
LEMMA OneHash ==
  ASSUME TableInv, HashesMatch, ~crashed, disturbed \subseteq disturbed',
         NEW b \in Bucket, NEW locks, NEW hash,
         lockTable' = [lockTable EXCEPT ![b] = locks],
         lockTableIntegrityHashes' = [lockTableIntegrityHashes EXCEPT ![b] = hash],
         b \notin disturbed' => Hashed(locks, hash)
  PROVE  HashesMatch'
<1>1. \A c \in Bucket : /\ lockTable'[c] = IF c = b THEN locks ELSE lockTable[c]
                        /\ lockTableIntegrityHashes'[c] =
                             IF c = b THEN hash ELSE lockTableIntegrityHashes[c]
  BY DEF TableInv, BucketInv
<1>2. \A c \in Bucket \ disturbed : Hashed(lockTable[c], lockTableIntegrityHashes[c])
  BY HashesMatchIsHashed
<1>3. \A c \in Bucket \ disturbed' : Hashed(lockTable'[c], lockTableIntegrityHashes'[c])
  BY <1>1, <1>2
<1> QED
  BY <1>3, Zenon DEF HashesMatch, Hashed, OwnedFirst, Copy

LEMMA HashesStay ==
  ASSUME HashesMatch, crashed' \/ ~crashed, disturbed \subseteq disturbed',
         UNCHANGED <<lockTable, lockTableIntegrityHashes>>
  PROVE  HashesMatch'
<1>1. ~crashed' => \A b \in Bucket \ disturbed :
                     Hashed(lockTable[b], lockTableIntegrityHashes[b])
  BY HashesMatchIsHashed
<1>2. ~crashed' => \A b \in Bucket \ disturbed' :
                     Hashed(lockTable'[b], lockTableIntegrityHashes'[b])
  BY <1>1
<1> QED
  BY <1>2 DEF HashesMatch, Hashed, OwnedFirst, Copy

LEMMA AddEmptyLockKeepsHashes ==
  ASSUME TableInv, HashesMatch, NEW c \in Client, NEW ask \in Request, AddEmptyLock(c, ask)
  PROVE  HashesMatch'
<1> DEFINE r == ask.row_id
           b == BucketOf[r]
           locks == lockTable[b]
           hash == lockTableIntegrityHashes[b]
<1>1. r \in Row /\ b \in Bucket
  BY BucketOfRow DEF Request
<1>2. /\ lockTable' = IF HasRow(locks, r) THEN lockTable
                      ELSE [lockTable EXCEPT ![b] = Put(locks, r)]
      /\ ~crashed
      /\ UNCHANGED <<lockTableIntegrityHashes, transactionTable, crashed, disturbed>>
  BY DEF AddEmptyLock
<1>3. CASE HasRow(locks, r)
  BY <1>2, <1>3, HashesStay
<1>4. CASE ~HasRow(locks, r)
  <2>1. GoodBucket(b, locks)
    BY <1>1 DEF TableInv, BucketInv
  <2>2. b \notin disturbed' => Hashed(locks, hash)
    BY <1>1, <1>2, HashesMatchIsHashed
  <2>3. b \notin disturbed' => Hashed(Put(locks, r), hash)
    BY <1>1, <1>4, <2>1, <2>2, PutIsHashed
  <2>4. lockTableIntegrityHashes' = [lockTableIntegrityHashes EXCEPT ![b] = hash]
    BY <1>1, <1>2 DEF TableInv, BucketInv
  <2>5. lockTable' = [lockTable EXCEPT ![b] = Put(locks, r)] /\ disturbed \subseteq disturbed'
    BY <1>2, <1>4
  <2> HIDE DEF hash, locks
  <2> QED
    BY <1>1, <1>2, <2>3, <2>4, <2>5, OneHash
<1> QED
  BY <1>3, <1>4

LEMMA AcquireKeepsHashes ==
  ASSUME RequestInv, TableInv, HashesMatch, AcquireLock
  PROVE  HashesMatch'
<1> DEFINE t == Ask.transaction_id
           x == Exclusively
<1>1. queue # <<>> /\ ~crashed /\ Done
  BY DEF AcquireLock, Serving
<1>2. t \in Transaction /\ B \in Bucket /\ x \in BOOLEAN
  BY <1>1, HeadJob
<1>3. PICK p \in DOMAIN Locks :
        /\ Locks[p].row = Ask.row_id
        /\ GoodBucket(B, Locks)
        /\ lockTable' = [lockTable EXCEPT ![B] = Acquired(Locks, p, t, x)]
        /\ lockTableIntegrityHashes' = [lockTableIntegrityHashes EXCEPT ![B] =
             hash_locktable_bucket(
               add_lock_trusted(Copy(Locks), t, Locks[p].row, x), Len(Locks))]
        /\ crashed' = (Len(Acquired(Locks, p, t, x)[p].owners) > kTransactionBudget)
  BY AcquireMoves
<1> DEFINE hash == hash_locktable_bucket(
                     add_lock_trusted(Copy(Locks), t, Locks[p].row, x), Len(Locks))
           after == Acquired(Locks, p, t, x)
<1>4. CASE crashed'
  BY <1>4 DEF HashesMatch
<1>5. CASE ~crashed'
  <2>1. Len(after[p].owners) <= kTransactionBudget
    <3>1. Locks \in Seq(Lock) /\ p \in DOMAIN Locks
      BY <1>3 DEF GoodBucket
    <3>2. after \in Seq(Lock) /\ p \in 1..Len(after)
      BY <1>2, <3>1, AcquiredType, LenProperties
    <3>3. after[p] \in Lock
      BY <3>2, ElementOfSeq
    <3> DEFINE k == Len(after[p].owners)
    <3>4. k \in Nat /\ ~(k > kTransactionBudget)
      BY <1>3, <1>5, <3>3, LenProperties DEF Lock
    <3> HIDE DEF k
    <3>5. k <= kTransactionBudget
      BY <3>4, RoomAssumption
    <3> QED
      BY <3>5 DEF k
  <2>2. B \notin disturbed' => Hashed(after, hash)
    <3> SUFFICES ASSUME B \notin disturbed'
                 PROVE  Hashed(after, hash)
      OBVIOUS
    <3>1. \A i \in DOMAIN Locks : Empty(Locks[i]) => Locks[i].row = Ask.row_id
      BY <1>1, Undisturbed
    <3>2. \A i \in DOMAIN Locks : i # p => ~Empty(Locks[i])
      BY <1>3, <3>1 DEF GoodBucket, RowsOnce
    <3> DEFINE locks == Locks
    <3>3. /\ GoodBucket(B, locks) /\ p \in DOMAIN locks
          /\ \A i \in DOMAIN locks : i # p => ~Empty(locks[i])
          /\ Len(Acquired(locks, p, t, x)[p].owners) <= kTransactionBudget
      BY <1>3, <2>1, <3>2
    <3> HIDE DEF locks, t, x
    <3>4. Hashed(Acquired(locks, p, t, x),
            hash_locktable_bucket(
              add_lock_trusted(Copy(locks), t, locks[p].row, x), Len(locks)))
      BY <1>2, <3>3, AcquiredIsHashed
    <3> QED
      BY <3>4 DEF locks
  <2>3. disturbed \subseteq disturbed'
    BY <1>1 DEF Done
  <2>4. /\ lockTable' = [lockTable EXCEPT ![B] = after]
        /\ lockTableIntegrityHashes' = [lockTableIntegrityHashes EXCEPT ![B] = hash]
    BY <1>3
  <2> HIDE DEF after, hash
  <2> QED
    BY <1>1, <1>2, <2>2, <2>3, <2>4, OneHash
<1> QED
  BY <1>4, <1>5

LEMMA ReleaseKeepsHashes ==
  ASSUME SmallBuckets, RequestInv, TableInv, HashesMatch, ReleaseLock
  PROVE  HashesMatch'
<1> DEFINE t == Ask.transaction_id
           locks == Locks
<1>1. /\ queue # <<>> /\ ~crashed /\ Done /\ UNCHANGED crashed
      /\ Tx # Null /\ Ask.row_id \in Range(Tx.locked_rows)
  BY DEF ReleaseLock, MayUnlock, Serving
<1>2. t \in Transaction /\ B \in Bucket
  BY <1>1, HeadJob
<1>3. PICK p \in DOMAIN locks :
        LET rest == release_lock_trusted(Copy(locks), Len(locks), t, locks[p].row)
        IN /\ GoodBucket(B, locks)
           /\ lockTable' = [lockTable EXCEPT ![B] = Remaining(locks, p, t)]
           /\ lockTableIntegrityHashes' = [lockTableIntegrityHashes EXCEPT ![B] =
                hash_locktable_bucket(rest.bucket, rest.numEntries)]
  BY ReleaseMoves
<1> DEFINE after == Remaining(locks, p, t)
           rest == release_lock_trusted(Copy(locks), Len(locks), t, locks[p].row)
           hash == hash_locktable_bucket(rest.bucket, rest.numEntries)
<1>4. /\ GoodBucket(B, locks) /\ p \in DOMAIN locks
      /\ lockTable' = [lockTable EXCEPT ![B] = after]
      /\ lockTableIntegrityHashes' = [lockTableIntegrityHashes EXCEPT ![B] = hash]
  BY <1>3
<1>5. Len(locks[p].owners) <= kTransactionBudget
  BY <1>1, <1>2 DEF TableInv, BucketInv, Locks
<1>6. Ask.row_id \in Range(RowsOf(t))
  BY <1>1 DEF Tx, RowsOf
<1>7. B \notin disturbed' => Hashed(after, hash)
  <2> SUFFICES ASSUME B \notin disturbed'
               PROVE  Hashed(after, hash)
    OBVIOUS
  <2>1. \A i \in DOMAIN locks : ~Empty(locks[i])
    BY <1>1, <1>6, AllOwned
  <2> HIDE DEF locks, t
  <2>2. p \in {1, Len(locks)}
    BY <1>4, FirstOrLast
  <2> QED
    BY <1>2, <1>4, <1>5, <2>1, <2>2, ReleasedIsHashed
<1>8. disturbed \subseteq disturbed'
  BY <1>1 DEF Done
<1> HIDE DEF after, hash
<1> QED
  BY <1>1, <1>2, <1>4, <1>7, <1>8, OneHash

LEMMA HashStep ==
  ASSUME SmallBuckets, RequestInv, TableInv, HashesMatch, [Next]_vars
  PROVE  HashesMatch'
<1>1. ASSUME NEW c \in Client, NEW t \in Transaction, Register(c, t)
      PROVE  HashesMatch'
  BY <1>1, HashesStay DEF Register
<1>2. ASSUME NEW c \in Client, NEW ask \in Asks, AddEmptyLock(c, ask)
      PROVE  HashesMatch'
  BY <1>2, AsksAssumption, AddEmptyLockKeepsHashes
<1>3. ASSUME NEW c \in Client, NEW ask \in Asks, SendUnlock(c, ask)
      PROVE  HashesMatch'
  BY <1>3, HashesStay DEF SendUnlock
<1>4. ASSUME NEW c \in Client, SendLock(c)
      PROVE  HashesMatch'
  BY <1>4, HashesStay DEF SendLock
<1>5. CASE AcquireLock
  BY <1>5, AcquireKeepsHashes
<1>6. CASE ReleaseLock
  BY <1>6, ReleaseKeepsHashes
<1>7. CASE RefuseLock \/ RefuseUnlock \/ ReleaseNothing
  BY <1>7, HashesStay DEF RefuseLock, RefuseUnlock, ReleaseNothing, MayUnlock, Serving, Done
<1>8. CASE AcquireMissingLock
  BY <1>8 DEF AcquireMissingLock, HashesMatch
<1>9. CASE UNCHANGED vars
  <2>1. UNCHANGED <<lockTable, lockTableIntegrityHashes, crashed, disturbed>>
    BY <1>9 DEF vars
  <2>2. crashed' \/ ~crashed
    BY <2>1
  <2> QED
    BY <2>1, <2>2, HashesStay
<1> QED
  BY <1>1, <1>2, <1>3, <1>4, <1>5, <1>6, <1>7, <1>8, <1>9 DEF Next, Work

LEMMA HashInit == Init => HashesMatch
<1> SUFFICES ASSUME Init, NEW b \in Bucket
             PROVE  Hashed(lockTable[b], lockTableIntegrityHashes[b])
  BY HashesMatchIsHashed
<1>1. lockTable[b] = <<>> /\ lockTableIntegrityHashes[b] = Null
  BY DEF Init
<1>2. 0 \in 0..Len(<<>>) /\ OwnedFirst(<<>>, 0)
  BY DEF OwnedFirst
<1>3. verify_against_stored_hash(Copy(<<>>), 0, Null)
  BY DEF verify_against_stored_hash, hash_locktable_bucket
<1> QED
  BY <1>1, <1>2, <1>3 DEF Hashed

LEMMA HashInvariant == SmallBuckets => (Spec => [](RequestInv /\ TableInv /\ HashesMatch))
<1> SUFFICES ASSUME SmallBuckets
             PROVE  Spec => [](RequestInv /\ TableInv /\ HashesMatch)
  OBVIOUS
<1>1. Init => RequestInv /\ TableInv /\ HashesMatch
  BY InvInit, HashInit
<1>2. RequestInv /\ TableInv /\ HashesMatch /\ [Next]_vars
        => (RequestInv /\ TableInv /\ HashesMatch)'
  BY RequestStep, TableStep, HashStep
<1> QED
  BY <1>1, <1>2, PTL DEF Spec

\* integrity_verification.cpp changes its copy of a bucket as lock.cpp and
\* hashtable.cpp change the table: what the enclave has hashed are the locks
\* with owners, until a job meets the empty lock of another one.
THEOREM HashesMatchTheTable == SmallBuckets => (Spec => []HashesMatch)
<1> SUFFICES ASSUME SmallBuckets
             PROVE  Spec => []HashesMatch
  OBVIOUS
<1>1. Spec => [](RequestInv /\ TableInv /\ HashesMatch)
  BY HashInvariant
<1> QED
  BY <1>1, PTL

\* The row leaves the transaction.
LEMMA ReleaseTakesRow ==
  ASSUME RequestInv, TableInv, ReleaseLock,
         NEW t, t = Ask.transaction_id, NEW r, r = Ask.row_id
  PROVE  Times(r, RowsOf(t)') = Times(r, RowsOf(t)) - 1
<1> DEFINE left == removeRow(Tx, r)
           object == IF left.locked_rows = <<>> THEN Null ELSE left
<1>1. queue # <<>> /\ Tx # Null /\ r \in Range(Tx.locked_rows)
  BY DEF ReleaseLock, MayUnlock, Serving
<1>2. t \in Transaction /\ r \in Row
  BY <1>1, HeadJob
<1>3. Tx \in Objects(t) /\ RowsOf(t) = Tx.locked_rows /\ RowsOf(t) \in Seq(Row)
  BY <1>1, <1>2, ObjectType DEF TableInv, Tx
<1>4. left \in Objects(t) /\ left.locked_rows = Without(RowsOf(t), r)
  BY <1>1, <1>2, <1>3, RemoveRowType
<1>5. left # Null
  BY <1>2, <1>4, ObjectsExist
<1>6. transactionTable' = [transactionTable EXCEPT ![t] = object]
  BY DEF ReleaseLock
<1> HIDE DEF left
<1>7. (object = Null \/ object \in Objects(t))
      /\ IF object = Null THEN left.locked_rows = <<>> ELSE object = left
  BY <1>4, <1>5
<1> HIDE DEF object
<1>8. \A u \in Transaction : RowsOf(u)' = IF u # t THEN RowsOf(u)
                                          ELSE IF object = Null THEN <<>>
                                          ELSE object.locked_rows
  BY <1>2, <1>6, <1>7, OneObject DEF TableInv
<1>9. RowsOf(t)' = Without(RowsOf(t), r)
  BY <1>2, <1>4, <1>7, <1>8
<1>10. Times(r, Without(RowsOf(t), r)) = Times(r, RowsOf(t)) - 1
  BY <1>1, <1>3, TimesWithout
<1> QED
  BY <1>9, <1>10

\* A step that takes the job of the head of the queue is one of the worker's.
LEMMA TakenByWorker ==
  ASSUME RequestInv, [Next]_vars, Serving({"UNLOCK"}), queue' = Tail(queue)
  PROVE  RefuseUnlock \/ ReleaseLock \/ ReleaseNothing
<1>1. queue \in Seq(QueuedJob) /\ queue # <<>>
  BY DEF RequestInv, Serving
<1>2. Tail(queue) # queue /\ \A job \in QueuedJob : Tail(queue) # Append(queue, job)
  <2> DEFINE n == Len(queue)
  <2>1. n \in Nat /\ Len(Tail(queue)) = n - 1
    BY <1>1, HeadTailProperties, LenProperties
  <2>2. \A job \in QueuedJob : Len(Append(queue, job)) = n + 1
    BY <1>1, AppendProperties
  <2> HIDE DEF n
  <2>3. n - 1 # n /\ n - 1 # n + 1
    BY <2>1
  <2> QED
    BY <2>1, <2>2, <2>3 DEF n
<1>3. ASSUME NEW c \in Client, NEW ask \in Request, Push(c, ask)
      PROVE  FALSE
  <2>1. Job(c, ask) \in QueuedJob
    BY DEF Job, QueuedJob
  <2>2. queue' = queue \/ queue' = Append(queue, Job(c, ask))
    BY <1>3 DEF Push
  <2> QED
    BY <1>2, <2>1, <2>2
<1>4. ASSUME NEW c \in Client, SendLock(c)
      PROVE  FALSE
  BY <1>3, <1>4 DEF SendLock, RequestInv
<1>5. ASSUME NEW c \in Client, NEW ask \in Asks, SendUnlock(c, ask)
      PROVE  FALSE
  BY <1>3, <1>5, AsksAssumption DEF SendUnlock
<1>6. ASSUME NEW c \in Client, NEW ask \in Asks, AddEmptyLock(c, ask)
      PROVE  FALSE
  BY <1>2, <1>6 DEF AddEmptyLock
<1>7. ASSUME NEW c \in Client, NEW t \in Transaction, Register(c, t)
      PROVE  FALSE
  BY <1>2, <1>7 DEF Register
<1>8. ~UNCHANGED vars
  BY <1>2 DEF vars
<1>9. ~RefuseLock /\ ~AcquireLock /\ ~AcquireMissingLock
  BY DEF RefuseLock, AcquireLock, AcquireMissingLock, Serving
<1> QED
  BY <1>4, <1>5, <1>6, <1>7, <1>8, <1>9 DEF Next, Work

LEMMA UnlockStep ==
  ASSUME RequestInv, TableInv, HashesMatch, [Next]_vars,
         Serving({"UNLOCK"}), queue' = Tail(queue), B \notin disturbed',
         Times(Ask.row_id, RowsOf(Ask.transaction_id)) > 0
  PROVE  ReleaseLock
<1> DEFINE t == Ask.transaction_id
           r == Ask.row_id
<1>1. queue # <<>> /\ ~crashed
  BY DEF Serving
<1>2. t \in Transaction /\ r \in Row /\ B \in Bucket
  BY <1>1, HeadJob
<1>3. r \in Range(RowsOf(t))
  BY <1>2, ObjectType, TimesType DEF TableInv
<1>4. Tx # Null /\ RowsOf(t) = Tx.locked_rows
  <2>1. transactionTable[t] # Null
    <3> SUFFICES ASSUME transactionTable[t] = Null
                 PROVE  FALSE
      OBVIOUS
    <3>1. RowsOf(t) = <<>>
      BY DEF RowsOf
    <3> QED
      BY <1>3, <3>1 DEF Range
  <2> QED
    BY <2>1 DEF RowsOf, Tx
<1>5. RefuseUnlock \/ ReleaseLock \/ ReleaseNothing
  BY TakenByWorker
<1>6. ~ReleaseNothing
  BY <1>3, <1>4 DEF ReleaseNothing
<1>7. ASSUME RefuseUnlock
      PROVE  FALSE
  <2>1. Done /\ (Tx = Null \/ ~VerifiedOnUnlock(Locks, Stored))
    BY <1>7 DEF RefuseUnlock
  <2>2. B \notin disturbed /\ GoodBucket(B, Locks)
    BY <1>1, <2>1, Undisturbed
  <2>3. \A i \in DOMAIN Locks : ~Empty(Locks[i])
    BY <1>1, <1>3, <2>1, AllOwned
  <2>4. Hashed(Locks, Stored)
    BY <1>1, <1>2, <2>2, HashesMatchIsHashed DEF Locks, Stored
  <2>5. PICK n \in 0..Len(Locks) :
          OwnedFirst(Locks, n) /\ verify_against_stored_hash(Copy(Locks), n, Stored)
    BY <2>4 DEF Hashed
  <2>6. n = Len(Locks)
    <3>1. Len(Locks) \in Nat /\ DOMAIN Locks = 1..Len(Locks)
      BY <2>2, LenProperties DEF GoodBucket
    <3>2. Len(Locks) # 0 => ~(Len(Locks) > n)
      BY <2>3, <2>5, <3>1 DEF OwnedFirst
    <3> DEFINE m == Len(Locks)
    <3>3. m \in Nat /\ (m # 0 => ~(m > n)) /\ n \in 0..m
      BY <2>5, <3>1, <3>2
    <3> HIDE DEF m
    <3>4. n = m
      BY <3>3
    <3> QED
      BY <3>4 DEF m
  <2> QED
    BY <1>4, <2>1, <2>5, <2>6 DEF VerifiedOnUnlock, Copy
<1> QED
  BY <1>5, <1>6, <1>7

\* release_lock says nothing of a bucket it does not recognize; it recognizes
\* every bucket that no job has disturbed, and releases the lock.
THEOREM UnlocksRelease == SmallBuckets => (Spec => UnlockReleases)
<1> SUFFICES ASSUME SmallBuckets
             PROVE  Spec => UnlockReleases
  OBVIOUS
<1> DEFINE Inv == RequestInv /\ TableInv /\ HashesMatch
           Freed(t, r) ==
             /\ Serving({"UNLOCK"}) /\ queue' = Tail(queue)
             /\ B \notin disturbed'
             /\ Ask.transaction_id = t /\ Ask.row_id = r
             /\ Times(r, RowsOf(t)) > 0
             => Times(r, RowsOf(t)') = Times(r, RowsOf(t)) - 1
<1>1. Inv /\ [Next]_vars => \A t \in Transaction, r \in Row : Freed(t, r)
  BY UnlockStep, ReleaseTakesRow
<1>2. Inv /\ [Next]_vars => [\A t \in Transaction, r \in Row : Freed(t, r)]_vars
  BY <1>1
<1>3. Spec => []Inv
  BY HashInvariant
<1> QED
  BY <1>2, <1>3, PTL DEF Spec, UnlockReleases
=============================================================================
