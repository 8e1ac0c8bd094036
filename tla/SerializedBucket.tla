--------------------------- MODULE SerializedBucket ---------------------------
(***************************************************************************)
(* integrity_verification.cpp: the enclave copies a bucket of the lock     *)
(* table into an array of words, hashes the copy, changes the copy as the  *)
(* table is going to be changed, and hashes it again.  The code that       *)
(* changes the copy is not the code that changes the table.                *)
(*                                                                         *)
(* A copy is a function from 0..n-1 to words, where the entries end that   *)
(* are hashed: what the array holds behind them is never looked at, as the *)
(* row that is searched for is in the bucket.  A hash is what was hashed:  *)
(* SHA-256 does not collide.                                               *)
(***************************************************************************)
EXTENDS Integers, Sequences

CONSTANTS
  kTransactionBudget,  \* the owners a lock has room for
  Null                 \* no hash, no object

ASSUME RoomAssumption == kTransactionBudget \in Nat \ {0}

\* The row, the mode, the number of owners, the owners.
sizeOfSerializedLockEntry == 3 + kTransactionBudget

Entries(n) == 0..(n * sizeOfSerializedLockEntry - 1)

Field(lock, f) ==
  CASE f = 0 -> lock.row
    [] f = 1 -> IF lock.exclusive THEN 1 ELSE 0
    [] f = 2 -> Len(lock.owners)
    [] OTHER -> IF f - 2 <= Len(lock.owners) THEN lock.owners[f - 2] ELSE 0

locktable_bucket_to_uint32_t(locks) ==
  [w \in Entries(Len(locks)) |->
     Field(locks[(w \div sizeOfSerializedLockEntry) + 1], w % sizeOfSerializedLockEntry)]

hash_locktable_bucket(bucket, numEntries) ==
  IF numEntries = 0 THEN Null ELSE [w \in Entries(numEntries) |-> bucket[w]]

verify_against_stored_hash(bucket, numEntries, stored) ==
  hash_locktable_bucket(bucket, numEntries) = stored

EntryOf(bucket, row) ==
  CHOOSE i \in DOMAIN bucket : i % sizeOfSerializedLockEntry = 0 /\ bucket[i] = row

\* Fault: the mode of the lock is not set.
add_lock_as_shared(bucket, t, row, exclusive) ==
  LET i == EntryOf(bucket, row)
      numOwners == bucket[i + 2]
  IN IF (IF exclusive THEN numOwners # 0 ELSE bucket[i + 1] = 1) THEN bucket
     ELSE [bucket EXCEPT ![i + 2] = @ + 1, ![i + 3 + numOwners] = t]

\* With one owner too many the last word is the first of the next entry.
add_lock_trusted(bucket, t, row, exclusive) ==
  LET i == EntryOf(bucket, row)
      numOwners == bucket[i + 2]
  IN IF exclusive
     THEN IF numOwners # 0 THEN bucket
          ELSE [bucket EXCEPT ![i + 1] = 1, ![i + 2] = 1, ![i + 3] = t]
     ELSE IF bucket[i + 1] = 1 THEN bucket
          ELSE [bucket EXCEPT ![i + 2] = @ + 1, ![i + 3 + numOwners] = t]

\* The owners from j on move up by one.
WithoutOwner(bucket, i, j) ==
  LET last == i + 3 + bucket[i + 2] - 1
  IN [w \in DOMAIN bucket |->
        CASE w = i + 1 -> 0
          [] w = i + 2 -> bucket[w] - 1
          [] w = last -> 0
          [] w \in (i + 3 + j)..(last - 1) -> bucket[w + 1]
          [] OTHER -> bucket[w]]

\* The loop writes to i + j where j starts at i, so that it removes the first
\* and the last entry only.
WithoutEntry(bucket, i, numEntries) ==
  [w \in Entries(numEntries - 1) |->
     IF w < 2 * i THEN bucket[w] ELSE bucket[w + sizeOfSerializedLockEntry]]

\* The entries that are left are those to hash.
release_lock_trusted(bucket, numEntries, t, row) ==
  LET i == EntryOf(bucket, row)
      Owned == {j \in 0..(bucket[i + 2] - 1) : bucket[i + 3 + j] = t}
      first == CHOOSE j \in Owned : \A k \in Owned : j <= k
      after == IF Owned = {} THEN bucket ELSE WithoutOwner(bucket, i, first)
  IN IF after[i + 2] = 0
     THEN [bucket |-> WithoutEntry(after, i, numEntries), numEntries |-> numEntries - 1]
     ELSE [bucket |-> after, numEntries |-> numEntries]
=============================================================================
