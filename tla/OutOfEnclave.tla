---------------------------- MODULE OutOfEnclave ----------------------------
(***************************************************************************)
(* The lock manager of out-of-enclave: the lock table is in untrusted      *)
(* memory, the enclave keeps a hash of each bucket of it.  A caller adds a *)
(* lock without owners before it asks for a row that has none; the lock    *)
(* worker (one, the default) verifies the bucket, changes its own copy,    *)
(* stores the hash of the copy (module SerializedBucket) and repeats the   *)
(* change in the table.                                                    *)
(*                                                                         *)
(* A bucket is the sequence of its locks.  The table changes only as the   *)
(* program changes it.  What the worker does for one job is one step:      *)
(* callers only append to a bucket, which the worker does not notice       *)
(* before the next job.  Registering is one step as well, as the           *)
(* transaction table is in the enclave (see JobDispatch for the queues).   *)
(***************************************************************************)
EXTENDS SerializedBucket, FiniteSets, SequencesExt, Functions

CONSTANTS
  Transaction,         \* transaction identifiers
  Row,                 \* row identifiers
  BucketOf,            \* the bucket of each row
  Client,              \* threads that call the lock manager
  Asks,                \* the requests they make: [command, transaction_id, row_id]
  Awaited,             \* the commands whose result they wait for
  Budget,              \* the lock budget each transaction registers with
  MaxQueue             \* bound: no more than this many jobs wait

Request == [command : {"SHARED", "EXCLUSIVE", "UNLOCK"},
            transaction_id : Transaction, row_id : Row]

ASSUME AsksAssumption == Asks \subseteq Request
ASSUME BudgetAssumption == Budget \in [Transaction -> Nat]

Bucket == Range(BucketOf)

ASSUME BucketAssumption == BucketOf \in [Row -> Bucket]

\* A null pointer is no transaction object.
ASSUME NullAssumption ==
  Null \notin [growing_phase : BOOLEAN, lock_budget : Int, locked_rows : Seq(Row)]

VARIABLES
  lockTable,                \* untrusted: the locks of each bucket
  lockTableIntegrityHashes, \* what the enclave last hashed of each bucket, or Null
  transactionTable,         \* the object of each registered transaction, or Null
  queue,                    \* the jobs of the lock worker
  client,                   \* what each client is doing
  crashed,                  \* a null pointer was followed or an array overrun
  disturbed                 \* the buckets in which a job met the empty lock of another one

vars ==
  <<lockTable, lockTableIntegrityHashes, transactionTable, queue, client, crashed, disturbed>>

Init ==
  /\ lockTable = [b \in Bucket |-> <<>>]
  /\ lockTableIntegrityHashes = [b \in Bucket |-> Null]
  /\ transactionTable = [t \in Transaction |-> Null]
  /\ queue = <<>>
  /\ client = [c \in Client |-> [step |-> "idle", job |-> Null]]
  /\ crashed = FALSE
  /\ disturbed = {}

-----------------------------------------------------------------------------
(* lock.cpp                                                                *)

newLock(row) == [row |-> row, exclusive |-> FALSE, owners |-> <<>>]

\* Fault: the mode of the lock is not looked at.
CanOwnAlways(lock, exclusive) == TRUE

CanOwn(lock, exclusive) ==
  IF exclusive THEN lock.owners = <<>> ELSE ~lock.exclusive

AddOwner(lock, t, exclusive) ==
  [lock EXCEPT !.exclusive = exclusive, !.owners = Append(@, t)]

\* The first occurrence of x leaves the sequence.
Without(seq, x) ==
  IF x \notin Range(seq) THEN seq
  ELSE LET i == CHOOSE j \in DOMAIN seq :
                  seq[j] = x /\ \A k \in DOMAIN seq : seq[k] = x => j <= k
       IN RemoveAt(seq, i)

\* Fault: the other owners lose the lock as well.
releaseForAll(lock, t) == [lock EXCEPT !.exclusive = FALSE, !.owners = <<>>]

release(lock, t) ==
  IF t \in Range(lock.owners)
  THEN [lock EXCEPT !.exclusive = FALSE, !.owners = Without(@, t)]
  ELSE lock

-----------------------------------------------------------------------------
(* transaction.cpp                                                         *)

newTransaction(lockBudget) ==
  [growing_phase |-> TRUE, lock_budget |-> lockBudget, locked_rows |-> <<>>]

addRow(transaction, row) ==
  [transaction EXCEPT !.locked_rows = Append(@, row), !.lock_budget = @ - 1]

\* The budget is not given back, and the phase is looked at by nobody.
removeRow(transaction, row) ==
  [transaction EXCEPT !.locked_rows = Without(@, row), !.growing_phase = FALSE]

-----------------------------------------------------------------------------
(* hashtable.cpp                                                           *)

\* get; a lock that was removed is not there.
Position(locks, row) ==
  CHOOSE i \in DOMAIN locks : locks[i].row = row

\* contains
HasRow(locks, row) == \E i \in DOMAIN locks : locks[i].row = row

\* set: at the end of the list.
Put(locks, row) == Append(locks, newLock(row))

\* remove
Removed(locks, i) == RemoveAt(locks, i)

-----------------------------------------------------------------------------
(* enclave.cpp: the verification of a bucket                               *)

Empty(lock) == lock.owners = <<>>

\* acquire_lock: the last lock may be one that a caller has just added.
VerifiedOnLock(locks, stored) ==
  LET entriesToHash == IF locks # <<>> /\ Empty(Last(locks)) THEN Len(locks) - 1 ELSE Len(locks)
  IN verify_against_stored_hash(locktable_bucket_to_uint32_t(locks), entriesToHash, stored)

\* Fault: the last lock is not hashed.
VerifiedShort(locks, stored) ==
  verify_against_stored_hash(locktable_bucket_to_uint32_t(locks),
                             IF locks = <<>> THEN 0 ELSE Len(locks) - 1, stored)

\* release_lock: all locks are hashed.
VerifiedOnUnlock(locks, stored) ==
  verify_against_stored_hash(locktable_bucket_to_uint32_t(locks), Len(locks), stored)

-----------------------------------------------------------------------------
(* lockmanager.cpp and enclave_send_job: the callers                       *)

\* lock(): a row that is not in the lock table gets a lock without owners.
AddEmptyLock(c, ask) ==
  /\ ~crashed
  /\ client[c].step = "idle"
  /\ ask.command # "UNLOCK"
  /\ LET b == BucketOf[ask.row_id]
     IN lockTable' = IF HasRow(lockTable[b], ask.row_id) THEN lockTable
                     ELSE [lockTable EXCEPT ![b] = Put(@, ask.row_id)]
  /\ client' = [client EXCEPT ![c] = [step |-> "send", job |-> ask]]
  /\ UNCHANGED <<lockTableIntegrityHashes, transactionTable, queue, crashed, disturbed>>

\* create_enclave_job: a job has flags for its caller, if the caller waits.
Job(c, ask) == [ask |-> ask, caller |-> IF ask.command \in Awaited THEN c ELSE Null]

\* enclave_send_job: nothing is queued for a transaction that is not registered.
Push(c, ask) ==
  IF transactionTable[ask.transaction_id] = Null
  THEN /\ client' = [client EXCEPT ![c] = [step |-> "idle", job |-> Null]]
       /\ UNCHANGED queue
  ELSE /\ Len(queue) < MaxQueue
       /\ queue' = Append(queue, Job(c, ask))
       /\ client' = [client EXCEPT ![c] =
            [step |-> IF Job(c, ask).caller = c THEN "wait" ELSE "idle", job |-> Null]]

SendLock(c) ==
  /\ ~crashed
  /\ client[c].step = "send"
  /\ Push(c, client[c].job)
  /\ UNCHANGED <<lockTable, lockTableIntegrityHashes, transactionTable, crashed, disturbed>>

SendUnlock(c, ask) ==
  /\ ~crashed
  /\ client[c].step = "idle"
  /\ ask.command = "UNLOCK"
  /\ Push(c, ask)
  /\ UNCHANGED <<lockTable, lockTableIntegrityHashes, transactionTable, crashed, disturbed>>

Register(c, t) ==
  /\ ~crashed
  /\ client[c].step = "idle"
  /\ transactionTable[t] = Null
  /\ transactionTable' = [transactionTable EXCEPT ![t] = newTransaction(Budget[t])]
  /\ UNCHANGED <<lockTable, lockTableIntegrityHashes, queue, client, crashed, disturbed>>

-----------------------------------------------------------------------------
(* enclave.cpp: the lock worker                                            *)

Ask == Head(queue).ask
Tx == transactionTable[Ask.transaction_id]
B == BucketOf[Ask.row_id]
Locks == lockTable[B]
Stored == lockTableIntegrityHashes[B]
Exclusively == Ask.command = "EXCLUSIVE"

\* The lock that was added for this job does not disturb it, if it is the last.
OthersEmpty ==
  \E i \in DOMAIN Locks :
    Empty(Locks[i]) /\ (i < Len(Locks) \/ Locks[i].row # Ask.row_id)

\* *finished is set, and the caller goes on.
Answer(c) ==
  client' = IF c = Null THEN client
            ELSE [client EXCEPT ![c] = [step |-> "idle", job |-> Null]]

\* The job leaves the queue.
Done ==
  /\ disturbed' = IF OthersEmpty THEN disturbed \cup {B} ELSE disturbed
  /\ queue' = Tail(queue)
  /\ Answer(Head(queue).caller)

Serving(commands) == ~crashed /\ queue # <<>> /\ Ask.command \in commands

\* Fault: one lock too many.
MayAcquireOneMore ==
  /\ Tx # Null /\ Tx.lock_budget >= 0
  /\ VerifiedOnLock(Locks, Stored)

MayAcquire ==
  /\ Tx # Null /\ Tx.lock_budget >= 1
  /\ VerifiedOnLock(Locks, Stored)

\* update_integrity_hash_locktable
UpdateHash(bucket, numEntries) ==
  lockTableIntegrityHashes' =
    [lockTableIntegrityHashes EXCEPT ![B] = hash_locktable_bucket(bucket, numEntries)]

RefuseLock ==
  /\ Serving({"SHARED", "EXCLUSIVE"})
  /\ ~MayAcquire
  /\ Done
  /\ UNCHANGED <<lockTable, lockTableIntegrityHashes, transactionTable, crashed>>

\* The hash is that of the whole bucket.  Whether the transaction became an
\* owner is not looked at: the lock is signed and returned in any case.
AcquireLock ==
  /\ Serving({"SHARED", "EXCLUSIVE"})
  /\ MayAcquire
  /\ HasRow(Locks, Ask.row_id)
  /\ LET i == Position(Locks, Ask.row_id)
         t == Ask.transaction_id
         ok == CanOwn(Locks[i], Exclusively)
         after == IF ok THEN [Locks EXCEPT ![i] = AddOwner(@, t, Exclusively)] ELSE Locks
         copy == add_lock_trusted(locktable_bucket_to_uint32_t(Locks), t, Ask.row_id, Exclusively)
     IN /\ lockTable' = [lockTable EXCEPT ![B] = after]
        /\ UpdateHash(copy, Len(Locks))
        /\ transactionTable' = [transactionTable EXCEPT ![t] =
             IF ok THEN addRow(@, Ask.row_id) ELSE @]
        /\ crashed' = (Len(after[i].owners) > kTransactionBudget)
  /\ Done

\* The lock that the caller saw in the table has been removed in between.
AcquireMissingLock ==
  /\ Serving({"SHARED", "EXCLUSIVE"})
  /\ MayAcquire
  /\ ~HasRow(Locks, Ask.row_id)
  /\ crashed' = TRUE
  /\ UNCHANGED <<lockTable, lockTableIntegrityHashes, transactionTable, queue, client, disturbed>>

\* release_lock returns early; nobody learns of it.
RefuseUnlock ==
  /\ Serving({"UNLOCK"})
  /\ \/ Tx = Null
     \/ Tx # Null /\ ~VerifiedOnUnlock(Locks, Stored)
  /\ Done
  /\ UNCHANGED <<lockTable, lockTableIntegrityHashes, transactionTable, crashed>>

MayUnlock == Serving({"UNLOCK"}) /\ Tx # Null /\ VerifiedOnUnlock(Locks, Stored)

ReleaseLock ==
  /\ MayUnlock
  /\ Ask.row_id \in Range(Tx.locked_rows)
  /\ LET i == Position(Locks, Ask.row_id)
         t == Ask.transaction_id
         lock == release(Locks[i], t)
         changed == [Locks EXCEPT ![i] = lock]
         after == removeRow(Tx, Ask.row_id)
         copy ==
           release_lock_trusted(locktable_bucket_to_uint32_t(Locks), Len(Locks), t, Ask.row_id)
     IN /\ lockTable' = [lockTable EXCEPT ![B] =
             IF Empty(lock) THEN Removed(changed, i) ELSE changed]
        /\ UpdateHash(copy.bucket, copy.numEntries)
        /\ transactionTable' = [transactionTable EXCEPT ![t] =
             IF after.locked_rows = <<>> THEN Null ELSE after]
  /\ Done
  /\ UNCHANGED crashed

\* Somebody else's lock is left alone, but a transaction without locks is
\* deleted.
ReleaseNothing ==
  /\ MayUnlock
  /\ Ask.row_id \notin Range(Tx.locked_rows)
  /\ transactionTable' = [transactionTable EXCEPT ![Ask.transaction_id] =
       IF Tx.locked_rows = <<>> THEN Null ELSE @]
  /\ Done
  /\ UNCHANGED <<lockTable, lockTableIntegrityHashes, crashed>>

Work ==
  \/ RefuseLock \/ AcquireLock \/ AcquireMissingLock
  \/ RefuseUnlock \/ ReleaseLock \/ ReleaseNothing

Next ==
  \/ \E c \in Client :
       \/ \E t \in Transaction : Register(c, t)
       \/ \E ask \in Asks : AddEmptyLock(c, ask) \/ SendUnlock(c, ask)
       \/ SendLock(c)
  \/ Work

Spec == Init /\ [][Next]_vars

-----------------------------------------------------------------------------

Lock == [row : Row, exclusive : BOOLEAN, owners : Seq(Transaction)]

TypeOK ==
  /\ \A b \in Bucket : lockTable[b] \in Seq(Lock)
  /\ \A b \in Bucket : lockTableIntegrityHashes[b] # Null =>
       \E n \in 1..Len(lockTable[b]) : DOMAIN lockTableIntegrityHashes[b] = Entries(n)
  /\ \A t \in Transaction : transactionTable[t] # Null =>
       transactionTable[t] \in
         [growing_phase : BOOLEAN, lock_budget : 0..Budget[t], locked_rows : Seq(Row)]
  /\ queue \in Seq([ask : Request, caller : Client \cup {Null}])
  /\ client \in [Client -> [step : {"idle", "send", "wait"}, job : Request \cup {Null}]]
  /\ crashed \in BOOLEAN

Times(x, seq) == Cardinality({i \in DOMAIN seq : seq[i] = x})

OwnersOf(r) ==
  LET locks == lockTable[BucketOf[r]]
  IN IF HasRow(locks, r) THEN locks[Position(locks, r)].owners ELSE <<>>

RowsOf(t) ==
  IF transactionTable[t] = Null THEN <<>> ELSE transactionTable[t].locked_rows

\* What the enclave has hashed of a bucket are its locks with owners, which come
\* first, so that a table that nobody else touched passes the verification: what
\* is done to the copy is what is done to the table.  (In a bucket of several
\* rows this is so until a job meets a lock that was added for another job and
\* has no owner yet, or was refused one.)
HashesMatch ==
  ~crashed =>
    \A b \in Bucket \ disturbed :
      LET locks == lockTable[b]
      IN \E n \in 0..Len(locks) :
           /\ \A i \in DOMAIN locks : Empty(locks[i]) <=> i > n
           /\ verify_against_stored_hash(
                locktable_bucket_to_uint32_t(locks), n, lockTableIntegrityHashes[b])

\* The trusted transactions and the untrusted lock table say the same, also
\* where a transaction has acquired a row twice.
TablesAgree ==
  \A t \in Transaction, r \in Row : Times(r, RowsOf(t)) = Times(t, OwnersOf(r))

\* An exclusive lock has one owner, and owns it once.
ExclusiveAlone ==
  \A b \in Bucket : \A i \in DOMAIN lockTable[b] :
    lockTable[b][i].exclusive => Len(lockTable[b][i].owners) = 1

\* An unlock of a row that the transaction has locked is carried out, if the
\* bucket has not been disturbed.
UnlockReleases ==
  [][\A t \in Transaction, r \in Row :
       /\ Serving({"UNLOCK"}) /\ queue' = Tail(queue)
       /\ B \notin disturbed'
       /\ Ask.transaction_id = t /\ Ask.row_id = r
       /\ Times(r, RowsOf(t)) > 0
       => Times(r, RowsOf(t)') = Times(r, RowsOf(t)) - 1]_vars

\* "untrusted part adds empty lock": a request that gets as far as changing the
\* lock finds the lock in the table.
LockWasAdded ==
  Serving({"SHARED", "EXCLUSIVE"}) /\ MayAcquire => HasRow(Locks, Ask.row_id)
=============================================================================
