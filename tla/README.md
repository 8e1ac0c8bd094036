# Verification of verifiable-lockmanager

TLA+ models of the lock manager in this repository, the instances TLC checks, and
theorems TLAPS proves. Paths are relative to `src/`.

## The system

A lock manager for database transactions: a client registers a transaction, asks for
shared or exclusive locks on rows, and unlocks them. A transaction follows two-phase
locking (2PL). The repository holds four builds of it:

| build | lock table | transaction table | a granted lock is |
|---|---|---|---|
| `insecure-lockmanager` | process memory | process memory | answered |
| `demand-paging` | SGX enclave | SGX enclave | signed |
| `out-of-enclave` | untrusted memory, one hash per bucket in the enclave | SGX enclave | signed |
| `evaluation/untrusted` | untrusted memory | untrusted memory | signed |

Requests take the same way in all of them: an RPC thread calls `registerTransaction`,
`lock` or `unlock`; `create_job` fills in a job and, if the caller waits, allocates
its flags `finished` and `error`; `send_job` checks that the transaction is registered
and pushes the job on the queue of a worker thread. One worker registers transactions.
The others ("lock workers", one by default) serve the rows, `row_id` deciding which.
The caller spins on `finished`.

### Inventory

| component | state | operations | interacts by | hard because |
|---|---|---|---|---|
| requests and workers (`insecure-lockmanager/src/lockmanager/lockmanager.cpp`) | transaction table, lock table, job in work | register, lock, upgrade, unlock, abort | queues, shared objects | clients and workers interleave; an abort touches rows of other workers |
| transaction object (`transaction.cpp`) | phase, budget, `locked_rows` | add, release, release all | changed by workers | `locked_rows` and a lock's `owners` change at different times |
| lock object (`lock.cpp`) | mode, owners | shared, exclusive, upgrade, release | changed by workers | arrays copied by hand in the enclave builds |
| job queues (`lockmanager.cpp`, `enclave.cpp`) | queue, mutex, condition, flags | push, wait, pop, quit | condition variables, busy waiting | lost wakeups, start and shutdown order |
| hash tables (`hashtable.cpp`) | chains, bucket sizes | get, set, contains, remove | shared by all threads | no mutex |
| enclave of `demand-paging` | as above, signatures | as above | ECALLs | lock budget, uninitialised memory |
| enclave of `out-of-enclave` (`enclave.cpp`, `integrity_verification.cpp`) | hashes, transactions | verify, trusted change, store hash, untrusted change | untrusted table written by callers | table and hash diverge |
| keys (`enclave.cpp`, `lockmanager.cpp`, `files.cpp` of `demand-paging`) | key in the enclave, sealed key in a file | unseal, generate, seal, save, sign, verify | ECALLs, the file system | stops and failures between any two steps |
| base64 (`base64-encoding.cpp`) | none | encode, decode | - | ends of texts, pads |
| RPC server and client (`server.cpp`, `client.cpp`) | none | pass requests on | gRPC | a result passes through five layers; an answer may be lost |
| `evaluation/untrusted` | tables outside, one mutex for each; a hash for each bucket of transactions | register, lock | queues, objects that callers create | an object is visible before it is filled in; its bucket changes without being hashed |
| benchmarks and example clients (`evaluation/benchmark.cpp`, `apps/client_main.cpp`) | requests made | lock, unlock | queues | which rows to wait for |
| error messages, ocalls | none | - | - | - |

What makes them correct:

* requests and workers: mutual exclusion, 2PL, owners and `locked_rows` agree, a
  refused transaction holds nothing, locks are lost only by the owner's own request,
  nothing deleted is used, every call is answered once;
* job queues: one thread at a time in a queue, no lost wakeup, nothing left at
  shutdown (but in `demand-paging`), every call returns, the destructor ends;
* enclave builds: what is signed is true, the budget bounds the locks, the stored hash
  is that of the table, an unlock is carried out;
* hash tables: operations behave as on a map, also when they overlap;
* keys: a signature verifies for its lock and no other, also after a restart;
* server and client: a caller is told what happened;
* `evaluation/untrusted`: registrations return, an owner of a row has it among its rows;
* benchmarks: when the clock is stopped, everything has been served.

## Modules

| module | models | sources |
|---|---|---|
| `RowLock`, `TransactionRecord` | lock and transaction objects | `insecure-lockmanager/.../lock.cpp`, `transaction.cpp` |
| `TwoPhaseLocking` | abstract specification: what 2PL allows | the promise of `docs/mainpage.md` |
| `LockManager` | clients, queues, workers, tables, memory | `insecure-lockmanager/.../lockmanager.cpp` |
| `RowPartition` | which worker serves a row | `send_job` |
| `JobDispatch` | mutexes, conditions, flags, start, shutdown | the same, and `lockmanager.cpp` and `enclave.cpp` of `demand-paging` and `out-of-enclave` |
| `DemandPaging` | tables, budget, signatures, arrays | `demand-paging/src/enclave/enclave.cpp`, `lock.cpp`, `transaction.cpp` |
| `OutOfEnclave` | empty locks, queue, verification, trusted and untrusted change | `out-of-enclave/src` |
| `SerializedBucket` | the enclave's copy of a bucket, word by word, and its hash | `integrity_verification.cpp` |
| `Base64` | encoding and decoding | `demand-paging/src/base64-encoding.cpp` |
| `LockSignatures` | what is signed, the text of a signature, verification | `demand-paging/src/enclave/enclave.cpp`; `lock_signatures.cpp` of `out-of-enclave` has the same functions |
| `KeyStorage` | the enclave's key and its file, from start to start | constructor of `LockManager`, `enclave.cpp` and `files.cpp` of `demand-paging` |
| `LockingService` | `DemandPaging` with `KeyStorage` and `LockSignatures`, server and clients | `demand-paging/src` |
| `Benchmark` | requests of benchmarks and example clients | `evaluation/benchmark.cpp`, `apps/client_main.cpp` |
| `Untrusted` | registration and locks outside the enclave | `evaluation/untrusted/src` |
| `HashTable` | chains, entries, bucket counts, one pointer at a time | `hashtable.cpp` of all builds |
| `KeyedTable` | abstract specification: what callers expect of a table | `include/lockmanager/hashtable.h` |
| `LockManager_proofs` | theorems about `LockManager`, any number of workers | |
| `LockManager_partitioned` | theorems about transactions that keep to rows of one worker, the refinement of `TwoPhaseLocking` among them | |
| `TwoPhaseLocking_proofs` | proof that `TwoPhaseLocking` is safe | |
| `Dispatch_proofs` | theorems about `JobDispatch`, any number of threads and calls | |
| `HashTable_proofs` | theorems about `HashTable`, chains of any length, and the refinement of `KeyedTable` | |
| `OutOfEnclave_proofs` | theorems about `OutOfEnclave` and `SerializedBucket` | |
| `Untrusted_proofs` | theorem about `Untrusted` | |
| `LockingService_proofs` | theorems about base64, keys, signatures and the lock budget | |
| `MC...` | constants of the instances; `MCLockingService` and `MCDispatch` also put two programs into one run, of which a behaviour runs one | |

An operator whose comment starts with "Fault" is not part of a model. It is a
plausible mistake in the definition below it, used to see that a property can tell the
difference.

### LockManager

A step is the longest piece of a thread's code that touches one shared object once.
`acquire_lock` is up to five of them: look the transaction up (`FindTransaction`),
look up or create the lock (`FindLock`), change the lock (`AddLock`, `Upgrade`) or
decide to abort (`Refuse`), add the row to `locked_rows` (`RecordLock`). An abort is
`Unregister`, one `ReleaseNext` for each row in the order of `std::set`,
`DeleteAborted`. `release_lock` is `FindLockToRelease`, `EraseRow`, `ReleaseLock`,
`DeleteFinished`. `send_job` is two: the test that the transaction is registered
(`CheckRegistered`) and the push (`SendLockJob`), as other threads act in between.

Objects live at addresses, since a thread may keep a pointer to an object that another
thread deletes. Using a deleted object or a null pointer is undefined behaviour:
a worker that is about to (`UsesFreedMemory`) takes no further step, and `NoFault` says
that no worker ever is. A lock that `releaseAllLocks` removes from
the table is leaked by the code; its address is used again here (`Allocatable`), which
needs no assumption as nobody refers to it.

`transaction_id`, rows and the size of the lock budget are small; the budget is not
compared with anything in this build. A table is a function from keys to addresses;
overlapping operations on one chain are the subject of `HashTable`. `RowPartition`
computes with exact fractions instead of floats.

### JobDispatch

What a job does is left out. One action for each time a thread holds a mutex or
changes a flag. A mutex is held by a thread, free, not yet initialised or destroyed;
in the last two states it keeps nobody out, and initialising it again frees it.
`pthread_cond_wait` may return without a signal.

`build` says which of three programs it is. In `demand-paging` and `out-of-enclave`
(`inEnclave`) the worker initialises the mutex of its queue itself. The destructor of
`insecure-lockmanager` and `out-of-enclave` sends QUIT to every queue and joins the
threads (`Destruct`, `LockToQuit`, `PushQuit`, `Join`). In `demand-paging` all that is
commented out (`demand-paging/src/lockmanager/lockmanager.cpp:78-86`), and the
destructor only destroys the enclave (`DestroyEnclave`): workers stop where they are,
nobody is joined, and jobs that are still queued are lost; nobody waits for them, as
the destructor runs when nobody calls any more. `NothingLeft` is about the other two.

### DemandPaging

The lock worker is alone (the default), so that a request is one step. `owners` and
`locked_rows` are sequences, and `Without` and `Copied` have what the loops of the
code leave in them: `release` moves only the next owner, `releaseLock` copies the rows
with `!row == rowId` and leaves the rest uninitialised, which is a choice among the
rows and one other value. The rows 0 and 1 are the only ones for which that comparison
copies what is meant to be copied. A table is a function of its keys; the operations
of `hashtable.cpp` are operators on it.

### LockingService, KeyStorage, LockSignatures, Base64

`LockingService` takes the requests of `DemandPaging` and adds what is around them. A
result goes from the enclave through `create_enclave_job`, the server's handler, gRPC
and the client's wrapper, an operator each (`create_enclave_job`, `LockStatus`,
`Received`, `requestLock`). `Ways` are the ways to call: linked to `LockManager` as
the tests are, or remote, where the identifier 0 is refused; waiting or not; and with
the answer arriving or lost. `reply` is what the caller learned. `Observer`'s last
signature is kept in `grant`, as a client would.

`KeyStorage` is the constructor, one step for each call that changes the key or the
file, so that the process may stop (`Stop`) between any two of them, also after the
file has been emptied and before it is written. `failures` counts calls into the SDK
and the file system that failed, which the code logs at most. `LockSignatures` and
`Base64` compute on bytes; only ECDSA is a constant, and `EcdsaAssumption` says that
it gives different signatures to different locks and keys.

### Benchmark

The sequence of requests of each program (`Requests`), from the three loops over row
numbers and `waitOn`, and the queues of the lock workers. `Setting` are the settings
of `evaluation.sh`, made small. The programs differ in `lockTableSize`, in whether
both branches wait, and in the unlocks of the clients. The unlocks of the client of
`demand-paging` are left out: with its rows `releaseLock` loses the others (finding
3).

### OutOfEnclave

A bucket is the sequence of its locks, and a stored hash is what was hashed. A call of
`lock` is two steps, since other jobs are served between `AddEmptyLock`, which makes
sure that the table has a lock for the row, and the push. `AcquireLock` hashes the
bucket as the trusted code changed it and ignores, as the code does, whether the lock
was granted. Following a null pointer (`AcquireMissingLock`) and an owner too many for
the array stop the model.

What the enclave hashes is a copy in words, changed by code of its own
(`SerializedBucket`): `add_lock_trusted` and `release_lock_trusted` find the row in
the copy, move owners and entries up, and must do to it what `lock.cpp` and
`hashtable.cpp` do to the table. `WithoutEntry` is the loop that closes the gap of a
removed lock, which is wrong for a lock in the middle.

`disturbed` is a history variable. A lock without owners that was not added for the
job in work makes the verification of its bucket fail, and what is left behind makes
all later ones fail. Two callers that add a lock to a bucket at the same time are
enough, or a request that is refused. `HashesMatch` and `UnlockReleases` speak of a
bucket until that has happened to it.

### Untrusted

The caller creates the transaction object, with identifier 0, under
`new_transaction_mut`; a worker of the enclave fills in the identifier, in two steps:
`Admit` hashes the bucket of the object with the identifier in the enclave's copy, and
`FillIn` writes it to the table. Or it refuses (`RefuseRegistration`), and the caller
is told so, if the transaction is registered already or if the bucket is not what was
hashed last. The table has other writers: callers insert objects
(`lockmanager.cpp:108`), and the lock worker adds rows to them (`enclave.cpp:262`) and
does not update the hash. Objects with identifier 0 do not count for the hash; rows
do. After a transaction has got a lock, therefore, no other transaction of its bucket
can be registered any more: its object stays with identifier 0, and lock requests for
it are served with 0 as the owner.

`hashes` is what was hashed of each bucket: which transactions, with which rows.
`hash_transactiontable_bucket` and the functions that verify with it
(`integrity_verified_get_transactiontable`) are declared in
`out-of-enclave/include/enclave/integrity_verification.h` and defined nowhere in the
repository, so that this build does not link as it stands; `Hashed` and `Verified`
are what `enclave.cpp` expects of them, and external.

`asked`, `returned` and `early` are history variables about the callers: how often a
transaction was asked to be registered, whether a registration has returned TRUE, and
whether a lock was requested for it before one had. `OwnersHaveRows` says that no
owner ever lacks the row, and that a transaction that is not `early` owns a row as
often as it has it. A caller that goes on after its registration was refused is early
as well as one that does not wait.

### HashTable

A step reads or writes one pointer that threads share: the head of a bucket or the
`next` of an entry, which `set` reads twice (`Walk`, `Advance`). The operation "add"
is what callers do, `get` or `contains` and then `set`; "set" is `set` alone. Which
thread calls what is a constant (`Calls`), since the callers' rules differ: one worker
registers transactions, `new_lock_mut` keeps out other clients, a worker has the
buckets that `send_job` gives it. `NoClash` says that of two calls that are at work on
a bucket at the same time one only reads, and that neither removes. The lock table of
`insecure-lockmanager` and `demand-paging` with one lock worker is used like that. The
transaction tables are not (`hash_table_registration`), and neither is the lock table
of `out-of-enclave`, to which clients add while the worker removes
(`hash_table_counts`): there it is so only as long as each call waits for the one
before. Deleted entries are used again. Using one, or a null
pointer, stops the model. `untrusted` selects the table of `out-of-enclave`, which
counts the entries of a bucket, in a load and a store, and never deletes them.

`Atomic` maps the table to `KeyedTable`. An operation takes effect when it writes the
pointer that links or unlinks an entry, or reads the one that ends its search.

## Runs

| run | states | shows |
|---|---|---|
| `one_worker` | 535 thousand | With one lock worker the tables agree, nothing deleted is used, mutual exclusion holds, a refused transaction holds nothing, locks are lost only by the owner's request, no lock object is exclusive with two owners, no call is lost, a transaction is deleted with its last lock, and the lock manager implements `TwoPhaseLocking`. |
| `unsynchronised` | | Two lock workers and a transaction with rows of both: two transactions hold a row, one of them exclusively. |
| `dispatch` | 87 thousand | Start, calls and shutdown of the queues, in `insecure-lockmanager`, and in the enclaves when no call comes before the workers have started; nothing is left in the queues after the destructor, but in `demand-paging`. Or `evaluation/untrusted`, with registrations that are refused: they return unless a transaction is registered twice, no owner lacks its row, and owners and rows agree if callers wait until they are registered. |
| `dispatch_early` | | The same without that condition: two threads in one queue. |
| `demand_paging` | 25 thousand | The server with its clients, restarts and failing calls: budget, signatures, tables and 2PL with rows 0 and 1 and two transactions; replies are true, signatures verify, keys survive. Or a benchmark or example client with up to four lock workers: all is served when the clock is stopped. |
| `demand_paging_rows` | | Other rows: an unlock loses track of rows still locked. |
| `demand_paging_owners` | | Three owners: an unlock takes the lock from another owner. |
| `out_of_enclave` | 685 thousand | Two rows in one bucket: trusted transactions and untrusted locks agree, and, until the bucket is disturbed, the stored hash is that of the table and unlocks are carried out. |
| `out_of_enclave_missing` | | Unlock without waiting, then lock: the enclave finds no lock. |
| `hash_table` | 156 thousand | Two threads that change one bucket in turn, and another one that one of them adds to while the other one reads (`NoClash`): operations are as good as atomic, no deleted entry is used, and the counts of the buckets are right. |
| `hash_table_counts` | | `out-of-enclave`, a client adds while the worker removes another row of the bucket: the count of the bucket is wrong. |
| `hash_table_registration` | | One thread adds, one removes another key of the bucket: what was added is lost. |

The instances have two transactions and one or two rows, one or two clients. In
`one_worker` one client sends requests with and without waiting for them, which queues
them up as several clients would, and the last row is locked exclusively only; the run
with two clients is `unsynchronised`. Two transactions are enough for a conflict,
and three appear where it takes three (`demand_paging_owners`). Two rows give an abort
something to release besides the row asked for, and a transaction rows of two workers.
A third address for transaction objects lets a new object coexist with two in use, so
that a freed address need not be reused at once. Queues hold at most two jobs
(`MaxQueue`; one in `unsynchronised`): the job in work, and one that was checked
before and is served after it. In `dispatch` each of two clients makes one call
(`MaxCalls`), and every mixture of two calls and the destructor on two queues occurs.

In `demand_paging` there are two keys and at most two failures (`MaxFailures`), after
which only starts and stops are followed: the tables do not depend on the key, and
nothing is promised of it. Half a signature is two bytes instead of 32, which still
ends in a pad. The benchmarks have a table of 8 rows instead of 10000 and up to 9
locks, so that there are more and fewer rows than a partition and than the table have.

In `out_of_enclave` a bucket has a first and a last entry. A middle one takes three
rows; its removal is the bug described below. `Untrusted` has two transactions in one bucket
of the table (the identifiers 1 and 3, two buckets), one row, and two callers that
make two calls each (`CallBound`): a registration twice, one after a lock, one that is
refused because the other transaction got a lock, and a lock that overtakes one.

In `HashTable` three keys give a chain a first, a middle and a last entry.

Symmetry is used in runs without liveness properties only. Deadlock is not checked
where the model stops at undefined behaviour (`unsynchronised`, the runs of
`OutOfEnclave`) or a run ends in a violation.

### Fairness

`dispatch` assumes that a thread which can run does run (weak fairness for each
thread), since the operating system schedules them and a waiting caller is a loop that
it preempts. Acquiring a mutex is strongly fair: a mutex that is free again and again
is granted in the end. Nothing obliges a client to call or the destructor to run. For
`Untrusted` the two workers and each caller are weakly fair; a `std::mutex` taken by
others again and again is not an issue, as the calls are bounded.

### Findings

1. More than one lock worker: `abort_transaction` changes lock objects and the lock
   table on behalf of rows of other workers, without synchronisation
   (`unsynchronised`). The header says no synchronisation is necessary.
2. Enclave builds: a client that calls while the workers start may hold a mutex that a
   worker then initialises (`dispatch_early`).
3. `demand-paging/src/transaction.cpp:54`, `!row == rowId` (`demand_paging_rows`).
4. `demand-paging/src/lock.cpp:77`, the loop over `j` copies element `i + 1`
   (`demand_paging_owners`).
5. `out-of-enclave`: a lock found by the caller is removed by an unlock that was
   queued before (`out_of_enclave_missing`).
6. `hashtable.cpp:58`: a transaction that is registered while a lock worker removes
   the last entry of its bucket is lost (`hash_table_registration`).
7. `out-of-enclave/src/hashtable.cpp:70`: a client and the worker count the entries of
   a bucket at the same time, and one of the two is lost (`hash_table_counts`).

Seen in `hashtable.cpp` and not made a run: `set` does not compare the last entry with
the key and would add a second entry for it, which callers avoid by asking `contains`
or `get` first; `hash` is negative for identifiers from 2^31 on.

Seen while modelling `out-of-enclave` and not made a run: a lock that was not granted
is signed all the same (the tests that would notice are disabled); locks without
owners that a refused request or another caller left in a bucket make the verification
fail from then on (`disturbed`); so does the removal of the middle one of three locks
(`integrity_verification.cpp:171`).

Seen in the other parts and not made a run:

* `demand-paging`: the destructor loses the jobs that are queued, as the model has it.
* `evaluation/untrusted`: a transaction registered twice leaves `new_transaction_mut`
  locked; `RegistrationReturns` has callers that do not as its condition. A lock
  request that overtakes the registration, or follows one that was refused, makes 0 an
  owner; `OwnersHaveRows` allows it for such transactions only. No transaction can be
  registered in a bucket in which one has got a lock.
* `benchmark.cpp`: with several lock workers and more rows than one of them has,
  `waitOn` is off by one row, and the last request of a worker is not waited for. In
  `insecure-lockmanager` partitions are computed from the number of locks, and where
  the number of threads does not divide it some rows are never asked for.
  `AllServedAtTheEnd` leaves both cases out.
* A key that cannot be read once, or not saved, is replaced by a new one or lost at
  the next stop, and the result of `generate_key_pair` is not looked at; `KeysSurvive`
  promises nothing after a failure.
* `include/client/client.h.in` of `demand-paging` says that `requestSharedLock` throws
  `std::domain_error`; the code returns an empty string. A client cannot tell a lost
  answer from an abort; if it repeats the request, the transaction is aborted.

## Proofs

A theorem is about every value of the constants that the assumptions of its module
allow. Those say what the code gives for granted: identifiers are numbers
(`KeyAssumption`, `IdAssumption`), memory is finite (`NodeAssumption`), a null pointer
is no object and a thread no mutex state (`NullAssumption`, `NoneAssumption`,
`ActorAssumption`), a row has one bucket (`BucketAssumption`) and one worker
(`RowWorkerAssumption`). Where a property needs more than that, the condition is a
hypothesis of the theorem:

| hypothesis | says | without it |
|---|---|---|
| `Partitioned` | the rows one transaction asks for are rows of one worker | `unsynchronised` violates mutual exclusion |
| `Disciplined` | calls come to an enclave only when its workers have started | `dispatch_early` puts two threads in one queue |
| `SmallBuckets` | no three rows share a bucket | the middle one of three locks is not taken out of the copy (`integrity_verification.cpp:171`) |
| `[]NoClash` | calls that are at work on a bucket at the same time only read it while one adds to it | `hash_table_registration` loses an entry, `hash_table_counts` a count |
| `AsksFirst` | nobody calls `set` without having asked for the key | `set` does not compare the last entry (`hashtable.cpp:50`) |
| `[][Careful]_vars` | a step that releases locks meets neither of the two mistakes of findings 3 and 4 | `demand_paging_rows` and `demand_paging_owners` |
| `TooSmallForMistakes` | two transactions, and the rows 0 and 1 or one lock for each transaction; implies the one before | as above |

With one lock worker, the default, transactions are `Partitioned`, and the lock table
of `insecure-lockmanager` and `demand-paging` is used by one thread, so that there is
no clash; all callers of `set` ask first. The runs check the same properties on
instances that satisfy the hypotheses.

`Careful` and `NoClash` are hypotheses about behaviours. `NoClash` is about how calls
overlap, and says nothing of what they do. `Careful` is a condition on one step and the
state before it: when `t` unlocks `r`, or is aborted and held `r`,

* `ComparesRight(t, r)` (unlock only): for the rows `t` holds, `!row == rowId` has the
  value that `row != rowId` would have. That is so for row 0, for row 1 if the only
  other one is row 0, and for a transaction's only row;
* `CopiesRight(t, r)`: `t` is the last owner of `r` or the one before the last, so that
  one element at most has to be moved.

The theorems under it say that nothing but line 54 of `transaction.cpp` and line 77 of
`lock.cpp` can make these properties fail. That the hypothesis is not an empty one is
a theorem as well (`SmallServiceIsCareful`).

### LockManager

`LockManager_proofs`, for any assignment of rows to workers and any `MaxQueue`:

* `TypeCorrect`: `Spec => []TypeOK`. `TypeOK` alone is not inductive, as a worker that
  follows a pointer must be known to have one. `TypeInv` adds that a worker past
  `wait` has a job, a worker past `FindTransaction` a transaction address, one that
  decides a lock address, a live object the identifier of a transaction, and a client
  about to push a job.
* `AlwaysCompatible`: `Spec => []LocksCompatible`, for any number of lock workers. It
  is inductive with `TypeInv`: each operation of `RowLock` keeps a lock compatible
  (`OperationsCompatible`), whoever calls it and whatever the tables say.
* `WaitingClientsHaveOneJob`: a client that waits has one job in all queues, others
  have none. The property counts; the invariant `OneJobInv` says the same with
  positions, which a push or a pop moves.

`LockManager_partitioned`, under `Partitioned`:

* A job is in the queue of the worker of its row (`Routed`), so that two workers never
  work for the same transaction (`DifferentTransactions`). A transaction object, the
  entry of the transaction in the table, and its membership in `owners` are changed by
  the worker that has its job; a lock by the worker of its row. `Frame(w)` says that
  of a step of worker `w`.
* `InWork(w)` says what `w` knows at each step: that its pointer is still that of the
  transaction table (`KnowsTx`), or, while it aborts, that nobody can find the object
  any more and that the transaction owns each row still to be released; that it holds
  the lock it decides about, or owns the one it is about to record (`KnowsLock`); what
  is true when it replies (`KnowsResult`). `Frame(w)` leaves `InWork(v)` alone for
  every other worker (`WorkUndisturbed`), and each step of `w` leads from `InWork(w)`
  to `InWork(w)` (the lemmas `...Keeps`).
* Clients only append jobs, and a new transaction object is at an address no worker
  refers to (`SeenKept`).

The inductive invariant `Inv` is `TypeInv`, `LocksCompatible` and `PartitionInv`:
these facts, `Registrations` (the transaction table leads to the live object of the
transaction), `OneLockEach` (two rows never share a lock object), and that owners and
holders agree. None of the properties below is inductive without it: whether
`ReleaseLock` uses a null lock depends on what `EraseRow` found a step earlier, and on
nobody having changed it since. From `Inv` follow `NothingFreedIsUsed`,
`HoldersAreOwners`, `OwnersAreHolders`, `RowsAreExclusive`, `GrantsAreHeld`,
`RefusalsReleaseAll`, `ShrinkingTransactionsHoldLocks`, and, of steps,
`NobodyElseTakesALock`.

`ImplementsTwoPhaseLocking` proves `Spec => TwoPhase`. The mapping reads the phase of
a transaction and the modes in which it holds rows from the tables. The lock object
and `locked_rows` change at different steps; a lock counts as granted when it is
recorded, and as released when it is erased. `AddLock`, `ReleaseLock` and
`ReleaseNext` are stutters, since they never change the mode of a lock that somebody
holds (`LocksOnly`). `KnowsGrowing` is needed besides `Inv`: what `AddLock` saw of the
transaction still holds at `RecordLock`. `TwoPhaseLockingIsSafe` says that the
abstract specification is the right one.

### JobDispatch

`Dispatch_proofs`, under `Disciplined`, for the three builds (`DispatchNothingLeft` for
the two whose destructor joins): `DispatchOneInQueue`,
`DispatchInitialisedBeforeUse`, `DispatchNoLostWakeup`, `DispatchOneJobPerCall` and
`DispatchNothingLeft` follow from one invariant, `DispatchInv`. Two threads serve
different queues because the numbers they took are as many as `num` (`Numbers`, by
cardinality). Who is inside a queue has its mutex, or the mutex has been destroyed,
which happens after QUIT was sent only (`Held`); no mutex is initialised while
somebody has it, since by the time anybody calls, the workers that initialise theirs
have done so (`Initialised`, `Calling`). QUIT is the last job of a queue (`QuitLast`)
and a worker has the first one in hand (`InHand`), so that the worker that ends leaves
nothing. A waiting client has one job that is not yet answered (`OneJob`).

### HashTable

`HashTable_proofs`: `TableInv(chain)` says of a sequence of addresses for each bucket
that it is the chain one follows from the head (`Chained`), and what every thread
knows of it at each of its steps (`Knows`): a reader has seen all entries before the
one it is at; `set` knows that its key is absent and, at `Link`, that it stands at the
last entry; `remove` knows the entries before and behind the one it takes out. A
thread may have an entry that nobody else can reach (`Apart`): a new one, or one it is
about to delete. A chain changes at `Link`, which appends, and at `Unlink`, which
takes one entry out; both leave what the others know alone because of `NoClash`.

From it follow `NobodyUsesADeletedEntry`, `HashTableTypes`, `SizesAddUp` (the count of
a bucket is behind its chain by one exactly while one thread is at `count` or
`store`, whoever changed the bucket before), and with `AsksFirst` `KeysAreUnique`. The
properties follow the chain from the head, by a function of the position;
`PositionsAre` relates that function to the sequence.

`HashTableIsAtomic` proves `Atomic` under both hypotheses: `LookupCorrect`
says that `Lookup` finds the value of the only entry with the key, `Link` adds a key
that was absent, `Unlink` takes away the only entry (`LinkedContent`,
`UnlinkedContent`), and a search that reads a null pointer has seen the whole chain as
it is then (`EndOfChain`). All other steps leave the map and what callers see alone
(`AsInside`).

### OutOfEnclave

`OutOfEnclave_proofs`, for any number of clients, transactions, rows and buckets, any
budgets and any room for owners:

* `OutOfEnclaveTypes`, `ExclusiveLocksHaveOneOwner` and `OutOfEnclaveTablesAgree`
  follow from `RequestInv` and `TableInv`: a row has one lock, in its own bucket; an
  exclusive lock has one owner; owners fit into the array unless it has been overrun;
  and the transactions in the enclave and the locks outside agree by counting, as a
  transaction may acquire a row twice.
* `HashesMatchTheTable` and `UnlocksRelease`, under `SmallBuckets`: `TrustedAdd` and
  `TrustedRemove` say that the words `add_lock_trusted` and `release_lock_trusted`
  leave are those of the changed table. In a bucket that is not disturbed the locks
  with owners are the first ones (`OwnedFirst`), which are those that are hashed; an
  unlock of a held row therefore finds a bucket that verifies.

### Untrusted

`UntrustedOwnersHaveRows`: objects and locks never disappear from the tables, a job
refers to an object that is there (`RegistrationsAwaited`, `RequestsAwaited`), and the
transaction of a request has its identifier unless it is early: what was admitted has
it in the table when the registration returns TRUE, and a refused one does not count
as returned (`AdmittedFirst`). `Balanced` is the property where what is not in a table
counts as empty; it is inductive with these. Nothing is assumed about the callers.

### LockingService

`LockingService_proofs` needs no assumption about how many transactions, rows, ways to
call or bytes in a number there are; of ECDSA it uses `EcdsaAssumption`.

* `DecodeInvertsEncode`: `base64_decode(base64_encode(bytes)) = bytes` for any number
  of bytes: group by group, four characters give back three bytes (`BitsOfBytes`), and
  decoding stops at the first pad (`EncodedReadable`).
* `KeysAlwaysSurvive`, for any number of keys, starts and failures. `KeysSurvive` is
  not inductive, as a server reads the file before it is up, and replaces it step by
  step: `KeyInv` adds that a server that answers has the key of the file, and that one
  that is about to write the file found no key in it, so that no client has a
  signature.
* `ServerKeepsItsKey`: every step of the server is a step of `KeyStorage` or a stutter
  (`KeyStep`), so that `KeysSurvive` carries over.
* `SignaturesAlwaysVerify`: a text comes apart at its only dash
  (`SignatureComesApart`), base64 gives back the numbers (`EncodedHalf`), and
  different locks have different signatures (`VerifiesForItsLock`). `GrantInv` says
  that what a client keeps was signed with the key that signed last; with `KeyInv`
  that is the key of any later server.
* `BudgetAlwaysPays` and `ServiceBudgetAlwaysPays`: the budget bounds the locks of a
  transaction, for any rows and owners, whatever the loops that copy arrays leave in
  `locked_rows`: what they get wrong happens in `releaseLock`, after which the
  transaction acquires nothing any more.
* The tables: `CarefulNeverCrashes`, `CarefulTablesAgree`, `CarefulSignatures`,
  `CarefulUnlockForgets`, `CarefulUnlockKeeps` and `CarefulTwoPhase` are about
  `DemandPaging`, for any rows, transactions and budgets, where `Careful` holds. The
  invariant is `TablesInv`: `locked_rows` and `owners` agree, both without repetition
  and without uninitialised elements; an exclusive lock has one owner; a lock without
  owners (a refused request leaves one) is in nobody's rows. For each operation there
  is a lemma of what it does to rows, owners and modes (`RegisterEffect`,
  `UpgradeEffect`, `AddLockEffect`, `AbortEffect`, `UnlockEffect`), from which
  `TablesInv`, the signature, the reply and the step of `TwoPhaseLocking` follow. What
  the loops compute is proved of the recursive functions that model them:
  `WithoutIs` and `CopiedIs` say which elements are left, `ReleaseAllIs` that the walk
  of an abort takes the transaction out of each lock it owns, by induction over the
  elements walked through.
* The server: `ServiceReplies` and `ServiceTwoPhase` (and `ServiceNeverCrashes`,
  `ServiceTablesAgree`, `ServiceSignatures`) say the same through clients, lost
  answers, failures and restarts. A call is a step of the tables or none
  (`CallSteps`); a signature that arrives comes from the grant of this call, since no
  signature is the empty string of a refusal (`TextIsNoRefusal`).
* `SmallService...`: the same five without `Careful`, if there are two transactions,
  and the rows 0 and 1 (the run `demand_paging`, whose key, budgets and number of
  restarts do not matter) or budgets of one lock at most. In the latter case a
  transaction never shrinks, it ends with its first unlock (`OneLockInv`), and has
  one row, for which the comparison is right (`OneRowEach`).

### Only model-checked

* Liveness (`CallsReturn`, `ShutsDown`, `RegistrationReturns`), which is beyond the
  prover.
* `AllServedAtTheEnd` of `Benchmark`: which rows a program waits for depends on
  nested remainders of row numbers and on `SelectSeq`, which is defined by recursion,
  and it leaves out the settings for which the programs err (see Findings).

## Not modelled

The static buffer that several lock workers of `out-of-enclave` share; several lock
workers in the enclave builds, except for the order in which the benchmarks are
served; in `evaluation/untrusted` the keys, and what the functions that hash the
transaction table compute, which the repository does not define; gRPC beyond an answer
that is lost; error messages, logging and ocalls, on which nothing depends; the
micro-benchmarks under `evaluation/switchless` and `evaluation/paging-overhead`, which
measure single calls and accesses.

## Plan

In this order:

1. Done: `LockManager` with its abstract specification, `JobDispatch`, `DemandPaging`,
   `OutOfEnclave` with two rows in a bucket, `HashTable`, `LockingService` with keys
   and signatures, `Untrusted`, `Benchmark`, and the theorems above.
2. The enclave builds with several lock workers, and the static buffer of
   `out-of-enclave`.
