---------------------------- MODULE LockManager ----------------------------
(***************************************************************************)
(* The lock manager of insecure-lockmanager: threads of the RPC server     *)
(* ("clients") call registerTransaction, lock and unlock, which put a job  *)
(* on the queue of a worker thread; each worker takes the jobs of its own  *)
(* queue in order.  One worker registers transactions, the others (the     *)
(* lock workers) serve the rows, each row always by the same worker.       *)
(*                                                                         *)
(* A step is the longest piece of a thread's code that touches one shared  *)
(* object once, so that the steps of several threads interleave as their   *)
(* accesses do: looking up the transaction, looking up or creating the     *)
(* lock, changing the lock, changing locked_rows, and each step of an      *)
(* abort.  Transaction and lock objects live at addresses, which a thread  *)
(* may still hold when another thread has deleted the object.              *)
(***************************************************************************)
EXTENDS RowLock, TransactionRecord, Sequences

CONSTANTS
  Transaction,     \* transaction identifiers
  Row,             \* row identifiers, natural numbers
  Client,          \* threads that call the lock manager
  LockWorker,      \* worker threads that serve rows
  RowWorker,       \* the lock worker of each row, see module RowPartition
  Asks,            \* the lock and unlock requests the clients make
  WaitChoices,     \* the values of waitForResult in lock and unlock calls
  LockBudget,      \* the lock budget of a new transaction
  TxAddress,       \* memory for transaction objects
  LockAddress,     \* memory for lock objects
  MaxQueue         \* bound: no more than this many jobs wait in a queue

CONSTANTS TxWorker, Null

Request == [command : {"SHARED", "EXCLUSIVE", "UNLOCK"},
            transaction_id : Transaction, row_id : Row]

ASSUME RowAssumption == Row \subseteq Nat
ASSUME RowWorkerAssumption == RowWorker \in [Row -> LockWorker]
ASSUME TxWorkerAssumption == TxWorker \notin LockWorker
ASSUME AsksAssumption == Asks \subseteq Request
ASSUME WaitAssumption == WaitChoices \subseteq BOOLEAN
ASSUME NullAssumption == Null \notin TxAddress \cup LockAddress \cup Client
ASSUME BudgetAssumption == LockBudget \in Int

Worker == LockWorker \cup {TxWorker}

\* A job.  `caller' owns the flags finished and error of a job that somebody
\* waits for; Null stands for the absence of these flags.
LockJob == [command : {"SHARED", "EXCLUSIVE", "UNLOCK"}, transaction_id : Transaction,
            row_id : Row, caller : Client \cup {Null}]
RegisterJob == [command : {"REGISTER"}, transaction_id : Transaction, caller : Client]
Job == LockJob \cup RegisterJob

VARIABLES
  transactionTable,  \* address of the registered transaction objects
  lockTable,         \* address of the lock object of each row
  transactions,      \* memory: the transaction object at each address
  locks,             \* memory: the lock object at each address
  queue,             \* the jobs of each worker, the one in work first
  worker,            \* the local state of each lock worker
  client             \* the local state of each client

tables == <<transactionTable, lockTable, transactions, locks>>
vars == <<tables, queue, worker, client>>

WorkerSteps == {"wait", "row", "decide", "record", "abort", "releaseAll",
                "erase", "release", "last", "reply"}

WorkerState == [step : WorkerSteps, tx : TxAddress \cup {Null},
                lock : LockAddress \cup {Null}, next : Nat, ok : BOOLEAN]
ClientState == [step : {"idle", "push", "wait"}, job : LockJob \cup {Null},
                answer : {"none", "ok", "error"}]

IdleWorker == [step |-> "wait", tx |-> Null, lock |-> Null, next |-> 0, ok |-> FALSE]
IdleClient == [step |-> "idle", job |-> Null, answer |-> "none"]

TablesOK ==
  /\ transactionTable \in [Transaction -> TxAddress \cup {Null}]
  /\ lockTable \in [Row -> LockAddress \cup {Null}]
  /\ transactions \in [TxAddress -> TransactionObject(Transaction \cup {Null}, Row)]
  /\ locks \in [LockAddress -> LockRecord(Transaction)]

QueuesOK ==
  /\ queue \in [Worker -> Seq(Job)]
  /\ queue[TxWorker] \in Seq(RegisterJob)
  /\ \A w \in LockWorker : queue[w] \in Seq(LockJob)

TypeOK ==
  /\ TablesOK
  /\ QueuesOK
  /\ worker \in [LockWorker -> WorkerState]
  /\ client \in [Client -> ClientState]

Init ==
  /\ transactionTable = [t \in Transaction |-> Null]
  /\ lockTable = [r \in Row |-> Null]
  /\ transactions = [a \in TxAddress |-> deleted(Null)]
  /\ locks = [a \in LockAddress |-> newLock]
  /\ queue = [w \in Worker |-> <<>>]
  /\ worker = [w \in LockWorker |-> IdleWorker]
  /\ client = [c \in Client |-> IdleClient]

-----------------------------------------------------------------------------
(* The clients: create_job and send_job.                                   *)

CallerOf(c, wait) == IF wait THEN c ELSE Null

Push(c, w, job) ==
  /\ Len(queue[w]) < MaxQueue
  /\ queue' = [queue EXCEPT ![w] = Append(@, job)]
  /\ client' = [client EXCEPT ![c] =
       IF job.caller = c THEN [IdleClient EXCEPT !.step = "wait"] ELSE IdleClient]

\* registerTransaction always waits for its result.
SendRegistration(c, t) ==
  /\ client[c].step = "idle"
  /\ Push(c, TxWorker, [command |-> "REGISTER", transaction_id |-> t, caller |-> c])
  /\ UNCHANGED <<tables, worker>>

\* send_job has found the transaction registered, but has not pushed the job.
CheckRegistered(c, ask, wait) ==
  /\ client[c].step = "idle"
  /\ transactionTable[ask.transaction_id] # Null
  /\ client' = [client EXCEPT ![c].step = "push", ![c].job =
       [command |-> ask.command, transaction_id |-> ask.transaction_id,
        row_id |-> ask.row_id, caller |-> CallerOf(c, wait)]]
  /\ UNCHANGED <<tables, queue, worker>>

\* A call that does not wait returns here with nothing changed.
RefuseUnregistered(c, ask) ==
  /\ client[c].step = "idle"
  /\ transactionTable[ask.transaction_id] = Null
  /\ client' = [client EXCEPT ![c].step = "wait", ![c].answer = "error"]
  /\ UNCHANGED <<tables, queue, worker>>

\* Fault: the index of the queue is one too high.
SendLockJobOffByOne(c) ==
  /\ client[c].step = "push"
  /\ Push(c, TxWorker, client[c].job)
  /\ UNCHANGED <<tables, worker>>

SendLockJob(c) ==
  /\ client[c].step = "push"
  /\ Push(c, RowWorker[client[c].job.row_id], client[c].job)
  /\ UNCHANGED <<tables, worker>>

\* The busy waiting in create_job ends.
Return(c) ==
  /\ client[c].answer # "none"
  /\ client' = [client EXCEPT ![c] = IdleClient]
  /\ UNCHANGED <<tables, queue, worker>>

\* *error and *finished are set only where somebody waits.
Answer(caller, ok) ==
  client' = IF caller = Null THEN client
            ELSE [client EXCEPT ![caller].answer = IF ok THEN "ok" ELSE "error"]

-----------------------------------------------------------------------------
(* The worker that registers transactions.                                 *)

Unused(a) == ~transactions[a].live

Register ==
  /\ queue[TxWorker] # <<>>
  /\ LET job == Head(queue[TxWorker])
         t == job.transaction_id
     IN \/ /\ transactionTable[t] # Null
           /\ Answer(job.caller, FALSE)
           /\ UNCHANGED <<transactionTable, transactions>>
        \/ /\ transactionTable[t] = Null
           /\ \E a \in TxAddress :
                /\ Unused(a)
                /\ transactions' = [transactions EXCEPT ![a] = newTransaction(t, LockBudget)]
                /\ transactionTable' = [transactionTable EXCEPT ![t] = a]
           /\ Answer(job.caller, TRUE)
  /\ queue' = [queue EXCEPT ![TxWorker] = Tail(@)]
  /\ UNCHANGED <<lockTable, locks, worker>>

-----------------------------------------------------------------------------
(* The lock workers: process_request, acquire_lock, release_lock.          *)

JobOf(w) == Head(queue[w])
Tx(w) == transactions[worker[w].tx]

Goto(w, step) == worker' = [worker EXCEPT ![w].step = step]

\* The job is over; ok is what acquire_lock returned, TRUE after release_lock.
Finish(w, ok) == worker' = [worker EXCEPT ![w] = [IdleWorker EXCEPT !.step = "reply", !.ok = ok]]

\* The next step of w reads or writes an object that was deleted, or follows
\* a null pointer that get returned.
RowAfter(w) == {r \in Tx(w).locked_rows : r >= worker[w].next}

UsesFreedMemory(w) ==
  \/ /\ worker[w].step \in {"decide", "record", "abort", "releaseAll", "erase", "release", "last"}
     /\ ~Tx(w).live
  \/ worker[w].step = "release" /\ lockTable[JobOf(w).row_id] = Null
  \/ /\ worker[w].step = "releaseAll"
     /\ \E r \in RowAfter(w) : lockTable[r] = Null /\ \A s \in RowAfter(w) : r <= s

\* Using such an object is undefined behaviour: the worker does not go on.
At(w, step) == worker[w].step = step /\ ~UsesFreedMemory(w)

FindTransaction(w) ==
  /\ At(w, "wait")
  /\ queue[w] # <<>>
  /\ LET a == transactionTable[JobOf(w).transaction_id]
     IN IF a = Null
        THEN Finish(w, JobOf(w).command = "UNLOCK")
        ELSE worker' = [worker EXCEPT ![w].step = "row", ![w].tx = a]
  /\ UNCHANGED <<tables, queue, client>>

\* Memory that no table and no thread refers to: never used, deleted, or leaked
\* by releaseAllLocks, which takes a lock out of the table only.  (A lock is
\* deleted by the worker of its row alone, so no other thread has looked it up.)
Allocatable(a) ==
  /\ \A r \in Row : lockTable[r] # a
  /\ \A w \in LockWorker : worker[w].lock # a

FindLock(w) ==
  /\ At(w, "row")
  /\ JobOf(w).command # "UNLOCK"
  /\ LET r == JobOf(w).row_id
     IN \/ /\ lockTable[r] # Null
           /\ worker' = [worker EXCEPT ![w].step = "decide", ![w].lock = lockTable[r]]
           /\ UNCHANGED <<lockTable, locks>>
        \/ /\ lockTable[r] = Null
           /\ \E a \in LockAddress :
                /\ Allocatable(a)
                /\ locks' = [locks EXCEPT ![a] = newLock]
                /\ lockTable' = [lockTable EXCEPT ![r] = a]
                /\ worker' = [worker EXCEPT ![w].step = "decide", ![w].lock = a]
  /\ UNCHANGED <<transactionTable, transactions, queue, client>>

\* A lock request that 2PL, the mode of the lock or an earlier grant forbids
\* aborts its transaction.
Upgrades(w) ==
  /\ hasLock(Tx(w), JobOf(w).row_id)
  /\ JobOf(w).command = "EXCLUSIVE"
  /\ ~locks[worker[w].lock].exclusive

MayUpgrade(w) ==
  /\ Tx(w).growing_phase
  /\ Upgrades(w)
  /\ CanUpgrade(locks[worker[w].lock], Tx(w).transaction_id)

MayAdd(w) ==
  /\ Tx(w).growing_phase
  /\ ~hasLock(Tx(w), JobOf(w).row_id)
  /\ IF JobOf(w).command = "EXCLUSIVE"
     THEN CanOwnExclusively(locks[worker[w].lock])
     ELSE CanShare(locks[worker[w].lock])

Upgrade(w) ==
  /\ At(w, "decide")
  /\ MayUpgrade(w)
  /\ locks' = [locks EXCEPT ![worker[w].lock] = upgrade(@)]
  /\ Finish(w, TRUE)
  /\ UNCHANGED <<transactionTable, lockTable, transactions, queue, client>>

AddLock(w) ==
  /\ At(w, "decide")
  /\ MayAdd(w)
  /\ locks' = [locks EXCEPT ![worker[w].lock] =
       IF JobOf(w).command = "EXCLUSIVE"
       THEN getExclusiveAccess(@, Tx(w).transaction_id)
       ELSE getSharedAccess(@, Tx(w).transaction_id)]
  /\ Goto(w, "record")
  /\ UNCHANGED <<transactionTable, lockTable, transactions, queue, client>>

\* Fault: the transaction is not aborted.
RefuseOnly(w) ==
  /\ At(w, "decide")
  /\ ~MayUpgrade(w) /\ ~MayAdd(w)
  /\ Finish(w, FALSE)
  /\ UNCHANGED <<tables, queue, client>>

Refuse(w) ==
  /\ At(w, "decide")
  /\ ~MayUpgrade(w) /\ ~MayAdd(w)
  /\ Goto(w, "abort")
  /\ UNCHANGED <<tables, queue, client>>

RecordLock(w) ==
  /\ At(w, "record")
  /\ transactions' = [transactions EXCEPT ![worker[w].tx] = addRow(@, JobOf(w).row_id)]
  /\ Finish(w, TRUE)
  /\ UNCHANGED <<transactionTable, lockTable, locks, queue, client>>

\* Fault: the aborted transaction stays in the transaction table.
UnregisterNothing(w) ==
  /\ At(w, "abort")
  /\ Goto(w, "releaseAll")
  /\ UNCHANGED <<tables, queue, client>>

\* abort_transaction: out of the transaction table, then the locks in the order
\* of std::set, then delete.
Unregister(w) ==
  /\ At(w, "abort")
  /\ transactionTable' = [transactionTable EXCEPT ![Tx(w).transaction_id] = Null]
  /\ Goto(w, "releaseAll")
  /\ UNCHANGED <<lockTable, transactions, locks, queue, client>>

ReleaseNext(w) ==
  /\ At(w, "releaseAll")
  /\ \E r \in RowAfter(w) :
       /\ \A s \in RowAfter(w) : r <= s
       /\ LET a == lockTable[r]
              lock == release(locks[a], Tx(w).transaction_id)
          IN /\ locks' = [locks EXCEPT ![a] = lock]
             /\ lockTable' = [lockTable EXCEPT ![r] = IF lock.owners = {} THEN Null ELSE a]
       /\ worker' = [worker EXCEPT ![w].next = r + 1]
  /\ UNCHANGED <<transactionTable, transactions, queue, client>>

\* Fault: abort_transaction does not release the locks.
DeleteWithLocks(w) ==
  /\ At(w, "releaseAll")
  /\ transactions' = [transactions EXCEPT ![worker[w].tx] = deleted(Null)]
  /\ Finish(w, FALSE)
  /\ UNCHANGED <<transactionTable, lockTable, locks, queue, client>>

DeleteAborted(w) ==
  /\ At(w, "releaseAll")
  /\ RowAfter(w) = {}
  /\ transactions' = [transactions EXCEPT ![worker[w].tx] = deleted(Null)]
  /\ Finish(w, FALSE)
  /\ UNCHANGED <<transactionTable, lockTable, locks, queue, client>>

\* release_lock returns at once when the row has no lock.
FindLockToRelease(w) ==
  /\ At(w, "row")
  /\ JobOf(w).command = "UNLOCK"
  /\ IF lockTable[JobOf(w).row_id] = Null THEN Finish(w, TRUE) ELSE Goto(w, "erase")
  /\ UNCHANGED <<tables, queue, client>>

EraseRow(w) ==
  /\ At(w, "erase")
  /\ IF hasLock(Tx(w), JobOf(w).row_id)
     THEN /\ transactions' = [transactions EXCEPT ![worker[w].tx] = eraseRow(@, JobOf(w).row_id)]
          /\ Goto(w, "release")
     ELSE /\ Goto(w, "last")
          /\ UNCHANGED transactions
  /\ UNCHANGED <<transactionTable, lockTable, locks, queue, client>>

ReleaseLock(w) ==
  /\ At(w, "release")
  /\ LET r == JobOf(w).row_id
         a == lockTable[r]
         lock == release(locks[a], Tx(w).transaction_id)
     IN /\ locks' = [locks EXCEPT ![a] = lock]
        /\ lockTable' = [lockTable EXCEPT ![r] = IF lock.owners = {} THEN Null ELSE a]
  /\ Goto(w, "last")
  /\ UNCHANGED <<transactionTable, transactions, queue, client>>

\* Fault: the transaction is deleted with every released lock.
DeleteAlways(w) ==
  /\ At(w, "last")
  /\ transactionTable' = [transactionTable EXCEPT ![JobOf(w).transaction_id] = Null]
  /\ transactions' = [transactions EXCEPT ![worker[w].tx] = deleted(Null)]
  /\ Finish(w, TRUE)
  /\ UNCHANGED <<lockTable, locks, queue, client>>

\* Fault: the transaction is kept.
DeleteNever(w) ==
  /\ At(w, "last")
  /\ Finish(w, TRUE)
  /\ UNCHANGED <<tables, queue, client>>

\* A transaction without locks is deleted, whether or not this job released one.
DeleteFinished(w) ==
  /\ At(w, "last")
  /\ IF Tx(w).locked_rows = {}
     THEN /\ transactionTable' = [transactionTable EXCEPT ![JobOf(w).transaction_id] = Null]
          /\ transactions' = [transactions EXCEPT ![worker[w].tx] = deleted(Null)]
     ELSE UNCHANGED <<transactionTable, transactions>>
  /\ Finish(w, TRUE)
  /\ UNCHANGED <<lockTable, locks, queue, client>>

\* Fault: the job is not popped.
ReplyWithoutPop(w) ==
  /\ At(w, "reply")
  /\ Answer(JobOf(w).caller, worker[w].ok)
  /\ worker' = [worker EXCEPT ![w] = IdleWorker]
  /\ UNCHANGED <<tables, queue>>

\* The answer, and the job leaves the queue.  The queue is nobody else's to
\* read, so that one step stands for both.
Reply(w) ==
  /\ At(w, "reply")
  /\ Answer(JobOf(w).caller, worker[w].ok)
  /\ queue' = [queue EXCEPT ![w] = Tail(@)]
  /\ worker' = [worker EXCEPT ![w] = IdleWorker]
  /\ UNCHANGED tables

-----------------------------------------------------------------------------

Call(c) ==
  \/ \E t \in Transaction : SendRegistration(c, t)
  \/ \E ask \in Asks, wait \in WaitChoices : CheckRegistered(c, ask, wait)
  \/ TRUE \in WaitChoices /\ \E ask \in Asks : RefuseUnregistered(c, ask)

ClientStep(c) == SendLockJob(c) \/ Return(c)

LockWorkerStep(w) ==
  \/ FindTransaction(w) \/ FindLock(w)
  \/ Upgrade(w) \/ AddLock(w) \/ Refuse(w) \/ RecordLock(w)
  \/ Unregister(w) \/ ReleaseNext(w) \/ DeleteAborted(w)
  \/ FindLockToRelease(w) \/ EraseRow(w) \/ ReleaseLock(w) \/ DeleteFinished(w)
  \/ Reply(w)

Next ==
  \/ \E c \in Client : Call(c) \/ ClientStep(c)
  \/ Register
  \/ \E w \in LockWorker : LockWorkerStep(w)

Spec == Init /\ [][Next]_vars

-----------------------------------------------------------------------------
(* What the code is meant to do.  `Partitioned' is the case the code is     *)
(* built for: the default of one lock worker, or transactions that keep to  *)
(* rows of one worker.                                                      *)

Partitioned ==
  \A a, b \in Asks :
    a.transaction_id = b.transaction_id => RowWorker[a.row_id] = RowWorker[b.row_id]

Registered(t) == transactionTable[t] # Null
Rows(t) == IF Registered(t) THEN transactions[transactionTable[t]].locked_rows ELSE {}
Holds(t, r) == r \in Rows(t)
Owners(r) == IF lockTable[r] = Null THEN {} ELSE locks[lockTable[r]].owners
Exclusive(r) == lockTable[r] # Null /\ locks[lockTable[r]].exclusive

\* A worker is between the two halves of granting or releasing row r to t, or
\* it is releasing the locks of an aborted transaction.
InHand(t, r) ==
  \E w \in LockWorker :
    /\ queue[w] # <<>>
    /\ JobOf(w).transaction_id = t
    /\ \/ worker[w].step \in {"record", "release"} /\ JobOf(w).row_id = r
       \/ worker[w].step = "releaseAll" /\ r \in RowAfter(w)

\* Every thread that frees or looks up an object does so while nobody else
\* uses it: no thread touches a deleted transaction or lock, or a null lock.
NoFault == \A w \in LockWorker : ~UsesFreedMemory(w)

\* A transaction is an owner of every lock in its locked_rows, so that what
\* release and abort walk through is in the lock table.
HoldersOwnTheirLocks ==
  \A t \in Transaction : \A r \in Rows(t) : t \in Owners(r)

\* No lock is owned by a transaction that ended or does not know of it, except
\* while the worker of the row is between the two updates.
OwnersHoldTheirLocks ==
  \A r \in Row : \A t \in Owners(r) : Holds(t, r) \/ InHand(t, r)

\* Two transactions have the same row in their locked_rows only if its lock
\* is shared.
MutualExclusion ==
  \A t, u \in Transaction, r \in Row :
    t # u /\ Holds(t, r) /\ Holds(u, r) => ~Exclusive(r)

\* Whatever the threads do, no lock object is exclusive with several owners.
LocksCompatible == \A a \in LockAddress : Compatible(locks[a])

\* When acquire_lock has returned TRUE the transaction holds the row at that
\* moment, exclusively if it asked for that.
GrantedIsHeld ==
  \A w \in LockWorker :
    worker[w].step = "reply" /\ worker[w].ok /\ JobOf(w).command # "UNLOCK" =>
      /\ Holds(JobOf(w).transaction_id, JobOf(w).row_id)
      /\ JobOf(w).command = "EXCLUSIVE" => Exclusive(JobOf(w).row_id)

\* When acquire_lock has returned FALSE the transaction owns no lock any more,
\* on any row.  (It may have been registered again since.)
RefusedHoldsNothing ==
  \A w \in LockWorker :
    worker[w].step = "reply" /\ ~worker[w].ok =>
      \A r \in Row : JobOf(w).transaction_id \notin Owners(r)

\* A transaction that released its last lock is not kept: one that is shrinking
\* still has a lock, unless a worker is about to delete it.
ShrinkingHoldsLock ==
  \A t \in Transaction :
    /\ Registered(t) /\ Rows(t) = {}
    /\ ~transactions[transactionTable[t]].growing_phase
    => \E w \in LockWorker : worker[w].step \in {"release", "last"}
                              /\ worker[w].tx = transactionTable[t]

\* A lock is lost only by its transaction's own unlock request for that row, or
\* by a request of that transaction that was refused; never by another
\* transaction's request.
LostOnlyByOwnRequest ==
  [][\A t \in Transaction, r \in Row : Holds(t, r) /\ ~Holds(t, r)' =>
       \E w \in LockWorker :
         /\ worker[w].step \in {"erase", "abort"}
         /\ JobOf(w).transaction_id = t
         /\ worker[w].step = "erase" => JobOf(w).row_id = r]_vars

\* A client that waits and has no answer has exactly one job in the queues: no
\* call is forgotten, answered twice, or answered to somebody else.
JobsOf(c) ==
  LET Places(w) == {i \in DOMAIN queue[w] : queue[w][i].caller = c}
  IN UNION {{<<w, i>> : i \in Places(w)} : w \in Worker}

OneJobPerWaitingClient ==
  \A c \in Client :
    Cardinality(JobsOf(c)) =
      (IF client[c].step = "wait" /\ client[c].answer = "none" THEN 1 ELSE 0)

\* The two-phase locking that the documentation of the lock manager promises.
PhaseOf(t) ==
  IF ~Registered(t) THEN "none"
  ELSE IF transactions[transactionTable[t]].growing_phase THEN "growing" ELSE "shrinking"

ModeOf(t, r) ==
  IF ~Holds(t, r) THEN "none" ELSE IF Exclusive(r) THEN "exclusive" ELSE "shared"

Abstract == INSTANCE TwoPhaseLocking WITH
  phase <- [t \in Transaction |-> PhaseOf(t)],
  held <- [t \in Transaction |-> [r \in Row |-> ModeOf(t, r)]]

TwoPhase == Abstract!Spec
=============================================================================
