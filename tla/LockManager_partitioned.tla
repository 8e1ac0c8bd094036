----------------------- MODULE LockManager_partitioned -----------------------
(***************************************************************************)
(* What holds when every transaction keeps to the rows of one worker       *)
(* (Partitioned), as it does with the default of one lock worker: no       *)
(* thread uses freed memory, transactions and locks agree, a row is held   *)
(* by several transactions only if it is shared, and the lock manager      *)
(* implements TwoPhaseLocking.  For every number of clients, workers,      *)
(* transactions and rows.                                                  *)
(*                                                                         *)
(* The argument: a transaction object, its entry in the transaction table  *)
(* and its membership in the owners of a lock are changed by the one       *)
(* worker that has the jobs of this transaction, and a lock by the worker  *)
(* of its row.  A step of a worker therefore leaves alone what the other   *)
(* workers know (Undisturbed), and what it knows itself is a matter of its *)
(* own sequence of steps (InWork).                                         *)
(***************************************************************************)
EXTENDS LockManager_proofs

Asked(t, r) == \E a \in Asks : a.transaction_id = t /\ a.row_id = r

JobsFor(w) ==
  {j \in LockJob : Asked(j.transaction_id, j.row_id) /\ RowWorker[j.row_id] = w}

\* Every lock job is one that was asked for, and is in the queue of its row's worker.
Routed ==
  /\ \A c \in Client : client[c].step = "push" =>
       Asked(client[c].job.transaction_id, client[c].job.row_id)
  /\ \A w \in LockWorker : queue[w] \in Seq(JobsFor(w))

\* The transaction table points to the live object of the transaction, and an
\* object has rows only that its transaction asked for.
Registrations ==
  /\ \A t \in Transaction : Registered(t) =>
       /\ transactions[transactionTable[t]].live
       /\ transactions[transactionTable[t]].transaction_id = t
  /\ \A a \in TxAddress : transactions[a].live =>
       \A r \in transactions[a].locked_rows : Asked(transactions[a].transaction_id, r)

OneLockEach ==
  \A r, s \in Row : lockTable[r] # Null /\ lockTable[r] = lockTable[s] => r = s

TxOf(w) == JobOf(w).transaction_id
RowOf(w) == JobOf(w).row_id

InTx(w) == worker[w].step \notin {"wait", "reply"}

\* What a lock worker knows of its transaction and row at each of its steps.
KnowsTx(w) ==
  /\ InTx(w) /\ worker[w].step # "releaseAll" => transactionTable[TxOf(w)] = worker[w].tx
  /\ worker[w].step = "releaseAll" =>
       /\ Tx(w).live /\ Tx(w).transaction_id = TxOf(w)
       /\ Rows(TxOf(w)) = {}
       /\ \A u \in Transaction : transactionTable[u] # worker[w].tx
       /\ \A s \in RowAfter(w) : TxOf(w) \in Owners(s)
  /\ worker[w].step # "releaseAll" => worker[w].next = 0

KnowsLock(w) ==
  /\ worker[w].step \in {"decide", "record", "abort", "releaseAll"} => JobOf(w).command # "UNLOCK"
  /\ worker[w].step \in {"erase", "release", "last"} => JobOf(w).command = "UNLOCK"
  /\ worker[w].step = "decide" => lockTable[RowOf(w)] = worker[w].lock
  /\ worker[w].step = "record" =>
       /\ TxOf(w) \in Owners(RowOf(w))
       /\ JobOf(w).command = "EXCLUSIVE" => Exclusive(RowOf(w))
  /\ worker[w].step = "release" =>
       TxOf(w) \in Owners(RowOf(w)) /\ ~Holds(TxOf(w), RowOf(w))

KnowsResult(w) ==
  /\ worker[w].step = "reply" /\ worker[w].ok /\ JobOf(w).command # "UNLOCK" =>
       /\ Holds(TxOf(w), RowOf(w))
       /\ JobOf(w).command = "EXCLUSIVE" => Exclusive(RowOf(w))
  /\ worker[w].step = "reply" /\ ~worker[w].ok => \A s \in Row : TxOf(w) \notin Owners(s)

InWork(w) == KnowsTx(w) /\ KnowsLock(w) /\ KnowsResult(w)

PartitionInv ==
  /\ Routed
  /\ Registrations
  /\ OneLockEach
  /\ \A w \in LockWorker : InWork(w)
  /\ HoldersOwnTheirLocks
  /\ OwnersHoldTheirLocks

Inv == TypeInv /\ LocksCompatible /\ PartitionInv

\* The part of InHand that is about one worker.
HandOf(w, t, r) ==
  /\ queue[w] # <<>>
  /\ TxOf(w) = t
  /\ \/ worker[w].step \in {"record", "release"} /\ RowOf(w) = r
     \/ worker[w].step = "releaseAll" /\ r \in RowAfter(w)

-----------------------------------------------------------------------------
(* What the invariant says of one state.                                    *)

LEMMA SameWorker ==
  ASSUME Partitioned, NEW t, NEW r, NEW s, Asked(t, r), Asked(t, s)
  PROVE  RowWorker[r] = RowWorker[s]
  BY DEF Partitioned, Asked

LEMMA JobRouted ==
  ASSUME Inv, NEW w \in LockWorker, queue[w] # <<>>
  PROVE  /\ JobOf(w) \in LockJob
         /\ TxOf(w) \in Transaction
         /\ RowOf(w) \in Row
         /\ Asked(TxOf(w), RowOf(w))
         /\ RowWorker[RowOf(w)] = w
<1>1. JobOf(w) \in LockJob /\ TxOf(w) \in Transaction /\ RowOf(w) \in Row
  BY JobTyped DEF Inv, TypeInv, TxOf, RowOf
<1>2. queue[w] \in Seq(JobsFor(w))
  BY DEF Inv, PartitionInv, Routed
<1>3. JobOf(w) \in JobsFor(w)
  BY <1>2, HeadTail DEF JobOf
<1> QED
  BY <1>1, <1>3 DEF JobsFor, TxOf, RowOf

\* Two workers never have jobs of the same transaction at the same time.
LEMMA DifferentTransactions ==
  ASSUME Partitioned, Inv, NEW v \in LockWorker, NEW w \in LockWorker, v # w,
         queue[v] # <<>>, queue[w] # <<>>
  PROVE  TxOf(v) # TxOf(w)
  BY JobRouted, SameWorker

\* The transaction object a worker has looked up is alive and the one of its job.
LEMMA OwnTransaction ==
  ASSUME Partitioned, Inv, NEW w \in LockWorker, InTx(w)
  PROVE  /\ queue[w] # <<>>
         /\ worker[w].tx \in TxAddress
         /\ Tx(w) \in TransactionObject(Transaction \cup {Null}, Row)
         /\ Tx(w).live
         /\ Tx(w).transaction_id = TxOf(w)
         /\ \A s \in Tx(w).locked_rows : s \in Row /\ RowWorker[s] = w
         /\ worker[w].step # "releaseAll" =>
              /\ transactionTable[TxOf(w)] = worker[w].tx
              /\ Registered(TxOf(w))
              /\ Rows(TxOf(w)) = Tx(w).locked_rows
<1>1. queue[w] # <<>> /\ worker[w].tx \in TxAddress
  BY DEF Inv, TypeInv, Workers, InTx
<1>2. /\ TxOf(w) \in Transaction
      /\ Asked(TxOf(w), RowOf(w))
      /\ RowWorker[RowOf(w)] = w
  BY <1>1, JobRouted
<1>3. Tx(w) \in TransactionObject(Transaction \cup {Null}, Row)
  BY <1>1 DEF Inv, TypeInv, Tables, TablesOK, Tx
<1>4. ASSUME worker[w].step # "releaseAll"
      PROVE  /\ transactionTable[TxOf(w)] = worker[w].tx
             /\ Registered(TxOf(w))
             /\ Rows(TxOf(w)) = Tx(w).locked_rows
  <2>1. transactionTable[TxOf(w)] = worker[w].tx
    BY <1>4 DEF Inv, PartitionInv, InWork, KnowsTx
  <2> QED
    BY <2>1, <1>1, NullAssumption DEF Registered, Rows, Tx
<1>5. Tx(w).live /\ Tx(w).transaction_id = TxOf(w)
  <2>1. CASE worker[w].step = "releaseAll"
    BY <2>1 DEF Inv, PartitionInv, InWork, KnowsTx
  <2>2. CASE worker[w].step # "releaseAll"
    BY <2>2, <1>4, <1>2 DEF Inv, PartitionInv, Registrations, Tx
  <2> QED
    BY <2>1, <2>2
<1>6. ASSUME NEW s \in Tx(w).locked_rows PROVE s \in Row /\ RowWorker[s] = w
  <2>1. s \in Row
    BY <1>3 DEF TransactionObject
  <2>2. Asked(TxOf(w), s)
    BY <1>1, <1>5 DEF Inv, PartitionInv, Registrations, Tx
  <2> QED
    BY <2>1, <2>2, <1>2, SameWorker
<1> QED
  BY <1>1, <1>3, <1>4, <1>5, <1>6

LEMMA NothingFreed ==
  ASSUME Partitioned, Inv, NEW w \in LockWorker
  PROVE  ~UsesFreedMemory(w)
<1>1. InTx(w) => Tx(w).live
  BY OwnTransaction
<1>2. ASSUME worker[w].step = "release" PROVE lockTable[RowOf(w)] # Null
  BY <1>2 DEF Inv, PartitionInv, InWork, KnowsLock, Owners
<1>3. ASSUME worker[w].step = "releaseAll", NEW r \in RowAfter(w) PROVE lockTable[r] # Null
  BY <1>3 DEF Inv, PartitionInv, InWork, KnowsTx, Owners
<1> QED
  BY <1>1, <1>2, <1>3 DEF UsesFreedMemory, InTx, RowOf

\* An owner that does not hold the row is in the hand of the worker that has its job.
LEMMA OwnHand ==
  ASSUME Partitioned, Inv, NEW w \in LockWorker, queue[w] # <<>>, NEW s \in Row,
         TxOf(w) \in Owners(s)
  PROVE  Holds(TxOf(w), s) \/ HandOf(w, TxOf(w), s)
<1>1. Holds(TxOf(w), s) \/ InHand(TxOf(w), s)
  BY DEF Inv, PartitionInv, OwnersHoldTheirLocks
<1>2. InHand(TxOf(w), s) => \E v \in LockWorker : HandOf(v, TxOf(w), s)
  BY DEF InHand, HandOf, TxOf, RowOf
<1>3. \A v \in LockWorker : HandOf(v, TxOf(w), s) => v = w
  BY DifferentTransactions DEF HandOf
<1> QED
  BY <1>1, <1>2, <1>3

-----------------------------------------------------------------------------
(* What a step of worker w, which has a job, leaves alone, and that it is   *)
(* enough for the other workers.                                            *)

TxFrame(w) ==
  /\ \A u \in Transaction : u # TxOf(w) => transactionTable'[u] = transactionTable[u]
  /\ transactionTable'[TxOf(w)] \in {transactionTable[TxOf(w)], Null}
  /\ \A a \in TxAddress : transactions'[a] # transactions[a] => InTx(w) /\ a = worker[w].tx

LockFrame(w) ==
  \A s \in Row :
    /\ RowWorker[s] # w =>
         /\ lockTable'[s] = lockTable[s]
         /\ Owners(s)' = Owners(s)
         /\ Exclusive(s)' = Exclusive(s)
    /\ Owners(s)' \subseteq Owners(s) \cup {TxOf(w)}
    /\ Owners(s) \subseteq Owners(s)' \cup {TxOf(w)}

LocalFrame(w) ==
  \A v \in LockWorker : v # w => worker'[v] = worker[v] /\ queue'[v] = queue[v]

Frame(w) == TxFrame(w) /\ LockFrame(w) /\ LocalFrame(w)

LEMMA RowsUndisturbed ==
  ASSUME Partitioned, Inv, NEW w \in LockWorker, queue[w] # <<>>, TxFrame(w),
         NEW u \in Transaction, u # TxOf(w)
  PROVE  Registered(u)' = Registered(u) /\ Rows(u)' = Rows(u)
<1>1. transactionTable'[u] = transactionTable[u]
  BY DEF TxFrame
<1>2. ASSUME Registered(u)
      PROVE  transactions'[transactionTable[u]] = transactions[transactionTable[u]]
  <2>1. /\ transactionTable[u] \in TxAddress
        /\ transactions[transactionTable[u]].transaction_id = u
    BY <1>2 DEF Inv, TypeInv, Tables, TablesOK, PartitionInv, Registrations, Registered
  <2>2. InTx(w) => Tx(w).transaction_id = TxOf(w)
    BY OwnTransaction
  <2> QED
    BY <2>1, <2>2 DEF TxFrame, Tx
<1> QED
  BY <1>1, <1>2 DEF Registered, Rows

LEMMA TxUndisturbed ==
  ASSUME Partitioned, Inv, NEW w \in LockWorker, queue[w] # <<>>, TxFrame(w), LocalFrame(w),
         NEW v \in LockWorker, v # w, InTx(v)
  PROVE  Tx(v)' = Tx(v)
<1>1. worker'[v] = worker[v]
  BY DEF LocalFrame
<1>2. worker[v].tx \in TxAddress /\ Tx(v).transaction_id = TxOf(v) /\ queue[v] # <<>>
  BY OwnTransaction
<1>3. InTx(w) => Tx(w).transaction_id = TxOf(w)
  BY OwnTransaction
<1>4. TxOf(v) # TxOf(w)
  BY <1>2, DifferentTransactions
<1>5. transactions'[worker[v].tx] = transactions[worker[v].tx]
  BY <1>2, <1>3, <1>4 DEF TxFrame, Tx
<1> QED
  BY <1>1, <1>5 DEF Tx

LEMMA WorkUndisturbed ==
  ASSUME Partitioned, Inv, NEW w \in LockWorker, queue[w] # <<>>, Frame(w),
         NEW v \in LockWorker, v # w
  PROVE  InWork(v)'
<1>1. worker'[v] = worker[v] /\ queue'[v] = queue[v]
  BY DEF Frame, LocalFrame
<1>2. JobOf(v)' = JobOf(v) /\ TxOf(v)' = TxOf(v) /\ RowOf(v)' = RowOf(v)
  BY <1>1 DEF JobOf, TxOf, RowOf
<1>3. CASE worker[v].step = "wait"
  BY <1>1, <1>3 DEF InWork, KnowsTx, KnowsLock, KnowsResult, InTx, Inv, PartitionInv
<1>4. CASE worker[v].step # "wait"
  <2>1. queue[v] # <<>>
    BY <1>4 DEF Inv, TypeInv, Workers
  <2>2. PICK t \in Transaction, r \in Row :
          t = TxOf(v) /\ r = RowOf(v) /\ RowWorker[r] = v /\ t # TxOf(w)
    BY <2>1, JobRouted, DifferentTransactions
  <2>3. /\ Registered(t)' = Registered(t)
        /\ Rows(t)' = Rows(t)
        /\ transactionTable'[t] = transactionTable[t]
    BY <2>2, RowsUndisturbed DEF Frame, TxFrame
  <2>4. /\ lockTable'[r] = lockTable[r]
        /\ Owners(r)' = Owners(r)
        /\ Exclusive(r)' = Exclusive(r)
    BY <2>2 DEF Frame, LockFrame
  <2>5. \A s \in Row : t \in Owners(s)' <=> t \in Owners(s)
    BY <2>2 DEF Frame, LockFrame
  <2>6. InTx(v) => Tx(v)' = Tx(v)
    BY TxUndisturbed DEF Frame
  <2>7. InWork(v)
    BY DEF Inv, PartitionInv
  <2>8. KnowsTx(v)'
    <3>1. CASE worker[v].step = "releaseAll"
      <4>1. Tx(v)' = Tx(v) /\ RowAfter(v)' = RowAfter(v) /\ RowAfter(v) \subseteq Row
        BY <1>1, <2>6, <3>1, OwnTransaction DEF InTx, RowAfter
      <4>2. \A u \in Transaction : transactionTable'[u] # worker[v].tx
        <5>1. worker[v].tx # Null
          BY <3>1, OwnTransaction, NullAssumption DEF InTx
        <5> QED
          BY <2>7, <3>1, <5>1 DEF Frame, TxFrame, InWork, KnowsTx
      <4> QED
        BY <1>1, <1>2, <2>2, <2>3, <2>5, <2>7, <3>1, <4>1, <4>2 DEF InWork, KnowsTx, InTx
    <3>2. CASE worker[v].step # "releaseAll"
      BY <1>1, <1>2, <2>2, <2>3, <2>7, <3>2 DEF InWork, KnowsTx, InTx
    <3> QED
      BY <3>1, <3>2
  <2>9. KnowsLock(v)'
    BY <1>1, <1>2, <2>2, <2>3, <2>4, <2>7 DEF InWork, KnowsLock, Holds
  <2>10. KnowsResult(v)'
    BY <1>1, <1>2, <2>2, <2>3, <2>4, <2>5, <2>7 DEF InWork, KnowsResult, Holds
  <2> QED
    BY <2>8, <2>9, <2>10 DEF InWork
<1> QED
  BY <1>3, <1>4

LEMMA HandUndisturbed ==
  ASSUME Partitioned, Inv, NEW w \in LockWorker, queue[w] # <<>>, Frame(w),
         NEW u \in Transaction, u # TxOf(w), NEW s \in Row, InHand(u, s)
  PROVE  InHand(u, s)'
<1>1. PICK v \in LockWorker : HandOf(v, u, s)
  BY DEF InHand, HandOf, TxOf, RowOf
<1>2. v # w
  BY <1>1 DEF HandOf
<1>3. worker'[v] = worker[v] /\ queue'[v] = queue[v]
  BY <1>2 DEF Frame, LocalFrame
<1>4. InTx(v) => Tx(v)' = Tx(v)
  BY <1>2, TxUndisturbed DEF Frame
<1> QED
  BY <1>1, <1>3, <1>4 DEF InHand, HandOf, JobOf, TxOf, RowOf, RowAfter, InTx

\* What is left to show of a step of w: its own work, and that its own
\* transaction and the owners of the locks still agree.
Agrees(w) ==
  \A t \in Transaction, s \in Row : t = TxOf(w) =>
    /\ Holds(t, s)' => t \in Owners(s)'
    /\ t \in Owners(s)' => Holds(t, s)' \/ InHand(t, s)'

LEMMA WorkerStepKeeps ==
  ASSUME Partitioned, Inv, NEW w \in LockWorker, queue[w] # <<>>, Frame(w),
         InWork(w)', Agrees(w), TypeInv'
  PROVE  /\ \A v \in LockWorker : InWork(v)'
         /\ HoldersOwnTheirLocks'
         /\ OwnersHoldTheirLocks'
<1>1. \A v \in LockWorker : InWork(v)'
  BY WorkUndisturbed
<1>2. \A u \in Transaction : Rows(u)' \subseteq Row
  BY NullAssumption
  DEF Rows, Registered, TypeInv, Tables, TablesOK, TransactionObject
<1>3. ASSUME NEW u \in Transaction, NEW s \in Rows(u)' PROVE u \in Owners(s)'
  <2>1. s \in Row
    BY <1>2
  <2>2. CASE u = TxOf(w)
    BY <2>1, <2>2 DEF Agrees, Holds
  <2>3. CASE u # TxOf(w)
    <3>1. s \in Rows(u)
      BY <2>3, RowsUndisturbed DEF Frame
    <3>2. u \in Owners(s)
      BY <3>1 DEF Inv, PartitionInv, HoldersOwnTheirLocks
    <3> QED
      BY <2>1, <2>3, <3>2 DEF Frame, LockFrame
  <2> QED
    BY <2>2, <2>3
<1>4. ASSUME NEW s \in Row, NEW u \in Owners(s)' PROVE Holds(u, s)' \/ InHand(u, s)'
  <2>0. u \in Transaction
    BY DEF Owners, TypeInv, Tables, TablesOK, LockRecord
  <2>1. CASE u = TxOf(w)
    BY <2>0, <2>1 DEF Agrees
  <2>2. CASE u # TxOf(w)
    <3>1. u \in Owners(s)
      BY <2>2 DEF Frame, LockFrame
    <3>2. Holds(u, s) \/ InHand(u, s)
      BY <3>1 DEF Inv, PartitionInv, OwnersHoldTheirLocks
    <3>3. Holds(u, s) => Holds(u, s)'
      BY <2>0, <2>2, RowsUndisturbed DEF Frame, Holds
    <3> QED
      BY <2>0, <2>2, <3>2, <3>3, HandUndisturbed
  <2> QED
    BY <2>1, <2>2
<1> QED
  BY <1>1, <1>3, <1>4 DEF HoldersOwnTheirLocks, OwnersHoldTheirLocks

-----------------------------------------------------------------------------
(* The effects of which the steps of a worker are made.                     *)

StepKeeps(w) ==
  /\ Frame(w)
  /\ InWork(w)'
  /\ Agrees(w)
  /\ Registrations'
  /\ OneLockEach'

SameJob(w) == JobOf(w)' = JobOf(w) /\ TxOf(w)' = TxOf(w) /\ RowOf(w)' = RowOf(w)

LEMMA GotoEffect ==
  ASSUME Inv, NEW w \in LockWorker, NEW step, Goto(w, step), UNCHANGED queue
  PROVE  /\ LocalFrame(w)
         /\ SameJob(w)
         /\ worker'[w].step = step
         /\ worker'[w].tx = worker[w].tx
         /\ worker'[w].lock = worker[w].lock
         /\ worker'[w].next = worker[w].next
         /\ worker'[w].ok = worker[w].ok
<1>1. worker[w] \in WorkerState /\ worker' = [worker EXCEPT ![w].step = step]
  BY DEF Inv, TypeInv, Workers, Goto
<1>2. SameJob(w)
  BY DEF SameJob, TxOf, RowOf, JobOf
<1>3. LocalFrame(w)
  BY <1>1 DEF LocalFrame
<1> QED
  BY <1>1, <1>2, <1>3 DEF Inv, TypeInv, Workers, WorkerState

LEMMA FinishEffect ==
  ASSUME Inv, NEW w \in LockWorker, NEW ok \in BOOLEAN, Finish(w, ok), UNCHANGED queue
  PROVE  /\ LocalFrame(w)
         /\ SameJob(w)
         /\ worker'[w].step = "reply"
         /\ worker'[w].next = 0
         /\ worker'[w].ok = ok
<1>1. worker' = [worker EXCEPT ![w] = [IdleWorker EXCEPT !.step = "reply", !.ok = ok]]
  BY DEF Finish
<1>2. SameJob(w)
  BY DEF SameJob, TxOf, RowOf, JobOf
<1>3. LocalFrame(w)
  BY <1>1 DEF LocalFrame
<1> QED
  BY <1>1, <1>2, <1>3 DEF Inv, TypeInv, Workers, IdleWorker

LEMMA LocksKept ==
  ASSUME Inv, NEW w \in LockWorker, UNCHANGED <<lockTable, locks>>
  PROVE  /\ LockFrame(w)
         /\ OneLockEach'
         /\ \A s \in Row : Owners(s)' = Owners(s) /\ Exclusive(s)' = Exclusive(s)
<1>1. \A s \in Row : Owners(s)' = Owners(s) /\ Exclusive(s)' = Exclusive(s)
  BY DEF Owners, Exclusive
<1> QED
  BY <1>1 DEF LockFrame, OneLockEach, Inv, PartitionInv

LEMMA TransactionsKept ==
  ASSUME Inv, NEW w \in LockWorker, UNCHANGED <<transactionTable, transactions>>
  PROVE  /\ TxFrame(w)
         /\ Registrations'
         /\ \A u \in Transaction : Rows(u)' = Rows(u) /\ Registered(u)' = Registered(u)
<1>1. \A u \in Transaction : Rows(u)' = Rows(u) /\ Registered(u)' = Registered(u)
  BY DEF Rows, Registered
<1> QED
  BY <1>1 DEF TxFrame, Registrations, Inv, PartitionInv

\* The lock of row r becomes `lock', and may leave the table when it has no owner left.
LockUpdate(r, lock) ==
  /\ locks' = [locks EXCEPT ![lockTable[r]] = lock]
  /\ \/ lockTable' = lockTable
     \/ /\ lockTable' = [lockTable EXCEPT ![r] = Null]
        /\ lock.owners = {} /\ ~lock.exclusive

LEMMA LockChanged ==
  ASSUME Inv, NEW r \in Row, lockTable[r] # Null,
         NEW lock, lock.exclusive \in BOOLEAN, LockUpdate(r, lock)
  PROVE  /\ OneLockEach'
         /\ Owners(r)' = lock.owners
         /\ Exclusive(r)' <=> lock.exclusive
         /\ \A s \in Row : s # r =>
              /\ lockTable'[s] = lockTable[s]
              /\ Owners(s)' = Owners(s)
              /\ Exclusive(s)' = Exclusive(s)
<1>1. /\ lockTable \in [Row -> LockAddress \cup {Null}]
      /\ locks \in [LockAddress -> LockRecord(Transaction)]
      /\ OneLockEach
  BY DEF Inv, PartitionInv, TypeInv, Tables, TablesOK
<1>2. \A s \in Row : s # r => lockTable'[s] = lockTable[s]
  BY <1>1 DEF LockUpdate
<1>3. OneLockEach'
  BY <1>1 DEF OneLockEach, LockUpdate
<1>4. Owners(r)' = lock.owners
  BY <1>1 DEF Owners, LockUpdate
<1>5. Exclusive(r)' <=> lock.exclusive
  BY <1>1 DEF Exclusive, LockUpdate
<1>6. ASSUME NEW s \in Row, s # r, lockTable[s] # Null
      PROVE  locks'[lockTable[s]] = locks[lockTable[s]]
  BY <1>1, <1>6 DEF OneLockEach, LockUpdate
<1>7. \A s \in Row : s # r => Owners(s)' = Owners(s) /\ Exclusive(s)' = Exclusive(s)
  BY <1>2, <1>6 DEF Owners, Exclusive
<1> QED
  BY <1>2, <1>3, <1>4, <1>5, <1>7

LEMMA LockChangedFrame ==
  ASSUME Inv, NEW w \in LockWorker, NEW r \in Row, RowWorker[r] = w,
         \A s \in Row : s # r =>
              /\ lockTable'[s] = lockTable[s]
              /\ Owners(s)' = Owners(s)
              /\ Exclusive(s)' = Exclusive(s),
         Owners(r)' \subseteq Owners(r) \cup {TxOf(w)},
         Owners(r) \subseteq Owners(r)' \cup {TxOf(w)}
  PROVE  LockFrame(w)
  BY DEF LockFrame

\* The transaction object of w's job becomes `x'.
LEMMA ObjectChanged ==
  ASSUME Partitioned, Inv, NEW w \in LockWorker, InTx(w), worker[w].step # "releaseAll",
         NEW t \in Transaction, t = TxOf(w),
         NEW x, x.live, x.transaction_id = t, \A s \in x.locked_rows : Asked(t, s),
         transactions' = [transactions EXCEPT ![worker[w].tx] = x],
         UNCHANGED transactionTable
  PROVE  /\ TxFrame(w)
         /\ Registrations'
         /\ Rows(t)' = x.locked_rows
         /\ Registered(t)'
<1>1. /\ worker[w].tx \in TxAddress
      /\ transactionTable[t] = worker[w].tx
      /\ transactions \in [TxAddress -> TransactionObject(Transaction \cup {Null}, Row)]
  BY OwnTransaction DEF Inv, TypeInv, Tables, TablesOK
<1>2. TxFrame(w)
  BY <1>1 DEF TxFrame
<1>3. Registered(t)' /\ Rows(t)' = x.locked_rows
  BY <1>1, NullAssumption DEF Registered, Rows
<1>4. ASSUME NEW u \in Transaction, Registered(u)'
      PROVE  /\ transactions'[transactionTable'[u]].live
             /\ transactions'[transactionTable'[u]].transaction_id = u
  <2>1. /\ transactionTable[u] \in TxAddress
        /\ transactions[transactionTable[u]].live
        /\ transactions[transactionTable[u]].transaction_id = u
    BY <1>4 DEF Inv, TypeInv, Tables, TablesOK, PartitionInv, Registrations, Registered
  <2>2. transactions[worker[w].tx].transaction_id = t
    BY OwnTransaction DEF Tx
  <2> QED
    BY <1>1, <2>1, <2>2
<1>5. ASSUME NEW a \in TxAddress, transactions'[a].live, NEW r \in transactions'[a].locked_rows
      PROVE  Asked(transactions'[a].transaction_id, r)
  BY <1>1, <1>5 DEF Inv, PartitionInv, Registrations
<1> QED
  BY <1>2, <1>3, <1>4, <1>5 DEF Registrations

\* The transaction table points to the object of w's job for its transaction only.
LEMMA NobodyElse ==
  ASSUME Partitioned, Inv, NEW w \in LockWorker, InTx(w), NEW u \in Transaction, u # TxOf(w)
  PROVE  transactionTable[u] # worker[w].tx
<1>1. worker[w].tx \in TxAddress /\ Tx(w).transaction_id = TxOf(w)
  BY OwnTransaction
<1>2. Registered(u) => transactions[transactionTable[u]].transaction_id = u
  BY DEF Inv, PartitionInv, Registrations
<1> QED
  BY <1>1, <1>2, NullAssumption DEF Registered, Tx

LEMMA ObjectDeleted ==
  ASSUME Partitioned, Inv, NEW w \in LockWorker, InTx(w),
         NEW t \in Transaction, t = TxOf(w), Rows(t) = {},
         transactions' = [transactions EXCEPT ![worker[w].tx] = deleted(Null)],
         \A u \in Transaction : u # t => transactionTable'[u] = transactionTable[u],
         transactionTable'[t] \in {transactionTable[t], Null},
         transactionTable'[t] # worker[w].tx
  PROVE  /\ TxFrame(w)
         /\ Registrations'
         /\ Rows(t)' = {}
<1>1. /\ worker[w].tx \in TxAddress
      /\ transactions \in [TxAddress -> TransactionObject(Transaction \cup {Null}, Row)]
      /\ transactionTable \in [Transaction -> TxAddress \cup {Null}]
  BY OwnTransaction DEF Inv, TypeInv, Tables, TablesOK
<1>2. TxFrame(w)
  BY <1>1 DEF TxFrame
<1>3. ASSUME NEW u \in Transaction, transactionTable'[u] # Null
      PROVE  /\ transactionTable'[u] = transactionTable[u]
             /\ transactionTable[u] \in TxAddress
             /\ transactions'[transactionTable[u]] = transactions[transactionTable[u]]
  BY <1>1, <1>3, NobodyElse
<1>4. Rows(t)' = {}
  BY <1>3 DEF Registered, Rows
<1>5. ASSUME NEW u \in Transaction, Registered(u)'
      PROVE  /\ transactions'[transactionTable'[u]].live
             /\ transactions'[transactionTable'[u]].transaction_id = u
  BY <1>3, <1>5 DEF Inv, PartitionInv, Registrations, Registered
<1>6. ASSUME NEW a \in TxAddress, transactions'[a].live, NEW r \in transactions'[a].locked_rows
      PROVE  Asked(transactions'[a].transaction_id, r)
  <2>1. a # worker[w].tx
    BY <1>1, <1>6, DeletedObject
  <2> QED
    BY <1>1, <1>6, <2>1 DEF Inv, PartitionInv, Registrations
<1> QED
  BY <1>2, <1>4, <1>5, <1>6 DEF Registrations

-----------------------------------------------------------------------------
(* The steps of a worker, one by one.                                       *)

LEMMA JobIs ==
  ASSUME Partitioned, Inv, NEW w \in LockWorker, queue[w] # <<>>
  PROVE  \E t \in Transaction, r \in Row :
           t = TxOf(w) /\ r = RowOf(w) /\ RowWorker[r] = w /\ Asked(t, r)
  BY JobRouted

\* Outside the steps in which rows are in hand, owners and holders are the same.
LEMMA OwnersHold ==
  ASSUME Partitioned, Inv, NEW w \in LockWorker, queue[w] # <<>>,
         worker[w].step \notin {"record", "release", "releaseAll"},
         NEW t \in Transaction, t = TxOf(w), NEW s \in Row
  PROVE  t \in Owners(s) <=> Holds(t, s)
  BY OwnHand DEF HandOf, Inv, PartitionInv, HoldersOwnTheirLocks, Holds

\* A step that changes no table and has no rows in hand.
LEMMA TablesKept ==
  ASSUME Partitioned, Inv, NEW w \in LockWorker, queue[w] # <<>>,
         worker[w].step \notin {"record", "release", "releaseAll"},
         UNCHANGED tables
  PROVE  /\ TxFrame(w) /\ LockFrame(w) /\ Registrations' /\ OneLockEach'
         /\ Agrees(w)
         /\ \A u \in Transaction : Rows(u)' = Rows(u) /\ Registered(u)' = Registered(u)
         /\ \A s \in Row : Owners(s)' = Owners(s) /\ Exclusive(s)' = Exclusive(s)
<1>1. /\ TxFrame(w) /\ LockFrame(w) /\ Registrations' /\ OneLockEach'
      /\ \A u \in Transaction : Rows(u)' = Rows(u) /\ Registered(u)' = Registered(u)
      /\ \A s \in Row : Owners(s)' = Owners(s) /\ Exclusive(s)' = Exclusive(s)
  BY LocksKept, TransactionsKept DEF tables
<1>2. Agrees(w)
  BY <1>1, OwnersHold DEF Agrees, Holds
<1> QED
  BY <1>1, <1>2

LEMMA FindTransactionKeeps ==
  ASSUME Partitioned, Inv, NEW w \in LockWorker, FindTransaction(w)
  PROVE  StepKeeps(w)
<1>1. /\ worker[w].step = "wait" /\ queue[w] # <<>>
      /\ UNCHANGED <<tables, queue>>
  BY DEF FindTransaction, At
<1>2. PICK t \in Transaction, r \in Row : t = TxOf(w) /\ r = RowOf(w) /\ RowWorker[r] = w
  BY <1>1, JobIs
<1>3. /\ worker[w].next = 0
      /\ worker \in [LockWorker -> WorkerState]
  BY <1>1 DEF Inv, PartitionInv, InWork, KnowsTx, TypeInv, Workers
<1>4. /\ TxFrame(w) /\ LockFrame(w) /\ Registrations' /\ OneLockEach'
      /\ Agrees(w)
      /\ \A s \in Row : Owners(s)' = Owners(s)
  BY <1>1, TablesKept
<1>5. CASE transactionTable[t] = Null
  <2> DEFINE ok == JobOf(w).command = "UNLOCK"
  <2>1. Finish(w, ok)
    BY <1>2, <1>5 DEF FindTransaction, TxOf
  <2>2. /\ LocalFrame(w) /\ SameJob(w)
        /\ worker'[w].step = "reply"
        /\ worker'[w].next = 0
        /\ worker'[w].ok = ok
    BY <1>1, <2>1, FinishEffect
  <2>3. \A s \in Row : t \notin Owners(s)'
    BY <1>1, <1>2, <1>4, <1>5, OwnersHold DEF Holds, Rows, Registered
  <2>4. InWork(w)'
    BY <1>2, <2>2, <2>3 DEF InWork, KnowsTx, KnowsLock, KnowsResult, InTx, SameJob
  <2> QED
    BY <1>4, <2>2, <2>4 DEF StepKeeps, Frame
<1>6. CASE transactionTable[t] # Null
  <2>1. worker' = [worker EXCEPT ![w].step = "row", ![w].tx = transactionTable[t]]
    BY <1>2, <1>6 DEF FindTransaction, TxOf
  <2>2. /\ worker'[w].step = "row"
        /\ worker'[w].next = 0
        /\ worker'[w].tx = transactionTable[t]
    BY <1>3, <2>1 DEF WorkerState
  <2>3. LocalFrame(w)
    BY <1>1, <1>3, <2>1 DEF LocalFrame
  <2>4. SameJob(w)
    BY <1>1 DEF SameJob, TxOf, RowOf, JobOf
  <2>5. InWork(w)'
    BY <1>1, <1>2, <2>2, <2>4 DEF InWork, KnowsTx, KnowsLock, KnowsResult, InTx, SameJob, tables
  <2> QED
    BY <1>4, <2>3, <2>5 DEF StepKeeps, Frame
<1> QED
  BY <1>5, <1>6

LEMMA RefuseKeeps ==
  ASSUME Partitioned, Inv, NEW w \in LockWorker, Refuse(w)
  PROVE  StepKeeps(w)
<1>1. /\ worker[w].step = "decide" /\ Goto(w, "abort")
      /\ UNCHANGED <<tables, queue>>
  BY DEF Refuse, At
<1>2. InTx(w) /\ queue[w] # <<>> /\ InWork(w)
  BY <1>1, OwnTransaction DEF InTx, Inv, PartitionInv
<1>3. TxFrame(w) /\ LockFrame(w) /\ Registrations' /\ OneLockEach' /\ Agrees(w)
  BY <1>1, <1>2, TablesKept
<1>4. /\ LocalFrame(w) /\ SameJob(w)
      /\ worker'[w].step = "abort"
      /\ worker'[w].tx = worker[w].tx
      /\ worker'[w].next = worker[w].next
  BY <1>1, GotoEffect
<1>5. InWork(w)'
  BY <1>1, <1>2, <1>4 DEF InWork, KnowsTx, KnowsLock, KnowsResult, InTx, SameJob, tables
<1> QED
  BY <1>3, <1>4, <1>5 DEF StepKeeps, Frame

LEMMA FindLockToReleaseKeeps ==
  ASSUME Partitioned, Inv, NEW w \in LockWorker, FindLockToRelease(w)
  PROVE  StepKeeps(w)
<1>1. /\ worker[w].step = "row" /\ JobOf(w).command = "UNLOCK"
      /\ Finish(w, TRUE) \/ Goto(w, "erase")
      /\ UNCHANGED <<tables, queue>>
  BY DEF FindLockToRelease, At
<1>2. InTx(w) /\ queue[w] # <<>> /\ InWork(w)
  BY <1>1, OwnTransaction DEF InTx, Inv, PartitionInv
<1>3. TxFrame(w) /\ LockFrame(w) /\ Registrations' /\ OneLockEach' /\ Agrees(w)
  BY <1>1, <1>2, TablesKept
<1>4. CASE Finish(w, TRUE)
  <2>1. /\ LocalFrame(w) /\ SameJob(w)
        /\ worker'[w].step = "reply" /\ worker'[w].next = 0 /\ worker'[w].ok
    BY <1>1, <1>4, FinishEffect
  <2>2. InWork(w)'
    BY <1>1, <2>1 DEF InWork, KnowsTx, KnowsLock, KnowsResult, InTx, SameJob
  <2> QED
    BY <1>3, <2>1, <2>2 DEF StepKeeps, Frame
<1>5. CASE Goto(w, "erase")
  <2>1. /\ LocalFrame(w) /\ SameJob(w)
        /\ worker'[w].step = "erase"
        /\ worker'[w].tx = worker[w].tx
        /\ worker'[w].next = worker[w].next
    BY <1>1, <1>5, GotoEffect
  <2>2. InWork(w)'
    BY <1>1, <1>2, <2>1
    DEF InWork, KnowsTx, KnowsLock, KnowsResult, InTx, SameJob, tables
  <2> QED
    BY <1>3, <2>1, <2>2 DEF StepKeeps, Frame
<1> QED
  BY <1>1, <1>4, <1>5

LEMMA FindLockKeeps ==
  ASSUME Partitioned, Inv, NEW w \in LockWorker, FindLock(w)
  PROVE  StepKeeps(w)
<1>1. /\ worker[w].step = "row" /\ JobOf(w).command # "UNLOCK"
      /\ UNCHANGED <<transactionTable, transactions, queue>>
  BY DEF FindLock, At
<1>2. InTx(w) /\ queue[w] # <<>> /\ InWork(w)
  BY <1>1, OwnTransaction DEF InTx, Inv, PartitionInv
<1>3. PICK t \in Transaction, r \in Row : t = TxOf(w) /\ r = RowOf(w) /\ RowWorker[r] = w
  BY <1>2, JobIs
<1>4. /\ lockTable \in [Row -> LockAddress \cup {Null}]
      /\ locks \in [LockAddress -> LockRecord(Transaction)]
      /\ worker \in [LockWorker -> WorkerState]
      /\ OneLockEach
  BY DEF Inv, PartitionInv, TypeInv, Tables, TablesOK, Workers
<1>5. PICK a \in LockAddress :
        /\ worker' = [worker EXCEPT ![w].step = "decide", ![w].lock = a]
        /\ \/ lockTable[r] = a /\ UNCHANGED <<lockTable, locks>>
           \/ /\ lockTable[r] = Null
              /\ \A s \in Row : lockTable[s] # a
              /\ locks' = [locks EXCEPT ![a] = newLock]
              /\ lockTable' = [lockTable EXCEPT ![r] = a]
  BY <1>3, <1>4 DEF FindLock, Allocatable, RowOf
<1>6. /\ worker'[w].step = "decide"
      /\ worker'[w].tx = worker[w].tx
      /\ worker'[w].next = worker[w].next
      /\ worker'[w].lock = a
  BY <1>4, <1>5 DEF WorkerState
<1>7. LocalFrame(w)
  BY <1>1, <1>4, <1>5 DEF LocalFrame
<1>8. SameJob(w)
  BY <1>1 DEF SameJob, TxOf, RowOf, JobOf
<1>9. OneLockEach' /\ lockTable'[r] = a
  BY <1>4, <1>5 DEF OneLockEach
<1>10. \A s \in Row : s # r => lockTable'[s] = lockTable[s]
  BY <1>4, <1>5
<1>11. \A s \in Row : Owners(s)' = Owners(s) /\ Exclusive(s)' = Exclusive(s)
  <2>1. CASE UNCHANGED <<lockTable, locks>>
    BY <2>1, LocksKept
  <2>2. CASE /\ lockTable[r] = Null
             /\ \A s \in Row : lockTable[s] # a
             /\ locks' = [locks EXCEPT ![a] = newLock]
             /\ lockTable' = [lockTable EXCEPT ![r] = a]
    <3>1. Owners(r)' = Owners(r) /\ Exclusive(r)' = Exclusive(r)
      BY <1>4, <2>2 DEF Owners, Exclusive, newLock
    <3>2. ASSUME NEW s \in Row, s # r
          PROVE  Owners(s)' = Owners(s) /\ Exclusive(s)' = Exclusive(s)
      <4>1. lockTable'[s] = lockTable[s]
        BY <1>10, <3>2
      <4>2. lockTable[s] # Null => locks'[lockTable[s]] = locks[lockTable[s]]
        BY <1>4, <2>2
      <4> QED
        BY <4>1, <4>2 DEF Owners, Exclusive
    <3> QED
      BY <3>1, <3>2
  <2> QED
    BY <1>5, <2>1, <2>2
<1>12. LockFrame(w)
  BY <1>3, <1>10, <1>11 DEF LockFrame
<1>13. TxFrame(w) /\ Registrations' /\ Rows(t)' = Rows(t)
  BY <1>1, TransactionsKept
<1>14. Agrees(w)
  BY <1>1, <1>2, <1>3, <1>11, <1>13, OwnersHold DEF Agrees, Holds
<1>15. InWork(w)'
  BY <1>1, <1>2, <1>3, <1>6, <1>8, <1>9
  DEF InWork, KnowsTx, KnowsLock, KnowsResult, InTx, SameJob
<1> QED
  BY <1>7, <1>9, <1>12, <1>13, <1>14, <1>15 DEF StepKeeps, Frame

\* The lock a worker decides about is the one in the lock table.
LEMMA LockInHand ==
  ASSUME Partitioned, Inv, NEW w \in LockWorker, worker[w].step = "decide"
  PROVE  \E t \in Transaction, r \in Row :
           /\ t = TxOf(w) /\ r = RowOf(w) /\ RowWorker[r] = w /\ Asked(t, r)
           /\ Tx(w).transaction_id = t
           /\ Rows(t) = Tx(w).locked_rows
           /\ lockTable[r] # Null
           /\ lockTable[r] = worker[w].lock
           /\ locks[lockTable[r]] \in LockRecord(Transaction)
           /\ Owners(r) = locks[lockTable[r]].owners
<1>1. InTx(w)
  BY DEF InTx
<1>2. queue[w] # <<>> /\ Tx(w).transaction_id = TxOf(w) /\ Rows(TxOf(w)) = Tx(w).locked_rows
  BY <1>1, OwnTransaction
<1>3. PICK t \in Transaction, r \in Row :
        t = TxOf(w) /\ r = RowOf(w) /\ RowWorker[r] = w /\ Asked(t, r)
  BY <1>2, JobIs
<1>4. lockTable[r] = worker[w].lock
  BY <1>3 DEF Inv, PartitionInv, InWork, KnowsLock
<1>5. worker[w].lock \in LockAddress
  BY DEF Inv, TypeInv, Workers
<1>6. lockTable[r] # Null /\ locks[lockTable[r]] \in LockRecord(Transaction)
  BY <1>4, <1>5, NullAssumption DEF Inv, TypeInv, Tables, TablesOK
<1>7. Owners(r) = locks[lockTable[r]].owners
  BY <1>6 DEF Owners
<1>8. Rows(t) = Tx(w).locked_rows
  BY <1>2, <1>3
<1> QED
  BY <1>2, <1>3, <1>4, <1>6, <1>7, <1>8

LEMMA UpgradeKeeps ==
  ASSUME Partitioned, Inv, NEW w \in LockWorker, Upgrade(w)
  PROVE  StepKeeps(w)
<1>1. /\ worker[w].step = "decide" /\ Finish(w, TRUE) /\ MayUpgrade(w)
      /\ locks' = [locks EXCEPT ![worker[w].lock] = upgrade(@)]
      /\ UNCHANGED <<transactionTable, lockTable, transactions, queue>>
  BY DEF Upgrade, At
<1>2. InTx(w) /\ queue[w] # <<>>
  BY <1>1, OwnTransaction DEF InTx
<1>3. PICK t \in Transaction, r \in Row :
        /\ t = TxOf(w) /\ r = RowOf(w) /\ RowWorker[r] = w
        /\ Rows(t) = Tx(w).locked_rows
        /\ lockTable[r] # Null
        /\ lockTable[r] = worker[w].lock
        /\ locks[lockTable[r]] \in LockRecord(Transaction)
        /\ Owners(r) = locks[lockTable[r]].owners
  BY <1>1, LockInHand
<1> DEFINE lock == upgrade(locks[lockTable[r]])
<1>4. lock.exclusive \in BOOLEAN /\ lock.exclusive = TRUE /\ lock.owners = Owners(r)
  BY <1>3 DEF upgrade, LockRecord
<1>5. LockUpdate(r, lock)
  BY <1>1, <1>3 DEF LockUpdate
<1> HIDE DEF lock
<1>6. /\ OneLockEach'
      /\ Owners(r)' = lock.owners
      /\ Exclusive(r)' <=> lock.exclusive
      /\ \A s \in Row : s # r =>
           /\ lockTable'[s] = lockTable[s]
           /\ Owners(s)' = Owners(s)
           /\ Exclusive(s)' = Exclusive(s)
  BY <1>3, <1>4, <1>5, LockChanged
<1>7. LockFrame(w) /\ \A s \in Row : Owners(s)' = Owners(s)
  BY <1>3, <1>4, <1>6, LockChangedFrame
<1>8. TxFrame(w) /\ Registrations' /\ Rows(t)' = Rows(t)
  BY <1>1, TransactionsKept
<1>9. Agrees(w)
  BY <1>1, <1>2, <1>3, <1>7, <1>8, OwnersHold DEF Agrees, Holds
<1>10. /\ LocalFrame(w) /\ SameJob(w)
       /\ worker'[w].step = "reply" /\ worker'[w].next = 0 /\ worker'[w].ok
  BY <1>1, FinishEffect
<1>11. Holds(t, r)'
  BY <1>1, <1>3, <1>8 DEF MayUpgrade, Upgrades, hasLock, Holds, RowOf
<1>12. InWork(w)'
  BY <1>3, <1>4, <1>6, <1>10, <1>11
  DEF InWork, KnowsTx, KnowsLock, KnowsResult, InTx, SameJob
<1> QED
  BY <1>6, <1>7, <1>8, <1>9, <1>10, <1>12 DEF StepKeeps, Frame

LEMMA AddLockKeeps ==
  ASSUME Partitioned, Inv, TypeInv', NEW w \in LockWorker, AddLock(w)
  PROVE  StepKeeps(w)
<1>1. /\ worker[w].step = "decide" /\ Goto(w, "record")
      /\ locks' = [locks EXCEPT ![worker[w].lock] =
           IF JobOf(w).command = "EXCLUSIVE"
           THEN getExclusiveAccess(@, Tx(w).transaction_id)
           ELSE getSharedAccess(@, Tx(w).transaction_id)]
      /\ UNCHANGED <<transactionTable, lockTable, transactions, queue>>
  BY DEF AddLock, At
<1>2. InTx(w) /\ queue[w] # <<>> /\ InWork(w)
  BY <1>1, OwnTransaction DEF InTx, Inv, PartitionInv
<1>3. PICK t \in Transaction, r \in Row :
        /\ t = TxOf(w) /\ r = RowOf(w) /\ RowWorker[r] = w
        /\ Tx(w).transaction_id = t
        /\ lockTable[r] # Null
        /\ lockTable[r] = worker[w].lock
        /\ locks[lockTable[r]] \in LockRecord(Transaction)
        /\ Owners(r) = locks[lockTable[r]].owners
  BY <1>1, LockInHand
<1> DEFINE lock == IF JobOf(w).command = "EXCLUSIVE"
                   THEN getExclusiveAccess(locks[lockTable[r]], t)
                   ELSE getSharedAccess(locks[lockTable[r]], t)
<1>4. /\ lock.exclusive \in BOOLEAN
      /\ JobOf(w).command = "EXCLUSIVE" => lock.exclusive
      /\ lock.owners = Owners(r) \cup {t}
  BY <1>3 DEF getExclusiveAccess, getSharedAccess, LockRecord
<1>5. LockUpdate(r, lock)
  BY <1>1, <1>3 DEF LockUpdate
<1> HIDE DEF lock
<1>6. /\ OneLockEach'
      /\ Owners(r)' = lock.owners
      /\ Exclusive(r)' <=> lock.exclusive
      /\ \A s \in Row : s # r =>
           /\ lockTable'[s] = lockTable[s]
           /\ Owners(s)' = Owners(s)
           /\ Exclusive(s)' = Exclusive(s)
  BY <1>3, <1>4, <1>5, LockChanged
<1>7. LockFrame(w)
  BY <1>3, <1>4, <1>6, LockChangedFrame
<1>8. TxFrame(w) /\ Registrations' /\ Rows(t)' = Rows(t)
  BY <1>1, TransactionsKept
<1>9. /\ LocalFrame(w) /\ SameJob(w)
      /\ worker'[w].step = "record"
      /\ worker'[w].tx = worker[w].tx
      /\ worker'[w].next = worker[w].next
  BY <1>1, GotoEffect
<1>10. InHand(t, r)'
  BY <1>1, <1>2, <1>3, <1>9 DEF InHand, SameJob, TxOf, RowOf
<1>11. Agrees(w)
  BY <1>1, <1>2, <1>3, <1>4, <1>6, <1>8, <1>10, OwnersHold DEF Agrees, Holds
<1>12. InWork(w)'
  BY <1>1, <1>2, <1>3, <1>4, <1>6, <1>9
  DEF InWork, KnowsTx, KnowsLock, KnowsResult, InTx, SameJob
<1> QED
  BY <1>6, <1>7, <1>8, <1>9, <1>11, <1>12 DEF StepKeeps, Frame

LEMMA RecordLockKeeps ==
  ASSUME Partitioned, Inv, NEW w \in LockWorker, RecordLock(w)
  PROVE  StepKeeps(w)
<1>1. /\ worker[w].step = "record" /\ Finish(w, TRUE)
      /\ transactions' = [transactions EXCEPT ![worker[w].tx] = addRow(@, JobOf(w).row_id)]
      /\ UNCHANGED <<transactionTable, lockTable, locks, queue>>
  BY DEF RecordLock, At
<1>2. InTx(w) /\ queue[w] # <<>> /\ InWork(w)
  BY <1>1, OwnTransaction DEF InTx, Inv, PartitionInv
<1>3. PICK t \in Transaction, r \in Row :
        t = TxOf(w) /\ r = RowOf(w) /\ RowWorker[r] = w /\ Asked(t, r)
  BY <1>2, JobIs
<1>4. /\ Tx(w) \in TransactionObject(Transaction \cup {Null}, Row)
      /\ Tx(w).live /\ Tx(w).transaction_id = t
      /\ Rows(t) = Tx(w).locked_rows
      /\ worker[w].tx \in TxAddress
  BY <1>1, <1>2, <1>3, OwnTransaction
<1> DEFINE x == addRow(Tx(w), r)
<1>5. /\ x.live /\ x.transaction_id = t
      /\ x.locked_rows = Rows(t) \cup {r}
  BY <1>4 DEF addRow, TransactionObject
<1>6. transactions' = [transactions EXCEPT ![worker[w].tx] = x]
  BY <1>1, <1>3 DEF Tx, RowOf
<1>7. \A s \in x.locked_rows : Asked(t, s)
  BY <1>3, <1>4, <1>5 DEF Inv, PartitionInv, Registrations, Tx
<1> HIDE DEF x
<1>8. TxFrame(w) /\ Registrations' /\ Rows(t)' = Rows(t) \cup {r}
  <2>1. UNCHANGED transactionTable /\ worker[w].step # "releaseAll"
    BY <1>1
  <2>2. TxFrame(w) /\ Registrations' /\ Rows(t)' = x.locked_rows
    BY <1>2, <1>3, <1>5, <1>6, <1>7, <2>1, ObjectChanged
  <2> QED
    BY <1>5, <2>2
<1>9. /\ LockFrame(w) /\ OneLockEach'
      /\ \A s \in Row : Owners(s)' = Owners(s) /\ Exclusive(s)' = Exclusive(s)
  BY <1>1, LocksKept
<1>10. /\ t \in Owners(r)
       /\ JobOf(w).command = "EXCLUSIVE" => Exclusive(r)
  BY <1>1, <1>2, <1>3 DEF InWork, KnowsLock
<1>11. Agrees(w)
  <2>1. ASSUME NEW s \in Row, t \in Owners(s) PROVE Holds(t, s)'
    BY <1>1, <1>2, <1>3, <1>8, <2>1, OwnHand DEF HandOf, Holds
  <2>2. ASSUME NEW s \in Row, Holds(t, s)' PROVE t \in Owners(s)
    BY <1>8, <1>10, <2>2 DEF Holds, Inv, PartitionInv, HoldersOwnTheirLocks
  <2> QED
    BY <1>3, <1>9, <2>1, <2>2 DEF Agrees
<1>12. /\ LocalFrame(w) /\ SameJob(w)
       /\ worker'[w].step = "reply" /\ worker'[w].next = 0 /\ worker'[w].ok
  BY <1>1, FinishEffect
<1>13. Holds(t, r)'
  BY <1>8 DEF Holds
<1>14. InWork(w)'
  BY <1>3, <1>9, <1>10, <1>12, <1>13
  DEF InWork, KnowsTx, KnowsLock, KnowsResult, InTx, SameJob
<1> QED
  BY <1>8, <1>9, <1>11, <1>12, <1>14 DEF StepKeeps, Frame

LEMMA EraseRowKeeps ==
  ASSUME Partitioned, Inv, NEW w \in LockWorker, EraseRow(w)
  PROVE  StepKeeps(w)
<1>1. /\ worker[w].step = "erase"
      /\ UNCHANGED <<transactionTable, lockTable, locks, queue>>
  BY DEF EraseRow, At
<1>2. InTx(w) /\ queue[w] # <<>> /\ InWork(w) /\ JobOf(w).command = "UNLOCK"
  BY <1>1, OwnTransaction DEF InTx, Inv, PartitionInv, InWork, KnowsLock
<1>3. PICK t \in Transaction, r \in Row :
        t = TxOf(w) /\ r = RowOf(w) /\ RowWorker[r] = w /\ Asked(t, r)
  BY <1>2, JobIs
<1>4. /\ Tx(w) \in TransactionObject(Transaction \cup {Null}, Row)
      /\ Tx(w).live /\ Tx(w).transaction_id = t
      /\ Rows(t) = Tx(w).locked_rows
      /\ worker[w].tx \in TxAddress
  BY <1>1, <1>2, <1>3, OwnTransaction
<1>5. /\ LockFrame(w) /\ OneLockEach'
      /\ \A s \in Row : Owners(s)' = Owners(s) /\ Exclusive(s)' = Exclusive(s)
  BY <1>1, LocksKept
<1>6. CASE hasLock(Tx(w), r)
  <2>1. /\ Goto(w, "release")
        /\ transactions' = [transactions EXCEPT ![worker[w].tx] = eraseRow(@, r)]
    BY <1>3, <1>6 DEF EraseRow, RowOf
  <2> DEFINE x == eraseRow(Tx(w), r)
  <2>2. /\ x.live /\ x.transaction_id = t
        /\ x.locked_rows = Rows(t) \ {r}
    BY <1>4 DEF eraseRow, TransactionObject
  <2>3. transactions' = [transactions EXCEPT ![worker[w].tx] = x]
    BY <2>1 DEF Tx
  <2>4. \A s \in x.locked_rows : Asked(t, s)
    BY <1>4, <2>2 DEF Inv, PartitionInv, Registrations, Tx
  <2> HIDE DEF x
  <2>5. TxFrame(w) /\ Registrations' /\ Rows(t)' = Rows(t) \ {r}
    <3>1. UNCHANGED transactionTable /\ worker[w].step # "releaseAll"
      BY <1>1
    <3>2. TxFrame(w) /\ Registrations' /\ Rows(t)' = x.locked_rows
      BY <1>2, <1>3, <2>2, <2>3, <2>4, <3>1, ObjectChanged
    <3> QED
      BY <2>2, <3>2
  <2>6. /\ LocalFrame(w) /\ SameJob(w)
        /\ worker'[w].step = "release"
        /\ worker'[w].tx = worker[w].tx
        /\ worker'[w].next = worker[w].next
    BY <1>1, <2>1, GotoEffect
  <2>7. InHand(t, r)'
    BY <1>1, <1>2, <1>3, <2>6 DEF InHand, SameJob, TxOf, RowOf
  <2>8. t \in Owners(r) /\ ~Holds(t, r)'
    BY <1>1, <1>2, <1>3, <1>4, <1>6, <2>5, OwnersHold DEF hasLock, Holds
  <2>9. Agrees(w)
    BY <1>1, <1>2, <1>3, <1>5, <2>5, <2>7, OwnersHold DEF Agrees, Holds
  <2>10. InWork(w)'
    BY <1>1, <1>2, <1>3, <1>5, <2>6, <2>8
    DEF InWork, KnowsTx, KnowsLock, KnowsResult, InTx, SameJob
  <2> QED
    BY <1>5, <2>5, <2>6, <2>9, <2>10 DEF StepKeeps, Frame
<1>7. CASE ~hasLock(Tx(w), r)
  <2>1. Goto(w, "last") /\ UNCHANGED tables
    BY <1>1, <1>3, <1>7 DEF EraseRow, RowOf, tables
  <2>2. TxFrame(w) /\ Registrations' /\ Agrees(w)
    BY <1>1, <1>2, <2>1, TablesKept
  <2>3. /\ LocalFrame(w) /\ SameJob(w)
        /\ worker'[w].step = "last"
        /\ worker'[w].tx = worker[w].tx
        /\ worker'[w].next = worker[w].next
    BY <1>1, <2>1, GotoEffect
  <2>4. InWork(w)'
    BY <1>1, <1>2, <2>3 DEF InWork, KnowsTx, KnowsLock, KnowsResult, InTx, SameJob
  <2> QED
    BY <1>5, <2>2, <2>3, <2>4 DEF StepKeeps, Frame
<1> QED
  BY <1>6, <1>7

\* What release does to a lock of which t is an owner.
LEMMA ReleaseOwned ==
  ASSUME NEW lock \in LockRecord(Transaction), NEW t \in lock.owners
  PROVE  /\ release(lock, t).owners = lock.owners \ {t}
         /\ ~release(lock, t).exclusive
         /\ release(lock, t).exclusive \in BOOLEAN
  BY DEF release, LockRecord

\* Both ways of releasing row r for the transaction of the job of w.
RowRelease(r, t) ==
  LET lock == release(locks[lockTable[r]], t)
  IN /\ locks' = [locks EXCEPT ![lockTable[r]] = lock]
     /\ lockTable' = [lockTable EXCEPT ![r] = IF lock.owners = {} THEN Null ELSE lockTable[r]]

LEMMA RowReleased ==
  ASSUME Partitioned, Inv, NEW w \in LockWorker, queue[w] # <<>>,
         NEW t \in Transaction, t = TxOf(w), NEW r \in Row, RowWorker[r] = w, t \in Owners(r),
         RowRelease(r, t)
  PROVE  /\ LockFrame(w) /\ OneLockEach'
         /\ Owners(r)' = Owners(r) \ {t} /\ ~Exclusive(r)'
         /\ \A s \in Row : s # r => Owners(s)' = Owners(s) /\ Exclusive(s)' = Exclusive(s)
<1> DEFINE lock == release(locks[lockTable[r]], t)
<1>1. /\ lockTable \in [Row -> LockAddress \cup {Null}]
      /\ locks \in [LockAddress -> LockRecord(Transaction)]
  BY DEF Inv, TypeInv, Tables, TablesOK
<1>2. lockTable[r] # Null /\ t \in locks[lockTable[r]].owners
      /\ Owners(r) = locks[lockTable[r]].owners
  BY DEF Owners
<1>3. locks[lockTable[r]] \in LockRecord(Transaction)
  BY <1>1, <1>2
<1>4. lock.owners = Owners(r) \ {t} /\ ~lock.exclusive /\ lock.exclusive \in BOOLEAN
  BY <1>2, <1>3, ReleaseOwned
<1>5. LockUpdate(r, lock)
  BY <1>1, <1>4 DEF LockUpdate, RowRelease
<1> HIDE DEF lock
<1>6. /\ OneLockEach'
      /\ Owners(r)' = lock.owners
      /\ Exclusive(r)' <=> lock.exclusive
      /\ \A s \in Row : s # r =>
           /\ lockTable'[s] = lockTable[s]
           /\ Owners(s)' = Owners(s)
           /\ Exclusive(s)' = Exclusive(s)
  BY <1>2, <1>4, <1>5, LockChanged
<1>7. LockFrame(w)
  BY <1>4, <1>6, LockChangedFrame
<1> QED
  BY <1>4, <1>6, <1>7

LEMMA ReleaseLockKeeps ==
  ASSUME Partitioned, Inv, NEW w \in LockWorker, ReleaseLock(w)
  PROVE  StepKeeps(w)
<1>1. /\ worker[w].step = "release" /\ Goto(w, "last")
      /\ UNCHANGED <<transactionTable, transactions, queue>>
  BY DEF ReleaseLock, At
<1>2. InTx(w) /\ queue[w] # <<>> /\ InWork(w)
  BY <1>1, OwnTransaction DEF InTx, Inv, PartitionInv
<1>3. PICK t \in Transaction, r \in Row : t = TxOf(w) /\ r = RowOf(w) /\ RowWorker[r] = w
  BY <1>2, JobIs
<1>4. Tx(w).transaction_id = t
  BY <1>2, <1>3, OwnTransaction
<1>5. t \in Owners(r) /\ ~Holds(t, r)
  BY <1>1, <1>2, <1>3 DEF InWork, KnowsLock
<1>6. RowRelease(r, t)
  BY <1>3, <1>4 DEF ReleaseLock, RowOf, RowRelease
<1>7. /\ LockFrame(w) /\ OneLockEach'
      /\ Owners(r)' = Owners(r) \ {t}
      /\ \A s \in Row : s # r => Owners(s)' = Owners(s)
  BY <1>2, <1>3, <1>5, <1>6, RowReleased
<1>8. TxFrame(w) /\ Registrations' /\ Rows(t)' = Rows(t)
  BY <1>1, TransactionsKept
<1>9. Agrees(w)
  <2>1. ASSUME NEW s \in Row, Holds(t, s)' PROVE t \in Owners(s)'
    <3>1. Holds(t, s) /\ s # r
      BY <1>5, <1>8, <2>1 DEF Holds
    <3> QED
      BY <1>7, <3>1 DEF Inv, PartitionInv, HoldersOwnTheirLocks, Holds
  <2>2. ASSUME NEW s \in Row, t \in Owners(s)' PROVE Holds(t, s)'
    <3>1. t \in Owners(s) /\ s # r
      BY <1>7, <2>2
    <3>2. ~HandOf(w, t, s)
      BY <1>1, <1>3, <3>1 DEF HandOf
    <3> QED
      BY <1>2, <1>3, <1>8, <3>1, <3>2, OwnHand DEF Holds
  <2> QED
    BY <1>3, <2>1, <2>2 DEF Agrees
<1>10. /\ LocalFrame(w) /\ SameJob(w)
       /\ worker'[w].step = "last"
       /\ worker'[w].tx = worker[w].tx
       /\ worker'[w].next = worker[w].next
  BY <1>1, GotoEffect
<1>11. InWork(w)'
  BY <1>1, <1>2, <1>10 DEF InWork, KnowsTx, KnowsLock, KnowsResult, InTx, SameJob
<1> QED
  BY <1>7, <1>8, <1>9, <1>10, <1>11 DEF StepKeeps, Frame

LEMMA DeleteFinishedKeeps ==
  ASSUME Partitioned, Inv, NEW w \in LockWorker, DeleteFinished(w)
  PROVE  StepKeeps(w)
<1>1. /\ worker[w].step = "last" /\ Finish(w, TRUE)
      /\ UNCHANGED <<lockTable, locks, queue>>
  BY DEF DeleteFinished, At
<1>2. InTx(w) /\ queue[w] # <<>> /\ JobOf(w).command = "UNLOCK"
  BY <1>1, OwnTransaction DEF InTx, Inv, PartitionInv, InWork, KnowsLock
<1>3. PICK t \in Transaction : t = TxOf(w)
  BY <1>2, JobIs
<1>4. Rows(t) = Tx(w).locked_rows
  BY <1>1, <1>2, <1>3, OwnTransaction
<1>5. /\ LocalFrame(w) /\ SameJob(w)
      /\ worker'[w].step = "reply" /\ worker'[w].next = 0 /\ worker'[w].ok
  BY <1>1, FinishEffect
<1>6. InWork(w)'
  BY <1>2, <1>5 DEF InWork, KnowsTx, KnowsLock, KnowsResult, InTx, SameJob
<1>7. /\ LockFrame(w) /\ OneLockEach'
      /\ \A s \in Row : Owners(s)' = Owners(s)
  BY <1>1, LocksKept
<1>8. TxFrame(w) /\ Registrations' /\ Rows(t)' = Rows(t)
  <2>1. CASE Tx(w).locked_rows = {}
    <3>1. /\ transactionTable' = [transactionTable EXCEPT ![t] = Null]
          /\ transactions' = [transactions EXCEPT ![worker[w].tx] = deleted(Null)]
      BY <1>3, <2>1 DEF DeleteFinished, TxOf
    <3>2. transactionTable'[t] = Null /\ worker[w].tx # Null
      BY <1>2, <3>1, OwnTransaction, NullAssumption DEF Inv, TypeInv, Tables, TablesOK
    <3>3. \A u \in Transaction : u # t => transactionTable'[u] = transactionTable[u]
      BY <3>1
    <3> QED
      BY <1>2, <1>3, <1>4, <2>1, <3>1, <3>2, <3>3, ObjectDeleted
  <2>2. CASE Tx(w).locked_rows # {}
    BY <2>2, TransactionsKept DEF DeleteFinished
  <2> QED
    BY <2>1, <2>2
<1>9. Agrees(w)
  BY <1>1, <1>2, <1>3, <1>7, <1>8, OwnersHold DEF Agrees, Holds
<1> QED
  BY <1>5, <1>6, <1>7, <1>8, <1>9 DEF StepKeeps, Frame

LEMMA UnregisterKeeps ==
  ASSUME Partitioned, Inv, NEW w \in LockWorker, Unregister(w)
  PROVE  StepKeeps(w)
<1>1. /\ worker[w].step = "abort" /\ Goto(w, "releaseAll")
      /\ UNCHANGED <<lockTable, transactions, locks, queue>>
  BY DEF Unregister, At
<1>2. InTx(w) /\ queue[w] # <<>> /\ InWork(w)
  BY <1>1, OwnTransaction DEF InTx, Inv, PartitionInv
<1>3. PICK t \in Transaction : t = TxOf(w)
  BY <1>2, JobIs
<1>4. /\ Tx(w) \in TransactionObject(Transaction \cup {Null}, Row)
      /\ Tx(w).live /\ Tx(w).transaction_id = t
      /\ Rows(t) = Tx(w).locked_rows
      /\ worker[w].tx \in TxAddress
      /\ transactionTable[t] = worker[w].tx
      /\ transactionTable \in [Transaction -> TxAddress \cup {Null}]
  BY <1>1, <1>2, <1>3, OwnTransaction DEF Inv, TypeInv, Tables, TablesOK
<1>5. transactionTable' = [transactionTable EXCEPT ![t] = Null]
  BY <1>4 DEF Unregister
<1>6. TxFrame(w) /\ ~Registered(t)' /\ Rows(t)' = {}
  BY <1>1, <1>3, <1>4, <1>5 DEF TxFrame, Registered, Rows
<1>7. ASSUME NEW u \in Transaction PROVE transactionTable'[u] # worker[w].tx
  BY <1>2, <1>3, <1>4, <1>5, NobodyElse, NullAssumption
<1>8. Registrations'
  <2>1. ASSUME NEW u \in Transaction, Registered(u)'
        PROVE  /\ transactions'[transactionTable'[u]].live
               /\ transactions'[transactionTable'[u]].transaction_id = u
    BY <1>1, <1>4, <1>5, <2>1 DEF Inv, PartitionInv, Registrations, Registered
  <2> QED
    BY <1>1, <2>1 DEF Inv, PartitionInv, Registrations
<1>9. /\ LockFrame(w) /\ OneLockEach'
      /\ \A s \in Row : Owners(s)' = Owners(s)
  BY <1>1, LocksKept
<1>10. /\ LocalFrame(w) /\ SameJob(w)
       /\ worker'[w].step = "releaseAll"
       /\ worker'[w].tx = worker[w].tx
       /\ worker'[w].next = 0
  BY <1>1, <1>2, GotoEffect DEF InWork, KnowsTx
<1>11. Tx(w)' = Tx(w) /\ RowAfter(w)' = Tx(w).locked_rows
  <2>1. Tx(w)' = Tx(w)
    BY <1>1, <1>10 DEF Tx
  <2>2. \A s \in Tx(w).locked_rows : s \in Nat
    BY <1>4, RowAssumption DEF TransactionObject
  <2>3. \A s \in Tx(w).locked_rows : s >= 0
    BY <2>2
  <2> QED
    BY <1>10, <2>1, <2>3 DEF RowAfter
<1>12. \A s \in Row : t \in Owners(s) => s \in Tx(w).locked_rows
  BY <1>1, <1>2, <1>3, <1>4, OwnersHold DEF Holds
<1>13. \A s \in Tx(w).locked_rows : s \in Row /\ t \in Owners(s)
  BY <1>4 DEF TransactionObject, Inv, PartitionInv, HoldersOwnTheirLocks
<1>14. Agrees(w)
  <2>1. ASSUME NEW s \in Row, t \in Owners(s) PROVE InHand(t, s)'
    BY <1>1, <1>2, <1>3, <1>10, <1>11, <1>12, <2>1 DEF InHand, SameJob, TxOf
  <2> QED
    BY <1>3, <1>6, <1>9, <2>1 DEF Agrees, Holds
<1>15. KnowsTx(w)'
  BY <1>3, <1>4, <1>6, <1>7, <1>9, <1>10, <1>11, <1>13 DEF KnowsTx, SameJob, InTx
<1>16. InWork(w)'
  BY <1>1, <1>2, <1>10, <1>15 DEF InWork, KnowsLock, KnowsResult, SameJob
<1> QED
  BY <1>6, <1>8, <1>9, <1>10, <1>14, <1>16 DEF StepKeeps, Frame

LEMMA ReleaseNextKeeps ==
  ASSUME Partitioned, Inv, NEW w \in LockWorker, ReleaseNext(w)
  PROVE  StepKeeps(w)
<1>1. /\ worker[w].step = "releaseAll"
      /\ UNCHANGED <<transactionTable, transactions, queue>>
  BY DEF ReleaseNext, At
<1>2. InTx(w) /\ queue[w] # <<>> /\ InWork(w)
  BY <1>1, OwnTransaction DEF InTx, Inv, PartitionInv
<1>3. PICK t \in Transaction : t = TxOf(w)
  BY <1>2, JobIs
<1>4. /\ Tx(w) \in TransactionObject(Transaction \cup {Null}, Row)
      /\ Tx(w).live /\ Tx(w).transaction_id = t
      /\ worker[w].tx \in TxAddress
      /\ worker \in [LockWorker -> WorkerState]
  BY <1>2, <1>3, OwnTransaction DEF Inv, TypeInv, Workers
<1>5. PICK r \in RowAfter(w) :
        /\ \A s \in RowAfter(w) : r <= s
        /\ RowRelease(r, t)
        /\ worker' = [worker EXCEPT ![w].next = r + 1]
  BY <1>4 DEF ReleaseNext, RowRelease
<1>6. r \in Row /\ RowWorker[r] = w /\ r \in Nat
  BY <1>2, OwnTransaction, RowAssumption DEF RowAfter
<1>7. t \in Owners(r)
  BY <1>1, <1>2, <1>3 DEF InWork, KnowsTx
<1>8. /\ LockFrame(w) /\ OneLockEach'
      /\ Owners(r)' = Owners(r) \ {t}
      /\ \A s \in Row : s # r => Owners(s)' = Owners(s)
  BY <1>2, <1>3, <1>5, <1>6, <1>7, RowReleased
<1>9. TxFrame(w) /\ Registrations' /\ Rows(t)' = Rows(t)
  BY <1>1, TransactionsKept
<1>10. /\ worker'[w].step = "releaseAll"
       /\ worker'[w].tx = worker[w].tx
       /\ worker'[w].next = r + 1
  BY <1>1, <1>4, <1>5 DEF WorkerState
<1>11. LocalFrame(w)
  BY <1>1, <1>4, <1>5 DEF LocalFrame
<1>12. SameJob(w)
  BY <1>1 DEF SameJob, TxOf, RowOf, JobOf
<1>13. Tx(w)' = Tx(w)
  BY <1>1, <1>10 DEF Tx
<1>14. RowAfter(w)' = RowAfter(w) \ {r}
  <2>1. \A s \in Tx(w).locked_rows : s \in Nat
    BY <1>4, RowAssumption DEF TransactionObject
  <2>2. worker[w].next \in Nat /\ r >= worker[w].next
    BY <1>4, <1>5 DEF WorkerState, RowAfter
  <2>3. RowAfter(w)' = {s \in Tx(w).locked_rows : s >= r + 1}
    BY <1>10, <1>13 DEF RowAfter
  <2>4. ASSUME NEW s \in Tx(w).locked_rows
        PROVE  s >= r + 1 <=> s >= worker[w].next /\ s # r
    <3>1. s >= worker[w].next => r <= s
      BY <1>5 DEF RowAfter
    <3> QED
      BY <1>6, <2>1, <2>2, <3>1
  <2> QED
    BY <2>3, <2>4 DEF RowAfter
<1>15. RowAfter(w) \subseteq Row /\ Rows(t) = {}
  BY <1>1, <1>2, <1>3, <1>4 DEF RowAfter, TransactionObject, InWork, KnowsTx
<1>16. Agrees(w)
  <2>1. ASSUME NEW s \in Row, t \in Owners(s)' PROVE InHand(t, s)'
    <3>1. s # r /\ t \in Owners(s)
      BY <1>8, <2>1
    <3>2. s \in RowAfter(w)
      BY <1>1, <1>2, <1>3, <1>15, <3>1, OwnHand DEF HandOf, Holds
    <3> QED
      BY <1>1, <1>2, <1>3, <1>10, <1>12, <1>14, <3>1, <3>2 DEF InHand, SameJob, TxOf
  <2> QED
    BY <1>3, <1>9, <1>15, <2>1 DEF Agrees, Holds
<1>17. \A s \in RowAfter(w)' : t \in Owners(s)'
  BY <1>1, <1>2, <1>3, <1>8, <1>14, <1>15 DEF InWork, KnowsTx
<1>18. InWork(w)'
  <2>1. KnowsTx(w)'
    BY <1>1, <1>2, <1>3, <1>9, <1>10, <1>12, <1>13, <1>15, <1>17
    DEF InWork, KnowsTx, SameJob, InTx
  <2> QED
    BY <1>1, <1>2, <1>10, <1>12, <2>1 DEF InWork, KnowsLock, KnowsResult, SameJob
<1> QED
  BY <1>8, <1>9, <1>11, <1>16, <1>18 DEF StepKeeps, Frame

LEMMA DeleteAbortedKeeps ==
  ASSUME Partitioned, Inv, NEW w \in LockWorker, DeleteAborted(w)
  PROVE  StepKeeps(w)
<1>1. /\ worker[w].step = "releaseAll" /\ Finish(w, FALSE) /\ RowAfter(w) = {}
      /\ transactions' = [transactions EXCEPT ![worker[w].tx] = deleted(Null)]
      /\ UNCHANGED <<transactionTable, lockTable, locks, queue>>
  BY DEF DeleteAborted, At
<1>2. InTx(w) /\ queue[w] # <<>> /\ InWork(w)
  BY <1>1, OwnTransaction DEF InTx, Inv, PartitionInv
<1>3. PICK t \in Transaction : t = TxOf(w)
  BY <1>2, JobIs
<1>4. transactionTable[t] # worker[w].tx /\ Rows(t) = {}
  BY <1>1, <1>2, <1>3 DEF InWork, KnowsTx
<1>5. transactionTable' = transactionTable
  BY <1>1
<1>6. TxFrame(w) /\ Registrations' /\ Rows(t)' = {}
  BY <1>1, <1>2, <1>3, <1>4, <1>5, ObjectDeleted
<1>7. /\ LockFrame(w) /\ OneLockEach'
      /\ \A s \in Row : Owners(s)' = Owners(s)
  BY <1>1, LocksKept
<1>8. \A s \in Row : t \notin Owners(s)
  BY <1>1, <1>2, <1>3, <1>4, OwnHand DEF HandOf, Holds
<1>9. Agrees(w)
  BY <1>3, <1>6, <1>7, <1>8 DEF Agrees, Holds
<1>10. /\ LocalFrame(w) /\ SameJob(w)
       /\ worker'[w].step = "reply" /\ worker'[w].next = 0 /\ worker'[w].ok = FALSE
  BY <1>1, FinishEffect
<1>11. InWork(w)'
  BY <1>3, <1>7, <1>8, <1>10 DEF InWork, KnowsTx, KnowsLock, KnowsResult, InTx, SameJob
<1> QED
  BY <1>6, <1>7, <1>9, <1>10, <1>11 DEF StepKeeps, Frame

LEMMA ReplyKeeps ==
  ASSUME Partitioned, Inv, NEW w \in LockWorker, Reply(w)
  PROVE  StepKeeps(w)
<1>1. /\ worker[w].step = "reply"
      /\ queue' = [queue EXCEPT ![w] = Tail(@)]
      /\ worker' = [worker EXCEPT ![w] = IdleWorker]
      /\ UNCHANGED tables
  BY DEF Reply, At
<1>2. queue[w] # <<>> /\ worker \in [LockWorker -> WorkerState] /\ queue \in [Worker -> Seq(Job)]
  BY <1>1 DEF Inv, TypeInv, Workers, QueuesOK
<1>3. TxFrame(w) /\ LockFrame(w) /\ Registrations' /\ OneLockEach' /\ Agrees(w)
  BY <1>1, <1>2, TablesKept
<1>4. LocalFrame(w)
  BY <1>1, <1>2 DEF LocalFrame, Worker
<1>5. worker'[w].step = "wait" /\ worker'[w].next = 0
  BY <1>1, <1>2 DEF IdleWorker
<1>6. InWork(w)'
  BY <1>5 DEF InWork, KnowsTx, KnowsLock, KnowsResult, InTx
<1> QED
  BY <1>3, <1>4, <1>6 DEF StepKeeps, Frame

LEMMA StepOfWorkerKeeps ==
  ASSUME Partitioned, Inv, TypeInv', NEW w \in LockWorker, LockWorkerStep(w)
  PROVE  queue[w] # <<>> /\ StepKeeps(w)
<1>1. queue[w] # <<>>
  BY DEF LockWorkerStep, FindTransaction, FindLock, Upgrade, AddLock, Refuse, RecordLock,
      Unregister, ReleaseNext, DeleteAborted, FindLockToRelease, EraseRow, ReleaseLock,
      DeleteFinished, Reply, At, Inv, TypeInv, Workers
<1> QED
  BY <1>1, FindTransactionKeeps, FindLockKeeps, UpgradeKeeps, AddLockKeeps,
     RefuseKeeps, RecordLockKeeps, UnregisterKeeps, ReleaseNextKeeps, DeleteAbortedKeeps,
     FindLockToReleaseKeeps, EraseRowKeeps, ReleaseLockKeeps, DeleteFinishedKeeps, ReplyKeeps
  DEF LockWorkerStep

-----------------------------------------------------------------------------
(* The clients and the registration worker change nothing a lock worker     *)
(* knows: a new job goes behind the one in work, and a new transaction      *)
(* object is at an address nobody uses.                                     *)

OthersKeep ==
  /\ Registrations'
  /\ OneLockEach'
  /\ \A w \in LockWorker : InWork(w)'
  /\ HoldersOwnTheirLocks'
  /\ OwnersHoldTheirLocks'

\* The jobs in work stay what they are.
JobsInWorkKept ==
  /\ UNCHANGED worker
  /\ \A w \in LockWorker : queue[w] # <<>> => queue'[w] # <<>> /\ JobOf(w)' = JobOf(w)

\* No transaction gets or loses a row.
TransactionsSeenKept ==
  /\ \A u \in Transaction : Rows(u)' = Rows(u)
  /\ \A u \in Transaction : Registered(u) => transactionTable'[u] = transactionTable[u]
  /\ \A w \in LockWorker : InTx(w) => Tx(w)' = Tx(w)
  /\ \A w \in LockWorker : worker[w].step = "releaseAll" =>
       \A u \in Transaction : transactionTable'[u] # worker[w].tx

SeenKept ==
  JobsInWorkKept /\ TransactionsSeenKept /\ Registrations' /\ UNCHANGED <<lockTable, locks>>

LEMMA OthersKeepInvariant ==
  ASSUME Partitioned, Inv, SeenKept
  PROVE  OthersKeep
<1> USE DEF SeenKept
<1>1. OneLockEach' /\ \A s \in Row : Owners(s)' = Owners(s) /\ Exclusive(s)' = Exclusive(s)
  BY DEF OneLockEach, Owners, Exclusive, Inv, PartitionInv
<1>2. ASSUME NEW w \in LockWorker PROVE InWork(w)'
  <2>1. worker'[w] = worker[w] /\ InWork(w)
    BY DEF JobsInWorkKept, Inv, PartitionInv
  <2>2. CASE worker[w].step = "wait"
    BY <2>1, <2>2 DEF InWork, KnowsTx, KnowsLock, KnowsResult, InTx
  <2>3. CASE worker[w].step # "wait"
    <3>1. queue[w] # <<>>
      BY <2>3 DEF Inv, TypeInv, Workers
    <3>2. JobOf(w)' = JobOf(w) /\ TxOf(w)' = TxOf(w) /\ RowOf(w)' = RowOf(w)
      BY <3>1 DEF JobsInWorkKept, TxOf, RowOf
    <3>3. PICK t \in Transaction, r \in Row : t = TxOf(w) /\ r = RowOf(w)
      BY <3>1, JobRouted
    <3>4. Rows(t)' = Rows(t) /\ (Registered(t) => transactionTable'[t] = transactionTable[t])
      BY DEF TransactionsSeenKept
    <3>5. KnowsTx(w)'
      <4>1. CASE worker[w].step = "releaseAll"
        <5>1. /\ Tx(w)' = Tx(w)
              /\ \A u \in Transaction : transactionTable'[u] # worker[w].tx
          BY <4>1 DEF TransactionsSeenKept, InTx
        <5>2. RowAfter(w)' = RowAfter(w) /\ RowAfter(w) \subseteq Row
          BY <2>1, <4>1, <5>1, OwnTransaction DEF RowAfter, InTx
        <5> QED
          BY <1>1, <2>1, <3>2, <3>3, <3>4, <4>1, <5>1, <5>2 DEF InWork, KnowsTx, InTx
      <4>2. CASE worker[w].step # "releaseAll"
        BY <2>1, <3>2, <3>3, <3>4, <4>2, OwnTransaction DEF InWork, KnowsTx, InTx
      <4> QED
        BY <4>1, <4>2
    <3>6. KnowsLock(w)'
      BY <1>1, <2>1, <3>2, <3>3, <3>4 DEF InWork, KnowsLock, Holds
    <3>7. KnowsResult(w)'
      BY <1>1, <2>1, <3>2, <3>3, <3>4 DEF InWork, KnowsResult, Holds
    <3> QED
      BY <3>5, <3>6, <3>7 DEF InWork
  <2> QED
    BY <2>2, <2>3
<1>3. HoldersOwnTheirLocks'
  <2>1. ASSUME NEW u \in Transaction, NEW s \in Rows(u)' PROVE u \in Owners(s)'
    <3>1. s \in Rows(u) /\ s \in Row /\ u \in Owners(s)
      BY DEF TransactionsSeenKept, Inv, PartitionInv, HoldersOwnTheirLocks, TypeInv, Tables,
             TablesOK, TransactionObject, Rows, Registered
    <3> QED
      BY <1>1, <3>1
  <2> QED
    BY <2>1 DEF HoldersOwnTheirLocks
<1>4. OwnersHoldTheirLocks'
  <2>1. ASSUME NEW s \in Row, NEW u \in Owners(s)' PROVE Holds(u, s)' \/ InHand(u, s)'
    <3>1. u \in Owners(s)
      BY <1>1
    <3>2. u \in Transaction
      BY <3>1 DEF Owners, Inv, TypeInv, Tables, TablesOK, LockRecord
    <3>3. CASE Holds(u, s)
      BY <3>2, <3>3 DEF Holds, TransactionsSeenKept
    <3>4. CASE InHand(u, s)
      <4>1. PICK v \in LockWorker : HandOf(v, u, s)
        BY <3>4 DEF InHand, HandOf, TxOf, RowOf
      <4>2. worker'[v] = worker[v] /\ queue'[v] # <<>> /\ JobOf(v)' = JobOf(v)
        BY <4>1 DEF HandOf, JobsInWorkKept
      <4>3. worker[v].step = "releaseAll" => RowAfter(v)' = RowAfter(v)
        BY <4>2 DEF TransactionsSeenKept, InTx, RowAfter
      <4> QED
        BY <4>1, <4>2, <4>3 DEF InHand, HandOf, TxOf, RowOf
    <3> QED
      BY <3>1, <3>3, <3>4 DEF Inv, PartitionInv, OwnersHoldTheirLocks
  <2> QED
    BY <2>1 DEF OwnersHoldTheirLocks
<1> QED
  BY <1>1, <1>2, <1>3, <1>4 DEF OthersKeep

LEMMA TablesSeenKept ==
  ASSUME Inv, UNCHANGED <<tables, worker>>,
         \A w \in LockWorker : queue[w] # <<>> => queue'[w] # <<>> /\ JobOf(w)' = JobOf(w)
  PROVE  SeenKept
<1>1. \A u \in Transaction : Rows(u)' = Rows(u)
  BY DEF tables, Rows, Registered
<1>2. \A w \in LockWorker : Tx(w)' = Tx(w)
  BY DEF tables, Tx
<1>3. ASSUME NEW w \in LockWorker, worker[w].step = "releaseAll"
      PROVE  \A u \in Transaction : transactionTable'[u] # worker[w].tx
  BY <1>3 DEF Inv, PartitionInv, InWork, KnowsTx, tables
<1>4. Registrations'
  BY DEF Registrations, Registered, tables, Inv, PartitionInv
<1> QED
  BY <1>1, <1>2, <1>3, <1>4 DEF SeenKept, TransactionsSeenKept, JobsInWorkKept, tables

LEMMA PushKeepsJob ==
  ASSUME Inv, NEW c, NEW v \in Worker, NEW job, Push(c, v, job), NEW w \in LockWorker,
         queue[w] # <<>>
  PROVE  queue'[w] # <<>> /\ JobOf(w)' = JobOf(w)
<1>1. /\ queue' = [queue EXCEPT ![v] = Append(@, job)]
      /\ queue \in [Worker -> Seq(Job)]
  BY DEF Push, Inv, TypeInv, QueuesOK
<1>2. CASE w = v
  <2>1. queue'[w] = Append(queue[w], job) /\ queue[w] \in Seq(Job)
    BY <1>1, <1>2
  <2> QED
    BY <2>1 DEF JobOf
<1>3. CASE w # v
  BY <1>1, <1>3 DEF JobOf
<1> QED
  BY <1>2, <1>3

LEMMA RegisterSeen ==
  ASSUME Partitioned, Inv, Register
  PROVE  SeenKept
<1>1. /\ queue[TxWorker] # <<>>
      /\ queue' = [queue EXCEPT ![TxWorker] = Tail(@)]
      /\ UNCHANGED <<lockTable, locks, worker>>
  BY DEF Register
<1>2. \A w \in LockWorker : queue'[w] = queue[w]
  BY <1>1, TxWorkerAssumption DEF Inv, TypeInv, QueuesOK, Worker
<1>3. JobsInWorkKept
  BY <1>1, <1>2 DEF JobsInWorkKept, JobOf
<1>4. CASE UNCHANGED <<transactionTable, transactions>>
  <2>1. UNCHANGED <<tables, worker>>
    BY <1>1, <1>4 DEF tables
  <2> QED
    BY <1>1, <1>3, <2>1, TablesSeenKept DEF JobsInWorkKept
<1>5. CASE ~UNCHANGED <<transactionTable, transactions>>
  <2>1. PICK t \in Transaction, a \in TxAddress :
          /\ transactionTable[t] = Null
          /\ Unused(a)
          /\ transactions' = [transactions EXCEPT ![a] = newTransaction(t, LockBudget)]
          /\ transactionTable' = [transactionTable EXCEPT ![t] = a]
    <3>1. Head(queue[TxWorker]) \in RegisterJob
      BY <1>1, HeadTail DEF Inv, TypeInv, QueuesOK
    <3>2. Head(queue[TxWorker]).transaction_id \in Transaction
      BY <3>1 DEF RegisterJob
    <3> QED
      BY <1>5, <3>2 DEF Register
  <2>2. /\ transactionTable \in [Transaction -> TxAddress \cup {Null}]
        /\ transactions \in [TxAddress -> TransactionObject(Transaction \cup {Null}, Row)]
    BY DEF Inv, TypeInv, Tables, TablesOK
  <2>3. \A u \in Transaction : Registered(u) =>
          /\ u # t
          /\ transactionTable[u] \in TxAddress
          /\ transactions[transactionTable[u]].live
          /\ transactions[transactionTable[u]].transaction_id = u
    BY <2>1, <2>2 DEF Registered, Inv, PartitionInv, Registrations
  <2>4. \A u \in Transaction : Registered(u) =>
          /\ transactionTable'[u] = transactionTable[u]
          /\ transactionTable[u] # a
    BY <2>1, <2>2, <2>3 DEF Unused
  <2>5. Rows(t)' = {} /\ Rows(t) = {}
    BY <2>1, <2>2, NullAssumption DEF Rows, Registered, newTransaction
  <2>6. ASSUME NEW u \in Transaction, u # t
        PROVE  Rows(u)' = Rows(u) /\ Registered(u)' = Registered(u)
    <3>1. transactionTable'[u] = transactionTable[u]
      BY <2>1, <2>2, <2>6
    <3>2. Registered(u) => transactions'[transactionTable[u]] = transactions[transactionTable[u]]
      BY <2>1, <2>2, <2>3, <2>4
    <3> QED
      BY <3>1, <3>2 DEF Rows, Registered
  <2>7. Registrations'
    <3>1. ASSUME NEW u \in Transaction, Registered(u)'
          PROVE  /\ transactions'[transactionTable'[u]].live
                 /\ transactions'[transactionTable'[u]].transaction_id = u
      <4>1. CASE u = t
        BY <2>1, <2>2, <4>1, NewObject
      <4>2. CASE u # t
        BY <2>1, <2>2, <2>3, <2>4, <2>6, <3>1, <4>2
      <4> QED
        BY <4>1, <4>2
    <3>2. ASSUME NEW b \in TxAddress, transactions'[b].live,
                 NEW r \in transactions'[b].locked_rows
          PROVE  Asked(transactions'[b].transaction_id, r)
      <4>1. b # a
        BY <2>1, <2>2, <3>2 DEF newTransaction
      <4> QED
        BY <2>1, <2>2, <3>2, <4>1 DEF Inv, PartitionInv, Registrations
    <3> QED
      BY <3>1, <3>2 DEF Registrations
  <2>8. ASSUME NEW w \in LockWorker, InTx(w) PROVE worker[w].tx # a /\ Tx(w)' = Tx(w)
    <3>1. worker[w].tx \in TxAddress /\ Tx(w).live
      BY <2>8, OwnTransaction
    <3>2. worker[w].tx # a
      BY <2>1, <3>1 DEF Unused, Tx
    <3> QED
      BY <1>1, <2>1, <2>2, <3>1, <3>2 DEF Tx
  <2>9. ASSUME NEW w \in LockWorker, worker[w].step = "releaseAll"
        PROVE  \A u \in Transaction : transactionTable'[u] # worker[w].tx
    <3>1. worker[w].tx # a
      BY <2>8, <2>9 DEF InTx
    <3>2. \A u \in Transaction : transactionTable[u] # worker[w].tx
      BY <2>9 DEF Inv, PartitionInv, InWork, KnowsTx
    <3> QED
      BY <2>1, <2>2, <3>1, <3>2
  <2> QED
    BY <1>1, <1>3, <2>4, <2>5, <2>6, <2>7, <2>8, <2>9 DEF SeenKept, TransactionsSeenKept
<1> QED
  BY <1>4, <1>5

LEMMA PushSeen ==
  ASSUME Inv, NEW c, NEW v \in Worker, NEW job, Push(c, v, job), UNCHANGED <<tables, worker>>
  PROVE  SeenKept
  BY PushKeepsJob, TablesSeenKept

LEMMA QuietSeen ==
  ASSUME Inv, UNCHANGED <<tables, worker, queue>>
  PROVE  SeenKept
<1>1. \A w \in LockWorker : queue[w] # <<>> => queue'[w] # <<>> /\ JobOf(w)' = JobOf(w)
  BY DEF JobOf
<1> QED
  BY <1>1, TablesSeenKept

LEMMA ClientSeen ==
  ASSUME Inv, NEW c \in Client, Call(c) \/ ClientStep(c)
  PROVE  UNCHANGED tables /\ SeenKept
<1>1. UNCHANGED <<tables, worker>>
  BY DEF Call, ClientStep, SendRegistration, CheckRegistered, RefuseUnregistered,
         SendLockJob, Return
<1>2. ASSUME NEW t \in Transaction, SendRegistration(c, t) PROVE SeenKept
  BY <1>1, <1>2, PushSeen DEF SendRegistration, Worker
<1>3. CASE SendLockJob(c)
  <2>1. client[c].job \in LockJob
    BY <1>3 DEF SendLockJob, Inv, TypeInv, Clients
  <2>2. RowWorker[client[c].job.row_id] \in Worker
    BY <2>1, RowWorkerAssumption DEF LockJob, Worker
  <2> QED
    BY <1>1, <1>3, <2>2, PushSeen DEF SendLockJob
<1>4. CASE UNCHANGED queue
  BY <1>1, <1>4, QuietSeen
<1> QED
  BY <1>1, <1>2, <1>3, <1>4
  DEF Call, ClientStep, CheckRegistered, RefuseUnregistered, Return

-----------------------------------------------------------------------------
(* Where the jobs are.                                                      *)

\* Answering a client leaves its step and its job alone.
LEMMA AnswerRouted ==
  ASSUME Inv, NEW caller, NEW ok, Answer(caller, ok), NEW c \in Client,
         caller \in Client \cup {Null}
  PROVE  client'[c].step = client[c].step /\ client'[c].job = client[c].job
<1>1. CASE caller = Null
  BY <1>1 DEF Answer
<1>2. CASE caller # Null
  <2>1. client' = [client EXCEPT ![caller].answer = IF ok THEN "ok" ELSE "error"]
    BY <1>2 DEF Answer
  <2>2. client \in [Client -> ClientState]
    BY DEF Inv, TypeInv, Clients
  <2> QED
    BY <2>1, <2>2 DEF ClientState
<1> QED
  BY <1>1, <1>2

LEMMA PushRouted ==
  ASSUME Inv, NEW c \in Client, NEW v \in Worker, NEW job, Push(c, v, job),
         v \in LockWorker => job \in JobsFor(v)
  PROVE  Routed'
<1>1. /\ queue' = [queue EXCEPT ![v] = Append(@, job)]
      /\ client' = [client EXCEPT ![c] =
           IF job.caller = c THEN [IdleClient EXCEPT !.step = "wait"] ELSE IdleClient]
      /\ queue \in [Worker -> Seq(Job)]
      /\ client \in [Client -> ClientState]
      /\ Routed
  BY DEF Push, Inv, PartitionInv, TypeInv, QueuesOK, Clients
<1>2. ASSUME NEW d \in Client, client'[d].step = "push"
      PROVE  Asked(client'[d].job.transaction_id, client'[d].job.row_id)
  <2>1. d # c
    BY <1>1, <1>2 DEF IdleClient
  <2> QED
    BY <1>1, <1>2, <2>1 DEF Routed
<1>3. ASSUME NEW w \in LockWorker PROVE queue'[w] \in Seq(JobsFor(w))
  <2>1. queue[w] \in Seq(JobsFor(w))
    BY <1>1 DEF Routed
  <2>2. CASE w = v
    BY <1>1, <2>1, <2>2
  <2>3. CASE w # v
    BY <1>1, <2>1, <2>3
  <2> QED
    BY <2>2, <2>3
<1> QED
  BY <1>2, <1>3 DEF Routed

LEMMA RoutedStep ==
  ASSUME Inv, [Next]_vars
  PROVE  Routed'
<1>1. Routed /\ client \in [Client -> ClientState] /\ queue \in [Worker -> Seq(Job)]
  BY DEF Inv, PartitionInv, TypeInv, Clients, QueuesOK
<1>2. CASE UNCHANGED <<queue, client>>
  BY <1>1, <1>2 DEF Routed
<1>3. ASSUME NEW c \in Client, NEW t \in Transaction, SendRegistration(c, t) PROVE Routed'
  BY <1>3, PushRouted, TxWorkerAssumption DEF SendRegistration, Worker
<1>4. ASSUME NEW c \in Client, SendLockJob(c) PROVE Routed'
  <2> DEFINE job == client[c].job
             w == RowWorker[job.row_id]
  <2>1. job \in LockJob /\ Asked(job.transaction_id, job.row_id)
    BY <1>1, <1>4 DEF SendLockJob, Inv, TypeInv, Clients, Routed
  <2>2. w \in LockWorker /\ job \in JobsFor(w)
    BY <2>1, RowWorkerAssumption DEF LockJob, JobsFor
  <2>3. Push(c, w, job)
    BY <1>4 DEF SendLockJob
  <2> HIDE DEF job, w
  <2> QED
    BY <2>2, <2>3, PushRouted DEF Worker
<1>5. ASSUME NEW c \in Client, NEW ask \in Asks, NEW wait \in WaitChoices,
             CheckRegistered(c, ask, wait)
      PROVE  Routed'
  <2> DEFINE job == [command |-> ask.command, transaction_id |-> ask.transaction_id,
                     row_id |-> ask.row_id, caller |-> CallerOf(c, wait)]
  <2>1. Asked(job.transaction_id, job.row_id)
    BY DEF Asked
  <2>2. client' = [client EXCEPT ![c].step = "push", ![c].job = job] /\ UNCHANGED queue
    BY <1>5 DEF CheckRegistered
  <2> HIDE DEF job
  <2>3. ASSUME NEW d \in Client, client'[d].step = "push"
        PROVE  Asked(client'[d].job.transaction_id, client'[d].job.row_id)
    <3>1. CASE d = c
      BY <1>1, <2>1, <2>2, <3>1 DEF ClientState
    <3>2. CASE d # c
      BY <1>1, <2>2, <2>3, <3>2 DEF Routed
    <3> QED
      BY <3>1, <3>2
  <2> QED
    BY <1>1, <2>2, <2>3 DEF Routed
<1>6. ASSUME NEW c \in Client, NEW ask \in Asks, RefuseUnregistered(c, ask) PROVE Routed'
  <2>1. client' = [client EXCEPT ![c].step = "wait", ![c].answer = "error"] /\ UNCHANGED queue
    BY <1>6 DEF RefuseUnregistered
  <2>2. ASSUME NEW d \in Client, client'[d].step = "push"
        PROVE  client[d].step = "push" /\ client'[d] = client[d]
    BY <1>1, <2>1, <2>2 DEF ClientState
  <2> QED
    BY <1>1, <2>1, <2>2 DEF Routed
<1>7. ASSUME NEW c \in Client, Return(c) PROVE Routed'
  <2>1. client' = [client EXCEPT ![c] = IdleClient] /\ UNCHANGED queue
    BY <1>7 DEF Return
  <2>2. ASSUME NEW d \in Client, client'[d].step = "push" PROVE client'[d] = client[d]
    BY <1>1, <2>1, <2>2 DEF IdleClient
  <2> QED
    BY <1>1, <2>1, <2>2 DEF Routed
<1>8. CASE Register
  <2>1. Head(queue[TxWorker]) \in RegisterJob
    BY <1>8, HeadTail DEF Register, Inv, TypeInv, QueuesOK
  <2>2. Head(queue[TxWorker]).caller \in Client \cup {Null}
    BY <2>1 DEF RegisterJob
  <2>3. \A c \in Client : client'[c].step = client[c].step /\ client'[c].job = client[c].job
    BY <1>8, <2>2, AnswerRouted DEF Register
  <2>4. \A w \in LockWorker : queue'[w] = queue[w]
    BY <1>1, <1>8, TxWorkerAssumption DEF Register, Worker
  <2> QED
    BY <1>1, <2>3, <2>4 DEF Routed
<1>9. ASSUME NEW w \in LockWorker, Reply(w) PROVE Routed'
  <2>1. queue[w] # <<>>
    BY <1>9 DEF Reply, At, Inv, TypeInv, Workers
  <2>2. JobOf(w).caller \in Client \cup {Null}
    BY <2>1, JobTyped DEF Inv, TypeInv
  <2>3. \A c \in Client : client'[c].step = client[c].step /\ client'[c].job = client[c].job
    BY <1>9, <2>2, AnswerRouted DEF Reply
  <2>4. queue' = [queue EXCEPT ![w] = Tail(@)]
    BY <1>9 DEF Reply
  <2>5. ASSUME NEW v \in LockWorker PROVE queue'[v] \in Seq(JobsFor(v))
    <3>1. queue[v] \in Seq(JobsFor(v))
      BY <1>1 DEF Routed
    <3>2. CASE v = w
      <4>1. queue'[v] = Tail(queue[v])
        BY <1>1, <2>4, <3>2 DEF Worker
      <4> QED
        BY <2>1, <3>1, <3>2, <4>1, HeadTail
    <3>3. CASE v # w
      BY <1>1, <2>4, <3>1, <3>3 DEF Worker
    <3> QED
      BY <3>2, <3>3
  <2> QED
    BY <1>1, <2>3, <2>5 DEF Routed
<1> QED
  BY <1>2, <1>3, <1>4, <1>5, <1>6, <1>7, <1>8, <1>9
  DEF Next, Call, ClientStep, LockWorkerStep, vars, FindTransaction, FindLock,
      Upgrade, AddLock, Refuse, RecordLock, Unregister, ReleaseNext, DeleteAborted,
      FindLockToRelease, EraseRow, ReleaseLock, DeleteFinished

-----------------------------------------------------------------------------
(* The invariant.                                                           *)

LEMMA InitPartitioned == Init => Inv
<1> SUFFICES ASSUME Init PROVE Inv
  OBVIOUS
<1>1. TypeInv /\ LocksCompatible
  BY InitTyped DEF Init, LocksCompatible, Compatible, newLock
<1>2. \A t \in Transaction : ~Registered(t) /\ Rows(t) = {}
  BY DEF Init, Registered, Rows
<1>3. \A r \in Row : Owners(r) = {}
  BY DEF Init, Owners
<1>4. Routed
  BY DEF Routed, Init, IdleClient, Worker
<1>5. Registrations
  BY <1>2 DEF Registrations, Init, deleted
<1>6. OneLockEach
  BY DEF OneLockEach, Init
<1>7. \A w \in LockWorker : worker[w].step = "wait" /\ worker[w].next = 0
  BY DEF Init, IdleWorker
<1>8. \A w \in LockWorker : InWork(w)
  BY <1>7 DEF InWork, KnowsTx, KnowsLock, KnowsResult, InTx
<1>9. HoldersOwnTheirLocks /\ OwnersHoldTheirLocks
  BY <1>2, <1>3 DEF Init, HoldersOwnTheirLocks, OwnersHoldTheirLocks
<1> QED
  BY <1>1, <1>4, <1>5, <1>6, <1>8, <1>9 DEF Inv, PartitionInv

LEMMA PartitionStep ==
  ASSUME Partitioned, Inv, [Next]_vars
  PROVE  Inv'
<1>1. TypeInv' /\ LocksCompatible' /\ Routed'
  BY TypeStep, CompatibleStep, RoutedStep DEF Inv
<1>2. OthersKeep
  <2>1. ASSUME NEW c \in Client, Call(c) \/ ClientStep(c) PROVE OthersKeep
    BY <2>1, ClientSeen, OthersKeepInvariant
  <2>2. CASE Register
    BY <2>2, RegisterSeen, OthersKeepInvariant
  <2>3. ASSUME NEW w \in LockWorker, LockWorkerStep(w) PROVE OthersKeep
    <3>1. queue[w] # <<>> /\ StepKeeps(w)
      BY <1>1, <2>3, StepOfWorkerKeeps
    <3> QED
      BY <1>1, <3>1, WorkerStepKeeps DEF StepKeeps, OthersKeep
  <2>4. CASE UNCHANGED vars
    BY <2>4, QuietSeen, OthersKeepInvariant DEF vars
  <2> QED
    BY <2>1, <2>2, <2>3, <2>4 DEF Next
<1> QED
  BY <1>1, <1>2 DEF OthersKeep, Inv, PartitionInv

\* The conjunction of all that is said of the code in this module, for the theorems below.
LEMMA PartitionedInvariant ==
  ASSUME Partitioned
  PROVE  Spec => []Inv
<1>1. Inv /\ [Next]_vars => Inv'
  BY PartitionStep
<1> QED
  BY <1>1, InitPartitioned, PTL DEF Spec

\* No thread ever uses a transaction or lock that was deleted, or a null lock, when
\* every transaction keeps to the rows of one worker.
THEOREM NothingFreedIsUsed ==
  ASSUME Partitioned
  PROVE  Spec => []NoFault
<1>1. Inv => NoFault
  BY NothingFreed DEF NoFault
<1> QED
  BY <1>1, PartitionedInvariant, PTL

\* A transaction owns every lock in its locked_rows: what release and abort walk through
\* is in the lock table.
THEOREM HoldersAreOwners ==
  ASSUME Partitioned
  PROVE  Spec => []HoldersOwnTheirLocks
<1>1. Inv => HoldersOwnTheirLocks
  BY DEF Inv, PartitionInv
<1> QED
  BY <1>1, PartitionedInvariant, PTL

\* A lock has no owner that does not know of it, but for the moments in which a worker
\* changes both.
THEOREM OwnersAreHolders ==
  ASSUME Partitioned
  PROVE  Spec => []OwnersHoldTheirLocks
<1>1. Inv => OwnersHoldTheirLocks
  BY DEF Inv, PartitionInv
<1> QED
  BY <1>1, PartitionedInvariant, PTL

\* Two transactions hold the same row only if its lock is shared.
THEOREM RowsAreExclusive ==
  ASSUME Partitioned
  PROVE  Spec => []MutualExclusion
<1>1. ASSUME Inv PROVE MutualExclusion
  <2> SUFFICES ASSUME NEW t \in Transaction, NEW u \in Transaction, NEW r \in Row,
                      t # u, Holds(t, r), Holds(u, r), Exclusive(r)
               PROVE  FALSE
    BY DEF MutualExclusion
  <2>1. t \in Owners(r) /\ u \in Owners(r)
    BY <1>1 DEF Inv, PartitionInv, HoldersOwnTheirLocks, Holds
  <2>2. lockTable[r] \in LockAddress /\ locks[lockTable[r]].exclusive
    BY <1>1 DEF Exclusive, Inv, TypeInv, Tables, TablesOK
  <2>3. Compatible(locks[lockTable[r]])
    BY <1>1, <2>2 DEF Inv, LocksCompatible
  <2> QED
    BY <2>1, <2>2, <2>3 DEF Owners, Compatible
<1> QED
  BY <1>1, PartitionedInvariant, PTL

\* When acquire_lock has returned TRUE the transaction holds the row, and exclusively
\* if it asked for that.
THEOREM GrantsAreHeld ==
  ASSUME Partitioned
  PROVE  Spec => []GrantedIsHeld
<1>1. ASSUME Inv PROVE GrantedIsHeld
  <2> SUFFICES ASSUME NEW w \in LockWorker, worker[w].step = "reply", worker[w].ok,
                      JobOf(w).command # "UNLOCK"
               PROVE  /\ Holds(JobOf(w).transaction_id, JobOf(w).row_id)
                      /\ JobOf(w).command = "EXCLUSIVE" => Exclusive(JobOf(w).row_id)
    BY DEF GrantedIsHeld
  <2>1. KnowsResult(w)
    BY <1>1 DEF Inv, PartitionInv, InWork
  <2> QED
    BY <2>1 DEF KnowsResult, TxOf, RowOf
<1> QED
  BY <1>1, PartitionedInvariant, PTL

\* When acquire_lock has returned FALSE the transaction owns no lock any more.
THEOREM RefusalsReleaseAll ==
  ASSUME Partitioned
  PROVE  Spec => []RefusedHoldsNothing
<1>1. ASSUME Inv PROVE RefusedHoldsNothing
  <2> SUFFICES ASSUME NEW w \in LockWorker, worker[w].step = "reply", ~worker[w].ok
               PROVE  \A r \in Row : JobOf(w).transaction_id \notin Owners(r)
    BY DEF RefusedHoldsNothing
  <2>1. KnowsResult(w)
    BY <1>1 DEF Inv, PartitionInv, InWork
  <2> QED
    BY <2>1 DEF KnowsResult, TxOf
<1> QED
  BY <1>1, PartitionedInvariant, PTL

-----------------------------------------------------------------------------
(* What a step may not do.                                                  *)

\* The rows of the transaction of w's job after a step of w.
LEMMA OwnRowsLost ==
  ASSUME Partitioned, Inv, Inv', NEW w \in LockWorker, LockWorkerStep(w),
         NEW t \in Transaction, t = TxOf(w), queue[w] # <<>>,
         NEW r \in Rows(t), r \notin Rows(t)'
  PROVE  worker[w].step = "abort" \/ (worker[w].step = "erase" /\ r = RowOf(w))
<1>1. UNCHANGED <<transactionTable, transactions>> => Rows(t)' = Rows(t)
  BY DEF Rows, Registered
<1>2. CASE RecordLock(w) \/ EraseRow(w)
  <2>1. worker[w].step \in {"record", "erase"} /\ UNCHANGED transactionTable
    BY <1>2 DEF RecordLock, EraseRow, At
  <2>2. /\ Tx(w) \in TransactionObject(Transaction \cup {Null}, Row)
        /\ worker[w].tx \in TxAddress
        /\ transactionTable[t] = worker[w].tx
        /\ Rows(t) = Tx(w).locked_rows
        /\ transactions \in [TxAddress -> TransactionObject(Transaction \cup {Null}, Row)]
    BY <2>1, OwnTransaction DEF InTx, Inv, TypeInv, Tables, TablesOK
  <2>3. Rows(t)' = transactions'[worker[w].tx].locked_rows
    BY <2>1, <2>2, NullAssumption DEF Rows, Registered
  <2>4. CASE RecordLock(w)
    BY <2>2, <2>3, <2>4 DEF RecordLock, addRow, TransactionObject, Tx
  <2>5. CASE EraseRow(w) /\ transactions' # transactions
    <3>1. transactions' = [transactions EXCEPT ![worker[w].tx] = eraseRow(@, RowOf(w))]
      BY <2>5 DEF EraseRow, RowOf
    <3>2. Rows(t)' = Rows(t) \ {RowOf(w)}
      BY <2>2, <2>3, <3>1 DEF eraseRow, TransactionObject, Tx
    <3> QED
      BY <2>5, <3>2 DEF EraseRow, At
  <2> QED
    BY <1>1, <1>2, <2>1, <2>4, <2>5
<1>3. CASE Unregister(w)
  BY <1>3 DEF Unregister, At
<1>4. CASE DeleteAborted(w)
  BY <1>4 DEF DeleteAborted, At, Inv, PartitionInv, InWork, KnowsTx
<1>5. CASE DeleteFinished(w)
  <2>1. Rows(t) = Tx(w).locked_rows
    BY <1>5, OwnTransaction DEF DeleteFinished, At, InTx
  <2> QED
    BY <1>1, <1>5, <2>1 DEF DeleteFinished
<1> QED
  BY <1>1, <1>2, <1>3, <1>4, <1>5
  DEF LockWorkerStep, FindTransaction, FindLock, Upgrade, AddLock, Refuse, ReleaseNext,
      FindLockToRelease, ReleaseLock, Reply, tables

\* A transaction loses a row only by its own unlock request for it or by its own request
\* that was refused.
THEOREM NobodyElseTakesALock ==
  ASSUME Partitioned
  PROVE  Spec => LostOnlyByOwnRequest
<1> DEFINE Lost ==
      \A t \in Transaction, r \in Row : Holds(t, r) /\ ~Holds(t, r)' =>
        \E w \in LockWorker :
          /\ worker[w].step \in {"erase", "abort"}
          /\ JobOf(w).transaction_id = t
          /\ worker[w].step = "erase" => JobOf(w).row_id = r
<1>1. ASSUME Inv, Inv', [Next]_vars PROVE Lost
  <2> SUFFICES ASSUME NEW t \in Transaction, NEW r \in Row, Holds(t, r), ~Holds(t, r)'
               PROVE  \E w \in LockWorker :
                        /\ worker[w].step \in {"erase", "abort"}
                        /\ JobOf(w).transaction_id = t
                        /\ worker[w].step = "erase" => JobOf(w).row_id = r
    OBVIOUS
  <2>1. r \in Rows(t) /\ r \notin Rows(t)'
    BY DEF Holds
  <2>2. ~UNCHANGED <<transactionTable, transactions>>
    BY <2>1 DEF Rows, Registered
  <2>3. CASE Register
    BY <1>1, <2>1, <2>3, RegisterSeen DEF SeenKept, TransactionsSeenKept
  <2>4. ASSUME NEW w \in LockWorker, LockWorkerStep(w)
        PROVE  /\ worker[w].step \in {"erase", "abort"}
               /\ JobOf(w).transaction_id = t
               /\ worker[w].step = "erase" => JobOf(w).row_id = r
    <3>1. queue[w] # <<>> /\ TxFrame(w)
      BY <1>1, <2>4, StepOfWorkerKeeps DEF StepKeeps, Frame, Inv
    <3>2. t = TxOf(w)
      BY <1>1, <2>1, <3>1, RowsUndisturbed
    <3> QED
      BY <1>1, <2>1, <2>4, <3>1, <3>2, OwnRowsLost DEF TxOf, RowOf
  <2> QED
    BY <1>1, <2>2, <2>3, <2>4
    DEF Next, Call, ClientStep, vars, tables, SendRegistration, CheckRegistered,
        RefuseUnregistered, SendLockJob, Return
<1>2. Inv /\ Inv' /\ [Next]_vars => [Lost]_vars
  BY <1>1
<1> QED
  BY <1>2, PartitionedInvariant, PTL DEF Spec, LostOnlyByOwnRequest

-----------------------------------------------------------------------------
(* What becomes of a transaction that has released its last lock.           *)

ObjectOf(t) == transactions[transactionTable[t]]

\* The worker of a registered transaction.
LEMMA WorkerOfTransaction ==
  ASSUME Partitioned, Inv, NEW v \in LockWorker, NEW t \in Transaction, InTx(v),
         worker[v].step # "releaseAll", Registered(t), worker[v].tx = transactionTable[t]
  PROVE  queue[v] # <<>> /\ TxOf(v) = t
  BY OwnTransaction DEF Tx, Inv, PartitionInv, Registrations

\* A step of another transaction's worker.
LEMMA ShrinkingElsewhere ==
  ASSUME Partitioned, Inv, ShrinkingHoldsLock, NEW w \in LockWorker, queue[w] # <<>>,
         TxFrame(w), LocalFrame(w), NEW t \in Transaction, t # TxOf(w),
         Registered(t)', Rows(t)' = {}, ~ObjectOf(t)'.growing_phase
  PROVE  \E v \in LockWorker : worker'[v].step \in {"release", "last"}
                                /\ worker'[v].tx = transactionTable'[t]
<1>1. Registered(t) /\ Rows(t) = {} /\ transactionTable'[t] = transactionTable[t]
  BY RowsUndisturbed DEF TxFrame
<1>2. ObjectOf(t)' = ObjectOf(t)
  <2>1. transactionTable[t] \in TxAddress /\ ObjectOf(t).transaction_id = t
    BY <1>1 DEF Inv, TypeInv, Tables, TablesOK, PartitionInv, Registrations, Registered, ObjectOf
  <2>2. InTx(w) => Tx(w).transaction_id = TxOf(w)
    BY OwnTransaction
  <2> QED
    BY <1>1, <2>1, <2>2 DEF TxFrame, Tx, ObjectOf
<1>3. PICK v \in LockWorker :
        worker[v].step \in {"release", "last"} /\ worker[v].tx = transactionTable[t]
  BY <1>1, <1>2 DEF ShrinkingHoldsLock, ObjectOf
<1>4. v # w
  BY <1>1, <1>3, WorkerOfTransaction DEF InTx
<1> QED
  BY <1>1, <1>3, <1>4 DEF LocalFrame

\* A step of its own worker that does not release.
LEMMA ShrinkingNotThere ==
  ASSUME Partitioned, Inv, ShrinkingHoldsLock, NEW w \in LockWorker, queue[w] # <<>>,
         worker[w].step \notin {"release", "last"},
         NEW t \in Transaction, t = TxOf(w), Registered(t), Rows(t) = {}
  PROVE  ObjectOf(t).growing_phase
<1> SUFFICES ASSUME ~ObjectOf(t).growing_phase PROVE FALSE
  OBVIOUS
<1>1. PICK v \in LockWorker :
        worker[v].step \in {"release", "last"} /\ worker[v].tx = transactionTable[t]
  BY DEF ShrinkingHoldsLock, ObjectOf
<1>2. queue[v] # <<>> /\ TxOf(v) = t
  BY <1>1, WorkerOfTransaction DEF InTx
<1> QED
  BY <1>1, <1>2, DifferentTransactions

LEMMA ShrinkingHere ==
  ASSUME Partitioned, Inv, ShrinkingHoldsLock, NEW w \in LockWorker, queue[w] # <<>>,
         LockWorkerStep(w), TxFrame(w), NEW t \in Transaction, t = TxOf(w),
         Registered(t)', Rows(t)' = {}, ~ObjectOf(t)'.growing_phase
  PROVE  worker'[w].step \in {"release", "last"} /\ worker'[w].tx = transactionTable'[t]
<1>1. worker \in [LockWorker -> WorkerState]
  BY DEF Inv, TypeInv, Workers
<1>2. ASSUME worker[w].step \notin {"release", "last"},
             UNCHANGED <<transactionTable, transactions>> PROVE FALSE
  <2>1. Registered(t) /\ Rows(t) = {} /\ ~ObjectOf(t).growing_phase
    BY <1>2 DEF Registered, Rows, ObjectOf
  <2> QED
    BY <1>2, <2>1, ShrinkingNotThere
<1>3. ASSUME InTx(w), worker[w].step # "releaseAll"
      PROVE  /\ transactionTable[t] = worker[w].tx /\ worker[w].tx \in TxAddress
             /\ Tx(w) \in TransactionObject(Transaction \cup {Null}, Row)
             /\ transactions \in [TxAddress -> TransactionObject(Transaction \cup {Null}, Row)]
  BY <1>3, OwnTransaction DEF Inv, TypeInv, Tables, TablesOK
<1>4. CASE EraseRow(w) \/ ReleaseLock(w)
  <2>1. worker[w].step \in {"erase", "release"} /\ UNCHANGED transactionTable
    BY <1>4 DEF EraseRow, ReleaseLock, At
  <2>2. worker'[w].step \in {"release", "last"} /\ worker'[w].tx = worker[w].tx
    BY <1>1, <1>4 DEF EraseRow, ReleaseLock, Goto, WorkerState
  <2> QED
    BY <1>3, <2>1, <2>2 DEF InTx
<1>5. CASE RecordLock(w)
  <2>1. /\ worker[w].step = "record" /\ UNCHANGED transactionTable
        /\ transactions' = [transactions EXCEPT ![worker[w].tx] = addRow(@, RowOf(w))]
    BY <1>5 DEF RecordLock, At, RowOf
  <2>2. RowOf(w) \in transactions'[worker[w].tx].locked_rows
    BY <1>3, <2>1 DEF InTx, Tx, addRow, TransactionObject
  <2> QED
    BY <1>3, <2>1, <2>2 DEF InTx, Rows, Registered
<1>6. CASE Unregister(w)
  <2>1. worker[w].step = "abort" /\ Tx(w).transaction_id = t
    BY <1>6, OwnTransaction DEF Unregister, At, InTx
  <2>2. transactionTable'[t] = Null
    BY <1>6, <2>1 DEF Unregister, Inv, TypeInv, Tables, TablesOK
  <2> QED
    BY <2>2 DEF Registered
<1>7. CASE DeleteAborted(w)
  <2>1. /\ worker[w].step = "releaseAll" /\ UNCHANGED transactionTable
        /\ transactionTable[t] # worker[w].tx
    BY <1>7 DEF DeleteAborted, At, Inv, PartitionInv, InWork, KnowsTx
  <2>2. Registered(t) /\ transactionTable[t] \in TxAddress
    BY <2>1 DEF Registered, Inv, TypeInv, Tables, TablesOK
  <2>3. ObjectOf(t)' = ObjectOf(t)
    BY <2>1, <2>2 DEF TxFrame, ObjectOf
  <2>4. Rows(t) = {}
    BY <2>1, <2>2, <2>3 DEF Rows, Registered, ObjectOf
  <2> QED
    BY <2>1, <2>2, <2>3, <2>4, ShrinkingNotThere
<1>8. CASE DeleteFinished(w)
  <2>1. worker[w].step = "last"
    BY <1>8 DEF DeleteFinished, At
  <2>2. CASE Tx(w).locked_rows = {}
    <3>1. transactionTable'[t] = Null
      BY <1>8, <2>2 DEF DeleteFinished, TxOf, Inv, TypeInv, Tables, TablesOK
    <3> QED
      BY <3>1 DEF Registered
  <2>3. CASE Tx(w).locked_rows # {}
    BY <1>3, <1>8, <2>1, <2>3 DEF DeleteFinished, InTx, Rows, Registered, Tx
  <2> QED
    BY <2>2, <2>3
<1> QED
  BY <1>2, <1>4, <1>5, <1>6, <1>7, <1>8
  DEF LockWorkerStep, FindTransaction, FindLock, Upgrade, AddLock, Refuse, ReleaseNext,
      FindLockToRelease, Reply, tables, At

LEMMA ShrinkingRegister ==
  ASSUME Partitioned, Inv, ShrinkingHoldsLock, Register
  PROVE  ShrinkingHoldsLock'
<1> SUFFICES ASSUME NEW t \in Transaction, Registered(t)', Rows(t)' = {},
                    ~ObjectOf(t)'.growing_phase
             PROVE  \E v \in LockWorker : worker'[v].step \in {"release", "last"}
                                           /\ worker'[v].tx = transactionTable'[t]
  BY DEF ShrinkingHoldsLock, ObjectOf
<1>1. worker' = worker
  BY DEF Register
<1>2. CASE UNCHANGED <<transactionTable, transactions>>
  BY <1>1, <1>2 DEF ShrinkingHoldsLock, ObjectOf, Registered, Rows
<1>3. CASE ~UNCHANGED <<transactionTable, transactions>>
  <2> DEFINE u == Head(queue[TxWorker]).transaction_id
  <2>1. PICK a \in TxAddress :
          /\ Unused(a)
          /\ transactions' = [transactions EXCEPT ![a] = newTransaction(u, LockBudget)]
          /\ transactionTable' = [transactionTable EXCEPT ![u] = a]
    BY <1>3 DEF Register
  <2>2. /\ transactions \in [TxAddress -> TransactionObject(Transaction \cup {Null}, Row)]
        /\ transactionTable \in [Transaction -> TxAddress \cup {Null}]
    BY DEF Inv, TypeInv, Tables, TablesOK
  <2>3. t # u
    BY <2>1, <2>2 DEF ObjectOf, newTransaction
  <2>4. transactionTable'[t] = transactionTable[t] /\ Registered(t)
    BY <2>1, <2>2, <2>3 DEF Registered
  <2>5. transactionTable[t] \in TxAddress /\ transactionTable[t] # a
    BY <2>1, <2>2, <2>4 DEF Registered, Unused, Inv, PartitionInv, Registrations
  <2>6. ObjectOf(t)' = ObjectOf(t)
    BY <2>1, <2>2, <2>4, <2>5 DEF ObjectOf
  <2>7. Rows(t) = {}
    BY <2>4, <2>6 DEF Rows, Registered, ObjectOf
  <2> QED
    BY <1>1, <2>4, <2>6, <2>7 DEF ShrinkingHoldsLock, ObjectOf
<1> QED
  BY <1>2, <1>3

\* A transaction that has started to shrink has a lock, or is about to be deleted by the
\* worker that released its last one: none stays registered that can do nothing.
THEOREM ShrinkingTransactionsHoldLocks ==
  ASSUME Partitioned
  PROVE  Spec => []ShrinkingHoldsLock
<1>1. Init => ShrinkingHoldsLock
  BY DEF Init, ShrinkingHoldsLock, Registered
<1>2. ASSUME Inv, Inv', ShrinkingHoldsLock, [Next]_vars PROVE ShrinkingHoldsLock'
  <2>1. CASE UNCHANGED <<transactionTable, transactions, worker>>
    BY <1>2, <2>1 DEF ShrinkingHoldsLock, Registered, Rows
  <2>2. CASE Register
    BY <1>2, <2>2, ShrinkingRegister
  <2>3. ASSUME NEW w \in LockWorker, LockWorkerStep(w) PROVE ShrinkingHoldsLock'
    <3>1. queue[w] # <<>> /\ TxFrame(w) /\ LocalFrame(w)
      BY <1>2, <2>3, StepOfWorkerKeeps DEF StepKeeps, Frame, Inv
    <3> SUFFICES ASSUME NEW t \in Transaction, Registered(t)', Rows(t)' = {},
                        ~ObjectOf(t)'.growing_phase
                 PROVE  \E v \in LockWorker : worker'[v].step \in {"release", "last"}
                                               /\ worker'[v].tx = transactionTable'[t]
      BY DEF ShrinkingHoldsLock, ObjectOf
    <3>2. CASE t = TxOf(w)
      BY <1>2, <2>3, <3>1, <3>2, ShrinkingHere
    <3>3. CASE t # TxOf(w)
      BY <1>2, <3>1, <3>3, ShrinkingElsewhere
    <3> QED
      BY <3>2, <3>3
  <2>4. ASSUME NEW c \in Client, Call(c) \/ ClientStep(c)
        PROVE  UNCHANGED <<transactionTable, transactions, worker>>
    BY <2>4 DEF Call, ClientStep, SendRegistration, CheckRegistered, RefuseUnregistered,
       SendLockJob, Return, tables
  <2> QED
    BY <1>2, <2>1, <2>2, <2>3, <2>4 DEF Next, vars, tables
<1> QED
  BY <1>1, <1>2, PartitionedInvariant, PTL DEF Spec

-----------------------------------------------------------------------------
(* The lock manager implements TwoPhaseLocking: every step of a thread is   *)
(* one step of the abstract specification or leaves phase and held as they  *)
(* are:                                                                     *)
(*                                                                          *)
(*   Register        Register(t)          RecordLock      Grant(t, r, mode) *)
(*   Upgrade         Upgrade(t, r)        EraseRow        Release(t, r)     *)
(*   Unregister      End(t)               DeleteFinished  End(t)            *)
(*                                                                          *)
(* A lock is granted when it is recorded in the transaction, and released   *)
(* when it is erased there; the lock object changes a step before or after. *)

AbstractVars == <<[t \in Transaction |-> PhaseOf(t)],
                  [t \in Transaction |-> [r \in Row |-> ModeOf(t, r)]]>>

AbstractStep == Abstract!Next \/ UNCHANGED AbstractVars

LEMMA AsStutter ==
  ASSUME \A u \in Transaction : PhaseOf(u)' = PhaseOf(u),
         \A u \in Transaction, s \in Row : ModeOf(u, s)' = ModeOf(u, s)
  PROVE  AbstractStep
  BY DEF AbstractStep, AbstractVars

LEMMA AsRegister ==
  ASSUME NEW t \in Transaction, PhaseOf(t) = "none", PhaseOf(t)' = "growing",
         \A u \in Transaction : u # t => PhaseOf(u)' = PhaseOf(u),
         \A u \in Transaction, s \in Row : ModeOf(u, s)' = ModeOf(u, s)
  PROVE  AbstractStep
<1>1. Abstract!Register(t)
  BY DEF Abstract!Register
<1> QED
  BY <1>1 DEF AbstractStep, Abstract!Next

LEMMA AsGrant ==
  ASSUME NEW t \in Transaction, NEW r \in Row, NEW mode \in {"shared", "exclusive"},
         PhaseOf(t) = "growing", ModeOf(t, r) = "none",
         \A u \in Transaction : u # t /\ ModeOf(u, r) # "none" =>
           mode = "shared" /\ ModeOf(u, r) = "shared",
         ModeOf(t, r)' = mode,
         \A u \in Transaction : PhaseOf(u)' = PhaseOf(u),
         \A u \in Transaction, s \in Row : u # t \/ s # r => ModeOf(u, s)' = ModeOf(u, s)
  PROVE  AbstractStep
<1>1. Abstract!Agrees(t, r, mode)
  BY DEF Abstract!Agrees
<1>2. Abstract!Grant(t, r, mode)
  BY <1>1 DEF Abstract!Grant
<1> QED
  BY <1>2 DEF AbstractStep, Abstract!Next

LEMMA AsUpgrade ==
  ASSUME NEW t \in Transaction, NEW r \in Row,
         PhaseOf(t) = "growing", ModeOf(t, r) = "shared",
         \A u \in Transaction : u # t => ModeOf(u, r) = "none",
         ModeOf(t, r)' = "exclusive",
         \A u \in Transaction : PhaseOf(u)' = PhaseOf(u),
         \A u \in Transaction, s \in Row : u # t \/ s # r => ModeOf(u, s)' = ModeOf(u, s)
  PROVE  AbstractStep
<1>1. Abstract!Agrees(t, r, "exclusive")
  BY DEF Abstract!Agrees
<1>2. Abstract!Upgrade(t, r)
  BY <1>1 DEF Abstract!Upgrade
<1> QED
  BY <1>2 DEF AbstractStep, Abstract!Next

LEMMA AsRelease ==
  ASSUME NEW t \in Transaction, NEW r \in Row,
         ModeOf(t, r) # "none", ModeOf(t, r)' = "none", PhaseOf(t)' = "shrinking",
         \A u \in Transaction : u # t => PhaseOf(u)' = PhaseOf(u),
         \A u \in Transaction, s \in Row : u # t \/ s # r => ModeOf(u, s)' = ModeOf(u, s)
  PROVE  AbstractStep
<1>1. Abstract!Release(t, r)
  BY DEF Abstract!Release
<1> QED
  BY <1>1 DEF AbstractStep, Abstract!Next

LEMMA AsEnd ==
  ASSUME NEW t \in Transaction, PhaseOf(t) # "none", PhaseOf(t)' = "none",
         \A s \in Row : ModeOf(t, s)' = "none",
         \A u \in Transaction : u # t => PhaseOf(u)' = PhaseOf(u),
         \A u \in Transaction, s \in Row : u # t => ModeOf(u, s)' = ModeOf(u, s)
  PROVE  AbstractStep
<1>1. Abstract!End(t)
  BY DEF Abstract!End, Abstract!Nothing
<1> QED
  BY <1>1 DEF AbstractStep, Abstract!Next

LEMMA InitAbstract == Init => Abstract!Init
<1> SUFFICES ASSUME Init PROVE Abstract!Init
  OBVIOUS
<1>1. \A t \in Transaction : PhaseOf(t) = "none" /\ \A r \in Row : ModeOf(t, r) = "none"
  BY DEF Init, PhaseOf, ModeOf, Holds, Rows, Registered
<1> QED
  BY <1>1 DEF Abstract!Init, Abstract!Nothing

-----------------------------------------------------------------------------
(* The invariant, with what a worker knows when it is about to record a     *)
(* lock: nothing that happened since AddLock changed the transaction.       *)

KnowsGrowing ==
  \A w \in LockWorker : worker[w].step = "record" =>
    Tx(w).growing_phase /\ RowOf(w) \notin Tx(w).locked_rows

LEMMA OnlyAddLockRecords ==
  ASSUME Partitioned, Inv, NEW w \in LockWorker, LockWorkerStep(w), worker'[w].step = "record"
  PROVE  AddLock(w)
<1>1. \A step : Goto(w, step) => worker'[w].step = step
  BY DEF Goto, Inv, TypeInv, Workers, WorkerState
<1>2. \A ok : Finish(w, ok) => worker'[w].step = "reply"
  BY DEF Finish, IdleWorker, Inv, TypeInv, Workers
<1>3. ~Refuse(w) /\ ~Unregister(w) /\ ~ReleaseLock(w)
  BY <1>1 DEF Refuse, Unregister, ReleaseLock
<1>4. ~Upgrade(w) /\ ~RecordLock(w) /\ ~DeleteAborted(w) /\ ~DeleteFinished(w)
  BY <1>2 DEF Upgrade, RecordLock, DeleteAborted, DeleteFinished
<1>5. ~FindLockToRelease(w) /\ ~EraseRow(w)
  BY <1>1, <1>2 DEF FindLockToRelease, EraseRow
<1>6. ~FindTransaction(w) /\ ~FindLock(w) /\ ~ReleaseNext(w) /\ ~Reply(w)
  <2>1. /\ worker \in [LockWorker -> WorkerState]
        /\ w \in LockWorker
    BY DEF Inv, TypeInv, Workers
  <2>2. ~FindTransaction(w)
    BY <1>2, <2>1 DEF FindTransaction, WorkerState
  <2>3. ~FindLock(w)
    BY <2>1 DEF FindLock, WorkerState
  <2>4. ~ReleaseNext(w)
    BY <2>1 DEF ReleaseNext, At, WorkerState
  <2>5. ~Reply(w)
    BY <2>1 DEF Reply, IdleWorker
  <2> QED
    BY <2>2, <2>3, <2>4, <2>5
<1> QED
  BY <1>3, <1>4, <1>5, <1>6 DEF LockWorkerStep

LEMMA GrowingStep ==
  ASSUME Partitioned, Inv, Inv', KnowsGrowing, [Next]_vars
  PROVE  KnowsGrowing'
<1>1. ASSUME NEW w \in LockWorker, LockWorkerStep(w), NEW v \in LockWorker,
             worker'[v].step = "record"
      PROVE  (Tx(v).growing_phase /\ RowOf(v) \notin Tx(v).locked_rows)'
  <2>1. queue[w] # <<>> /\ Frame(w)
    BY <1>1, StepOfWorkerKeeps DEF StepKeeps, Inv
  <2>2. CASE v # w
    <3>1. worker'[v] = worker[v] /\ queue'[v] = queue[v] /\ InTx(v)
      BY <1>1, <2>1, <2>2 DEF Frame, LocalFrame, InTx
    <3>2. Tx(v)' = Tx(v)
      BY <2>1, <2>2, <3>1, TxUndisturbed DEF Frame
    <3> QED
      BY <1>1, <3>1, <3>2 DEF KnowsGrowing, RowOf, JobOf
  <2>3. CASE v = w
    <3>1. AddLock(w)
      BY <1>1, <2>3, OnlyAddLockRecords
    <3>2. Goto(w, "record") /\ MayAdd(w) /\ UNCHANGED <<transactions, queue>>
      BY <3>1 DEF AddLock
    <3>3. worker'[w].tx = worker[w].tx /\ SameJob(w)
      BY <3>2, GotoEffect
    <3> QED
      BY <2>3, <3>2, <3>3 DEF MayAdd, hasLock, Tx, RowOf, SameJob
  <2> QED
    BY <2>2, <2>3
<1>2. ASSUME SeenKept PROVE KnowsGrowing'
  <2> SUFFICES ASSUME NEW w \in LockWorker, worker'[w].step = "record"
               PROVE  (Tx(w).growing_phase /\ RowOf(w) \notin Tx(w).locked_rows)'
    BY DEF KnowsGrowing
  <2>1. worker'[w] = worker[w] /\ InTx(w)
    BY <1>2 DEF SeenKept, JobsInWorkKept, InTx
  <2>2. queue[w] # <<>>
    BY <2>1, OwnTransaction
  <2>3. RowOf(w)' = RowOf(w) /\ Tx(w)' = Tx(w)
    BY <1>2, <2>1, <2>2 DEF SeenKept, JobsInWorkKept, TransactionsSeenKept, RowOf
  <2> QED
    BY <2>1, <2>3 DEF KnowsGrowing
<1>3. UNCHANGED vars => SeenKept
  BY QuietSeen DEF vars
<1> QED
  BY <1>1, <1>2, <1>3, ClientSeen, RegisterSeen DEF Next, KnowsGrowing

-----------------------------------------------------------------------------
(* What a step means for phases and modes.                                  *)

\* A transaction that shares an exclusive lock's owners is its owner.
LEMMA ExclusiveOwner ==
  ASSUME Inv, NEW r \in Row, Exclusive(r), NEW t \in Owners(r), NEW u \in Owners(r)
  PROVE  t = u
<1>1. lockTable[r] \in LockAddress /\ locks[lockTable[r]].exclusive
  BY DEF Exclusive, Inv, TypeInv, Tables, TablesOK
<1> QED
  BY <1>1 DEF Inv, LocksCompatible, Compatible, Owners

LEMMA HolderOwns ==
  ASSUME Inv, NEW u \in Transaction, NEW r, Holds(u, r)
  PROVE  r \in Row /\ u \in Owners(r)
  BY DEF Inv, PartitionInv, HoldersOwnTheirLocks, Holds, TypeInv, Tables, TablesOK,
         TransactionObject, Rows, Registered

LEMMA ModesKept ==
  ASSUME NEW u \in Transaction, Rows(u)' = Rows(u),
         \A s \in Row : Holds(u, s) => Exclusive(s)' = Exclusive(s)
  PROVE  \A s \in Row : ModeOf(u, s)' = ModeOf(u, s)
  BY DEF ModeOf, Holds

LEMMA PhaseUndisturbed ==
  ASSUME Partitioned, Inv, NEW w \in LockWorker, queue[w] # <<>>, TxFrame(w),
         NEW u \in Transaction, u # TxOf(w)
  PROVE  PhaseOf(u)' = PhaseOf(u)
<1>1. transactionTable'[u] = transactionTable[u]
  BY DEF TxFrame
<1>2. ASSUME Registered(u)
      PROVE  transactions'[transactionTable[u]] = transactions[transactionTable[u]]
  <2>1. transactionTable[u] \in TxAddress
    BY <1>2 DEF Inv, TypeInv, Tables, TablesOK, Registered
  <2>2. InTx(w) => transactionTable[u] # worker[w].tx
    BY NobodyElse
  <2> QED
    BY <2>1, <2>2 DEF TxFrame
<1> QED
  BY <1>1, <1>2 DEF PhaseOf, Registered

\* A step that changes no transaction, and no lock's mode behind a holder's back.
LEMMA LocksOnly ==
  ASSUME UNCHANGED <<transactionTable, transactions>>,
         \A u \in Transaction, s \in Row : Holds(u, s) => Exclusive(s)' = Exclusive(s)
  PROVE  AbstractStep
<1>1. \A u \in Transaction : PhaseOf(u)' = PhaseOf(u)
  BY DEF PhaseOf, Registered
<1>2. \A u \in Transaction : Rows(u)' = Rows(u)
  BY DEF Rows, Registered
<1>3. \A u \in Transaction, s \in Row : ModeOf(u, s)' = ModeOf(u, s)
  BY <1>2, ModesKept
<1> QED
  BY <1>1, <1>3, AsStutter

\* A step that changes no lock, for the transactions other than that of its job.
LEMMA TransactionOnly ==
  ASSUME Partitioned, Inv, NEW w \in LockWorker, queue[w] # <<>>, TxFrame(w),
         UNCHANGED <<lockTable, locks>>
  PROVE  /\ \A s \in Row : Exclusive(s)' = Exclusive(s)
         /\ \A u \in Transaction : u # TxOf(w) => PhaseOf(u)' = PhaseOf(u)
         /\ \A u \in Transaction, s \in Row : u # TxOf(w) => ModeOf(u, s)' = ModeOf(u, s)
<1>1. \A s \in Row : Exclusive(s)' = Exclusive(s)
  BY DEF Exclusive
<1>2. \A u \in Transaction : u # TxOf(w) => Rows(u)' = Rows(u)
  BY RowsUndisturbed
<1>3. \A u \in Transaction, s \in Row : u # TxOf(w) => ModeOf(u, s)' = ModeOf(u, s)
  BY <1>1, <1>2, ModesKept
<1> QED
  BY <1>1, <1>3, PhaseUndisturbed

LEMMA QuietAbstract ==
  ASSUME UNCHANGED tables
  PROVE  AbstractStep
<1>1. \A s \in Row : Exclusive(s)' = Exclusive(s)
  BY DEF tables, Exclusive
<1> QED
  BY <1>1, LocksOnly DEF tables

-----------------------------------------------------------------------------
(* The steps of a worker that change a lock.                                *)

LEMMA FindLockAbstract ==
  ASSUME Partitioned, Inv, NEW w \in LockWorker, FindLock(w)
  PROVE  AbstractStep
<1>1. UNCHANGED <<transactionTable, transactions>>
  BY DEF FindLock
<1>2. ASSUME NEW u \in Transaction, NEW s \in Row, Holds(u, s)
      PROVE  Exclusive(s)' = Exclusive(s)
  <2>1. /\ lockTable[s] # Null
        /\ lockTable \in [Row -> LockAddress \cup {Null}]
        /\ locks \in [LockAddress -> LockRecord(Transaction)]
    BY <1>2, HolderOwns DEF Owners, Inv, TypeInv, Tables, TablesOK
  <2>2. lockTable'[s] = lockTable[s] /\ locks'[lockTable[s]] = locks[lockTable[s]]
    BY <2>1 DEF FindLock, Allocatable
  <2> QED
    BY <2>2 DEF Exclusive
<1> QED
  BY <1>1, <1>2, LocksOnly

LEMMA AddLockAbstract ==
  ASSUME Partitioned, Inv, NEW w \in LockWorker, AddLock(w)
  PROVE  AbstractStep
<1>1. /\ worker[w].step = "decide" /\ MayAdd(w)
      /\ UNCHANGED <<transactionTable, lockTable, transactions>>
  BY DEF AddLock, At
<1>2. PICK r \in Row :
        /\ r = RowOf(w)
        /\ lockTable[r] # Null
        /\ lockTable[r] = worker[w].lock
        /\ locks[lockTable[r]] \in LockRecord(Transaction)
        /\ Owners(r) = locks[lockTable[r]].owners
  BY <1>1, LockInHand
<1> DEFINE lock == IF JobOf(w).command = "EXCLUSIVE"
                   THEN getExclusiveAccess(locks[lockTable[r]], Tx(w).transaction_id)
                   ELSE getSharedAccess(locks[lockTable[r]], Tx(w).transaction_id)
<1>3. LockUpdate(r, lock)
  BY <1>2 DEF AddLock, LockUpdate
<1>4. /\ lock.exclusive \in BOOLEAN
      /\ Owners(r) # {} => lock.exclusive = locks[lockTable[r]].exclusive
  BY <1>1, <1>2
  DEF MayAdd, CanOwnExclusively, getExclusiveAccess, getSharedAccess, LockRecord
<1> HIDE DEF lock
<1>5. /\ Exclusive(r)' <=> lock.exclusive
      /\ \A s \in Row : s # r => Exclusive(s)' = Exclusive(s)
  BY <1>2, <1>3, <1>4, LockChanged
<1>6. ASSUME NEW u \in Transaction, NEW s \in Row, Holds(u, s)
      PROVE  Exclusive(s)' = Exclusive(s)
  <2>1. CASE s = r
    <3>1. Owners(r) # {}
      BY <1>6, <2>1, HolderOwns
    <3>2. Exclusive(r) <=> lock.exclusive
      BY <1>2, <1>4, <3>1 DEF Exclusive
    <3>3. Exclusive(r)' \in BOOLEAN /\ Exclusive(r) \in BOOLEAN
      BY <1>1, <1>2, <1>3, <1>4, <1>5 DEF Exclusive, LockRecord
    <3> QED
      BY <1>5, <2>1, <3>2, <3>3
  <2>2. CASE s # r
    BY <1>5, <2>2
  <2> QED
    BY <2>1, <2>2
<1> QED
  BY <1>1, <1>6, LocksOnly

LEMMA UpgradeAbstract ==
  ASSUME Partitioned, Inv, NEW w \in LockWorker, Upgrade(w)
  PROVE  AbstractStep
<1>1. /\ worker[w].step = "decide" /\ MayUpgrade(w)
      /\ locks' = [locks EXCEPT ![worker[w].lock] = upgrade(@)]
      /\ UNCHANGED <<transactionTable, lockTable, transactions>>
  BY DEF Upgrade, At
<1>2. PICK t \in Transaction, r \in Row :
        /\ t = TxOf(w) /\ r = RowOf(w)
        /\ Tx(w).transaction_id = t
        /\ Rows(t) = Tx(w).locked_rows
        /\ lockTable[r] # Null
        /\ lockTable[r] = worker[w].lock
        /\ locks[lockTable[r]] \in LockRecord(Transaction)
        /\ Owners(r) = locks[lockTable[r]].owners
  BY <1>1, LockInHand
<1>3. Registered(t) /\ transactionTable[t] = worker[w].tx
  BY <1>1, <1>2, OwnTransaction DEF InTx
<1>4. /\ Tx(w).growing_phase
      /\ Holds(t, r)
      /\ ~locks[lockTable[r]].exclusive
      /\ Owners(r) = {t}
  BY <1>1, <1>2 DEF MayUpgrade, Upgrades, hasLock, CanUpgrade, Holds, RowOf
<1> DEFINE lock == upgrade(locks[lockTable[r]])
<1>5. LockUpdate(r, lock)
  BY <1>1, <1>2 DEF LockUpdate
<1>6. lock.exclusive \in BOOLEAN /\ lock.exclusive = TRUE
  BY <1>2 DEF upgrade, LockRecord
<1> HIDE DEF lock
<1>7. Exclusive(r)' /\ \A s \in Row : s # r => Exclusive(s)' = Exclusive(s)
  BY <1>2, <1>5, <1>6, LockChanged
<1>8. \A u \in Transaction : Rows(u)' = Rows(u) /\ PhaseOf(u)' = PhaseOf(u)
  BY <1>1 DEF Rows, Registered, PhaseOf
<1>9. \A u \in Transaction : u # t => ~Holds(u, r)
  BY <1>4, HolderOwns
<1>10. PhaseOf(t) = "growing"
  BY <1>3, <1>4 DEF PhaseOf, Tx
<1>11. ModeOf(t, r) = "shared" /\ ModeOf(t, r)' = "exclusive"
  BY <1>4, <1>7, <1>8 DEF ModeOf, Holds, Exclusive
<1>12. \A u \in Transaction : u # t => ModeOf(u, r) = "none"
  BY <1>9 DEF ModeOf
<1>13. \A u \in Transaction, s \in Row : u # t \/ s # r => ModeOf(u, s)' = ModeOf(u, s)
  BY <1>7, <1>8, <1>9 DEF ModeOf, Holds
<1> QED
  BY <1>8, <1>10, <1>11, <1>12, <1>13, AsUpgrade

LEMMA ReleaseAbstract ==
  ASSUME Partitioned, Inv, NEW w \in LockWorker, queue[w] # <<>>,
         NEW t \in Transaction, t = TxOf(w), NEW r \in Row, RowWorker[r] = w, t \in Owners(r),
         ~Holds(t, r), RowRelease(r, t), UNCHANGED <<transactionTable, transactions>>
  PROVE  AbstractStep
<1>1. /\ ~Exclusive(r)'
      /\ \A s \in Row : s # r => Exclusive(s)' = Exclusive(s)
  BY RowReleased
<1>2. ASSUME NEW u \in Transaction, Holds(u, r) PROVE ~Exclusive(r)
  BY <1>2, HolderOwns, ExclusiveOwner
<1>3. ASSUME NEW u \in Transaction, NEW s \in Row, Holds(u, s)
      PROVE  ModeOf(u, s)' = ModeOf(u, s)
  <2>1. Rows(u)' = Rows(u)
    BY DEF Rows, Registered
  <2> QED
    BY <1>1, <1>2, <1>3, <2>1 DEF ModeOf, Holds
<1>4. \A u \in Transaction : PhaseOf(u)' = PhaseOf(u) /\ Rows(u)' = Rows(u)
  BY DEF PhaseOf, Rows, Registered
<1>5. \A u \in Transaction, s \in Row : ModeOf(u, s)' = ModeOf(u, s)
  BY <1>3, <1>4 DEF ModeOf, Holds
<1> QED
  BY <1>4, <1>5, AsStutter

LEMMA ReleaseLockAbstract ==
  ASSUME Partitioned, Inv, NEW w \in LockWorker, ReleaseLock(w)
  PROVE  AbstractStep
<1>1. /\ worker[w].step = "release"
      /\ UNCHANGED <<transactionTable, transactions>>
  BY DEF ReleaseLock, At
<1>2. InTx(w) /\ queue[w] # <<>>
  BY <1>1, OwnTransaction DEF InTx
<1>3. PICK t \in Transaction, r \in Row : t = TxOf(w) /\ r = RowOf(w) /\ RowWorker[r] = w
  BY <1>2, JobIs
<1>4. t \in Owners(r) /\ ~Holds(t, r)
  BY <1>1, <1>3 DEF Inv, PartitionInv, InWork, KnowsLock
<1>5. Tx(w).transaction_id = t
  BY <1>2, <1>3, OwnTransaction
<1>6. RowRelease(r, t)
  BY <1>3, <1>5 DEF ReleaseLock, RowOf, RowRelease
<1> QED
  BY <1>1, <1>2, <1>3, <1>4, <1>6, ReleaseAbstract

LEMMA ReleaseNextAbstract ==
  ASSUME Partitioned, Inv, NEW w \in LockWorker, ReleaseNext(w)
  PROVE  AbstractStep
<1>1. /\ worker[w].step = "releaseAll"
      /\ UNCHANGED <<transactionTable, transactions>>
  BY DEF ReleaseNext, At
<1>2. InTx(w) /\ queue[w] # <<>>
  BY <1>1, OwnTransaction DEF InTx
<1>3. PICK t \in Transaction : t = TxOf(w)
  BY <1>2, JobIs
<1>4. Tx(w).transaction_id = t
  BY <1>2, <1>3, OwnTransaction
<1>5. PICK r \in RowAfter(w) : RowRelease(r, t)
  BY <1>4 DEF ReleaseNext, RowRelease
<1>6. r \in Row /\ RowWorker[r] = w
  BY <1>2, OwnTransaction DEF RowAfter
<1>7. t \in Owners(r) /\ ~Holds(t, r)
  BY <1>1, <1>3 DEF Inv, PartitionInv, InWork, KnowsTx, Holds
<1> QED
  BY <1>1, <1>2, <1>3, <1>5, <1>6, <1>7, ReleaseAbstract

-----------------------------------------------------------------------------
(* The steps of a worker that change its transaction.                       *)

\* The phase of the transaction of w's job, before and after its object becomes `x'.
LEMMA OwnPhase ==
  ASSUME Partitioned, Inv, NEW w \in LockWorker, InTx(w), worker[w].step # "releaseAll",
         NEW t \in Transaction, t = TxOf(w)
  PROVE  PhaseOf(t) = IF Tx(w).growing_phase THEN "growing" ELSE "shrinking"
<1>1. transactionTable[t] = worker[w].tx /\ Registered(t)
  BY OwnTransaction
<1> QED
  BY <1>1 DEF PhaseOf, Tx

LEMMA OwnPhaseAfter ==
  ASSUME Partitioned, Inv, NEW w \in LockWorker, InTx(w), worker[w].step # "releaseAll",
         NEW t \in Transaction, t = TxOf(w), NEW x,
         transactions' = [transactions EXCEPT ![worker[w].tx] = x],
         UNCHANGED transactionTable
  PROVE  PhaseOf(t)' = IF x.growing_phase THEN "growing" ELSE "shrinking"
<1>1. transactionTable[t] = worker[w].tx /\ Registered(t) /\ worker[w].tx \in TxAddress
  BY OwnTransaction
<1>2. transactions'[worker[w].tx] = x
  BY <1>1 DEF Inv, TypeInv, Tables, TablesOK
<1> QED
  BY <1>1, <1>2 DEF PhaseOf, Registered

LEMMA RecordLockAbstract ==
  ASSUME Partitioned, Inv, KnowsGrowing, NEW w \in LockWorker, RecordLock(w)
  PROVE  AbstractStep
<1>1. /\ worker[w].step = "record"
      /\ transactions' = [transactions EXCEPT ![worker[w].tx] = addRow(@, JobOf(w).row_id)]
      /\ UNCHANGED <<transactionTable, lockTable, locks>>
  BY DEF RecordLock, At
<1>2. InTx(w) /\ queue[w] # <<>> /\ worker[w].step # "releaseAll"
  BY <1>1, OwnTransaction DEF InTx
<1>3. PICK t \in Transaction, r \in Row :
        t = TxOf(w) /\ r = RowOf(w) /\ RowWorker[r] = w /\ Asked(t, r)
  BY <1>2, JobIs
<1>4. /\ Tx(w) \in TransactionObject(Transaction \cup {Null}, Row)
      /\ Tx(w).live /\ Tx(w).transaction_id = t
      /\ Rows(t) = Tx(w).locked_rows
      /\ worker[w].tx \in TxAddress
  BY <1>2, <1>3, OwnTransaction
<1>5. Tx(w).growing_phase /\ r \notin Rows(t)
  BY <1>1, <1>3, <1>4 DEF KnowsGrowing
<1>6. t \in Owners(r)
  BY <1>1, <1>3 DEF Inv, PartitionInv, InWork, KnowsLock
<1> DEFINE x == addRow(Tx(w), r)
<1>7. /\ x.live /\ x.transaction_id = t /\ x.growing_phase = Tx(w).growing_phase
      /\ x.locked_rows = Rows(t) \cup {r}
  BY <1>4 DEF addRow, TransactionObject
<1>8. transactions' = [transactions EXCEPT ![worker[w].tx] = x]
  BY <1>1, <1>3 DEF Tx, RowOf
<1>9. \A s \in x.locked_rows : Asked(t, s)
  BY <1>3, <1>4, <1>7 DEF Inv, PartitionInv, Registrations, Tx
<1> HIDE DEF x
<1>10. UNCHANGED transactionTable
  BY <1>1
<1>11. TxFrame(w) /\ Rows(t)' = x.locked_rows
  BY <1>2, <1>3, <1>7, <1>8, <1>9, <1>10, ObjectChanged
<1>12. PhaseOf(t) = "growing" /\ PhaseOf(t)' = "growing"
  BY <1>2, <1>3, <1>5, <1>7, <1>8, <1>10, OwnPhase, OwnPhaseAfter
<1>13. /\ \A s \in Row : Exclusive(s)' = Exclusive(s)
       /\ \A u \in Transaction : u # TxOf(w) => PhaseOf(u)' = PhaseOf(u)
       /\ \A u \in Transaction, s \in Row : u # TxOf(w) => ModeOf(u, s)' = ModeOf(u, s)
  BY <1>1, <1>2, <1>11, TransactionOnly
<1> DEFINE mode == IF Exclusive(r) THEN "exclusive" ELSE "shared"
<1>14. ModeOf(t, r) = "none" /\ ModeOf(t, r)' = mode
  BY <1>5, <1>7, <1>11, <1>13 DEF ModeOf, Holds
<1>15. \A s \in Row : s # r => ModeOf(t, s)' = ModeOf(t, s)
  BY <1>7, <1>11, <1>13 DEF ModeOf, Holds
<1>16. ASSUME NEW u \in Transaction, u # t, ModeOf(u, r) # "none"
       PROVE  mode = "shared" /\ ModeOf(u, r) = "shared"
  <2>1. Holds(u, r)
    BY <1>16 DEF ModeOf
  <2>2. ~Exclusive(r)
    BY <1>6, <1>16, <2>1, HolderOwns, ExclusiveOwner
  <2> QED
    BY <2>1, <2>2 DEF ModeOf
<1>17. mode \in {"shared", "exclusive"}
  OBVIOUS
<1> HIDE DEF mode
<1>18. /\ \A u \in Transaction : PhaseOf(u)' = PhaseOf(u)
       /\ \A u \in Transaction, s \in Row : u # t \/ s # r => ModeOf(u, s)' = ModeOf(u, s)
  BY <1>3, <1>12, <1>13, <1>15
<1> QED
  BY <1>12, <1>14, <1>16, <1>17, <1>18, AsGrant

LEMMA EraseRowAbstract ==
  ASSUME Partitioned, Inv, NEW w \in LockWorker, EraseRow(w)
  PROVE  AbstractStep
<1>1. /\ worker[w].step = "erase"
      /\ UNCHANGED <<transactionTable, lockTable, locks>>
  BY DEF EraseRow, At
<1>2. InTx(w) /\ queue[w] # <<>> /\ worker[w].step # "releaseAll"
  BY <1>1, OwnTransaction DEF InTx
<1>3. PICK t \in Transaction, r \in Row :
        t = TxOf(w) /\ r = RowOf(w) /\ RowWorker[r] = w /\ Asked(t, r)
  BY <1>2, JobIs
<1>4. /\ Tx(w) \in TransactionObject(Transaction \cup {Null}, Row)
      /\ Tx(w).live /\ Tx(w).transaction_id = t
      /\ Rows(t) = Tx(w).locked_rows
      /\ worker[w].tx \in TxAddress
  BY <1>2, <1>3, OwnTransaction
<1>5. CASE hasLock(Tx(w), r)
  <2>1. transactions' = [transactions EXCEPT ![worker[w].tx] = eraseRow(@, r)]
    BY <1>3, <1>5 DEF EraseRow, RowOf
  <2> DEFINE x == eraseRow(Tx(w), r)
  <2>2. /\ x.live /\ x.transaction_id = t /\ x.growing_phase = FALSE
        /\ x.locked_rows = Rows(t) \ {r}
    BY <1>4 DEF eraseRow, TransactionObject
  <2>3. transactions' = [transactions EXCEPT ![worker[w].tx] = x]
    BY <2>1 DEF Tx
  <2>4. \A s \in x.locked_rows : Asked(t, s)
    BY <1>4, <2>2 DEF Inv, PartitionInv, Registrations, Tx
  <2> HIDE DEF x
  <2>5. UNCHANGED transactionTable
    BY <1>1
  <2>6. TxFrame(w) /\ Rows(t)' = x.locked_rows
    BY <1>2, <1>3, <2>2, <2>3, <2>4, <2>5, ObjectChanged
  <2>7. PhaseOf(t)' = "shrinking"
    BY <1>2, <1>3, <2>2, <2>3, <2>5, OwnPhaseAfter
  <2>8. /\ \A s \in Row : Exclusive(s)' = Exclusive(s)
        /\ \A u \in Transaction : u # t => PhaseOf(u)' = PhaseOf(u)
        /\ \A u \in Transaction, s \in Row : u # t => ModeOf(u, s)' = ModeOf(u, s)
    BY <1>1, <1>2, <1>3, <2>6, TransactionOnly
  <2>9. ModeOf(t, r) # "none" /\ ModeOf(t, r)' = "none"
    BY <1>4, <1>5, <2>2, <2>6 DEF ModeOf, Holds, hasLock
  <2>10. \A s \in Row : s # r => ModeOf(t, s)' = ModeOf(t, s)
    BY <2>2, <2>6, <2>8 DEF ModeOf, Holds
  <2>11. \A u \in Transaction, s \in Row : u # t \/ s # r => ModeOf(u, s)' = ModeOf(u, s)
    BY <2>8, <2>10
  <2> QED
    BY <2>7, <2>8, <2>9, <2>11, AsRelease
<1>6. CASE ~hasLock(Tx(w), r)
  <2>1. UNCHANGED tables
    BY <1>1, <1>3, <1>6 DEF EraseRow, RowOf, tables
  <2> QED
    BY <2>1, QuietAbstract
<1> QED
  BY <1>5, <1>6

LEMMA UnregisterAbstract ==
  ASSUME Partitioned, Inv, NEW w \in LockWorker, Unregister(w)
  PROVE  AbstractStep
<1>1. /\ worker[w].step = "abort"
      /\ UNCHANGED <<lockTable, transactions, locks>>
  BY DEF Unregister, At
<1>2. InTx(w) /\ queue[w] # <<>> /\ worker[w].step # "releaseAll"
  BY <1>1, OwnTransaction DEF InTx
<1>3. PICK t \in Transaction : t = TxOf(w)
  BY <1>2, JobIs
<1>4. Tx(w).transaction_id = t /\ transactionTable \in [Transaction -> TxAddress \cup {Null}]
  BY <1>2, <1>3, OwnTransaction DEF Inv, TypeInv, Tables, TablesOK
<1>5. transactionTable' = [transactionTable EXCEPT ![t] = Null]
  BY <1>4 DEF Unregister
<1>6. TxFrame(w)
  BY <1>1, <1>3, <1>4, <1>5 DEF TxFrame
<1>7. PhaseOf(t)' = "none" /\ \A s \in Row : ModeOf(t, s)' = "none"
  BY <1>4, <1>5 DEF PhaseOf, ModeOf, Holds, Rows, Registered
<1>8. PhaseOf(t) # "none"
  BY <1>2, <1>3, OwnPhase
<1>9. /\ \A u \in Transaction : u # t => PhaseOf(u)' = PhaseOf(u)
      /\ \A u \in Transaction, s \in Row : u # t => ModeOf(u, s)' = ModeOf(u, s)
  BY <1>1, <1>2, <1>3, <1>6, TransactionOnly
<1> QED
  BY <1>7, <1>8, <1>9, AsEnd

LEMMA DeleteAbortedAbstract ==
  ASSUME Partitioned, Inv, NEW w \in LockWorker, DeleteAborted(w)
  PROVE  AbstractStep
<1>1. /\ worker[w].step = "releaseAll"
      /\ transactions' = [transactions EXCEPT ![worker[w].tx] = deleted(Null)]
      /\ UNCHANGED <<transactionTable, lockTable, locks>>
  BY DEF DeleteAborted, At
<1>2. InTx(w) /\ InWork(w) /\ worker[w].tx \in TxAddress
  BY <1>1, OwnTransaction DEF InTx, Inv, PartitionInv
<1>3. \A u \in Transaction : transactionTable[u] # worker[w].tx
  BY <1>1, <1>2 DEF InWork, KnowsTx
<1>4. \A u \in Transaction : Registered(u) =>
        transactions'[transactionTable[u]] = transactions[transactionTable[u]]
  BY <1>1, <1>3 DEF Inv, TypeInv, Tables, TablesOK, Registered
<1>5. \A u \in Transaction : PhaseOf(u)' = PhaseOf(u) /\ Rows(u)' = Rows(u)
  BY <1>1, <1>4 DEF PhaseOf, Rows, Registered
<1>6. \A s \in Row : Exclusive(s)' = Exclusive(s)
  BY <1>1 DEF Exclusive
<1>7. \A u \in Transaction, s \in Row : ModeOf(u, s)' = ModeOf(u, s)
  BY <1>5, <1>6, ModesKept
<1> QED
  BY <1>5, <1>7, AsStutter

LEMMA DeleteFinishedAbstract ==
  ASSUME Partitioned, Inv, NEW w \in LockWorker, DeleteFinished(w)
  PROVE  AbstractStep
<1>1. worker[w].step = "last" /\ UNCHANGED <<lockTable, locks>>
  BY DEF DeleteFinished, At
<1>2. InTx(w) /\ queue[w] # <<>> /\ worker[w].step # "releaseAll"
  BY <1>1, OwnTransaction DEF InTx
<1>3. PICK t \in Transaction : t = TxOf(w)
  BY <1>2, JobIs
<1>4. CASE Tx(w).locked_rows = {}
  <2>1. /\ transactionTable' = [transactionTable EXCEPT ![t] = Null]
        /\ transactions' = [transactions EXCEPT ![worker[w].tx] = deleted(Null)]
    BY <1>3, <1>4 DEF DeleteFinished, TxOf
  <2>2. /\ transactionTable \in [Transaction -> TxAddress \cup {Null}]
        /\ transactions \in [TxAddress -> TransactionObject(Transaction \cup {Null}, Row)]
    BY DEF Inv, TypeInv, Tables, TablesOK
  <2>3. TxFrame(w)
    BY <1>2, <1>3, <2>1, <2>2 DEF TxFrame
  <2>4. PhaseOf(t)' = "none" /\ \A s \in Row : ModeOf(t, s)' = "none"
    BY <2>1, <2>2 DEF PhaseOf, ModeOf, Holds, Rows, Registered
  <2>5. PhaseOf(t) # "none"
    BY <1>2, <1>3, OwnPhase
  <2>6. /\ \A u \in Transaction : u # t => PhaseOf(u)' = PhaseOf(u)
        /\ \A u \in Transaction, s \in Row : u # t => ModeOf(u, s)' = ModeOf(u, s)
    BY <1>1, <1>2, <1>3, <2>3, TransactionOnly
  <2> QED
    BY <2>4, <2>5, <2>6, AsEnd
<1>5. CASE Tx(w).locked_rows # {}
  <2>1. UNCHANGED tables
    BY <1>1, <1>5 DEF DeleteFinished, tables
  <2> QED
    BY <2>1, QuietAbstract
<1> QED
  BY <1>4, <1>5

-----------------------------------------------------------------------------
(* Every step.                                                              *)

LEMMA RegisterAbstract ==
  ASSUME Partitioned, Inv, Register
  PROVE  AbstractStep
<1>1. queue[TxWorker] # <<>> /\ UNCHANGED <<lockTable, locks>>
  BY DEF Register
<1>2. CASE UNCHANGED <<transactionTable, transactions>>
  BY <1>1, <1>2, QuietAbstract DEF tables
<1>3. CASE ~UNCHANGED <<transactionTable, transactions>>
  <2>1. PICK t \in Transaction, a \in TxAddress :
          /\ transactionTable[t] = Null
          /\ Unused(a)
          /\ transactions' = [transactions EXCEPT ![a] = newTransaction(t, LockBudget)]
          /\ transactionTable' = [transactionTable EXCEPT ![t] = a]
    <3>1. Head(queue[TxWorker]) \in RegisterJob
      BY <1>1, HeadTail DEF Inv, TypeInv, QueuesOK
    <3>2. Head(queue[TxWorker]).transaction_id \in Transaction
      BY <3>1 DEF RegisterJob
    <3> QED
      BY <1>3, <3>2 DEF Register
  <2>2. /\ transactionTable \in [Transaction -> TxAddress \cup {Null}]
        /\ transactions \in [TxAddress -> TransactionObject(Transaction \cup {Null}, Row)]
    BY DEF Inv, TypeInv, Tables, TablesOK
  <2>3. PhaseOf(t) = "none" /\ PhaseOf(t)' = "growing"
    BY <2>1, <2>2, NullAssumption DEF PhaseOf, Registered, newTransaction
  <2>4. ASSUME NEW u \in Transaction, u # t PROVE PhaseOf(u)' = PhaseOf(u)
    <3>1. transactionTable'[u] = transactionTable[u]
      BY <2>1, <2>2, <2>4
    <3>2. Registered(u) => transactions'[transactionTable[u]] = transactions[transactionTable[u]]
      BY <2>1, <2>2 DEF Registered, Unused, Inv, PartitionInv, Registrations
    <3> QED
      BY <3>1, <3>2 DEF PhaseOf, Registered
  <2>5. \A u \in Transaction : Rows(u)' = Rows(u)
    BY RegisterSeen DEF SeenKept, TransactionsSeenKept
  <2>6. \A s \in Row : Exclusive(s)' = Exclusive(s)
    BY <1>1 DEF Exclusive
  <2>7. \A u \in Transaction, s \in Row : ModeOf(u, s)' = ModeOf(u, s)
    BY <2>5, <2>6, ModesKept
  <2> QED
    BY <2>3, <2>4, <2>7, AsRegister
<1> QED
  BY <1>2, <1>3

LEMMA LockWorkerAbstract ==
  ASSUME Partitioned, Inv, KnowsGrowing, NEW w \in LockWorker, LockWorkerStep(w)
  PROVE  AbstractStep
<1>1. FindTransaction(w) \/ Refuse(w) \/ FindLockToRelease(w) \/ Reply(w) => UNCHANGED tables
  BY DEF FindTransaction, Refuse, FindLockToRelease, Reply
<1> QED
  BY <1>1, QuietAbstract, FindLockAbstract, UpgradeAbstract, AddLockAbstract,
     RecordLockAbstract, UnregisterAbstract, ReleaseNextAbstract, DeleteAbortedAbstract,
     EraseRowAbstract, ReleaseLockAbstract, DeleteFinishedAbstract
  DEF LockWorkerStep

LEMMA NextAbstract ==
  ASSUME Partitioned, Inv, KnowsGrowing, [Next]_vars
  PROVE  AbstractStep
<1>1. ASSUME NEW c \in Client, Call(c) \/ ClientStep(c) PROVE AbstractStep
  BY <1>1, ClientSeen, QuietAbstract
<1>2. CASE UNCHANGED vars
  BY <1>2, QuietAbstract DEF vars, tables
<1> QED
  BY <1>1, <1>2, RegisterAbstract, LockWorkerAbstract DEF Next

\* When every transaction keeps to the rows of one worker, the lock manager does what
\* TwoPhaseLocking allows and nothing else: locks are granted in modes that agree, to
\* transactions that have released none, and are gone when the transaction is.
THEOREM ImplementsTwoPhaseLocking ==
  ASSUME Partitioned
  PROVE  Spec => TwoPhase
<1>1. Init => Inv /\ KnowsGrowing
  BY InitPartitioned DEF Init, KnowsGrowing, IdleWorker
<1>2. Inv /\ KnowsGrowing /\ [Next]_vars => Inv' /\ KnowsGrowing'
  BY PartitionStep, GrowingStep
<1>3. Inv /\ KnowsGrowing /\ [Next]_vars => [Abstract!Next]_Abstract!vars
  BY NextAbstract DEF AbstractStep, AbstractVars, Abstract!vars
<1> QED
  BY <1>1, <1>2, <1>3, InitAbstract, PTL DEF Spec, TwoPhase, Abstract!Spec
=============================================================================
