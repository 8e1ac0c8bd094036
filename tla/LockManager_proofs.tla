------------------------- MODULE LockManager_proofs -------------------------
(***************************************************************************)
(* Theorems about LockManager for every set of transactions, rows, clients *)
(* and workers.                                                            *)
(***************************************************************************)
EXTENDS LockManager, FiniteSetTheorems, SequenceTheorems, TLAPS

\* TypeOK is not inductive: a worker that dereferences a pointer must be known
\* to have one, and one that looks at its job to have a job.
Tables ==
  /\ TablesOK
  /\ \A a \in TxAddress : transactions[a].live => transactions[a].transaction_id \in Transaction

Workers ==
  /\ worker \in [LockWorker -> WorkerState]
  /\ \A w \in LockWorker :
       /\ worker[w].step # "wait" => queue[w] # <<>>
       /\ worker[w].step \notin {"wait", "reply"} => worker[w].tx \in TxAddress
       /\ worker[w].step = "decide" => worker[w].lock \in LockAddress

Clients ==
  /\ client \in [Client -> ClientState]
  /\ \A c \in Client : client[c].step = "push" => client[c].job \in LockJob

TypeInv == Tables /\ QueuesOK /\ Workers /\ Clients

LEMMA TypeInvType == TypeInv => TypeOK
  BY DEF TypeInv, Tables, Workers, Clients, TypeOK

LEMMA InitTyped == Init => TypeInv
<1> SUFFICES ASSUME Init PROVE TypeInv
  OBVIOUS
<1>1. TablesOK
  <2>1. transactionTable \in [Transaction -> TxAddress \cup {Null}]
    BY DEF Init
  <2>2. lockTable \in [Row -> LockAddress \cup {Null}]
    BY DEF Init
  <2>3. transactions \in [TxAddress -> TransactionObject(Transaction \cup {Null}, Row)]
    BY DEF Init, deleted, TransactionObject
  <2>4. locks \in [LockAddress -> LockRecord(Transaction)]
    BY DEF Init, newLock, LockRecord
  <2> QED
    BY <2>1, <2>2, <2>3, <2>4 DEF TablesOK
<1>2. Tables
  BY <1>1 DEF Tables, Init, deleted
<1>3. QueuesOK
  BY DEF QueuesOK, Init, Worker
<1>4. Workers
  BY DEF Workers, Init, IdleWorker, WorkerState, WorkerSteps
<1>5. Clients
  BY DEF Clients, Init, IdleClient, ClientState
<1> QED
  BY <1>2, <1>3, <1>4, <1>5 DEF TypeInv, Init

LEMMA HeadTail ==
  ASSUME NEW S, NEW q \in Seq(S), q # <<>>
  PROVE  Head(q) \in S /\ Tail(q) \in Seq(S)
  OBVIOUS

\* The job of a lock worker that has one.
LEMMA JobTyped ==
  ASSUME QueuesOK, NEW w \in LockWorker, queue[w] # <<>>
  PROVE  /\ JobOf(w) \in LockJob
         /\ JobOf(w).transaction_id \in Transaction
         /\ JobOf(w).row_id \in Row
         /\ JobOf(w).caller \in Client \cup {Null}
         /\ Tail(queue[w]) \in Seq(LockJob)
<1>1. queue[w] \in Seq(LockJob)
  BY DEF QueuesOK
<1>2. JobOf(w) \in LockJob /\ Tail(queue[w]) \in Seq(LockJob)
  BY <1>1, HeadTail DEF JobOf
<1> QED
  BY <1>2 DEF LockJob

-----------------------------------------------------------------------------
(* The queues.                                                             *)

LEMMA PushTyped ==
  ASSUME QueuesOK, NEW c, NEW w \in Worker, NEW job \in Job, Push(c, w, job),
         w = TxWorker => job \in RegisterJob,
         w # TxWorker => job \in LockJob
  PROVE  QueuesOK'
<1>1. /\ queue' = [queue EXCEPT ![w] = Append(@, job)]
      /\ queue \in [Worker -> Seq(Job)]
  BY DEF Push, QueuesOK
<1>2. queue' \in [Worker -> Seq(Job)]
  BY <1>1
<1>3. queue'[TxWorker] \in Seq(RegisterJob)
  BY <1>1 DEF QueuesOK, Worker
<1>4. ASSUME NEW v \in LockWorker PROVE queue'[v] \in Seq(LockJob)
  BY <1>1, <1>4, TxWorkerAssumption DEF QueuesOK, Worker
<1> QED
  BY <1>2, <1>3, <1>4 DEF QueuesOK

LEMMA PopTyped ==
  ASSUME QueuesOK, NEW w \in Worker, queue[w] # <<>>,
         queue' = [queue EXCEPT ![w] = Tail(@)]
  PROVE  QueuesOK'
<1>1. queue \in [Worker -> Seq(Job)]
  BY DEF QueuesOK
<1>2. queue' \in [Worker -> Seq(Job)]
  BY <1>1, HeadTail
<1>3. queue'[TxWorker] \in Seq(RegisterJob)
  BY <1>1, HeadTail DEF QueuesOK, Worker
<1>4. ASSUME NEW v \in LockWorker PROVE queue'[v] \in Seq(LockJob)
  BY <1>1, <1>4, HeadTail, TxWorkerAssumption DEF QueuesOK, Worker
<1> QED
  BY <1>2, <1>3, <1>4 DEF QueuesOK

LEMMA QueuesStep == TypeInv /\ [Next]_vars => QueuesOK'
<1> SUFFICES ASSUME TypeInv, [Next]_vars PROVE QueuesOK'
  OBVIOUS
<1> USE DEF TypeInv
<1>1. CASE UNCHANGED queue
  BY <1>1 DEF QueuesOK
<1>2. ASSUME NEW c \in Client, NEW t \in Transaction, SendRegistration(c, t)
      PROVE  QueuesOK'
  <2> DEFINE job == [command |-> "REGISTER", transaction_id |-> t, caller |-> c]
  <2>1. job \in RegisterJob /\ job \in Job
    BY DEF RegisterJob, Job
  <2> QED
    BY <1>2, <2>1, PushTyped DEF SendRegistration, Worker
<1>3. ASSUME NEW c \in Client, SendLockJob(c) PROVE QueuesOK'
  <2>1. client[c].job \in LockJob
    BY <1>3 DEF SendLockJob, Clients
  <2>2. RowWorker[client[c].job.row_id] \in LockWorker
    BY <2>1, RowWorkerAssumption DEF LockJob
  <2> QED
    BY <1>3, <2>1, <2>2, PushTyped, TxWorkerAssumption DEF SendLockJob, Worker, Job
<1>4. CASE Register
  BY <1>4, PopTyped DEF Register, Worker
<1>5. ASSUME NEW w \in LockWorker, Reply(w) PROVE QueuesOK'
  <2>1. queue[w] # <<>>
    BY <1>5 DEF Reply, At, Workers
  <2> QED
    BY <1>5, <2>1, PopTyped DEF Reply, Worker
<1> QED
  BY <1>1, <1>2, <1>3, <1>4, <1>5
  DEF Next, Call, ClientStep, LockWorkerStep, vars, tables, CheckRegistered,
      RefuseUnregistered, Return, FindTransaction, FindLock, Upgrade, AddLock, Refuse,
      RecordLock, Unregister, ReleaseNext, DeleteAborted, FindLockToRelease, EraseRow,
      ReleaseLock, DeleteFinished

-----------------------------------------------------------------------------
(* The clients.                                                            *)

LEMMA AnswerTyped ==
  ASSUME Clients, NEW caller \in Client \cup {Null}, NEW ok \in BOOLEAN, Answer(caller, ok)
  PROVE  Clients'
<1>1. CASE caller = Null
  BY <1>1 DEF Answer, Clients
<1>2. CASE caller # Null
  <2>1. client' = [client EXCEPT ![caller].answer = IF ok THEN "ok" ELSE "error"]
    BY <1>2 DEF Answer
  <2>2. client' \in [Client -> ClientState]
    <3>1. caller \in Client /\ client[caller] \in ClientState
      BY <1>2 DEF Clients
    <3>2. [client[caller] EXCEPT !.answer = IF ok THEN "ok" ELSE "error"] \in ClientState
      BY <3>1 DEF ClientState
    <3> QED
      BY <2>1, <3>1, <3>2 DEF Clients
  <2>3. ASSUME NEW d \in Client, client'[d].step = "push" PROVE client'[d].job \in LockJob
    <3>1. client[d].step = "push" /\ client'[d].job = client[d].job
      BY <2>1, <2>3 DEF Clients, ClientState
    <3> QED
      BY <3>1 DEF Clients
  <2> QED
    BY <2>2, <2>3 DEF Clients
<1> QED
  BY <1>1, <1>2

LEMMA PushClient ==
  ASSUME Clients, NEW c \in Client, NEW w, NEW job, Push(c, w, job)
  PROVE  Clients'
<1>1. client' \in [Client -> ClientState]
  BY DEF Push, Clients, ClientState, IdleClient
<1>2. \A d \in Client : client'[d].step = "push" => client'[d].job \in LockJob
  BY DEF Push, Clients, ClientState, IdleClient
<1> QED
  BY <1>1, <1>2 DEF Clients

LEMMA ClientsStep == TypeInv /\ [Next]_vars => Clients'
<1> SUFFICES ASSUME TypeInv, [Next]_vars PROVE Clients'
  OBVIOUS
<1> USE DEF TypeInv
<1>1. CASE UNCHANGED client
  BY <1>1 DEF Clients
<1>2. ASSUME NEW c \in Client, NEW t \in Transaction, SendRegistration(c, t)
      PROVE  Clients'
  BY <1>2, PushClient DEF SendRegistration
<1>3. ASSUME NEW c \in Client, SendLockJob(c) PROVE Clients'
  BY <1>3, PushClient DEF SendLockJob
<1>4. ASSUME NEW c \in Client, NEW ask \in Asks, NEW wait \in WaitChoices,
             CheckRegistered(c, ask, wait)
      PROVE  Clients'
  <2> DEFINE job == [command |-> ask.command, transaction_id |-> ask.transaction_id,
                     row_id |-> ask.row_id, caller |-> CallerOf(c, wait)]
  <2>1. job \in LockJob
    BY AsksAssumption DEF LockJob, Request, CallerOf
  <2>2. client' = [client EXCEPT ![c].step = "push", ![c].job = job]
    BY <1>4 DEF CheckRegistered
  <2> HIDE DEF job
  <2>3. client' \in [Client -> ClientState]
    BY <2>1, <2>2 DEF Clients, ClientState
  <2>4. ASSUME NEW d \in Client, client'[d].step = "push" PROVE client'[d].job \in LockJob
    <3>1. CASE d = c
      BY <3>1, <2>1, <2>2 DEF Clients, ClientState
    <3>2. CASE d # c
      BY <3>2, <2>2, <2>4 DEF Clients, ClientState
    <3> QED
      BY <3>1, <3>2
  <2> QED
    BY <2>3, <2>4 DEF Clients
<1>5. ASSUME NEW c \in Client, NEW ask \in Asks, RefuseUnregistered(c, ask)
      PROVE  Clients'
  <2>1. client' = [client EXCEPT ![c].step = "wait", ![c].answer = "error"]
    BY <1>5 DEF RefuseUnregistered
  <2>2. client' \in [Client -> ClientState]
    BY <2>1 DEF Clients, ClientState
  <2> QED
    BY <2>1, <2>2 DEF Clients, ClientState
<1>6. ASSUME NEW c \in Client, Return(c) PROVE Clients'
  BY <1>6 DEF Return, Clients, ClientState, IdleClient
<1>7. CASE Register
  <2>1. Head(queue[TxWorker]) \in RegisterJob
    BY <1>7, HeadTail DEF Register, QueuesOK
  <2>2. Head(queue[TxWorker]).caller \in Client \cup {Null}
    BY <2>1 DEF RegisterJob
  <2> QED
    BY <1>7, <2>2, AnswerTyped DEF Register
<1>8. ASSUME NEW w \in LockWorker, Reply(w) PROVE Clients'
  <2>1. queue[w] # <<>> /\ worker[w].ok \in BOOLEAN
    BY <1>8 DEF Reply, At, Workers, WorkerState
  <2> QED
    BY <1>8, <2>1, JobTyped, AnswerTyped DEF Reply
<1> QED
  BY <1>1, <1>2, <1>3, <1>4, <1>5, <1>6, <1>7, <1>8
  DEF Next, Call, ClientStep, LockWorkerStep, vars, tables, FindTransaction, FindLock,
      Upgrade, AddLock, Refuse, RecordLock, Unregister, ReleaseNext, DeleteAborted,
      FindLockToRelease, EraseRow, ReleaseLock, DeleteFinished

-----------------------------------------------------------------------------
(* The lock workers.                                                       *)

\* A worker that is past looking up its transaction has a job and an object.
LEMMA AtTx ==
  ASSUME Tables, Workers, NEW w \in LockWorker, NEW step, At(w, step),
         step \in {"decide", "record", "abort", "releaseAll", "erase", "release", "last"}
  PROVE  /\ queue[w] # <<>>
         /\ worker[w].tx \in TxAddress
         /\ Tx(w) \in TransactionObject(Transaction \cup {Null}, Row)
         /\ Tx(w).live
         /\ Tx(w).transaction_id \in Transaction
<1>1. worker[w].step = step /\ ~UsesFreedMemory(w)
  BY DEF At
<1>2. queue[w] # <<>> /\ worker[w].tx \in TxAddress
  BY <1>1 DEF Workers
<1>3. Tx(w).live
  BY <1>1 DEF UsesFreedMemory
<1> QED
  BY <1>2, <1>3 DEF Tables, TablesOK, Tx

\* A worker that sets several of its locals.
LEMMA SetTyped ==
  ASSUME Workers, NEW w \in LockWorker, NEW new \in WorkerState,
         worker' = [worker EXCEPT ![w] = new],
         new.step # "wait" => queue[w] # <<>>,
         new.step \notin {"wait", "reply"} => new.tx \in TxAddress,
         new.step = "decide" => new.lock \in LockAddress,
         \A v \in LockWorker : v # w \/ new.step # "wait" => queue'[v] = queue[v]
  PROVE  Workers'
<1>1. worker' \in [LockWorker -> WorkerState]
  BY DEF Workers
<1>2. ASSUME NEW v \in LockWorker
      PROVE  /\ worker'[v].step # "wait" => queue'[v] # <<>>
             /\ worker'[v].step \notin {"wait", "reply"} => worker'[v].tx \in TxAddress
             /\ worker'[v].step = "decide" => worker'[v].lock \in LockAddress
  <2>1. CASE v = w
    BY <2>1 DEF Workers
  <2>2. CASE v # w
    BY <2>2 DEF Workers
  <2> QED
    BY <2>1, <2>2
<1> QED
  BY <1>1, <1>2 DEF Workers

LEMMA FinishTyped ==
  ASSUME Workers, NEW w \in LockWorker, NEW ok \in BOOLEAN, Finish(w, ok),
         queue[w] # <<>>, UNCHANGED queue
  PROVE  Workers'
<1> DEFINE new == [IdleWorker EXCEPT !.step = "reply", !.ok = ok]
<1>1. worker' = [worker EXCEPT ![w] = new]
  BY DEF Finish
<1>2. new \in WorkerState /\ new.step = "reply"
  BY DEF WorkerState, WorkerSteps, IdleWorker
<1> HIDE DEF new
<1> QED
  BY <1>1, <1>2, SetTyped

LEMMA GotoTyped ==
  ASSUME Workers, NEW w \in LockWorker, NEW step \in WorkerSteps \ {"wait", "decide"},
         Goto(w, step), queue[w] # <<>>, worker[w].tx \in TxAddress, UNCHANGED queue
  PROVE  Workers'
<1> DEFINE new == [worker[w] EXCEPT !.step = step]
<1>1. worker' = [worker EXCEPT ![w] = new]
  BY DEF Goto
<1>2. worker[w] \in WorkerState
  BY DEF Workers
<1>3. /\ new \in WorkerState
      /\ new.step = step
      /\ new.tx = worker[w].tx
  BY <1>2 DEF WorkerState
<1> HIDE DEF new
<1> QED
  BY <1>1, <1>3, SetTyped

LEMMA WorkersPush ==
  ASSUME Workers, QueuesOK, NEW c, NEW w \in Worker, NEW job \in Job, Push(c, w, job),
         UNCHANGED worker
  PROVE  Workers'
<1>1. ASSUME NEW v \in LockWorker, queue[v] # <<>> PROVE queue'[v] # <<>>
  BY <1>1 DEF Push, QueuesOK, Worker
<1> QED
  BY <1>1 DEF Workers

LEMMA WorkersStep == TypeInv /\ [Next]_vars => Workers'
<1> SUFFICES ASSUME TypeInv, [Next]_vars PROVE Workers'
  OBVIOUS
<1> USE DEF TypeInv
<1>1. CASE UNCHANGED <<worker, queue>>
  BY <1>1 DEF Workers
<1>2. ASSUME NEW c \in Client, NEW t \in Transaction, SendRegistration(c, t)
      PROVE  Workers'
  <2>1. [command |-> "REGISTER", transaction_id |-> t, caller |-> c] \in Job
    BY DEF RegisterJob, Job
  <2> QED
    BY <1>2, <2>1, WorkersPush DEF SendRegistration, Worker
<1>3. ASSUME NEW c \in Client, SendLockJob(c) PROVE Workers'
  <2>1. client[c].job \in LockJob /\ client[c].job \in Job
    BY <1>3 DEF SendLockJob, Clients, Job
  <2>2. RowWorker[client[c].job.row_id] \in Worker
    BY <2>1, RowWorkerAssumption DEF LockJob, Worker
  <2> QED
    BY <1>3, <2>1, <2>2, WorkersPush DEF SendLockJob
<1>4. CASE Register
  <2>1. \A v \in LockWorker : queue'[v] = queue[v]
    BY <1>4, TxWorkerAssumption DEF Register, QueuesOK, Worker
  <2> QED
    BY <1>4, <2>1 DEF Register, Workers
<1>5. ASSUME NEW w \in LockWorker, FindTransaction(w) PROVE Workers'
  <2> DEFINE a == transactionTable[JobOf(w).transaction_id]
  <2>1. queue[w] # <<>> /\ UNCHANGED queue
    BY <1>5 DEF FindTransaction
  <2>2. CASE a = Null
    BY <1>5, <2>1, <2>2, FinishTyped DEF FindTransaction
  <2>3. CASE a # Null
    <3> DEFINE new == [worker[w] EXCEPT !.step = "row", !.tx = a]
    <3>1. worker' = [worker EXCEPT ![w] = new]
      BY <1>5, <2>3 DEF FindTransaction
    <3>2. a \in TxAddress
      BY <2>1, <2>3, JobTyped DEF Tables, TablesOK
    <3>3. worker[w] \in WorkerState
      BY DEF Workers
    <3>4. new \in WorkerState /\ new.step = "row" /\ new.tx = a
      BY <3>2, <3>3 DEF WorkerState, WorkerSteps
    <3> HIDE DEF new, a
    <3> QED
      BY <2>1, <3>1, <3>2, <3>4, SetTyped
  <2> QED
    BY <2>2, <2>3
<1>6. ASSUME NEW w \in LockWorker, FindLock(w) PROVE Workers'
  <2>1. queue[w] # <<>> /\ worker[w].tx \in TxAddress /\ worker[w] \in WorkerState
    BY <1>6 DEF FindLock, At, Workers
  <2>2. PICK a \in LockAddress :
          worker' = [worker EXCEPT ![w] = [worker[w] EXCEPT !.step = "decide", !.lock = a]]
    <3> DEFINE r == JobOf(w).row_id
    <3>1. lockTable[r] \in LockAddress \cup {Null}
      BY <2>1, JobTyped DEF Tables, TablesOK
    <3>2. PICK a \in LockAddress :
            worker' = [worker EXCEPT ![w].step = "decide", ![w].lock = a]
      BY <1>6, <3>1 DEF FindLock
    <3> QED
      BY <3>2 DEF Workers
  <2> DEFINE new == [worker[w] EXCEPT !.step = "decide", !.lock = a]
  <2>3. /\ new \in WorkerState
        /\ new.step = "decide"
        /\ new.tx = worker[w].tx
        /\ new.lock = a
    BY <2>1 DEF WorkerState, WorkerSteps
  <2>4. worker' = [worker EXCEPT ![w] = new] /\ UNCHANGED queue
    BY <1>6, <2>2 DEF FindLock
  <2> HIDE DEF new
  <2> QED
    BY <2>1, <2>3, <2>4, SetTyped
<1>7. ASSUME NEW w \in LockWorker, Upgrade(w) \/ RecordLock(w) PROVE Workers'
  BY <1>7, AtTx, FinishTyped DEF Upgrade, RecordLock
<1>8. ASSUME NEW w \in LockWorker, AddLock(w) \/ Refuse(w) \/ Unregister(w) PROVE Workers'
  BY <1>8, AtTx, GotoTyped DEF AddLock, Refuse, Unregister, WorkerSteps
<1>9. ASSUME NEW w \in LockWorker, ReleaseNext(w) PROVE Workers'
  <2>1. queue[w] # <<>> /\ worker[w].tx \in TxAddress /\ worker[w] \in WorkerState
    BY <1>9, AtTx DEF ReleaseNext, Workers
  <2>2. PICK r \in RowAfter(w) : worker' = [worker EXCEPT ![w].next = r + 1]
    BY <1>9 DEF ReleaseNext
  <2>3. r \in Nat
    BY <1>9, AtTx, RowAssumption DEF ReleaseNext, RowAfter, TransactionObject
  <2> DEFINE new == [worker[w] EXCEPT !.next = r + 1]
  <2>4. new \in WorkerState /\ new.step = worker[w].step /\ new.tx = worker[w].tx
    BY <2>1, <2>3 DEF WorkerState
  <2>5. /\ worker' = [worker EXCEPT ![w] = new]
        /\ worker[w].step = "releaseAll"
        /\ UNCHANGED queue
    BY <1>9, <2>2 DEF ReleaseNext, At
  <2> HIDE DEF new
  <2> QED
    BY <2>1, <2>4, <2>5, SetTyped
<1>10. ASSUME NEW w \in LockWorker, DeleteAborted(w) \/ DeleteFinished(w) PROVE Workers'
  BY <1>10, AtTx, FinishTyped DEF DeleteAborted, DeleteFinished
<1>11. ASSUME NEW w \in LockWorker, FindLockToRelease(w) PROVE Workers'
  <2>1. queue[w] # <<>> /\ worker[w].tx \in TxAddress
    BY <1>11 DEF FindLockToRelease, At, Workers
  <2>2. CASE Finish(w, TRUE)
    BY <1>11, <2>1, <2>2, FinishTyped DEF FindLockToRelease
  <2>3. CASE Goto(w, "erase")
    BY <1>11, <2>1, <2>3, GotoTyped DEF FindLockToRelease, WorkerSteps
  <2> QED
    BY <1>11, <2>2, <2>3 DEF FindLockToRelease
<1>12. ASSUME NEW w \in LockWorker, EraseRow(w) \/ ReleaseLock(w) PROVE Workers'
  <2>1. CASE Goto(w, "release") /\ EraseRow(w)
    BY <2>1, AtTx, GotoTyped DEF EraseRow, WorkerSteps
  <2>2. CASE Goto(w, "last")
    BY <1>12, <2>2, AtTx, GotoTyped DEF EraseRow, ReleaseLock, WorkerSteps
  <2> QED
    BY <1>12, <2>1, <2>2 DEF EraseRow, ReleaseLock
<1>13. ASSUME NEW w \in LockWorker, Reply(w) PROVE Workers'
  <2>1. worker' = [worker EXCEPT ![w] = IdleWorker]
    BY <1>13 DEF Reply
  <2>2. IdleWorker \in WorkerState /\ IdleWorker.step = "wait"
    BY DEF IdleWorker, WorkerState, WorkerSteps
  <2>3. \A v \in LockWorker : v # w => queue'[v] = queue[v]
    BY <1>13 DEF Reply, QueuesOK, Worker
  <2> QED
    BY <2>1, <2>2, <2>3, SetTyped
<1> QED
  BY <1>1, <1>2, <1>3, <1>4, <1>5, <1>6, <1>7, <1>8, <1>9, <1>10, <1>11, <1>12, <1>13
  DEF Next, Call, ClientStep, LockWorkerStep, vars, tables, CheckRegistered,
      RefuseUnregistered, Return

-----------------------------------------------------------------------------
(* The tables and the objects they refer to.                               *)

\* The operations on a lock keep it a lock.
LEMMA LockOperations ==
  ASSUME NEW Owner, NEW lock \in LockRecord(Owner), NEW t \in Owner
  PROVE  /\ newLock \in LockRecord(Owner)
         /\ getSharedAccess(lock, t) \in LockRecord(Owner)
         /\ getExclusiveAccess(lock, t) \in LockRecord(Owner)
         /\ upgrade(lock) \in LockRecord(Owner)
         /\ release(lock, t) \in LockRecord(Owner)
  BY DEF LockRecord, newLock, getSharedAccess, getExclusiveAccess, upgrade, release

\* The operations on a transaction keep it one, under the same identifier.
LEMMA TransactionOperations ==
  ASSUME NEW Id, NEW Rows_, NEW x \in TransactionObject(Id, Rows_), NEW r \in Rows_
  PROVE  /\ addRow(x, r) \in TransactionObject(Id, Rows_)
         /\ addRow(x, r).live = x.live
         /\ addRow(x, r).transaction_id = x.transaction_id
         /\ eraseRow(x, r) \in TransactionObject(Id, Rows_)
         /\ eraseRow(x, r).live = x.live
         /\ eraseRow(x, r).transaction_id = x.transaction_id
<1>1. /\ x.lock_budget - 1 \in Int
      /\ x.locked_rows \cup {r} \in SUBSET Rows_
      /\ x.locked_rows \ {r} \in SUBSET Rows_
  BY DEF TransactionObject
<1>2. /\ addRow(x, r) \in TransactionObject(Id, Rows_)
      /\ addRow(x, r).live = x.live
      /\ addRow(x, r).transaction_id = x.transaction_id
  BY <1>1 DEF TransactionObject, addRow
<1>3. /\ eraseRow(x, r) \in TransactionObject(Id, Rows_)
      /\ eraseRow(x, r).live = x.live
      /\ eraseRow(x, r).transaction_id = x.transaction_id
  BY <1>1 DEF TransactionObject, eraseRow
<1> QED
  BY <1>2, <1>3

LEMMA DeletedObject ==
  /\ deleted(Null) \in TransactionObject(Transaction \cup {Null}, Row)
  /\ ~deleted(Null).live
  BY DEF TransactionObject, deleted

LEMMA NewObject ==
  ASSUME NEW t \in Transaction
  PROVE  /\ newTransaction(t, LockBudget) \in TransactionObject(Transaction \cup {Null}, Row)
         /\ newTransaction(t, LockBudget).live
         /\ newTransaction(t, LockBudget).transaction_id = t
  BY BudgetAssumption DEF TransactionObject, newTransaction

\* One entry of a table or one object changes at a time.
LEMMA TransactionsSet ==
  ASSUME Tables, NEW a \in TxAddress,
         NEW x \in TransactionObject(Transaction \cup {Null}, Row),
         x.live => x.transaction_id \in Transaction,
         transactions' = [transactions EXCEPT ![a] = x],
         transactionTable' \in [Transaction -> TxAddress \cup {Null}],
         UNCHANGED <<lockTable, locks>>
  PROVE  Tables'
<1>1. transactions' \in [TxAddress -> TransactionObject(Transaction \cup {Null}, Row)]
  BY DEF Tables, TablesOK
<1>2. \A b \in TxAddress : transactions'[b].live => transactions'[b].transaction_id \in Transaction
  BY DEF Tables, TablesOK
<1> QED
  BY <1>1, <1>2 DEF Tables, TablesOK

LEMMA LocksSet ==
  ASSUME Tables, NEW a \in LockAddress, NEW lock \in LockRecord(Transaction),
         locks' = [locks EXCEPT ![a] = lock],
         lockTable' \in [Row -> LockAddress \cup {Null}],
         UNCHANGED <<transactionTable, transactions>>
  PROVE  Tables'
<1>1. locks' \in [LockAddress -> LockRecord(Transaction)]
  BY DEF Tables, TablesOK
<1> QED
  BY <1>1 DEF Tables, TablesOK

LEMMA TableEntry ==
  ASSUME Tables, NEW t, NEW a \in TxAddress \cup {Null}
  PROVE  [transactionTable EXCEPT ![t] = a] \in [Transaction -> TxAddress \cup {Null}]
  BY DEF Tables, TablesOK

LEMMA LockEntry ==
  ASSUME Tables, NEW r, NEW a \in LockAddress \cup {Null}
  PROVE  [lockTable EXCEPT ![r] = a] \in [Row -> LockAddress \cup {Null}]
  BY DEF Tables, TablesOK

LEMMA TablesStep == TypeInv /\ [Next]_vars => Tables'
<1> SUFFICES ASSUME TypeInv, [Next]_vars PROVE Tables'
  OBVIOUS
<1> USE DEF TypeInv
<1>1. CASE UNCHANGED tables
  BY <1>1 DEF tables, Tables, TablesOK
<1>2. CASE Register
  <2> DEFINE t == Head(queue[TxWorker]).transaction_id
  <2>1. t \in Transaction
    <3>1. Head(queue[TxWorker]) \in RegisterJob
      BY <1>2, HeadTail DEF Register, QueuesOK
    <3> QED
      BY <3>1 DEF RegisterJob
  <2>2. CASE UNCHANGED <<transactionTable, transactions>>
    BY <1>2, <2>2 DEF Register, Tables, TablesOK
  <2>3. ASSUME NEW a \in TxAddress,
               transactions' = [transactions EXCEPT ![a] = newTransaction(t, LockBudget)],
               transactionTable' = [transactionTable EXCEPT ![t] = a]
        PROVE  Tables'
    BY <1>2, <2>1, <2>3, NewObject, TableEntry, TransactionsSet DEF Register
  <2> QED
    BY <1>2, <2>2, <2>3 DEF Register
<1>3. ASSUME NEW w \in LockWorker, FindLock(w) PROVE Tables'
  <2>1. CASE UNCHANGED <<lockTable, locks>>
    BY <1>3, <2>1 DEF FindLock, Tables, TablesOK
  <2>2. ASSUME NEW a \in LockAddress,
               locks' = [locks EXCEPT ![a] = newLock],
               lockTable' = [lockTable EXCEPT ![JobOf(w).row_id] = a]
        PROVE  Tables'
    <3>1. newLock \in LockRecord(Transaction)
      BY DEF newLock, LockRecord
    <3> QED
      BY <1>3, <2>2, <3>1, LockEntry, LocksSet DEF FindLock
  <2> QED
    BY <1>3, <2>1, <2>2 DEF FindLock
<1>4. ASSUME NEW w \in LockWorker, Upgrade(w) \/ AddLock(w) PROVE Tables'
  <2> DEFINE a == worker[w].lock
             t == Tx(w).transaction_id
  <2>1. a \in LockAddress /\ t \in Transaction
    BY <1>4, AtTx DEF Upgrade, AddLock, At, Workers
  <2>2. locks[a] \in LockRecord(Transaction)
    BY <2>1 DEF Tables, TablesOK
  <2>3. PICK lock \in LockRecord(Transaction) : locks' = [locks EXCEPT ![a] = lock]
    BY <1>4, <2>1, <2>2, LockOperations DEF Upgrade, AddLock
  <2>4. UNCHANGED <<transactionTable, lockTable, transactions>>
    BY <1>4 DEF Upgrade, AddLock
  <2> QED
    BY <2>1, <2>3, <2>4, LocksSet DEF Tables, TablesOK
<1>5. ASSUME NEW w \in LockWorker, RecordLock(w) \/ EraseRow(w) PROVE Tables'
  <2>1. /\ worker[w].tx \in TxAddress
        /\ Tx(w) \in TransactionObject(Transaction \cup {Null}, Row)
        /\ Tx(w).transaction_id \in Transaction
        /\ JobOf(w).row_id \in Row
    BY <1>5, AtTx, JobTyped DEF RecordLock, EraseRow
  <2>2. CASE UNCHANGED transactions
    BY <1>5, <2>2 DEF RecordLock, EraseRow, Tables, TablesOK
  <2>3. CASE transactions' = [transactions EXCEPT ![worker[w].tx] = addRow(@, JobOf(w).row_id)]
    <3> DEFINE x == addRow(Tx(w), JobOf(w).row_id)
    <3>1. x \in TransactionObject(Transaction \cup {Null}, Row) /\ x.transaction_id \in Transaction
      BY <2>1, TransactionOperations
    <3>2. transactions' = [transactions EXCEPT ![worker[w].tx] = x]
      BY <2>3 DEF Tx
    <3>3. /\ UNCHANGED <<lockTable, locks>>
          /\ transactionTable' \in [Transaction -> TxAddress \cup {Null}]
      BY <1>5 DEF RecordLock, EraseRow, Tables, TablesOK
    <3> HIDE DEF x
    <3> QED
      BY <2>1, <3>1, <3>2, <3>3, TransactionsSet
  <2>4. CASE transactions' = [transactions EXCEPT ![worker[w].tx] = eraseRow(@, JobOf(w).row_id)]
    <3> DEFINE x == eraseRow(Tx(w), JobOf(w).row_id)
    <3>1. x \in TransactionObject(Transaction \cup {Null}, Row) /\ x.transaction_id \in Transaction
      BY <2>1, TransactionOperations
    <3>2. transactions' = [transactions EXCEPT ![worker[w].tx] = x]
      BY <2>4 DEF Tx
    <3>3. /\ UNCHANGED <<lockTable, locks>>
          /\ transactionTable' \in [Transaction -> TxAddress \cup {Null}]
      BY <1>5 DEF RecordLock, EraseRow, Tables, TablesOK
    <3> HIDE DEF x
    <3> QED
      BY <2>1, <3>1, <3>2, <3>3, TransactionsSet
  <2> QED
    BY <1>5, <2>2, <2>3, <2>4 DEF RecordLock, EraseRow
<1>6. ASSUME NEW w \in LockWorker, Unregister(w) PROVE Tables'
  BY <1>6, TableEntry DEF Unregister, Tables, TablesOK
<1>7. ASSUME NEW w \in LockWorker, ReleaseNext(w) PROVE Tables'
  <2>1. PICK r \in RowAfter(w) :
          /\ \A s \in RowAfter(w) : r <= s
          /\ locks' = [locks EXCEPT ![lockTable[r]] = release(@, Tx(w).transaction_id)]
          /\ \/ lockTable' = [lockTable EXCEPT ![r] = Null]
             \/ lockTable' = [lockTable EXCEPT ![r] = lockTable[r]]
    BY <1>7 DEF ReleaseNext
  <2>2. Tx(w).transaction_id \in Transaction /\ r \in Row
    BY <1>7, AtTx DEF ReleaseNext, RowAfter, TransactionObject
  <2>3. lockTable[r] \in LockAddress
    BY <1>7, <2>1, <2>2 DEF ReleaseNext, At, UsesFreedMemory, Tables, TablesOK
  <2>4. release(locks[lockTable[r]], Tx(w).transaction_id) \in LockRecord(Transaction)
    BY <2>2, <2>3, LockOperations DEF Tables, TablesOK
  <2>5. lockTable' \in [Row -> LockAddress \cup {Null}]
    BY <2>1, <2>3, LockEntry
  <2> QED
    BY <1>7, <2>1, <2>3, <2>4, <2>5, LocksSet DEF ReleaseNext
<1>8. ASSUME NEW w \in LockWorker, ReleaseLock(w) PROVE Tables'
  <2> DEFINE r == JobOf(w).row_id
  <2>1. /\ locks' = [locks EXCEPT ![lockTable[r]] = release(@, Tx(w).transaction_id)]
        /\ \/ lockTable' = [lockTable EXCEPT ![r] = Null]
           \/ lockTable' = [lockTable EXCEPT ![r] = lockTable[r]]
    BY <1>8 DEF ReleaseLock
  <2>2. Tx(w).transaction_id \in Transaction /\ r \in Row
    BY <1>8, AtTx, JobTyped DEF ReleaseLock
  <2>3. lockTable[r] \in LockAddress
    BY <1>8, <2>2 DEF ReleaseLock, At, UsesFreedMemory, Tables, TablesOK
  <2>4. release(locks[lockTable[r]], Tx(w).transaction_id) \in LockRecord(Transaction)
    BY <2>2, <2>3, LockOperations DEF Tables, TablesOK
  <2>5. lockTable' \in [Row -> LockAddress \cup {Null}]
    BY <2>1, <2>3, LockEntry
  <2> HIDE DEF r
  <2> QED
    BY <1>8, <2>1, <2>3, <2>4, <2>5, LocksSet DEF ReleaseLock
<1>9. ASSUME NEW w \in LockWorker, DeleteAborted(w) \/ DeleteFinished(w) PROVE Tables'
  <2>1. worker[w].tx \in TxAddress
    BY <1>9, AtTx DEF DeleteAborted, DeleteFinished
  <2>2. CASE UNCHANGED <<transactionTable, transactions>>
    BY <1>9, <2>2 DEF DeleteAborted, DeleteFinished, Tables, TablesOK
  <2>3. CASE transactions' = [transactions EXCEPT ![worker[w].tx] = deleted(Null)]
    <3>1. transactionTable' \in [Transaction -> TxAddress \cup {Null}]
      BY <1>9, TableEntry DEF DeleteAborted, DeleteFinished, Tables, TablesOK
    <3> QED
      BY <1>9, <2>1, <2>3, <3>1, DeletedObject, TransactionsSet DEF DeleteAborted, DeleteFinished
  <2> QED
    BY <1>9, <2>2, <2>3 DEF DeleteAborted, DeleteFinished
<1> QED
  BY <1>1, <1>2, <1>3, <1>4, <1>5, <1>6, <1>7, <1>8, <1>9
  DEF Next, Call, ClientStep, LockWorkerStep, vars, SendRegistration, CheckRegistered,
      RefuseUnregistered, SendLockJob, Return, FindTransaction, Refuse, FindLockToRelease,
      Reply

-----------------------------------------------------------------------------

LEMMA TypeStep == TypeInv /\ [Next]_vars => TypeInv'
  BY TablesStep, QueuesStep, WorkersStep, ClientsStep DEF TypeInv

\* Every variable keeps its type: no lock worker gets a registration, no address
\* is used that get did not return, whatever the number of workers.
THEOREM TypeCorrect == Spec => []TypeOK
<1>1. Init => TypeInv
  BY InitTyped
<1>2. TypeInv /\ [Next]_vars => TypeInv'
  BY TypeStep
<1>3. TypeInv => TypeOK
  BY TypeInvType
<1> QED
  BY <1>1, <1>2, <1>3, PTL DEF Spec

-----------------------------------------------------------------------------
(* Locks are compatible, whatever the number of workers.                    *)

LEMMA OperationsCompatible ==
  ASSUME NEW Owner, NEW lock \in LockRecord(Owner), NEW t \in Owner, Compatible(lock)
  PROVE  /\ Compatible(newLock)
         /\ CanShare(lock) => Compatible(getSharedAccess(lock, t))
         /\ CanOwnExclusively(lock) => Compatible(getExclusiveAccess(lock, t))
         /\ CanUpgrade(lock, t) => Compatible(upgrade(lock))
         /\ Compatible(release(lock, t))
  BY DEF LockRecord, Compatible, newLock, CanShare, getSharedAccess, CanOwnExclusively,
     getExclusiveAccess, CanUpgrade, upgrade, release

LEMMA CompatibleSet ==
  ASSUME Tables, LocksCompatible, NEW a \in LockAddress, NEW lock, Compatible(lock),
         locks' = [locks EXCEPT ![a] = lock]
  PROVE  LocksCompatible'
  BY DEF Tables, TablesOK, LocksCompatible

LEMMA CompatibleStep == TypeInv /\ LocksCompatible /\ [Next]_vars => LocksCompatible'
<1> SUFFICES ASSUME TypeInv, LocksCompatible, [Next]_vars PROVE LocksCompatible'
  OBVIOUS
<1> USE DEF TypeInv
<1>1. CASE UNCHANGED locks
  BY <1>1 DEF LocksCompatible
<1>2. ASSUME NEW w \in LockWorker, FindLock(w) PROVE LocksCompatible'
  <2>1. CASE UNCHANGED locks
    BY <2>1 DEF LocksCompatible
  <2>2. ASSUME NEW a \in LockAddress, locks' = [locks EXCEPT ![a] = newLock]
        PROVE  LocksCompatible'
    BY <2>2, CompatibleSet DEF Compatible, newLock
  <2> QED
    BY <1>2, <2>1, <2>2 DEF FindLock
<1>3. ASSUME NEW w \in LockWorker, Upgrade(w) \/ AddLock(w) PROVE LocksCompatible'
  <2> DEFINE a == worker[w].lock
             t == Tx(w).transaction_id
  <2>1. a \in LockAddress /\ t \in Transaction
    BY <1>3, AtTx DEF Upgrade, AddLock, At, Workers
  <2>2. locks[a] \in LockRecord(Transaction) /\ Compatible(locks[a])
    BY <2>1 DEF Tables, TablesOK, LocksCompatible
  <2>3. CASE Upgrade(w)
    BY <2>1, <2>2, <2>3, OperationsCompatible, CompatibleSet DEF Upgrade, MayUpgrade
  <2>4. CASE AddLock(w)
    <3> DEFINE lock == IF JobOf(w).command = "EXCLUSIVE"
                       THEN getExclusiveAccess(locks[a], t) ELSE getSharedAccess(locks[a], t)
    <3>1. Compatible(lock)
      BY <2>1, <2>2, <2>4, OperationsCompatible DEF AddLock, MayAdd
    <3>2. locks' = [locks EXCEPT ![a] = lock]
      BY <2>4 DEF AddLock
    <3> HIDE DEF lock
    <3> QED
      BY <2>1, <3>1, <3>2, CompatibleSet
  <2> QED
    BY <1>3, <2>3, <2>4
<1>4. ASSUME NEW w \in LockWorker, ReleaseNext(w) PROVE LocksCompatible'
  <2>1. PICK r \in RowAfter(w) :
          /\ \A s \in RowAfter(w) : r <= s
          /\ locks' = [locks EXCEPT ![lockTable[r]] = release(@, Tx(w).transaction_id)]
    BY <1>4 DEF ReleaseNext
  <2>2. Tx(w).transaction_id \in Transaction /\ r \in Row
    BY <1>4, AtTx DEF ReleaseNext, RowAfter, TransactionObject
  <2>3. lockTable[r] \in LockAddress
    BY <1>4, <2>1, <2>2 DEF ReleaseNext, At, UsesFreedMemory, Tables, TablesOK
  <2>4. Compatible(release(locks[lockTable[r]], Tx(w).transaction_id))
    BY <2>2, <2>3, OperationsCompatible DEF Tables, TablesOK, LocksCompatible
  <2> QED
    BY <2>1, <2>3, <2>4, CompatibleSet
<1>5. ASSUME NEW w \in LockWorker, ReleaseLock(w) PROVE LocksCompatible'
  <2> DEFINE r == JobOf(w).row_id
  <2>1. locks' = [locks EXCEPT ![lockTable[r]] = release(@, Tx(w).transaction_id)]
    BY <1>5 DEF ReleaseLock
  <2>2. Tx(w).transaction_id \in Transaction /\ r \in Row
    BY <1>5, AtTx, JobTyped DEF ReleaseLock
  <2>3. lockTable[r] \in LockAddress
    BY <1>5, <2>2 DEF ReleaseLock, At, UsesFreedMemory, Tables, TablesOK
  <2>4. Compatible(release(locks[lockTable[r]], Tx(w).transaction_id))
    BY <2>2, <2>3, OperationsCompatible DEF Tables, TablesOK, LocksCompatible
  <2> HIDE DEF r
  <2> QED
    BY <2>1, <2>3, <2>4, CompatibleSet
<1> QED
  BY <1>1, <1>2, <1>3, <1>4, <1>5
  DEF Next, Call, ClientStep, LockWorkerStep, vars, tables, SendRegistration,
      CheckRegistered, RefuseUnregistered, SendLockJob, Return, Register, FindTransaction,
      Refuse, RecordLock, Unregister, DeleteAborted, FindLockToRelease, EraseRow,
      DeleteFinished, Reply

\* No lock object is ever exclusive with two owners, whatever the number of
\* workers and however their steps interleave.
THEOREM AlwaysCompatible == Spec => []LocksCompatible
<1>1. Init => LocksCompatible
  BY DEF Init, LocksCompatible, Compatible, newLock
<1>2. Init => TypeInv
  BY InitTyped
<1>3. TypeInv /\ [Next]_vars => TypeInv'
  BY TypeStep
<1> QED
  BY <1>1, <1>2, <1>3, CompatibleStep, PTL DEF Spec

-----------------------------------------------------------------------------
(* A client that waits has one job in the queues.                           *)

\* The first job of a queue, those behind it, and one that is added.
LEMMA QueueShifts ==
  ASSUME NEW S, NEW s \in Seq(S), s # <<>>
  PROVE  /\ 1 \in DOMAIN s /\ Head(s) = s[1]
         /\ \A i \in DOMAIN Tail(s) :
              i \in Int /\ i # 0 /\ i + 1 \in DOMAIN s /\ Tail(s)[i] = s[i + 1]
         /\ \A i \in DOMAIN s : i \in Int /\ (i # 1 => i - 1 \in DOMAIN Tail(s))
<1>1. Len(s) \in Nat \ {0} /\ DOMAIN s = 1..Len(s)
  BY EmptySeq, LenProperties
<1>2. /\ Tail(s) \in Seq(S) /\ Len(Tail(s)) = Len(s) - 1
      /\ \A i \in 1..Len(Tail(s)) : Tail(s)[i] = s[i + 1]
  BY HeadTailProperties
<1>3. DOMAIN Tail(s) = 1..(Len(s) - 1)
  BY <1>2, LenProperties
<1> QED
  BY <1>1, <1>2, <1>3

LEMMA QueueGrows ==
  ASSUME NEW S, NEW s \in Seq(S), NEW x \in S
  PROVE  /\ \A i \in DOMAIN s : i \in DOMAIN Append(s, x) /\ Append(s, x)[i] = s[i]
         /\ Len(s) + 1 \in DOMAIN Append(s, x) /\ Append(s, x)[Len(s) + 1] = x
         /\ \A i \in DOMAIN Append(s, x) : i \in DOMAIN s \/ i = Len(s) + 1
<1>1. Len(s) \in Nat /\ DOMAIN s = 1..Len(s)
  BY LenProperties
<1>2. Append(s, x) \in Seq(S) /\ Len(Append(s, x)) = Len(s) + 1
  BY AppendProperties
<1>3. DOMAIN Append(s, x) = 1..(Len(s) + 1)
  BY <1>2, LenProperties
<1> QED
  BY <1>1, <1>3, AppendProperties

Waiting(c) == client[c].step = "wait" /\ client[c].answer = "none"

HasJob(c) == \E w \in Worker : \E i \in DOMAIN queue[w] : queue[w][i].caller = c

\* OneJobPerWaitingClient, without the number: every job of a client is that of
\* one who waits, no client has two, and who waits has one.
JobsAwaited ==
  \A w \in Worker : \A i \in DOMAIN queue[w] :
    queue[w][i].caller # Null => Waiting(queue[w][i].caller)

JobsDiffer ==
  \A v, w \in Worker : \A i \in DOMAIN queue[v] : \A j \in DOMAIN queue[w] :
    queue[v][i].caller = queue[w][j].caller /\ queue[v][i].caller # Null => v = w /\ i = j

CallsKnown ==
  \A c \in Client :
    /\ client[c].step = "push" => client[c].job.caller \in {c, Null}
    /\ client[c].answer # "none" => client[c].step = "wait"

OneJobInv ==
  CallsKnown /\ JobsAwaited /\ JobsDiffer /\ \A c \in Client : Waiting(c) => HasJob(c)

LEMMA JobCaller ==
  ASSUME QueuesOK, NEW w \in Worker
  PROVE  \A i \in DOMAIN queue[w] : queue[w][i].caller \in Client \cup {Null}
<1>1. queue[w] \in Seq(Job)
  BY DEF QueuesOK
<1>2. \A i \in DOMAIN queue[w] : queue[w][i] \in Job
  BY <1>1, ElementOfSeq, LenProperties
<1> QED
  BY <1>2 DEF Job, LockJob, RegisterJob

LEMMA PushOneJob ==
  ASSUME TypeInv, OneJobInv, NEW c \in Client, NEW w \in Worker, NEW job \in Job,
         Push(c, w, job), job.caller \in {c, Null}, client[c].step # "wait"
  PROVE  OneJobInv'
<1> USE DEF OneJobInv
<1> DEFINE next == Len(queue[w]) + 1
<1>1. c # Null
  BY NullAssumption
<1>2. /\ queue \in [Worker -> Seq(Job)] /\ queue[w] \in Seq(Job)
      /\ client \in [Client -> ClientState]
  BY DEF TypeInv, QueuesOK, Clients
<1>3. /\ queue'[w] = Append(queue[w], job)
      /\ \A v \in Worker : v # w => queue'[v] = queue[v]
  BY <1>2 DEF Push
<1>4. /\ \A i \in DOMAIN queue[w] : i \in DOMAIN queue'[w] /\ queue'[w][i] = queue[w][i]
      /\ next \in DOMAIN queue'[w] /\ queue'[w][next] = job
      /\ \A i \in DOMAIN queue'[w] : i \in DOMAIN queue[w] \/ i = next
  BY <1>2, <1>3, QueueGrows
<1>5. /\ client'[c].answer = "none"
      /\ client'[c].step = IF job.caller = c THEN "wait" ELSE "idle"
      /\ \A d \in Client : d # c => client'[d] = client[d]
  BY <1>2 DEF Push, IdleClient
<1> HIDE DEF next
<1>6. CallsKnown'
  BY <1>5 DEF CallsKnown
<1>7. \A v \in Worker : \A i \in DOMAIN queue[v] : queue[v][i].caller # c
  BY <1>1 DEF JobsAwaited, Waiting
<1>8. JobsAwaited'
  <2> SUFFICES ASSUME NEW v \in Worker, NEW i \in DOMAIN queue'[v],
                      queue'[v][i].caller # Null
               PROVE  Waiting(queue[v][i].caller)'
    BY DEF JobsAwaited
  <2>1. CASE v = w /\ i = next
    BY <1>4, <1>5, <2>1 DEF Waiting
  <2>2. CASE ~(v = w /\ i = next)
    <3>1. i \in DOMAIN queue[v] /\ queue'[v][i] = queue[v][i]
      BY <1>3, <1>4, <2>2
    <3>2. PICK d \in Client : d = queue[v][i].caller /\ d # c /\ Waiting(d)
      BY <1>7, <3>1, JobCaller DEF JobsAwaited, TypeInv
    <3> QED
      BY <1>5, <3>1, <3>2 DEF Waiting
  <2> QED
    BY <2>1, <2>2
<1>9. JobsDiffer'
  <2> SUFFICES ASSUME NEW u \in Worker, NEW v \in Worker, NEW i \in DOMAIN queue'[u],
                      NEW j \in DOMAIN queue'[v], queue'[u][i].caller # Null,
                      queue'[u][i].caller = queue'[v][j].caller
               PROVE  u = v /\ i = j
    BY DEF JobsDiffer
  <2>1. \A x \in Worker : \A k \in DOMAIN queue'[x] :
          \/ x = w /\ k = next /\ queue'[x][k] = job
          \/ k \in DOMAIN queue[x] /\ queue'[x][k] = queue[x][k] /\ queue[x][k].caller # c
    BY <1>3, <1>4, <1>7
  <2> QED
    BY <2>1 DEF JobsDiffer
<1>10. ASSUME NEW d \in Client, Waiting(d)' PROVE HasJob(d)'
  <2>1. CASE d = c
    BY <1>4, <1>5, <1>10, <2>1 DEF Waiting, HasJob
  <2>2. CASE d # c
    <3>1. HasJob(d)
      BY <1>5, <1>10, <2>2 DEF Waiting
    <3> QED
      BY <1>3, <1>4, <3>1 DEF HasJob
  <2> QED
    BY <2>1, <2>2
<1> QED
  BY <1>6, <1>8, <1>9, <1>10

LEMMA PopOneJob ==
  ASSUME TypeInv, OneJobInv, NEW w \in Worker, queue[w] # <<>>, NEW ok \in BOOLEAN,
         queue' = [queue EXCEPT ![w] = Tail(@)], Answer(Head(queue[w]).caller, ok)
  PROVE  OneJobInv'
<1> USE DEF OneJobInv
<1> DEFINE c == queue[w][1].caller
<1>1. /\ queue \in [Worker -> Seq(Job)] /\ queue[w] \in Seq(Job)
      /\ client \in [Client -> ClientState]
  BY DEF TypeInv, QueuesOK, Clients
<1>2. /\ queue'[w] = Tail(queue[w])
      /\ \A v \in Worker : v # w => queue'[v] = queue[v]
  BY <1>1
<1>3. /\ 1 \in DOMAIN queue[w] /\ Head(queue[w]) = queue[w][1]
      /\ \A i \in DOMAIN queue'[w] : i \in Int /\ i # 0 /\ i + 1 \in DOMAIN queue[w]
                                       /\ queue'[w][i] = queue[w][i + 1]
      /\ \A i \in DOMAIN queue[w] : i \in Int /\ (i # 1 => i - 1 \in DOMAIN queue'[w])
  BY <1>1, <1>2, QueueShifts
<1>4. c \in Client \cup {Null} /\ (c # Null => c \in Client /\ Waiting(c))
  BY <1>3, JobCaller DEF TypeInv, JobsAwaited
<1>5. /\ \A d \in Client : d # c => client'[d] = client[d]
      /\ \A d \in Client : client'[d].step = client[d].step /\ client'[d].job = client[d].job
      /\ c # Null => client'[c].answer # "none"
  <2>1. CASE c = Null
    BY <1>3, <2>1 DEF Answer
  <2>2. CASE c # Null
    <3> DEFINE state == [client[c] EXCEPT !.answer = IF ok THEN "ok" ELSE "error"]
    <3>1. client' = [client EXCEPT ![c] = state]
      BY <1>3, <2>2 DEF Answer
    <3>2. /\ state.step = client[c].step /\ state.job = client[c].job
          /\ state.answer # "none"
      BY <1>1, <1>4, <2>2 DEF ClientState
    <3> HIDE DEF state
    <3> QED
      BY <1>1, <1>4, <2>2, <3>1, <3>2
  <2> QED
    BY <2>1, <2>2
<1>6. \A v \in Worker : \A i \in DOMAIN queue'[v] :
        \E j \in DOMAIN queue[v] :
          /\ j = IF v = w THEN i + 1 ELSE i
          /\ queue'[v][i] = queue[v][j]
          /\ queue[v][j].caller # Null => queue[v][j].caller # c
  <2> SUFFICES ASSUME NEW v \in Worker, NEW i \in DOMAIN queue'[v]
               PROVE  \E j \in DOMAIN queue[v] :
                        /\ j = IF v = w THEN i + 1 ELSE i
                        /\ queue'[v][i] = queue[v][j]
                        /\ queue[v][j].caller # Null => queue[v][j].caller # c
    OBVIOUS
  <2>1. CASE v = w
    <3>1. i + 1 \in DOMAIN queue[w] /\ i + 1 # 1 /\ queue'[w][i] = queue[w][i + 1]
      BY <1>3, <2>1
    <3> QED
      BY <1>3, <2>1, <3>1 DEF JobsDiffer
  <2>2. CASE v # w
    BY <1>2, <1>3, <2>2 DEF JobsDiffer
  <2> QED
    BY <2>1, <2>2
<1> HIDE DEF c
<1>7. CallsKnown'
  BY <1>4, <1>5, NullAssumption DEF CallsKnown, Waiting
<1>8. JobsAwaited'
  <2> SUFFICES ASSUME NEW v \in Worker, NEW i \in DOMAIN queue'[v],
                      queue'[v][i].caller # Null
               PROVE  Waiting(queue[v][i].caller)'
    BY DEF JobsAwaited
  <2>1. PICK j \in DOMAIN queue[v] : queue'[v][i] = queue[v][j] /\ queue[v][j].caller # c
    BY <1>6
  <2>2. PICK d \in Client : d = queue[v][j].caller /\ d # c /\ Waiting(d)
    BY <2>1, JobCaller DEF JobsAwaited, TypeInv
  <2> QED
    BY <1>5, <2>1, <2>2 DEF Waiting
<1>9. JobsDiffer'
  <2> SUFFICES ASSUME NEW u \in Worker, NEW v \in Worker, NEW i \in DOMAIN queue'[u],
                      NEW j \in DOMAIN queue'[v], queue'[u][i].caller # Null,
                      queue'[u][i].caller = queue'[v][j].caller
               PROVE  u = v /\ i = j
    BY DEF JobsDiffer
  <2>1. u = v
    BY <1>6 DEF JobsDiffer
  <2>2. CASE u = w
    <3>1. PICK k \in DOMAIN queue[w] : k = i + 1 /\ i \in Int /\ queue'[w][i] = queue[w][k]
      BY <1>3, <2>2
    <3>2. PICK l \in DOMAIN queue[w] : l = j + 1 /\ j \in Int /\ queue'[w][j] = queue[w][l]
      BY <1>3, <2>1, <2>2
    <3>3. k = l
      BY <2>1, <2>2, <3>1, <3>2 DEF JobsDiffer
    <3> QED
      BY <2>1, <3>1, <3>2, <3>3
  <2>3. CASE u # w
    BY <1>2, <2>1, <2>3 DEF JobsDiffer
  <2> QED
    BY <2>1, <2>2, <2>3
<1>10. ASSUME NEW d \in Client, Waiting(d)' PROVE HasJob(d)'
  <2>1. d # c
    BY <1>5, <1>10, NullAssumption DEF Waiting
  <2>2. HasJob(d)
    BY <1>5, <1>10, <2>1 DEF Waiting
  <2>3. PICK v \in Worker : \E i \in DOMAIN queue[v] : queue[v][i].caller = d
    BY <2>2 DEF HasJob
  <2>4. PICK i \in DOMAIN queue[v] : queue[v][i].caller = d
    BY <2>3
  <2>5. CASE v = w
    <3>1. i # 1
      BY <2>1, <2>4, <2>5 DEF c
    <3>2. i - 1 \in DOMAIN queue'[w] /\ queue'[w][i - 1] = queue[w][(i - 1) + 1] /\ i \in Int
      BY <1>3, <2>4, <2>5, <3>1
    <3>3. queue'[w][i - 1].caller = d
      BY <2>4, <2>5, <3>2
    <3> QED
      BY <3>2, <3>3 DEF HasJob
  <2>6. CASE v # w
    BY <1>2, <2>4, <2>6 DEF HasJob
  <2> QED
    BY <2>5, <2>6
<1> QED
  BY <1>7, <1>8, <1>9, <1>10

LEMMA OneJobStep == TypeInv /\ OneJobInv /\ [Next]_vars => OneJobInv'
<1> SUFFICES ASSUME TypeInv, OneJobInv, [Next]_vars PROVE OneJobInv'
  OBVIOUS
<1> USE DEF OneJobInv
<1>1. client \in [Client -> ClientState]
  BY DEF TypeInv, Clients
<1>2. ASSUME UNCHANGED <<queue, client>> PROVE OneJobInv'
  BY <1>2 DEF CallsKnown, JobsAwaited, JobsDiffer, HasJob, Waiting
<1>3. ASSUME NEW c \in Client, UNCHANGED queue, ~Waiting(c), ~Waiting(c)',
             \A d \in Client : d # c => client'[d] = client[d],
             client'[c].step = "push" => client'[c].job.caller \in {c, Null},
             client'[c].answer # "none" => client'[c].step = "wait"
      PROVE  OneJobInv'
  <2>1. CallsKnown'
    BY <1>3 DEF CallsKnown
  <2>2. JobsAwaited'
    <3> SUFFICES ASSUME NEW w \in Worker, NEW i \in DOMAIN queue[w],
                        queue[w][i].caller # Null
                 PROVE  Waiting(queue[w][i].caller)'
      BY <1>3 DEF JobsAwaited
    <3>1. PICK d \in Client : d = queue[w][i].caller /\ Waiting(d)
      BY JobCaller DEF JobsAwaited, TypeInv
    <3>2. d # c
      BY <1>3, <3>1
    <3> QED
      BY <1>3, <3>1, <3>2 DEF Waiting
  <2>3. JobsDiffer'
    BY <1>3 DEF JobsDiffer
  <2>4. \A d \in Client : Waiting(d)' => HasJob(d)'
    BY <1>3 DEF Waiting, HasJob
  <2> QED
    BY <2>1, <2>2, <2>3, <2>4
<1>4. ASSUME NEW c \in Client, NEW t \in Transaction, SendRegistration(c, t)
      PROVE  OneJobInv'
  <2> DEFINE job == [command |-> "REGISTER", transaction_id |-> t, caller |-> c]
  <2>1. job \in Job /\ job.caller = c
    BY DEF RegisterJob, Job
  <2>2. Push(c, TxWorker, job) /\ client[c].step = "idle" /\ TxWorker \in Worker
    BY <1>4 DEF SendRegistration, Worker
  <2> HIDE DEF job
  <2> QED
    BY <2>1, <2>2, PushOneJob
<1>5. ASSUME NEW c \in Client, SendLockJob(c) PROVE OneJobInv'
  <2>1. client[c].job \in LockJob /\ client[c].step = "push"
    BY <1>5 DEF SendLockJob, TypeInv, Clients
  <2>2. client[c].job \in Job /\ client[c].job.caller \in {c, Null}
    BY <2>1 DEF Job, CallsKnown
  <2>3. RowWorker[client[c].job.row_id] \in Worker
    BY <2>1, RowWorkerAssumption DEF LockJob, Worker
  <2> QED
    BY <1>5, <2>1, <2>2, <2>3, PushOneJob DEF SendLockJob
<1>6. ASSUME NEW c \in Client, NEW ask \in Asks, NEW wait \in WaitChoices,
             CheckRegistered(c, ask, wait)
      PROVE  OneJobInv'
  <2> DEFINE caller == CallerOf(c, wait)
             job == [command |-> ask.command, transaction_id |-> ask.transaction_id,
                     row_id |-> ask.row_id, caller |-> caller]
             state == [client[c] EXCEPT !.step = "push", !.job = job]
  <2>1. caller \in {c, Null}
    BY DEF CallerOf
  <2>2. client' = [client EXCEPT ![c] = state] /\ client[c].step = "idle" /\ UNCHANGED queue
    BY <1>6 DEF CheckRegistered
  <2> HIDE DEF caller
  <2>3. job.caller = caller
    OBVIOUS
  <2> HIDE DEF job
  <2>4. state.step = "push" /\ state.job = job /\ state.answer = client[c].answer
    BY <1>1 DEF ClientState
  <2> HIDE DEF state
  <2>5. client'[c] = state /\ \A d \in Client : d # c => client'[d] = client[d]
    BY <1>1, <2>2
  <2>6. client[c].answer = "none"
    BY <2>2 DEF CallsKnown
  <2>7. ~Waiting(c) /\ ~Waiting(c)'
    BY <2>2, <2>4, <2>5 DEF Waiting
  <2> QED
    BY <1>3, <2>1, <2>2, <2>3, <2>4, <2>5, <2>6, <2>7
<1>7. ASSUME NEW c \in Client, NEW ask \in Asks, RefuseUnregistered(c, ask)
      PROVE  OneJobInv'
  <2>1. /\ client[c].step = "idle" /\ UNCHANGED queue
        /\ client'[c].step = "wait" /\ client'[c].answer = "error"
        /\ \A d \in Client : d # c => client'[d] = client[d]
    BY <1>1, <1>7 DEF RefuseUnregistered, ClientState
  <2> QED
    BY <1>3, <2>1 DEF Waiting
<1>8. ASSUME NEW c \in Client, Return(c) PROVE OneJobInv'
  <2>1. /\ client[c].answer # "none" /\ UNCHANGED queue
        /\ client'[c].step = "idle" /\ client'[c].answer = "none"
        /\ \A d \in Client : d # c => client'[d] = client[d]
    BY <1>1, <1>8 DEF Return, IdleClient
  <2> QED
    BY <1>3, <2>1 DEF Waiting
<1>9. CASE Register
  <2>1. /\ queue[TxWorker] # <<>> /\ queue' = [queue EXCEPT ![TxWorker] = Tail(@)]
        /\ \E ok \in BOOLEAN : Answer(Head(queue[TxWorker]).caller, ok)
    BY <1>9 DEF Register
  <2> QED
    BY <2>1, PopOneJob DEF Worker
<1>10. ASSUME NEW w \in LockWorker, Reply(w) PROVE OneJobInv'
  <2>1. queue[w] # <<>> /\ worker[w].ok \in BOOLEAN
    BY <1>10 DEF Reply, At, TypeInv, Workers, WorkerState
  <2> QED
    BY <1>10, <2>1, PopOneJob DEF Reply, JobOf, Worker
<1> QED
  BY <1>2, <1>4, <1>5, <1>6, <1>7, <1>8, <1>9, <1>10
  DEF Next, Call, ClientStep, LockWorkerStep, vars, FindTransaction, FindLock, Upgrade,
      AddLock, Refuse, RecordLock, Unregister, ReleaseNext, DeleteAborted,
      FindLockToRelease, EraseRow, ReleaseLock, DeleteFinished

LEMMA OneJobCounted == QueuesOK /\ OneJobInv => OneJobPerWaitingClient
<1> SUFFICES ASSUME QueuesOK, OneJobInv, NEW c \in Client
             PROVE  Cardinality(JobsOf(c)) =
                      (IF client[c].step = "wait" /\ client[c].answer = "none" THEN 1 ELSE 0)
  BY DEF OneJobPerWaitingClient
<1> USE DEF OneJobInv
<1>1. c # Null
  BY NullAssumption
<1>2. \A p : p \in JobsOf(c) <=>
        \E w \in Worker : \E i \in DOMAIN queue[w] : p = <<w, i>> /\ queue[w][i].caller = c
  BY DEF JobsOf
<1>3. CASE Waiting(c)
  <2>1. PICK w \in Worker : \E i \in DOMAIN queue[w] : queue[w][i].caller = c
    BY <1>3 DEF HasJob
  <2>2. PICK i \in DOMAIN queue[w] : queue[w][i].caller = c
    BY <2>1
  <2>3. JobsOf(c) = {<<w, i>>}
    BY <1>1, <1>2, <2>2 DEF JobsDiffer
  <2> QED
    BY <1>3, <2>3, FS_Singleton DEF Waiting
<1>4. CASE ~Waiting(c)
  <2>1. JobsOf(c) = {}
    BY <1>1, <1>2, <1>4 DEF JobsAwaited
  <2> QED
    BY <1>4, <2>1, FS_EmptySet DEF Waiting
<1> QED
  BY <1>3, <1>4

\* A client that waits has one job in the queues until it is answered, and nobody else
\* has one: no call is forgotten, answered twice or answered to somebody else, however
\* many clients and workers there are and whichever rows the transactions use.
THEOREM WaitingClientsHaveOneJob == Spec => []OneJobPerWaitingClient
<1>1. Init => OneJobInv
  <2> SUFFICES ASSUME Init PROVE OneJobInv
    OBVIOUS
  <2>1. \A w \in Worker : queue[w] = <<>>
    BY DEF Init
  <2>2. \A c \in Client : client[c].step = "idle" /\ client[c].answer = "none"
    BY DEF Init, IdleClient
  <2> QED
    BY <2>1, <2>2, EmptySeq DEF OneJobInv, CallsKnown, JobsAwaited, JobsDiffer, Waiting
<1>2. TypeInv => QueuesOK
  BY DEF TypeInv
<1> QED
  BY <1>1, <1>2, InitTyped, TypeStep, OneJobStep, OneJobCounted, PTL DEF Spec
=============================================================================
