--------------------------- MODULE LockingService ---------------------------
(***************************************************************************)
(* The server of demand-paging from end to end: a client's wrapper, gRPC,  *)
(* the server's handler, LockManager, the enclave's tables and its key.    *)
(* The process can be stopped at any time: the tables are lost, the file   *)
(* with the sealed key and the signatures that clients hold remain.        *)
(*                                                                         *)
(* Programs that link LockManager (tests, benchmark) call it directly, and *)
(* may use row 0.  Remote clients go through client.cpp, which refuses the *)
(* identifier 0, and may lose the answer.  A request is one step, as in    *)
(* module DemandPaging.                                                    *)
(***************************************************************************)
EXTENDS DemandPaging, KeyStorage, LockSignatures

CONSTANT Observer  \* the transaction whose signatures are followed

ASSUME ObserverAssumption == Observer \in Transaction

VARIABLES
  grant,  \* Observer's last signature: the lock and the text; or Null
  reply   \* what the last call returned, or Null

tables == <<transactionTable, lockTable, signature, crashed>>
serviceVars == <<tables, keyVars, grant, reply>>

\* Signatures of different locks, or with different keys, differ.
ASSUME EcdsaAssumption ==
  LET Lock == {lock_to_string(t, r, x) : t \in Transaction, r \in Row, x \in BOOLEAN}
  IN /\ Ecdsa \in [Key \X Lock -> [x : Half, y : Half]]
     /\ \A a, b \in Key \X Lock : Ecdsa[a] = Ecdsa[b] => a = b

ServiceInit ==
  /\ Init
  /\ KeyInit
  /\ grant = Null
  /\ reply = Null

NO_SIGNATURE == <<>>

SignatureText == [a \in DOMAIN Ecdsa |-> return_value(Ecdsa[a])]

Text(lock) ==
  SignatureText[<<key, lock_to_string(lock.transaction_id, lock.row_id, lock.exclusive)>>]

\* return_value before a worker writes to it.
unwritten == [p \in 1..SIGNATURE_SIZE |-> 0]

-----------------------------------------------------------------------------
(* What a call returns, from the enclave outwards                          *)

\* Fault: *job.error is not looked at.
IgnoreError(job, error, text) ==
  [signature |-> IF job.wait_for_result THEN text ELSE NO_SIGNATURE, ok |-> TRUE]

\* The pair that a caller of LockManager gets: without waiting, always the
\* same; else what the worker (or, for a transaction that is not registered,
\* enclave_send_job) has set.
create_enclave_job(job, error, text) ==
  IF job.wait_for_result /\ error THEN [signature |-> NO_SIGNATURE, ok |-> FALSE]
  ELSE [signature |-> IF job.wait_for_result THEN text ELSE NO_SIGNATURE, ok |-> TRUE]

RegisterTransaction(result) == IF result.ok THEN "OK" ELSE "CANCELLED"

\* LockShared and LockExclusive.
LockStatus(result) == IF result.ok THEN "OK" ELSE "CANCELLED"

\* unlock of LockManager returns nothing.
UnlockStatus == "OK"

\* gRPC: the status arrives, or the call fails though it was served.
Received(status, arrives) == IF arrives THEN status ELSE "UNAVAILABLE"

\* requestSharedLock and requestExclusiveLock return the signature alone.
requestLock(result, status) ==
  IF status = "OK" THEN result ELSE [signature |-> NO_SIGNATURE, ok |-> FALSE]

registerTransaction(status) == [signature |-> NO_SIGNATURE, ok |-> status = "OK"]
requestUnlock(status) == [signature |-> NO_SIGNATURE, ok |-> status = "OK"]

-----------------------------------------------------------------------------
(* The calls                                                               *)

\* How a call is made: directly or through client.cpp, which does not ask the
\* server for row 0; waiting or not; and whether the status arrives.
Ways(r) ==
  {w \in [remote : BOOLEAN, wait : BOOLEAN, arrives : BOOLEAN] :
     /\ w.remote => r # 0
     /\ ~w.remote \/ ~w.wait => w.arrives}

Job(command, t, r, wait) ==
  [command |-> command, transaction_id |-> t, row_id |-> r, wait_for_result |-> wait]

\* What the caller has learned: nothing if it did not wait or got no status.
Returns(job, way, result) ==
  reply' = IF way.wait /\ way.arrives THEN [job |-> job, result |-> result] ELSE Null

Unchanged ==
  /\ signature' = Null
  /\ UNCHANGED <<transactionTable, lockTable, crashed>>

RegisterCall(t, way) ==
  LET job == Job("REGISTER", t, 0, TRUE)
      error == Registered(t)
      result == create_enclave_job(job, error, NO_SIGNATURE)
  IN /\ Running /\ ~crashed
     /\ IF error THEN Unchanged ELSE Register(t)
     /\ Returns(job, way,
          IF way.remote
          THEN registerTransaction(Received(RegisterTransaction(result), way.arrives))
          ELSE result)
     /\ UNCHANGED <<keyVars, grant>>

Granted(t, r, exclusive) ==
  \/ exclusive /\ Upgrade(t, r)
  \/ AddLock(t, r, exclusive)

Refused(t, r, exclusive) ==
  \/ ~Registered(t) /\ Unchanged
  \/ Abort(t, r, exclusive)

LockResult(job, way) ==
  LET error == signature' = Null
      result == create_enclave_job(job, error, IF error THEN unwritten ELSE Text(signature'))
  IN IF way.remote THEN requestLock(result, Received(LockStatus(result), way.arrives))
     ELSE result

\* Observer's client keeps the signature it receives.
Keep(t, result) ==
  IF result.signature # NO_SIGNATURE
  THEN /\ SignWithKey
       /\ grant' = IF t = Observer THEN [lock |-> signature', text |-> result.signature]
                   ELSE grant
  ELSE UNCHANGED <<keyVars, grant>>

LockCall(t, r, exclusive, way) ==
  LET job == Job(IF exclusive THEN "EXCLUSIVE" ELSE "SHARED", t, r, way.wait)
  IN /\ Running /\ ~crashed
     /\ Granted(t, r, exclusive) \/ Refused(t, r, exclusive)
     /\ LET result == LockResult(job, way)
        IN Returns(job, way, result) /\ Keep(t, result)

UnlockCall(t, r, way) ==
  /\ Running /\ ~crashed
  /\ IF Registered(t) /\ get(lockTable, r) # Null THEN Unlock(t, r) ELSE Unchanged
  /\ Returns(Job("UNLOCK", t, r, way.wait), way,
             requestUnlock(Received(UnlockStatus, way.arrives)))
  /\ UNCHANGED <<keyVars, grant>>

Call ==
  \E t \in Transaction :
    \/ \E way \in Ways(t) : way.wait /\ RegisterCall(t, way)
    \/ \E r \in Row : \E way \in Ways(r) :
         \/ \E exclusive \in BOOLEAN : LockCall(t, r, exclusive, way)
         \/ UnlockCall(t, r, way)

-----------------------------------------------------------------------------
(* Start and stop                                                          *)

\* enclave_init_values makes new tables.
StartServer ==
  /\ Starting
  /\ UNCHANGED <<tables, grant, reply>>

StopServer ==
  /\ Stop
  /\ transactionTable' = newHashTable(Transaction)
  /\ lockTable' = newHashTable(Row)
  /\ signature' = Null
  /\ crashed' = FALSE
  /\ reply' = Null
  /\ UNCHANGED grant

ServiceNext == StartServer \/ StopServer \/ Call

ServiceSpec == ServiceInit /\ [][ServiceNext]_serviceVars

-----------------------------------------------------------------------------

\* A signature that a client once received verifies, with the server that runs
\* now, for the lock that was granted and for no other, as long as no call into
\* the SDK or the file system has failed.  (What may fail without harm is the
\* subject of KeysSurvive.)
SignaturesVerify ==
  Running /\ failures = 0 /\ grant # Null =>
    \A t \in Transaction, r \in Row, x \in BOOLEAN :
      verify_signature(key, grant.text, t, r, x) <=> grant.lock = Sign(t, r, x)

\* What reaches the caller through all layers is what happened to the tables:
\* a registration that returns true has begun a transaction with its full
\* budget, one that returns false finds it registered, a signature comes with
\* the lock, an empty string that is the lock manager's answer means
\* that the transaction was aborted or never registered, and after an unlock
\* that returns true the row is not locked by the transaction.
RepliesAreTrue ==
  reply # Null =>
    LET t == reply.job.transaction_id
        r == reply.job.row_id
        returned == reply.result
    IN CASE reply.job.command = "REGISTER" ->
              Registered(t) /\ (returned.ok => Tx(t) = newTransaction(Budget[t]))
         [] reply.job.command = "UNLOCK" -> returned.ok => ~Holds(t, r)
         [] returned.signature # NO_SIGNATURE -> Holds(t, r)
         [] OTHER -> ~Registered(t)

\* Two-phase locking, where a stop of the server ends all transactions.
TwoPhaseUntilStop ==
  /\ Abstract!Init
  /\ [][Abstract!Next \/ (Stop /\ Abstract!Init')]_Abstract!vars
=============================================================================
