----------------------------- MODULE Untrusted -----------------------------
(***************************************************************************)
(* evaluation/untrusted: both tables are outside the enclave.  The caller  *)
(* creates the transaction object, with identifier 0, and a worker of the  *)
(* enclave fills in the identifier: until then the object is in the table  *)
(* and stands for a transaction that is not registered.  The worker only   *)
(* ever adds locks; it does not look at the result, and an unlock does     *)
(* nothing.                                                                *)
(*                                                                         *)
(* One worker serves the locks and one the registrations, each in the      *)
(* order of its queue; their mutexes are the subject of JobDispatch.  A    *)
(* registration is refused if the bucket of the object is not as it was    *)
(* when the enclave hashed it last.  Callers, who add objects that are not *)
(* registered, do not change that; the locks of the other worker do.       *)
(***************************************************************************)
EXTENDS Integers, Sequences, FiniteSets

CONSTANTS
  Caller,       \* threads that call LockManager
  TransactionId,
  RowId,
  TransactionTableSize, \* buckets of the transaction table
  CallBound,    \* bound: the calls a thread makes
  None          \* no object, no thread

ASSUME IdAssumption == TransactionId \subseteq Nat \ {0} /\ RowId \subseteq Nat \ {0}
ASSUME TableSizeAssumption == TransactionTableSize \in Nat \ {0}
ASSUME CallBoundAssumption == CallBound \in Nat

\* None is a null pointer.
ASSUME NoneAssumption ==
  /\ None \notin Caller
  /\ None \notin [transaction_id : Nat, locked_rows : Seq(RowId)]
  /\ None \notin [exclusive : BOOLEAN, owners : Seq(Nat)]

VARIABLES
  new_transaction_mut,  \* the thread that holds it, or None
  object,               \* transactionTable: [transaction_id, locked_rows], or None
  lock,                 \* lockTable: [exclusive, owners], or None
  hashes,               \* of each bucket: what the enclave hashed last, see Hashed
  admitted,             \* the transaction worker has hashed a registration that is not in object
  registrations,        \* the queue of the transaction worker
  requests,             \* the queue of the lock worker
  call,                 \* of each thread: [step, transaction_id, row_id, exclusive, wait, made]
  asked,                \* how often registerTransaction was called for a transaction
  returned,             \* the transactions for which it has returned TRUE
  early                 \* those for which a lock was requested when they were none of these

enclave == <<hashes, admitted>>
queues == <<registrations, requests>>
history == <<asked, returned, early>>
untrustedVars == <<new_transaction_mut, object, lock, enclave, queues, call, history>>

Bucket == 0..(TransactionTableSize - 1)

NoCall ==
  [step |-> "idle", transaction_id |-> 0, row_id |-> 0, exclusive |-> FALSE,
   wait |-> FALSE, made |-> 0]

newHashTable(keys) == [k \in keys |-> None]

UntrustedInit ==
  /\ new_transaction_mut = None
  /\ object = newHashTable(TransactionId)
  /\ lock = newHashTable(RowId)
  /\ hashes = [b \in Bucket |-> {}]
  /\ admitted = FALSE
  /\ registrations = <<>>
  /\ requests = <<>>
  /\ call = [c \in Caller |-> NoCall]
  /\ asked = [t \in TransactionId |-> 0]
  /\ returned = {}
  /\ early = {}

-----------------------------------------------------------------------------
(* hashtable.cpp, of which nothing is ever removed here                     *)

get(table, key) == table[key]

contains(table, key) == table[key] # None

\* A second entry for a key is not made, or made where get does not find it.
set(table, key, value) == [table EXCEPT ![key] = IF @ = None THEN value ELSE @]

-----------------------------------------------------------------------------
(* lock.cpp and transaction.cpp: nobody asks whether the transaction has    *)
(* the lock already.                                                        *)

emptyLock == [exclusive |-> FALSE, owners |-> <<>>]

newObject == [transaction_id |-> 0, locked_rows |-> <<>>]

MayHave(l, exclusive) == IF exclusive THEN l.owners = <<>> ELSE ~l.exclusive

WithOwner(l, id, exclusive) ==
  [exclusive |-> exclusive \/ l.exclusive, owners |-> Append(l.owners, id)]

WithRow(o, r) == [o EXCEPT !.locked_rows = Append(@, r)]

-----------------------------------------------------------------------------
(* The callers                                                             *)

Step(c) == call[c].step
Goes(c, step) == call' = [call EXCEPT ![c].step = step]
IsBack(c) == call' = [call EXCEPT ![c] = [NoCall EXCEPT !.made = call[c].made]]

Begins(c, step, t, r, exclusive, wait) ==
  /\ Step(c) = "idle" /\ call[c].made < CallBound
  /\ call' = [call EXCEPT ![c] =
       [step |-> step, transaction_id |-> t, row_id |-> r, exclusive |-> exclusive,
        wait |-> wait, made |-> @.made + 1]]

CallRegister(c, t) ==
  /\ Begins(c, "register", t, 0, FALSE, TRUE)
  /\ asked' = [asked EXCEPT ![t] = @ + 1]
  /\ UNCHANGED <<new_transaction_mut, object, lock, enclave, queues, returned, early>>

LockMutex(c) ==
  /\ Step(c) = "register"
  /\ new_transaction_mut = None
  /\ new_transaction_mut' = c
  /\ Goes(c, "look")
  /\ UNCHANGED <<object, lock, enclave, queues, history>>

Known(t) == get(object, t) # None /\ get(object, t).transaction_id # 0

\* "Transaction already registered": the call returns, and has the mutex.
RefuseAndKeepMutex(c) ==
  /\ Step(c) = "look"
  /\ Known(call[c].transaction_id)
  /\ IsBack(c)
  /\ UNCHANGED <<new_transaction_mut, object, lock, enclave, queues, history>>

\* Fault: the mutex is not given back either when all is well.
NeverUnlock == new_transaction_mut' = new_transaction_mut

UnlockMutex == new_transaction_mut' = None

CreateObject(c) ==
  /\ Step(c) = "look"
  /\ ~Known(call[c].transaction_id)
  /\ object' = set(object, call[c].transaction_id, newObject)
  /\ UnlockMutex
  /\ Goes(c, "send")
  /\ UNCHANGED <<lock, enclave, queues, history>>

SendRegistration(c) ==
  /\ Step(c) = "send"
  /\ registrations' = Append(registrations,
            [transaction_id |-> call[c].transaction_id, caller |-> c])
  /\ Goes(c, "wait")
  /\ UNCHANGED <<new_transaction_mut, object, lock, enclave, requests, history>>

\* LockManager::lock has the mutex new_lock_mut while it adds the lock.
CallLock(c, t, r, exclusive, wait) ==
  /\ Begins(c, "request", t, r, exclusive, wait)
  /\ lock' = IF contains(lock, r) THEN lock ELSE set(lock, r, emptyLock)
  /\ UNCHANGED <<new_transaction_mut, object, enclave, queues, history>>

\* enclave_send_job: an object in the table is all that is asked for.
SendRequest(c) ==
  /\ Step(c) = "request"
  /\ IF ~contains(object, call[c].transaction_id)
     THEN IsBack(c) /\ UNCHANGED <<requests, early>>
     ELSE /\ early' = early \cup ({call[c].transaction_id} \ returned)
          /\ requests' = Append(requests,
               [transaction_id |-> call[c].transaction_id, row_id |-> call[c].row_id,
                exclusive |-> call[c].exclusive,
                caller |-> IF call[c].wait THEN c ELSE None])
          /\ IF call[c].wait THEN Goes(c, "wait") ELSE IsBack(c)
  /\ UNCHANGED <<new_transaction_mut, object, lock, enclave, registrations, asked, returned>>

\* The worker has set *finished, if somebody waits for it.
Answer(c) == IF c = None THEN UNCHANGED call ELSE Goes(c, "done")

GetAnswer(c) ==
  /\ Step(c) \in {"done", "refused"}
  /\ IsBack(c)
  /\ returned' = IF Step(c) = "done" /\ call[c].row_id = 0
                 THEN returned \cup {call[c].transaction_id} ELSE returned
  /\ UNCHANGED <<new_transaction_mut, object, lock, enclave, queues, asked, early>>

-----------------------------------------------------------------------------
(* The workers                                                             *)

\* The transactions of a bucket that are registered, with what is hashed of each
\* that changes later.  Objects of transactions that are not do not count.
Hashed(b, table) ==
  {<<t, table[t].locked_rows>> :
     t \in {u \in TransactionId : /\ u % TransactionTableSize = b
                                  /\ table[u] # None /\ table[u].transaction_id # 0}}

\* The bucket of t is as it was when it was hashed last.
Verified(t) ==
  LET b == t % TransactionTableSize IN hashes[b] = Hashed(b, object)

\* Fault: the object never gets its identifier.
Unidentified(t) == object

Identified(t) == [object EXCEPT ![t].transaction_id = t]

\* The verification fails, or the transaction is registered already: *error is set.
RefuseRegistration ==
  /\ registrations # <<>> /\ ~admitted
  /\ LET t == Head(registrations).transaction_id IN ~Verified(t) \/ Known(t)
  /\ Goes(Head(registrations).caller, "refused")
  /\ registrations' = Tail(registrations)
  /\ UNCHANGED <<new_transaction_mut, object, lock, enclave, requests, history>>

\* The copy in the enclave gets the identifier, and is hashed.
Admit ==
  /\ registrations # <<>> /\ ~admitted
  /\ LET t == Head(registrations).transaction_id
         b == t % TransactionTableSize
     IN /\ Verified(t) /\ ~Known(t)
        /\ hashes' = [hashes EXCEPT ![b] = Hashed(b, Identified(t))]
  /\ admitted' = TRUE
  /\ UNCHANGED <<new_transaction_mut, object, lock, queues, call, history>>

\* Then the object in the table, which may have got a lock in between.
FillIn ==
  /\ admitted
  /\ object' = Identified(Head(registrations).transaction_id)
  /\ Goes(Head(registrations).caller, "done")
  /\ registrations' = Tail(registrations)
  /\ admitted' = FALSE
  /\ UNCHANGED <<new_transaction_mut, lock, hashes, requests, history>>

ServeRegistration == RefuseRegistration \/ Admit \/ FillIn

\* The owner is whatever identifier the object has.  What the enclave hashed of
\* the bucket is not brought up to date.
acquire_lock(t, r, exclusive) ==
  IF MayHave(lock[r], exclusive)
  THEN /\ lock' = [lock EXCEPT ![r] = WithOwner(@, object[t].transaction_id, exclusive)]
       /\ object' = [object EXCEPT ![t] = WithRow(@, r)]
  ELSE UNCHANGED <<lock, object>>

ServeLock ==
  /\ requests # <<>>
  /\ acquire_lock(Head(requests).transaction_id, Head(requests).row_id, Head(requests).exclusive)
  /\ Answer(Head(requests).caller)
  /\ requests' = Tail(requests)
  /\ UNCHANGED <<new_transaction_mut, enclave, registrations, history>>

-----------------------------------------------------------------------------

RegistrationStep(c) ==
  RefuseAndKeepMutex(c) \/ CreateObject(c) \/ SendRegistration(c)

CallerStep(c) == RegistrationStep(c) \/ SendRequest(c) \/ GetAnswer(c)

\* Every thread has made its calls, or waits for the mutex for ever.
Quiet ==
  /\ registrations = <<>> /\ requests = <<>>
  /\ \A c \in Caller :
       \/ Step(c) = "idle" /\ call[c].made = CallBound
       \/ Step(c) = "register" /\ new_transaction_mut # None
  /\ UNCHANGED untrustedVars

UntrustedNext ==
  \/ \E c \in Caller :
       \/ \E t \in TransactionId :
            \/ CallRegister(c, t)
            \/ \E r \in RowId, exclusive, wait \in BOOLEAN : CallLock(c, t, r, exclusive, wait)
       \/ LockMutex(c) \/ CallerStep(c)
  \/ ServeRegistration \/ ServeLock
  \/ Quiet

\* Workers and callers go on when they can.  (As the calls are bounded, the
\* mutex is not taken by others again and again.)
UntrustedFairness ==
  /\ WF_untrustedVars(ServeRegistration \/ ServeLock)
  /\ \A c \in Caller : WF_untrustedVars(LockMutex(c) \/ CallerStep(c))

UntrustedSpec == UntrustedInit /\ [][UntrustedNext]_untrustedVars /\ UntrustedFairness

-----------------------------------------------------------------------------

\* Every call of registerTransaction returns, if no transaction is ever asked
\* to register a second time.  (One that is registered already leaves the mutex
\* locked, and the next registration of any transaction waits for ever.)
RegistrationReturns ==
  \A c \in Caller :
    Step(c) = "register" ~> (Step(c) = "idle" \/ \E t \in TransactionId : asked[t] > 1)

\* A row has a transaction among its owners as often as the transaction has it
\* among its locked rows, if its callers wait until the registration has returned
\* TRUE before they ask for locks.  If they do not, the object, which is in the
\* table before that, can get rows whose owner is 0, but never an owner without
\* the row.
Times(s, x) == {i \in DOMAIN s : s[i] = x}

OwnersHaveRows ==
  \A t \in TransactionId, r \in RowId : object[t] # None /\ lock[r] # None =>
    LET owned == Cardinality(Times(lock[r].owners, t))
        rows == Cardinality(Times(object[t].locked_rows, r))
    IN owned <= rows /\ (t \notin early => owned = rows)
=============================================================================
