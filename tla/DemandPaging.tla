---------------------------- MODULE DemandPaging ----------------------------
(***************************************************************************)
(* The lock manager of demand-paging: lock table and transactions are in   *)
(* the enclave, a granted lock is signed, and a transaction has a lock     *)
(* budget.  Owners and locked rows are C arrays that grow and shrink by    *)
(* copying, here sequences, with what the copying really leaves in them.   *)
(*                                                                         *)
(* One lock worker (the default) takes the requests one after the other,   *)
(* so that a request is one step.  How requests reach a worker, and what   *)
(* several workers do to each other, is the subject of JobDispatch and     *)
(* LockManager.  A request of a transaction that is not registered changes *)
(* nothing here, and is left out.                                          *)
(***************************************************************************)
EXTENDS Integers, Sequences, SequencesExt, Functions

CONSTANTS
  Transaction,   \* transaction identifiers
  Row,           \* row identifiers, natural numbers
  Budget,        \* the lock budget each transaction registers with
  StrayRow,      \* what uninitialised memory may hold besides a row in use
  Null

ASSUME RowAssumption == Row \subseteq Nat /\ StrayRow \in Nat \ Row
ASSUME BudgetAssumption == Budget \in [Transaction -> Nat]

\* What a pointer that is not null points to, and what is signed.
TransactionObject == [growing_phase : BOOLEAN, lock_budget : Int, locked_rows : Seq(Nat)]
LockObject == [exclusive : BOOLEAN, owners : Seq(Transaction)]
SignedLock == [transaction_id : Transaction, row_id : Row, exclusive : BOOLEAN]

ASSUME NullAssumption == Null \notin TransactionObject \cup LockObject \cup SignedLock

VARIABLES
  transactionTable,  \* the object of each registered transaction, or Null
  lockTable,         \* the lock of each row, or Null
  signature,         \* what the last request returned: what is signed, or Null
  crashed            \* a null pointer was followed

vars == <<transactionTable, lockTable, signature, crashed>>

-----------------------------------------------------------------------------
(* hashtable.cpp: a table is a function of its keys.  (The chains are the  *)
(* subject of module HashTable.)                                           *)

newHashTable(keys) == [k \in keys |-> Null]

get(table, key) == table[key]

contains(table, key) == table[key] # Null

\* What there is for a key stays.
set(table, key, value) == [table EXCEPT ![key] = IF @ = Null THEN value ELSE @]

remove(table, key) == [table EXCEPT ![key] = Null]

-----------------------------------------------------------------------------
(* lock.cpp                                                                *)

newLock == [exclusive |-> FALSE, owners |-> <<>>]

Owns(lock, t) == t \in Range(lock.owners)

CanShare(lock, t) == ~lock.exclusive /\ ~Owns(lock, t)

getSharedAccess(lock, t) == [lock EXCEPT !.owners = Append(@, t)]

CanOwnExclusively(lock) == lock.owners = <<>>

getExclusiveAccess(lock, t) == [exclusive |-> TRUE, owners |-> <<t>>]

\* Fault: the number of owners is not looked at.
CanUpgradeAsOneOfMany(lock, t) == Owns(lock, t)

CanUpgrade(lock, t) == lock.owners = <<t>>

\* The element after the owner's is copied over it, the others stay where they
\* are, and the last one is cut off.
Without(owners, t) ==
  LET i == CHOOSE j \in DOMAIN owners :
             owners[j] = t /\ \A k \in DOMAIN owners : owners[k] = t => j <= k
      moved == IF i < Len(owners) THEN [owners EXCEPT ![i] = owners[i + 1]] ELSE owners
  IN Front(moved)

release(lock, t) ==
  IF Owns(lock, t)
  THEN [exclusive |-> FALSE, owners |-> Without(lock.owners, t)]
  ELSE lock

\* Fault: the lock leaves the table with its first owner.
KeptNever(table, row, lock) == remove(table, row)

\* A lock without owners leaves the table.
Kept(table, row, lock) ==
  IF lock.owners = <<>> THEN remove(table, row) ELSE [table EXCEPT ![row] = lock]

-----------------------------------------------------------------------------
(* transaction.cpp                                                         *)

newTransaction(lockBudget) ==
  [growing_phase |-> TRUE, lock_budget |-> lockBudget, locked_rows |-> <<>>]

hasLock(transaction, row) == row \in Range(transaction.locked_rows)

addRow(transaction, row) ==
  [transaction EXCEPT !.locked_rows = Append(@, row), !.lock_budget = @ - 1]

\* `!row == rowId' keeps row 0 when row 1 is released and the other rows when
\* row 0 is.  The rest of the new array is uninitialised.
Not(row) == IF row = 0 THEN 1 ELSE 0

Copied(rows, row) ==
  LET kept[i \in 0..Len(rows)] ==
        IF i = 0 THEN <<>>
        ELSE IF Not(rows[i]) = row THEN Append(kept[i - 1], rows[i])
        ELSE kept[i - 1]
  IN kept[Len(rows)]

\* Fault: the transaction does not start to shrink.
AfterReleaseGrowing(transaction, row) ==
  {[transaction EXCEPT !.locked_rows = Copied(@, row)]}

AfterRelease(transaction, row) ==
  LET rows == transaction.locked_rows
      kept == Copied(rows, row)
      stray == Len(rows) - 1 - Len(kept)
  IN {[transaction EXCEPT !.locked_rows = kept \o garbage, !.growing_phase = FALSE] :
        garbage \in [1..stray -> Row \cup {StrayRow}]}

-----------------------------------------------------------------------------
(* enclave.cpp                                                             *)

Init ==
  /\ transactionTable = newHashTable(Transaction)
  /\ lockTable = newHashTable(Row)
  /\ signature = Null
  /\ crashed = FALSE

Registered(t) == contains(transactionTable, t)
Tx(t) == get(transactionTable, t)

\* A row asked for has a lock from then on, whether or not it is granted.
WithLock(r) == set(lockTable, r, newLock)
LockOf(r) == get(WithLock(r), r)

Sign(t, r, exclusive) ==
  [transaction_id |-> t, row_id |-> r, exclusive |-> exclusive]

Register(t) ==
  /\ ~crashed
  /\ ~Registered(t)
  /\ transactionTable' = set(transactionTable, t, newTransaction(Budget[t]))
  /\ signature' = Null
  /\ UNCHANGED <<lockTable, crashed>>

\* Fault: one lock too many.
MayAcquireOneMore(t) == Tx(t).growing_phase /\ Tx(t).lock_budget >= 0

MayAcquire(t) == Tx(t).growing_phase /\ Tx(t).lock_budget >= 1

MayUpgrade(t, r, exclusive) ==
  /\ MayAcquire(t)
  /\ hasLock(Tx(t), r) /\ exclusive /\ ~LockOf(r).exclusive
  /\ CanUpgrade(LockOf(r), t)

MayAdd(t, r, exclusive) ==
  /\ MayAcquire(t)
  /\ ~hasLock(Tx(t), r)
  /\ IF exclusive THEN CanOwnExclusively(LockOf(r)) ELSE CanShare(LockOf(r), t)

Upgrade(t, r) ==
  /\ ~crashed
  /\ Registered(t) /\ MayUpgrade(t, r, TRUE)
  /\ lockTable' = [lockTable EXCEPT ![r].exclusive = TRUE]
  /\ signature' = Sign(t, r, TRUE)
  /\ UNCHANGED <<transactionTable, crashed>>

AddLock(t, r, exclusive) ==
  /\ ~crashed
  /\ Registered(t) /\ MayAdd(t, r, exclusive)
  /\ lockTable' = [lockTable EXCEPT ![r] =
       IF exclusive THEN getExclusiveAccess(LockOf(r), t) ELSE getSharedAccess(LockOf(r), t)]
  /\ transactionTable' = [transactionTable EXCEPT ![t] = addRow(@, r)]
  /\ signature' = Sign(t, r, exclusive)
  /\ UNCHANGED crashed

\* Fault: the locks stay.
releaseNoLocks(table, t) == [table |-> table, crashed |-> FALSE]

\* Every element of locked_rows is looked up and released, and nobody checks
\* that there is a lock.
releaseAllLocks(table, t) ==
  LET rows == Tx(t).locked_rows
      done[i \in 0..Len(rows)] ==
        IF i = 0 THEN [table |-> table, crashed |-> FALSE]
        ELSE LET r == rows[i]
                 before == done[i - 1]
             IN IF before.crashed \/ r \notin Row \/ get(before.table, r) = Null
                THEN [before EXCEPT !.crashed = TRUE]
                ELSE [before EXCEPT !.table = Kept(@, r, release(get(@, r), t))]
  IN done[Len(rows)]

\* acquire_lock refuses, and abort_transaction follows.
Abort(t, r, exclusive) ==
  /\ ~crashed
  /\ Registered(t)
  /\ ~MayUpgrade(t, r, exclusive) /\ ~MayAdd(t, r, exclusive)
  /\ LET done == releaseAllLocks(WithLock(r), t)
     IN lockTable' = done.table /\ crashed' = done.crashed
  /\ transactionTable' = remove(transactionTable, t)
  /\ signature' = Null

\* release_lock: a row the transaction has no lock on is left alone, but a
\* transaction without locks is deleted in any case.
Unlock(t, r) ==
  /\ ~crashed
  /\ Registered(t) /\ get(lockTable, r) # Null
  /\ \E after \in IF hasLock(Tx(t), r) THEN AfterRelease(Tx(t), r) ELSE {Tx(t)} :
       transactionTable' = IF after.locked_rows = <<>> THEN remove(transactionTable, t)
                           ELSE [transactionTable EXCEPT ![t] = after]
  /\ lockTable' = IF hasLock(Tx(t), r) THEN Kept(lockTable, r, release(get(lockTable, r), t))
                  ELSE lockTable
  /\ signature' = Null
  /\ UNCHANGED crashed

Next ==
  \E t \in Transaction :
    \/ Register(t)
    \/ \E r \in Row :
         \/ Upgrade(t, r)
         \/ \E exclusive \in BOOLEAN : AddLock(t, r, exclusive) \/ Abort(t, r, exclusive)
         \/ Unlock(t, r)

Spec == Init /\ [][Next]_vars

-----------------------------------------------------------------------------

Holds(t, r) == Registered(t) /\ hasLock(Tx(t), r)
Owners(r) == IF lockTable[r] = Null THEN {} ELSE Range(lockTable[r].owners)
Exclusive(r) == lockTable[r] # Null /\ lockTable[r].exclusive

\* The rows an abort walks through all have a lock in the table.
NeverCrashes == ~crashed

\* A transaction that has released nothing has used one unit of its budget for
\* each lock it holds: upgrades cost nothing, refusals give nothing back, and
\* it never holds more locks than it registered for.
BudgetPaysForLocks ==
  \A t \in Transaction : Registered(t) /\ Tx(t).growing_phase =>
    /\ Len(Tx(t).locked_rows) + Tx(t).lock_budget = Budget[t]
    /\ Len(Tx(t).locked_rows) <= Budget[t]

\* locked_rows and owners say the same, and neither names anything twice.
TablesAgree ==
  /\ \A t \in Transaction, r \in Row : Holds(t, r) <=> t \in Owners(r)
  /\ \A t \in Transaction : Registered(t) => IsInjective(Tx(t).locked_rows)
  /\ \A r \in Row : lockTable[r] # Null => IsInjective(lockTable[r].owners)

\* What is signed is true: the transaction holds the row in the mode that was
\* signed, and nobody else holds it in a mode that disagrees.
SignatureIsTrue ==
  signature # Null =>
    LET t == signature.transaction_id  r == signature.row_id
    IN /\ Holds(t, r) /\ t \in Owners(r)
       /\ signature.exclusive = Exclusive(r)
       /\ signature.exclusive => \A u \in Transaction \ {t} : ~Holds(u, r)

\* An unlock of a row takes this row out of locked_rows, and no other.
UnlockForgetsOneRow ==
  [][\A t \in Transaction, r, s \in Row :
       Unlock(t, r) /\ Holds(t, r) => (Holds(t, s)' <=> Holds(t, s) /\ s # r)]_vars

\* An unlock releases the row for the transaction that asks, and the other
\* owners remain owners.
UnlockKeepsOtherOwners ==
  [][\A t, u \in Transaction, r \in Row :
       Unlock(t, r) /\ u # t /\ u \in Owners(r) => (u \in Owners(r))']_vars

PhaseOf(t) ==
  IF ~Registered(t) THEN "none"
  ELSE IF Tx(t).growing_phase THEN "growing" ELSE "shrinking"

ModeOf(t, r) ==
  IF ~Holds(t, r) THEN "none" ELSE IF Exclusive(r) THEN "exclusive" ELSE "shared"

\* Two-phase locking as module TwoPhaseLocking has it.
Abstract == INSTANCE TwoPhaseLocking WITH
  phase <- [t \in Transaction |-> PhaseOf(t)],
  held <- [t \in Transaction |-> [r \in Row |-> ModeOf(t, r)]]
=============================================================================
