------------------------- MODULE TransactionRecord -------------------------
(***************************************************************************)
(* The transaction object of insecure-lockmanager/src/lockmanager/         *)
(* transaction.cpp.  `live' is not a field of the C++ object: it is FALSE  *)
(* while the memory of the object is free, before newTransaction and after *)
(* `delete transaction'.  The field `aborted' is left out: only            *)
(* releaseAllLocks sets it, in the last steps before the object is deleted.*)
(***************************************************************************)
EXTENDS Integers, FiniteSets

TransactionObject(Id, Row) ==
  [live : BOOLEAN, transaction_id : Id, growing_phase : BOOLEAN,
   lock_budget : Int, locked_rows : SUBSET Row]

newTransaction(id, lockBudget) ==
  [live |-> TRUE, transaction_id |-> id, growing_phase |-> TRUE,
   lock_budget |-> lockBudget, locked_rows |-> {}]

hasLock(transaction, row) == row \in transaction.locked_rows

\* The part of addLock under transaction->mut, once the lock is acquired.
addRow(transaction, row) ==
  [transaction EXCEPT !.locked_rows = @ \cup {row}, !.lock_budget = @ - 1]

\* Fault: the transaction does not start to shrink.
eraseRowOnly(transaction, row) == [transaction EXCEPT !.locked_rows = @ \ {row}]

\* The part of releaseLock under transaction->mut.
eraseRow(transaction, row) ==
  [transaction EXCEPT !.locked_rows = @ \ {row}, !.growing_phase = FALSE]

\* What deleted memory holds is never looked at.
deleted(null) ==
  [live |-> FALSE, transaction_id |-> null, growing_phase |-> FALSE,
   lock_budget |-> 0, locked_rows |-> {}]
=============================================================================
