--------------------------- MODULE MCLockManager ---------------------------
(* Instances of LockManager for TLC.                                       *)
EXTENDS LockManager, TLC

CONSTANTS LockTableSize, LockThreads, Alone

Partition == INSTANCE RowPartition

MCLockWorker == 0..(LockThreads - 1)
MCTxWorker == LockThreads
MCRowWorker == [r \in Row |-> Partition!ThreadOf(r, LockTableSize, LockThreads)]

MinRow == CHOOSE r \in Row : \A s \in Row : r <= s
MaxRow == CHOOSE r \in Row : \A s \in Row : s <= r

\* Every request but for a shared lock on the last row.
AlmostAllAsks == {a \in Request : a.row_id = MaxRow => a.command # "SHARED"}

\* Alone writes the last row, the others read it and the first row.
CrossingAsks ==
  {a \in Request : IF a.transaction_id = Alone
                   THEN a.command = "EXCLUSIVE" /\ a.row_id = MaxRow
                   ELSE a.command = "SHARED"}

Sync == {TRUE}
Both == BOOLEAN

Symmetry ==
  Permutations(Client) \cup Permutations(TxAddress) \cup Permutations(LockAddress)
FullSymmetry == Symmetry \cup Permutations(Transaction)
=============================================================================
