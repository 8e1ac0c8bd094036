--------------------------- MODULE MCOutOfEnclave ---------------------------
(* Instances of OutOfEnclave for TLC.                                      *)
EXTENDS OutOfEnclave, TLC

CONSTANTS BucketSize, BudgetOfAll

MCBucketOf == [r \in Row |-> r \div BucketSize]
MCBudget == [t \in Transaction |-> BudgetOfAll]
AllAsks == Request

\* What LockManager::lock and unlock wait for when nothing else is said.
AwaitLocks == {"SHARED", "EXCLUSIVE"}

Symmetry == Permutations(Client) \cup Permutations(Transaction)
=============================================================================
