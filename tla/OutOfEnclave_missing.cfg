SPECIFICATION Spec
CONSTANTS
  Transaction = {t1, t2}
  Row = {1, 2}
  BucketSize = 1
  BudgetOfAll = 1
  BucketOf <- MCBucketOf
  Client = {c1}
  Asks <- AllAsks
  Awaited <- AwaitLocks
  Budget <- MCBudget
  kTransactionBudget = 2
  MaxQueue = 2
  Null = Null
CHECK_DEADLOCK FALSE
INVARIANTS
  LockWasAdded
