SPECIFICATION Spec
CONSTANTS
  Transaction = {t1, t2}
  Row = {2, 3}
  BucketSize = 2
  BudgetOfAll = 2
  BucketOf <- MCBucketOf
  Client = {c1, c2}
  Asks <- AllAsks
  Awaited <- AwaitLocks
  Budget <- MCBudget
  kTransactionBudget = 2
  MaxQueue = 2
  Null = Null
CHECK_DEADLOCK FALSE
SYMMETRY Symmetry
INVARIANTS
  TypeOK
  HashesMatch
  TablesAgree
  ExclusiveAlone
PROPERTIES
  UnlockReleases
