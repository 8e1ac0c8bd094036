SPECIFICATION Spec
CONSTANTS
  Transaction = {t1, t2}
  Row = {1, 2}
  Client = {c1, c2}
  LockTableSize = 4
  LockThreads = 2
  Alone = t2
  LockWorker <- MCLockWorker
  TxWorker <- MCTxWorker
  RowWorker <- MCRowWorker
  Asks <- CrossingAsks
  WaitChoices <- Sync
  LockBudget = 2
  TxAddress = {o1, o2, o3}
  LockAddress = {l1, l2, l3}
  MaxQueue = 2
  Null = Null
CHECK_DEADLOCK FALSE
SYMMETRY Symmetry
INVARIANTS
  MutualExclusion
