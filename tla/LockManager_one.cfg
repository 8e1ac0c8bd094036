SPECIFICATION Spec
CONSTANTS
  Transaction = {t1, t2}
  Row = {1, 2}
  Client = {c1}
  LockTableSize = 4
  LockThreads = 1
  Alone = t2
  LockWorker <- MCLockWorker
  TxWorker <- MCTxWorker
  RowWorker <- MCRowWorker
  Asks <- AlmostAllAsks
  WaitChoices <- Both
  LockBudget = 2
  TxAddress = {o1, o2, o3}
  LockAddress = {l1, l2}
  MaxQueue = 2
  Null = Null
SYMMETRY FullSymmetry
INVARIANTS
  TypeOK
  NoFault
  HoldersOwnTheirLocks
  OwnersHoldTheirLocks
  MutualExclusion
  LocksCompatible
  GrantedIsHeld
  RefusedHoldsNothing
  ShrinkingHoldsLock
  OneJobPerWaitingClient
PROPERTIES
  LostOnlyByOwnRequest
  TwoPhase
