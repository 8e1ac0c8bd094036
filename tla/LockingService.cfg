SPECIFICATION MCSpec
CONSTANTS
  Transaction = {1, 2}
  Row = {0, 1}
  Modest = 1
  ModestBudget = 1
  OtherBudget = 3
  Budget <- MCBudget
  StrayRow = 9
  Null = Null
  Observer = 2
  Key = {1, 2}
  NoKey = NoKey
  Zeros = Zeros
  Damaged = Damaged
  MaxFailures = 2
  HalfSize = 2
  Ecdsa <- MCEcdsa
  Setting <- MCSetting
  TableSize = 8
  NotRunning = NotRunning
INVARIANTS
  NeverCrashes
  BudgetPaysForLocks
  TablesAgree
  SignatureIsTrue
  KeysSurvive
  SignaturesVerify
  RepliesAreTrue
  AllServedAtTheEnd
PROPERTIES
  TwoPhaseUntilStop
