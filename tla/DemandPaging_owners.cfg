SPECIFICATION Spec
CONSTANTS
  Transaction = {t1, t2, t3}
  Row = {2}
  Modest = t1
  ModestBudget = 1
  OtherBudget = 1
  Budget <- MCBudget
  StrayRow = 9
  Null = Null
CHECK_DEADLOCK FALSE
PROPERTIES
  UnlockKeepsOtherOwners
