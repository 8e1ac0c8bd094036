SPECIFICATION Spec
CONSTANTS
  Transaction = {t1, t2}
  Row = {2, 3}
  Modest = t1
  ModestBudget = 2
  OtherBudget = 2
  Budget <- MCBudget
  StrayRow = 9
  Null = Null
CHECK_DEADLOCK FALSE
PROPERTIES
  UnlockForgetsOneRow
