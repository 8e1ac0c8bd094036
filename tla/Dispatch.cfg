SPECIFICATION MCSpec
CONSTANTS
  NumThreads = 2
  Client = {c1, c2}
  MaxCalls = 1
  Builds = {"insecure", "demand_paging", "out_of_enclave"}
  EarlyCalls = FALSE
  Main = Main
  Nobody = Nobody
  Raw = Raw
  Destroyed = Destroyed
  Caller = {u1, u2}
  TransactionId = {1, 3}
  RowId = {1}
  TransactionTableSize = 2
  CallBound = 2
  None = None
INVARIANTS
  OneInQueue
  InitialisedBeforeUse
  NoLostWakeup
  OneJobPerCall
  NothingLeft
  OwnersHaveRows
PROPERTIES
  CallsReturn
  ShutsDown
  RegistrationReturns
