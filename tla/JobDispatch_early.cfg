SPECIFICATION Spec
CONSTANTS
  NumThreads = 2
  Client = {c1, c2}
  MaxCalls = 1
  Builds = {"demand_paging", "out_of_enclave"}
  EarlyCalls = TRUE
  Main = Main
  Nobody = Nobody
  Raw = Raw
  Destroyed = Destroyed
INVARIANTS
  OneInQueue
