SPECIFICATION Spec
CONSTANTS
  a1 = a1
  Agent = {a1}
  MaxEvent = 1
  AgentOf <- OneAgent
  Worker = {w1}
  Conn = {c1}
  MaxBinding = 2
  MaxTime = 5
  Lease = 1
  RetryDelays <- Delays
  RetryFor = 3
  UnreachableAfter = 1
  BatchSize = 1
  SocketBatch = 1
  Faults = TRUE
CHECK_DEADLOCK FALSE
INVARIANTS TypeOK DeliveredIsKnown TickTruthful UnreachableMeansSilent
PROPERTIES OutcomeFinal KeepsPromise
