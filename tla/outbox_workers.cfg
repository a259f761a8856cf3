SPECIFICATION FairSpec
CONSTANTS
  a1 = a1
  Agent = {a1}
  MaxEvent = 1
  AgentOf <- OneAgent
  Worker = {w1, w2}
  Conn = {}
  MaxBinding = 2
  MaxTime = 5
  Lease = 2
  RetryDelays <- OneDelay
  RetryFor = 2
  UnreachableAfter = 1
  BatchSize = 1
  SocketBatch = 1
  Faults = TRUE
CHECK_DEADLOCK FALSE
INVARIANTS LeaseExclusive ReachesOnlyEligible
PROPERTIES Settled
