SPECIFICATION FairSpec
CONSTANTS
  MaxMessage = 1
  MaxDelta = 2
  TextMax = 1
  BufferMax = 2
  AgentCall = {f1}
  StopCall = {s1}
  Sweeper = {p1}
  Fetch = {}
  MaxTime = 2
  IdleFor = 0
  StuckFor = 0
  TTL = 1
  SweepLimit = 1
  MaxFaults = 1
  MaxOpens = 0
CHECK_DEADLOCK FALSE
INVARIANTS ToldOnce
PROPERTIES FinishedFinal StreamsEnd WholeUnlessTruncated
