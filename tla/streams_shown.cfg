SPECIFICATION Spec
CONSTANTS
  MaxMessage = 1
  MaxDelta = 1
  TextMax = 1
  BufferMax = 1
  AgentCall = {f1}
  StopCall = {s1}
  Sweeper = {}
  Fetch = {g1}
  MaxTime = 2
  IdleFor = 1
  StuckFor = 0
  TTL = 1
  SweepLimit = 1
  MaxFaults = 0
  MaxOpens = 3
CHECK_DEADLOCK FALSE
INVARIANTS ShownWhole
