SPECIFICATION Spec
CONSTANTS
  here = here
  there = there
  r1 = r1
  r2 = r2
  SlotsPerDay = 2
  Zones = {here, there}
  Offset <- MCOffset
  NoTime = NoTime
  Schedules = {1, 2, 3}
  Requests = {r1, r2}
  Cadences <- MCCadences
  Starts <- MCStarts
  MaxSchedules = 1
  Keep = Keep
  Idle = Idle
  NoEvent = NoEvent
  May = {"request", "offer", "change", "delete", "confirm", "drop", "run", "move", "close", "pass"}
  MaxCalls = 3
CHECK_DEADLOCK FALSE
INVARIANTS TimesRight LastWordTold
