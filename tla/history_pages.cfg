SPECIFICATION Spec
CONSTANTS
  r1 = r1
  r2 = r2
  s1 = s1
  w1 = w1
  Msgs = {1, 2, 3}
  Media = {1, 2}
  Size <- MCSize
  Requests = {r1, r2}
  Sweepers = {s1}
  Budget = 1
  MessageAge = 1
  UnclaimedAge = 1
  Batch = 1
  MaxTime = 2
  None = None
  Idle = Idle
  Walks = {w1}
  PageSize = 1
  JoinedAt = 0
  Worlds <- MCWorlds
  MaxCalls <- MCCalls
CHECK_DEADLOCK FALSE
INVARIANTS RowHasBytes
PROPERTIES WordsKept OnlyPastTheLine ExpiredGoes WholeOrTrimmed NothingComesBack
