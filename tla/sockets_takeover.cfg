SPECIFICATION FairSpec
CONSTANTS
  c1 = c1
  c2 = c2
  c3 = c3
  i1 = i1
  i2 = i2
  Conn = {c1, c2, c3}
  Instance = {i1, i2}
  InstanceOf <- Spread
  Breaks = TRUE
CHECK_DEADLOCK FALSE
PROPERTIES AtMostOneStays StatusFollows
