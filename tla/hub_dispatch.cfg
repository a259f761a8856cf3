SPECIFICATION FairSpec
CONSTANTS
  p1 = p1
  c1 = c1
  c2 = c2
  Principal = {p1}
  Conn = {c1, c2}
  PrincipalOf <- OfOne
  MaxEvent = 3
  Buffer = 1
CHECK_DEADLOCK FALSE
INVARIANTS NoSendOnClosed NoGap
PROPERTIES CloseEndsAll
