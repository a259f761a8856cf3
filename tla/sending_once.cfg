SPECIFICATION FairSpec
CONSTANTS
  k1 = k1
  k2 = k2
  c1 = c1
  c2 = c2
  Send = {k1, k2}
  HasFile = {k1}
  Call = {c1, c2}
  None = None
  May = {"death", "lost", "error", "limit", "block", "sweep", "retry"}
  MaxEvents = 4
CHECK_DEADLOCK FALSE
INVARIANTS ExactlyOnce FileKept NothingLost InOrder
PROPERTIES Settles
