SPECIFICATION Spec
CONSTANTS
  o = o
  p = p
  q = q
  a1 = a1
  a2 = a2
  t1 = t1
  r1 = r1
  r2 = r2
  Users = {o, p, q}
  Agents = {a1, a2}
  Tokens = {t1}
  Requests = {r1, r2}
  OwnerOf <- MCOwner
  Founding = {a1}
  Members = {o, p}
  WelcomeAgent = a1
  NoAgent = NoAgent
  NoToken = NoToken
  Idle = Idle
  MaxUses = 1
  PinsMax = 1
  Patches = {{"mute", "pin"}, {"pin", "archive"}}
  May = {"token", "revoke", "expire", "agent", "delete", "signup", "close", "accept", "catalogue", "block", "unblock", "patch", "remove", "report"}
  MaxCalls = 5
SYMMETRY RequestsAlike
CHECK_DEADLOCK FALSE
INVARIANTS JoinedWhole
PROPERTIES ClosedCodeBringsNobody BlockTold
