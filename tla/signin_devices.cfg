SPECIFICATION Spec
CONSTANTS
  e1 = e1
  e2 = e2
  k1 = k1
  r1 = r1
  r2 = r2
  c1 = c1
  c2 = c2
  Addresses = {e1, e2}
  PushTokens = {k1}
  Requests = {r1, r2}
  Idle = Idle
  NoToken = NoToken
  NoUser = NoUser
  CodeAttemptsMax = 2
  DevicesMax = 1
  Burst = 2
  Sockets = {c1, c2}
  Process <- MCProcess
  May = {"start", "refill", "verify", "expire", "touch", "out", "others", "logout", "close", "register", "connect", "close_socket", "kill", "quiet", "land"}
  MaxCalls = 7
CHECK_DEADLOCK FALSE
INVARIANTS GuessesBounded OneAccountPerAddress DevicesHeld BuzzesItsOwn
PROPERTIES PresenceFollows
