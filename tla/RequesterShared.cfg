CONSTANTS
  a = a
  b = b
  c = c
  k1 = k1
  k2 = k2
  Threads = {a, b, c}
  NoThread = NoThread
  Tokens = {k1, k2}
  NoToken = NoToken
  Torn = Torn
  None = None
  Kinds = {"login", "other"}
  Frames = {1, 2, 3}
  MaxRequests = 4
SPECIFICATION Spec
INVARIANT TypeOK
INVARIANT LoginFirst
PROPERTY SessionStable
PROPERTY RequestReturns
INVARIANT SocketReady
INVARIANT TokenLive
