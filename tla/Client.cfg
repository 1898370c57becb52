CONSTANTS
  a = a
  w1 = w1
  k1 = k1
  Apps = {a}
  Workers = {w1}
  NoThread = NoThread
  Loop = Loop
  Tokens = {k1}
  NoToken = NoToken
  Torn = Torn
  None = None
  RequestKinds = {"login", "other"}
  Frames = {2}
  Verdicts = {FALSE}
  Throws = TRUE
  MaxStarts = 1
  MaxRequests = 2
  MaxBackRequests = 1
  MaxPublished = 1
  MaxResponds = 1
SPECIFICATION Spec
INVARIANT NoSessionLeak
INVARIANT LogoutAlone
INVARIANT TakenMeansAnswered
PROPERTY DestroyEnds
PROPERTY ImplementsService
