CONSTANTS
  a = a
  w1 = w1
  w2 = w2
  w3 = w3
  Apps = {a}
  Workers = {w1, w2, w3}
  NoThread = NoThread
  WaitModes = {TRUE, FALSE}
  Verdicts = {TRUE, FALSE}
  Responder = TRUE
  Failing = {"requester", "subscriber", "responder", "callback", "logout"}
  CallbackStops = FALSE
  MaxStarts = 3
SPECIFICATION Spec
INVARIANT StoppedMeansQuiet
INVARIANT RefusedOnlyWhenQuiet
INVARIANT NoJoinableDestroyed
INVARIANT SocketsOutliveLoop
PROPERTY OnlyVerdictsDefeat
