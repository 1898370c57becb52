CONSTANTS
  a = a
  b = b
  w1 = w1
  w2 = w2
  w3 = w3
  Apps = {a, b}
  Workers = {w1, w2, w3}
  NoThread = NoThread
  WaitModes = {TRUE, FALSE}
  Verdicts = {TRUE, FALSE}
  Responder = TRUE
  Failing = {"requester", "subscriber", "responder", "callback", "logout"}
  CallbackStops = TRUE
  MaxStarts = 2
SPECIFICATION Spec
INVARIANT TypeOK
INVARIANT WorkerOwned
