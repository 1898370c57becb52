CONSTANTS
  a = a
  b = b
  w1 = w1
  Apps = {a, b}
  Workers = {w1}
  NoThread = NoThread
  WaitModes = {TRUE}
  Verdicts = {FALSE}
  Responder = TRUE
  Failing = {"requester", "subscriber", "responder", "callback", "logout"}
  CallbackStops = TRUE
  MaxStarts = 1
SPECIFICATION Spec
PROPERTY StopEndsLoop
