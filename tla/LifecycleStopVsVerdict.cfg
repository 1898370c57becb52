CONSTANTS
  a = a
  w1 = w1
  Apps = {a}
  Workers = {w1}
  NoThread = NoThread
  WaitModes = {FALSE}
  Verdicts = {TRUE}
  Responder = FALSE
  Failing = {}
  CallbackStops = FALSE
  MaxStarts = 1
SPECIFICATION Spec
PROPERTY StopReturns
