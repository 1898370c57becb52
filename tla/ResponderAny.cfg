CONSTANTS
  a = a
  Apps = {a}
  Worker = Worker
  NoThread = NoThread
  Listener = TRUE
  Verdicts = {TRUE, FALSE}
  Throws = TRUE
  Responds = TRUE
  Frames = {1, 2, 3}
  SeqMod = 4
  MaxRequests = 2
  MaxPublished = 1
  MaxResponds = 2
SPECIFICATION Spec
INVARIANT TypeOK
INVARIANT ReplyFits
INVARIANT RepliesOrdered
INVARIANT NothingDropped
INVARIANT AuthDecided
PROPERTY EveryRequestAnswered
