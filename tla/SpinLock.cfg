CONSTANTS
  t1 = t1
  t2 = t2
  t3 = t3
  t4 = t4
  t5 = t5
  Threads = {t1, t2, t3, t4, t5}
  NoThread = NoThread
SPECIFICATION Spec
INVARIANT LockInv
PROPERTY SomeoneEnters
PROPERTY ImplementsMutex
