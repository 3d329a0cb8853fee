CONSTANTS
  Thread = {t1, t2}
  Starter = t1
  NoThread = NoThread
  MaxConn = 3
  MaxFaults = 0
SPECIFICATION Spec
INVARIANT AckedOnce
CHECK_DEADLOCK FALSE
