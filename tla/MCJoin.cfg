SPECIFICATION FairSpec
CONSTANTS
  Worker = {w1, w2}
  Task = {t1, t2, t3}
  None = None

PROPERTIES JoinReturns
CHECK_DEADLOCK FALSE
