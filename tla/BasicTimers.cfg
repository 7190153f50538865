CONSTANTS
  Timers = {t1, t2, t3}
  Keys = {k1, k2}
  None = None

SPECIFICATION FairSpec
CHECK_DEADLOCK FALSE
INVARIANTS TwoArmedNeedARun
PROPERTIES ImplementsContract AddedRuns

