CONSTANTS
  Timers = {t1, t2, t3}
  OwnContext = {t1, t2, t3}
  Keys = {k1, k2}
  Requests = {}
  Starters = {}
  Stoppers = {p1}
  QueueSize = 1
  Overlap = FALSE
  MaxRestarts = 0
  None = None
  Own = Own
  BaseDelay = 1
  MaxDelay = 6
  MultiplierTop = 2
  MultiplierBottom = 1
  BackoffEnabled = TRUE
  ChurnThreshold = 9
  ChurnWindow = 2
  DecayResetDuration = 3
  MaxActivityHistory = 1
  MaxDuration = 1000
  MaxTime = 0
  MaxBackoff = 4
SYMMETRY Symmetry
SPECIFICATION Spec
INVARIANTS TypeOK PendingIsLive
PROPERTIES ImplementsContract
CHECK_DEADLOCK FALSE
