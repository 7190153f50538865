CONSTANTS
  Timers = {}
  OwnContext = {}
  Keys = {k1}
  Requests = {r1, r2}
  Starters = {s1, s2}
  Stoppers = {p1, p2}
  QueueSize = 1
  Overlap = FALSE
  MaxRestarts = 1
  None = None
  Own = Own
  BaseDelay = 1
  MaxDelay = 6
  MultiplierTop = 2
  MultiplierBottom = 1
  BackoffEnabled = TRUE
  ChurnThreshold = 9
  ChurnWindow = 2
  DecayResetDuration = 3
  MaxActivityHistory = 1
  MaxDuration = 1000
  MaxTime = 0
  MaxBackoff = 4
SYMMETRY Symmetry
SPECIFICATION Spec
INVARIANTS NoFatal ShutdownIsComplete QueuedOnce
PROPERTIES ImplementsContract
CHECK_DEADLOCK FALSE
