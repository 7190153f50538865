CONSTANTS
  Timers = {t1, t2}
  OwnContext = {}
  Keys = {k1}
  Requests = {r1}
  Starters = {s1}
  Stoppers = {p1}
  QueueSize = 1
  Overlap = FALSE
  MaxRestarts = 1
  None = None
  Own = Own
  BaseDelay = 1
  MaxDelay = 6
  MultiplierTop = 2
  MultiplierBottom = 1
  BackoffEnabled = TRUE
  ChurnThreshold = 9
  ChurnWindow = 2
  DecayResetDuration = 3
  MaxActivityHistory = 1
  MaxDuration = 1000
  MaxTime = 0
  MaxBackoff = 4
SPECIFICATION FairSpec
PROPERTIES StopTerminates QueuedIsAnswered AddedRuns
CHECK_DEADLOCK FALSE
