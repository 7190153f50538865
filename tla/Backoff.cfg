CONSTANTS
  BaseDelay = 2
  MaxDelay = 5
  MultiplierTop = 3
  MultiplierBottom = 2
  BackoffEnabled = TRUE
  ChurnThreshold = 2
  ChurnWindow = 2
  DecayResetDuration = 3
  MaxActivityHistory = 3
  MaxDuration = 9
  MaxTime = 6
  MaxBackoff = 4
SPECIFICATION BackoffSpec
INVARIANTS BackoffTypeOK HistoryIsWindow DelayInRange
PROPERTIES ChurnNeverShortensDelay
