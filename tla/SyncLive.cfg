SPECIFICATION FairSpec
CONSTANTS
  Nobody = Nobody
  Clients = {s1, p1}
  Starters = {s1}
  Stoppers = {p1}
  Calls = {c1}
  Requests = {r1}
  SlowAccept = FALSE
  Overlap = FALSE
  CallbackStop = Nobody
  Impatient = {}
CHECK_DEADLOCK FALSE
INVARIANTS
  StoppedIsQuiet
  StatusSettles
PROPERTY
  StopReturns
