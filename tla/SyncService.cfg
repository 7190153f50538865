SPECIFICATION Spec
CONSTANTS
  Nobody = Nobody
  Clients = {s1, s2, p1, p2}
  Starters = {s1, s2}
  Stoppers = {p1, p2}
  Calls = {}
  Requests = {r1}
  SlowAccept = FALSE
  Overlap = FALSE
  CallbackStop = Nobody
  Impatient = {p2}
CHECK_DEADLOCK FALSE
INVARIANTS
  NoNilSocket
  ServerIsDown
  StoppedIsQuiet
  FailedStartLeaves
