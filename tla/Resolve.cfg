SPECIFICATION Spec
CONSTANTS
  Empty = Empty
  Absent = Absent
  LocalGone = LocalGone
  RemoteGone = RemoteGone
  Other = Other
  Procs = {daemon}
  Pullers = {daemon}
  Syncers = {}
  Paths = {f}
  Texts = {a, b}
  UserWrites = {a, Absent}
  OtherWrites = {b, Empty}
  MaxTime = 1
  MaxEdits = 2
  MaxCommits = 2
  Resolvers = {r}
  MaxResolves = 1
  Nested = {}
  Linked = {f}
CHECK_DEADLOCK FALSE
INVARIANTS
  EditAtHand
  ListedIsWhole
VIEW View
