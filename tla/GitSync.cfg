SPECIFICATION Spec
CONSTANTS
  Empty = Empty
  Absent = Absent
  LocalGone = LocalGone
  RemoteGone = RemoteGone
  Other = Other
  Procs = {daemon, manual}
  Pullers = {daemon}
  Syncers = {daemon, manual}
  Paths = {f}
  Texts = {a, b}
  UserWrites = {a, Absent}
  OtherWrites = {b, Empty}
  MaxTime = 0
  MaxEdits = 1
  MaxCommits = 2
  Resolvers = {}
  MaxResolves = 0
  Nested = {}
  Linked = {f}
CHECK_DEADLOCK FALSE
INVARIANTS
  TypeOK
  NoEditLost
PROPERTIES
  NoSilentRevert
