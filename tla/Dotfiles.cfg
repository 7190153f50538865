SPECIFICATION Spec
CONSTANTS
  Absent = Absent
  Torn = Torn
  Cut = Cut
  Mixed = Mixed
  Empty = Empty
  hb = hb
  hv = hv
  nb = nb
  nv = nv
  a = a
  b = b
  c = c
  MinPull = 2
  Durations <- OneToTwo
  Homes = {hb, hv}
  Names = {nb, nv}
  Procs = {p, q}
  Texts = {a, b, c, d}
  Original <- Before
  NameOf <- OneName
  Decoded <- OnePath
  MaxCommands = 2
  MaxFaults = 1
  MaxWrites = 1
CHECK_DEADLOCK FALSE
INVARIANTS
  TypeOK
  NothingLost
  ConfigSound
PROPERTIES
  AddAllOrNothing
  SetKeepsOthers
SYMMETRY Symmetry
VIEW View
