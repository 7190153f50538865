SPECIFICATION Spec
CONSTANTS
  NoFile = NoFile
  Garbled = Garbled
  Procs = {d1, d2, c1}
  d1 = d1
  d2 = d2
  c1 = c1
  Inodes = {i1, i2}
  CmdInodes = {j1, j2}
  MaxCrashes = 1
  May <- MayRun
CHECK_DEADLOCK FALSE
INVARIANTS
  TypeOK
  Singleton
  EndsClean
SYMMETRY Symmetry
VIEW View
