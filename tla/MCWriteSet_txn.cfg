SPECIFICATION CallerSpec
CONSTANTS
  n1 = n1
  n2 = n2
  c1 = c1
  bad = bad
  r1 = r1
  r2 = r2
  Names = {n1, n2}
  Contents = {c1, bad}
  Valid = {c1}
  Absent = Absent
  Torn = Torn
  Runs = {r1, r2}
  NoRun = NoRun
  Concurrent = FALSE
  UnsyncedIO = TRUE
  MaxFaults = 2
  MaxClock = 1
  Retain = 1
  WriteSets <- Sets
SYMMETRY RunSymmetry
INVARIANTS
  EndsClean
  FaultsCostOneFileEach
PROPERTIES
  OnlySurplusPruned
CHECK_DEADLOCK FALSE
