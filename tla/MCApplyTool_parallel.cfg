SPECIFICATION Spec
CONSTANTS
  n1 = n1
  n2 = n2
  c1 = c1
  c2 = c2
  bad = bad
  r1 = r1
  r2 = r2
  Names = {n1, n2}
  Contents = {c1, c2}
  Valid = {c1, c2}
  Sensitive = {}
  Absent = Absent
  Torn = Torn
  Runs = {r1, r2}
  NoRun = NoRun
  Concurrent = TRUE
  UnsyncedIO = TRUE
  MaxFaults = 1
  MaxClock = 0
  Retain = 1
  Requests <- RequestsTwo
SYMMETRY RunSymmetry
CONSTRAINT KeepOrHangUp
ACTION_CONSTRAINT NoRestart
INVARIANTS
  ParallelRuns
  OldBytesStay
CHECK_DEADLOCK FALSE
