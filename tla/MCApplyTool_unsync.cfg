SPECIFICATION Spec
CONSTANTS
  n1 = n1
  n2 = n2
  c1 = c1
  c2 = c2
  bad = bad
  r1 = r1
  r2 = r2
  Names = {n1}
  Contents = {c1, bad}
  Valid = {c1}
  Sensitive = {c1}
  Absent = Absent
  Torn = Torn
  Runs = {r1}
  NoRun = NoRun
  Concurrent = FALSE
  UnsyncedIO = TRUE
  MaxFaults = 1
  MaxClock = 0
  Retain = 1
  Requests <- RequestsOne
INVARIANTS
  Recoverable
  ErrorWroteNothing
CHECK_DEADLOCK FALSE
