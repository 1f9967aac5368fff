SPECIFICATION Spec
CONSTANTS
  a = a
  e1 = e1
  r1 = r1
  r2 = r2
  Absent = Absent
  NoFile = NoFile
  NoRun = NoRun
  NoSession = NoSession
  NoRequest = NoRequest
  Files = {a}
  Edits = {e1}
  Installed = {a}
  Runs = {r1, r2}
  Uses = {"create", "delete", "restore", "switch"}
SYMMETRY RunSymmetry
INVARIANTS
  WindowIsControlled
  KeptWasTried
  AsksWhatWasWanted
PROPERTIES
  KeepIsHeard
