SPECIFICATION FairSpec
CONSTANTS
  a = a
  b = b
  e1 = e1
  e2 = e2
  r1 = r1
  Absent = Absent
  NoFile = NoFile
  NoRun = NoRun
  NoSession = NoSession
  NoRequest = NoRequest
  Files = {a, b}
  Edits = {e1, e2}
  Installed = {a}
  Runs = {r1}
  Uses = {"create", "delete", "restore", "switch"}
INVARIANTS
  BoardsAreReal
PROPERTIES
  EditsAreNeverDropped
  FlowsEnd
