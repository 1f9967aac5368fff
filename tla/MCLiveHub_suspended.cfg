SPECIFICATION SuspendedSpec

CONSTANTS
  l1 = l1
  g1 = g1
  Layers = {l1}
  Keys = {}
  Guis = {g1}
  WireCap = 1
  KeydCap = 1
  MaxChanges = 4
  MaxLosses = 0
  MaxCrashes = 0
  MaxQuits = 0
  JoinRaces = FALSE

PROPERTIES
  ReadsPromptly

CHECK_DEADLOCK FALSE
