SPECIFICATION Spec

CONSTANTS
  l1 = l1
  l2 = l2
  g1 = g1
  Layers = {l1, l2}
  Keys = {}
  Guis = {g1}
  WireCap = 2
  KeydCap = 2
  MaxChanges = 2
  MaxLosses = 0
  MaxCrashes = 0
  MaxQuits = 0
  JoinRaces = TRUE

INVARIANTS
  NewClientsFollow

CHECK_DEADLOCK FALSE
