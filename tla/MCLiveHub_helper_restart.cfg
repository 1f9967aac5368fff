SPECIFICATION Spec

CONSTANTS
  l1 = l1
  l2 = l2
  g1 = g1
  Layers = {l1, l2}
  Keys = {}
  Guis = {g1}
  WireCap = 2
  KeydCap = 2
  MaxChanges = 3
  MaxLosses = 0
  MaxCrashes = 1
  MaxQuits = 0
  JoinRaces = FALSE

INVARIANTS
  SettledLayersTrue

CHECK_DEADLOCK FALSE
