SPECIFICATION FairSpec

CONSTANTS
  l1 = l1
  k = k
  g1 = g1
  Layers = {l1}
  Keys = {k}
  Guis = {g1}
  WireCap = 2
  KeydCap = 2
  MaxChanges = 2
  MaxLosses = 1
  MaxCrashes = 1
  MaxQuits = 1
  JoinRaces = FALSE

INVARIANTS
  NoStuckGlow
  HubFollows
PROPERTIES
  Settles

CHECK_DEADLOCK FALSE
