SPECIFICATION FairSpec

CONSTANTS
  l1 = l1
  l2 = l2
  k = k
  Layers = {l1, l2}
  Keys = {k}
  PipeCap = 2
  MaxChanges = 3
  MaxLosses = 2

INVARIANTS
  WindowFollows
PROPERTIES Settles

CHECK_DEADLOCK FALSE
