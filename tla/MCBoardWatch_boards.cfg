SPECIFICATION FairSpec

CONSTANTS
  Paths <- MCPaths
  Contents <- MCContents
  Bodies = {"y"}
  Devices <- MCDevices
  FirstDisks <- MCDisks
  FirstDevs <- MCDevs
  Examples = FALSE
  Outside = {"write", "remove", "plug", "permit"}
  Racy = FALSE
  MaxChanges = 2

INVARIANTS
  BoardsAgree
  PathsDistinct
  MatchersAgree
PROPERTIES
  BoardsConverge
  MapConverges
