SPECIFICATION Spec

CONSTANTS
  Files <- MCFiles
  Ids <- MCIds
  EditKeys = {"a", "b"}
  Values <- MCValues
  LabelTexts = {"u"}
  Targets = {"nav"}
  HoldTargets = {"nav", "shift"}
  Taps <- MCTaps
  Feels = {"", "responsive", "typing"}
  Kinds = {"layer", "toggle", "oneshot"}
  ChordKeys <- MCChords
  MacroDrafts <- MCDrafts
  Options = {"o"}
  NewNames = {"sym", "new"}
  MaxEdits = 2

INVARIANTS
  FileIsSound
  ChangesAreSeen
  PreviewTellsKeyd
PROPERTIES
  EditsTakeEffect
  NothingElseChanges
  NothingIsLost

CHECK_DEADLOCK FALSE
