SPECIFICATION Spec

CONSTANTS
  Files <- MCFiles
  Ids <- MCIds
  EditKeys = {"a", "b"}
  Values <- MCValues
  LabelTexts = {"u"}
  Targets = {"nav"}
  HoldTargets = {"nav", "shift"}
  Taps <- MCTaps
  Feels = {"", "responsive", "typing"}
  Kinds = {"layer", "toggle", "oneshot"}
  ChordKeys <- MCChords
  MacroDrafts <- MCDrafts
  Options = {"o"}
  NewNames = {"sym", "new"}
  MaxEdits = 1

INVARIANTS
  EditsSurviveSaving

CHECK_DEADLOCK FALSE
