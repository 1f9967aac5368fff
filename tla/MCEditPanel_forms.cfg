SPECIFICATION PanelSpec

CONSTANTS
  Files <- MCFiles
  Ids <- MCIds
  EditKeys = {"a", "b"}
  Members = {"b", "c"}
  Values <- MCValues
  LabelTexts = {"u"}
  Targets = {"nav"}
  HoldTargets = {"nav"}
  Taps <- MCValues
  Feels = {""}
  Kinds = {"toggle"}
  ChordKeys = {}
  MacroDrafts = {}
  Options = {"o"}
  NewNames = {"new"}
  StepsTyped <- MCSteps
  Repeats <- MCRepeat
  MaxSteps = 1
  MaxEdits = 2

INVARIANTS
  FormsShowTheKey
  ScreenFollows
  FocusIsReal
PROPERTIES
  ChordEditReplaces
