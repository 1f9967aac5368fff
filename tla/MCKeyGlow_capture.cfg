SPECIFICATION GlowSpec

CONSTANTS
  kb0 = kb0
  kb1 = kb1
  virtual = virtual
  a = a
  b = b
  sheet0 = sheet0
  sheet1 = sheet1
  AnySheet = AnySheet
  Keyboards = {kb0, kb1, virtual}
  KeyNames = {a, b}
  Sheets = {sheet0, sheet1}
  SheetOf <- MCSheetOf
  Uses = {"edit", "capture"}
  MaxStrikes = 3
  MaxQueue = 2

INVARIANTS
  HeldIsPhysical

CHECK_DEADLOCK FALSE
