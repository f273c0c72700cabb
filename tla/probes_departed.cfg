SPECIFICATION PbSpec
CONSTANTS
  PbRelations = {1, 2}
  PbUnits = {1, 2}
  PbUrls = {"http", "https"}
  PbNone = "none"
  MaxPbChanges = 4
INVARIANTS DepartedIsNotProbed
CHECK_DEADLOCK FALSE
