SPECIFICATION GdSpec
CONSTANTS
  GdRelations = {1}
  GdUnits = {1}
  GdGrafanas = {1, 2}
  GdRevisions <- TwoVersions
  MaxGdChanges = 3
INVARIANTS SecondariesUpdate
CHECK_DEADLOCK FALSE
