SPECIFICATION MlSpec
CONSTANTS
  MlUnits = {1, 2}
  MlLeader = 1
  MlLabels = {"x", "y"}
  MaxMlChanges = 4
INVARIANTS LabelsRemoved
CHECK_DEADLOCK FALSE
