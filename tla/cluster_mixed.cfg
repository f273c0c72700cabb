SPECIFICATION DeployedSpec
CONSTANTS
  Apps = {1, 2, 3, 4, 5}
  Protocols = {"otlp_http", "otlp_grpc"}
  AlwaysOn = {"otlp_http"}
  Mixed = TRUE
  MaxUnits = 3
  MaxChanges = 2
INVARIANT FrontendsServed
CHECK_DEADLOCK FALSE
