SPECIFICATION StartSpec
CONSTANTS
  Units = {"u1", "u2"}
  FirstUnits = {"u1"}
  Relations = {}
  Protocols = {"otlp_http", "otlp_grpc"}
  GrpcProtocols = {"otlp_grpc"}
  AlwaysOn = {"otlp_http"}
  Hosts = {"h1"}
  NoHost = ""
  AppHost = "app"
  MaxChanges = 5
INVARIANTS WaitsForAWriter
PROPERTY Convergence
CHECK_DEADLOCK FALSE
