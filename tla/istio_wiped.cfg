SPECIFICATION WipingSpec
CONSTANTS
  Units = {"u1"}
  FirstUnits = {"u1"}
  Relations = {"r1"}
  Protocols = {"otlp_http", "otlp_grpc"}
  GrpcProtocols = {"otlp_grpc"}
  AlwaysOn = {"otlp_http"}
  Hosts = {"h1"}
  NoHost = ""
  AppHost = "app"
  MaxChanges = 4
INVARIANT UrlsCurrent
CHECK_DEADLOCK FALSE
