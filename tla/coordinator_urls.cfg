SPECIFICATION UrlsSpec
CONSTANTS
  Units = {"u1", "u2", "u3"}
  FirstUnits = {"u1", "u2"}
  Relations = {"r1"}
  Protocols = {"otlp_http", "otlp_grpc"}
  GrpcProtocols = {"otlp_grpc"}
  AlwaysOn = {"otlp_http"}
  Hosts = {"h1"}
  NoHost = ""
  AppHost = "app"
  MaxChanges = 6
INVARIANTS UrlsCurrent RouteCurrent
CHECK_DEADLOCK FALSE
