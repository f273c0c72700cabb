SPECIFICATION TracingSpec
CONSTANTS
  Units = {"u1", "u2"}
  FirstUnits = {"u1", "u2"}
  Relations = {"r1", "r2"}
  Protocols = {"otlp_http", "otlp_grpc"}
  GrpcProtocols = {"otlp_grpc"}
  AlwaysOn = {"otlp_http"}
  Hosts = {"h1"}
  NoHost = ""
  AppHost = "app"
  MaxChanges = 5
INVARIANTS TypeOK RequestsAnswered PortsFollowDemand
PROPERTY AnswersLikeADirectory
CHECK_DEADLOCK FALSE
