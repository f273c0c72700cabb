SPECIFICATION LibrariesSpec
CONSTANTS
  Apps = {1, 2, 3, 4, 5}
  Protocols = {"otlp_http", "otlp_grpc"}
  AlwaysOn = {"otlp_http"}
  Mixed = FALSE
  MaxUnits = 3
  MaxChanges = 3
  MaxHistory = 2
  MaxSize = 3
  Sizes = {1, 4}
  BatchesPerHook = 2
  MaxBatches = 3
  TempoUnits = {"tempo/0", "tempo/1"}
  TempoLeader = "tempo/0"
  Grafanas = {"g1", "g2"}
  AppDatasource = TRUE
  UnitDatasources = TRUE
  AppName = "tempo"
  MaxSourceChanges = 6
  GdRelations = {1, 2}
  GdUnits = {1, 2}
  GdGrafanas = {1, 2}
  GdRevisions <- MCGdRevisions
  MaxGdChanges = 3
  ArRelations = {1, 2, 3}
  ArRuleSets <- MCArRuleSets
  ArMetadataOf <- MCArMetadataOf
  NoId = "none"
  NoRules = NoRules
  MaxArChanges = 4
  LfRelations = {"g", "h"}
  LfLokis = {"l1", "l2", "l3"}
  LfAppOf <- MCLfAppOf
  LfUrls = {"a", "b"}
  NoLfUrl = "none"
  LfContainers = {"c"}
  MaxLfChanges = 5
  PrRelations = {1, 2}
  MaxPrChanges = 5
  RwRelations = {1, 2}
  RwUrls = {"a", "b"}
  NoRwUrl = "none"
  RwServers = {"p1", "p2"}
  RwUnits = {"t1", "t2"}
  MaxRwChanges = 3
  PbRelations = {1, 2}
  PbUnits = {1, 2}
  PbUrls = {"http", "https"}
  PbNone = "none"
  MaxPbChanges = 4
  MpRelations = {1, 2, 3, 4}
  MpAppOf <- MCMpAppOf
  MpTargetOf <- MCMpTargetOf
  MpForeign = {"offer"}
  MaxMpChanges = 6
  MlUnits = {1, 2}
  MlLeader = 1
  MlLabels = {"x", "y"}
  MaxMlChanges = 4
  RlPods = {0, 1}
  RlLimits <- MCRlLimits
  RlRequests <- MCRlRequests
  RlAdhere = TRUE
  MaxRlChanges = 3
INVARIANTS LibrariesTypeOK KeptUnlessExposed BacklogLimited
INVARIANTS OfferedIsKept ExchangeCurrent QueriesFlow ReplicasPlaced ForwardedIsOpen
INVARIANTS DashboardsShown RulesInUse LogsForwarded PromtailWorks RemoteWriteCurrent
INVARIANTS RelatedIsProbed AllowedIsRelated LabelsCurrent LimitsHold
PROPERTIES FlushLosesNothing LeftIsListed
CHECK_DEADLOCK FALSE
