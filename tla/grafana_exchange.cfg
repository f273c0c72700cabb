SPECIFICATION SourcesSpec
CONSTANTS
  TempoUnits = {"tempo/0", "tempo/1"}
  TempoLeader = "tempo/0"
  Grafanas = {"g1"}
  AppDatasource = TRUE
  UnitDatasources = FALSE
  AppName = "tempo"
  MaxSourceChanges = 2
INVARIANT ExchangeComplete
CHECK_DEADLOCK FALSE
