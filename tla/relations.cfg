SPECIFICATION RelationsSpec
CONSTANTS
  TlsUnits = {"u1"}
  TlsAttributes = {"a1", "a2"}
  MaxTlsChanges = 4
  IngressUnits = {"u1", "u2"}
  IngressUrls = {"a", "b"}
  NoUrl = "none"
  NoLeader = "nobody"
  MaxIngressChanges = 5
  ScrapeRelations = {"r1", "r2", "r3"}
  Apps = {"a", "b"}
  AppUnits = {"u1", "u2", "w1"}
  AppOf <- MCAppOf
  UnitsOf <- MCUnitsOf
  Addresses = {"x1", "x2", "x3"}
  JobSpecs <- MCJobSpecs
  Any = "*"
  NoUnit = "none"
  NoAddress = "nowhere"
  MaxScrapeChanges = 3
  S3Units = {"u1", "u2"}
  S3Providers = {"p1", "p2"}
  S3Keys = {"a", "s"}
  S3Required = {"a", "s"}
  MaxS3Changes = 4
  Units = {"t1"}
  Relations = {"r1", "r2"}
  Protocols = {"otlp_http", "otlp_grpc"}
  AlwaysOn = {"otlp_http"}
  RequirerUnits = {"v1", "v2"}
  Coordinators = {"r2"}
  Wanted <- MCWanted
  OtlpHttp = "otlp_http"
  MaxRequirerChanges = 3
INVARIANTS OneOfEach ToldOfAssigned IngressAgreed
INVARIANTS ScrapedAsPublished ErrorsTold BucketRequested ConnectionCurrent
INVARIANTS NoHookRaises ExportsWhereOffered
PROPERTIES StaleSecretsHarmless EventuallyCertified EventuallyServed EventuallyScraped
CHECK_DEADLOCK FALSE
