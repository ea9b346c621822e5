SPECIFICATION SumSpec
CONSTANTS
  Records = {"prod", "cust", "contr", "inv"}
  NoRecord = "no_record"
  Types <- MCTypes
  Type <- MCType
  Refs <- MCRefs
  LinesOf <- MCLinesOf
  Mappable = {"prod", "cust", "contr", "inv"}
  Batches = {"b1", "b2"}
  Contents <- Repeated
  MaxAttempts = 2
  MayStall = FALSE
  NormalizeLimit = 4
  UpsertLimit = 4
  MaxFailed = 0
  None = None
  Gone = Gone
  IdnCustomers = {1, 2, 3, 4}
  IdnRuns = {1}
  IdnActors = {1}
  IdnJobs = {1, 2, 3}
  MaxIdnGroups = 4
  MaxIdnDecisions = 2
  MaxIdnFaults = 1
CONSTRAINT Bound
CHECK_DEADLOCK FALSE
INVARIANTS IngestionInv OverlapInv LossesHaveACause CompleteIsAccurate IdentityInv
PROPERTY RetryKeepsProgress
