SPECIFICATION Spec
CONSTANTS
  Records = {"prod", "cust", "contr", "inv"}
  NoRecord = "no_record"
  Types <- MCTypes
  Type <- MCType
  Refs <- MCRefs
  LinesOf <- MCLinesOf
  Mappable = {"prod", "cust", "contr", "inv"}
  Batches = {"b1"}
  Contents <- OneBatch
  MaxAttempts = 2
  MayStall = FALSE
  NormalizeLimit = 4
  UpsertLimit = 4
  MaxFailed = 0
CHECK_DEADLOCK FALSE
INVARIANTS RerunResumes
