SPECIFICATION SumSpec
CONSTANTS
  Clients = {c1, c2}
  NoOverride = NoOverride
  Jobs = {j1, j2}
  Types = {t1}
  MaxInserts = 2
  MaxStalls = 1
  None = None
  SyncActors = {c1, c2}
  SyncRuns = {j1, j2}
  Records = {x1, x2}
  MaxDate = 3
  PageSize = 1
  MaxTries = 2
  MaxDeaths = 1
SYMMETRY SumSymmetry
CONSTRAINT Bound
CHECK_DEADLOCK FALSE
INVARIANTS TermsInv ReadinessIsCurrent SyncInv
