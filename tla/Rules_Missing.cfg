SPECIFICATION RulesSpec
CONSTANTS
  None = None
  Null = Null
  Missing = Missing
  Books <- RuleBooks
  Today <- RuleToday
  NoVersion = NoVersion
  RevJobs = {j1}
  Versions = {v1}
  Periods = {p1}
  NumObligations = 2
  MaxRuns = 2
  Parts <- MCParts
  NoPrice = NoPrice
  Amounts = {5}
  Days = {2, 3}
  EndOfMonth <- MCEndOfMonth
  Types = {"subscription"}
  MaxObligations = 1
  InvoiceRows <- MCBills
  Threshold = 2
  SimActors = {a1, a2}
  SimKinds = {"fine", "overflows"}
  SimTemplate <- MCTemplate
  SimSeqs = {0}
  MaxSimRows = 2
  MaxSimRuns = 2
  MaxSimFaults = 1
  SimBooks <- MCSimBooks
  Overrides <- MCOverrides
  MaxOverrides = 2
CHECK_DEADLOCK FALSE
INVARIANT MissingIsFound
