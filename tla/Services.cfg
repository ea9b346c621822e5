SPECIFICATION Spec
CONSTANTS
  None = None
  Null = Null
  Missing = Missing
  Books <- RuleBooks
  Today <- RuleToday
  NoVersion = NoVersion
  RevJobs = {j1, j2}
  Versions = {v1, v2}
  Periods = {p1}
  NumObligations = 2
  MaxRuns = 2
  Parts <- MCParts
  NoPrice = NoPrice
  Amounts = {5, 100}
  Days = {2, 3, 4, 7}
  EndOfMonth <- MCEndOfMonth
  Types = {"subscription", "usage", "one_time"}
  MaxObligations = 3
  InvoiceRows <- MCBills
  Threshold = 2
  SimActors = {a1, a2}
  SimKinds = {"fine", "overflows"}
  SimTemplate <- MCTemplate
  SimSeqs = {0}
  MaxSimRows = 2
  MaxSimRuns = 2
  MaxSimFaults = 1
  SimBooks <- MCSimBooks
  Overrides <- MCOverrides
  MaxOverrides = 2
SYMMETRY Symmetry
CONSTRAINT Bound
CHECK_DEADLOCK FALSE
INVARIANTS ScheduleInv RevenueInv LeaksInv ReportInv WhatIfInv OrderDoesNotMatter SimulationInv
