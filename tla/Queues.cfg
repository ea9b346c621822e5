CONSTANTS
  Clients = {c1}
  Keys = {k1}
  Jobs = {j1}
  Workers = {w1, w2}
  NoKey = NoKey
  NoJob = NoJob
  NoWorker = NoWorker
  MaxAttempts = 3
  MaxStalls = 1
  Exports = {e1}
  NoExport = NoExport
  Ticks = {t1}
SPECIFICATION SumSpec
INVARIANTS TypeOK BoundedProcessing CompletedJobIsRecorded
PROPERTIES QueuedJobsSettle ExportsSettle
CHECK_DEADLOCK FALSE
