SPECIFICATION Spec
CONSTANTS
  Exports = {e1}
  NoExport = NoExport
  Jobs = {j1, j2}
  NoJob = NoJob
  Clients = {c1, c2}
  Ticks = {t1}
  MaxStalls = 0
SYMMETRY Symmetry
CHECK_DEADLOCK FALSE
INVARIANTS TypeOK CompletedIsDownloadable AuditIsEarned StuckHasACause
PROPERTIES DeletedForGood
