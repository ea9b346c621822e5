SPECIFICATION Spec
CONSTANTS
  DetKeys = {k1}
  MaxDetRuns = 2
  DetJobs = {j1, j2}
  DetActors = {a1}
  Configs = {f1}
  None = None
  MaxDeaths = 0
CHECK_DEADLOCK FALSE
INVARIANT ReplaysComplete
