SPECIFICATION SumSpec
CONSTANTS
  Clients = {c1, c2}
  Keys = {k1}
  Jobs = {j1, j2}
  Workers = {w1}
  NoKey = NoKey
  NoJob = NoJob
  NoWorker = NoWorker
  MaxAttempts = 2
  MaxStalls = 0
  None = None
  DetKeys = {i1, i2}
  MaxDetRuns = 3
  DetJobs = {j1, j2}
  DetActors = {c1, c2}
  Configs = {"default"}
  MaxDeaths = 1
SYMMETRY SumSymmetry
CONSTRAINT FewActors
CHECK_DEADLOCK FALSE
INVARIANTS OneJobPerKey HonestDuplicate IssuesInv
PROPERTY KeepsPromise
