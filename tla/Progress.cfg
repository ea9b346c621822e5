SPECIFICATION Spec
CONSTANTS
  DigestRuns = {r1, r2}
  Actors = {a1}
  NoRun = NoRun
  Items = {i1, i2}
  Reviewers = {c1, c2, c3}
  Nobody = Nobody
  Sweeps = {s1, s2}
  Cadence = 1
  Week = 1
  MaxTime = 2
  MaxFaults = 1
  Limit = 1
  MaxFailures = 1
CHECK_DEADLOCK FALSE
INVARIANTS DigestsInv ReviewInv LeftBehindIsBounded
PROPERTIES DigestsComplete DecisionsStay StuckItemsReturn AttemptEnds
