SPECIFICATION Spec
CONSTANTS
  Clients = {c1, c2}
  Ticks = {t1}
  Runs = {r1, r2}
  NoRun = NoRun
  Rows = 1
  MaxAttempts = 1
  MaxStalls = 1
SYMMETRY Symmetry
CONSTRAINT RepeatsAlone
CHECK_DEADLOCK FALSE
INVARIANTS UploadsInv NothingStranded
PROPERTY DeletedForGood
