SPECIFICATION Spec
CONSTANTS
  Clients = {c1, c2}
  NoOverride = NoOverride
  Jobs = {j1, j2}
  Types = {t1}
  MaxInserts = 2
  MaxStalls = 1
SYMMETRY Symmetry
CHECK_DEADLOCK FALSE
INVARIANTS CorrectionsSurvive
