SPECIFICATION Spec
CONSTANTS
  Orders = {o1, o2}
  Garments = {g1, g2}
  Phones = {ph1}
  Payments = {p1, p2}
  None = None
  MaxPieces = 2
  MaxHolds = 1
  MaxQueries = 1
  MaxJobs = 1
  FailureCodes = {"1037"}
SYMMETRY Symmetry
CHECK_DEADLOCK FALSE
INVARIANTS
  HoldsPerPhone
