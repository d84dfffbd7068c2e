SPECIFICATION Spec
CONSTANTS
  Orders = {o1}
  Garments = {g1}
  Phones = {ph1}
  Payments = {p1}
  None = None
  MaxPieces = 2
  MaxHolds = 2
  MaxQueries = 1
  MaxJobs = 1
  FailureCodes = {"1037"}
SYMMETRY Symmetry
CHECK_DEADLOCK FALSE
INVARIANTS
  HeldStockHasAWaitingOrder
