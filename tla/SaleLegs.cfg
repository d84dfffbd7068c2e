SPECIFICATION Spec
CONSTANTS
  Orders = {o1}
  Garments = {g1}
  Phones = {ph1}
  Payments = {p1, p2, p3}
  None = None
  MaxPieces = 2
  MaxHolds = 2
  MaxQueries = 1
  MaxJobs = 1
  FailureCodes = {"1037", "1032", "2001"}
SYMMETRY Symmetry
CHECK_DEADLOCK FALSE
INVARIANTS
  OneSuccessPerLeg
  DepositIsAccountedFor
  PickingOnlyWhenPaidInFull
PROPERTIES
  SuccessIsFinal
