SPECIFICATION FairDelivery
CONSTANTS
  Orders = {o1}
  Garments = {g1, g2}
  Phones = {ph1}
  Payments = {p1, p2}
  None = None
  MaxPieces = 2
  MaxHolds = 2
  MaxQueries = 1
  MaxJobs = 2
  FailureCodes = {"1037"}
CHECK_DEADLOCK FALSE
INVARIANTS
  TypeOK
PROPERTIES
  EveryReservationEnds
  EveryHoldEnds
  PaidMoneySurfaces
