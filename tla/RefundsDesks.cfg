SPECIFICATION Spec
CONSTANTS
  Items = {1, 2}
  LineTotal <- FourTwo
  Named <- NoneOrOne
  DeliveryFee = 0
  Amounts <- Steps
  Rate = 2500
  Window = 1
  Requests = {q1}
  Agents = {ann, bob}
  Receipts = {r1, r2}
  Spellings = {"UPPER"}
  None = None
SYMMETRY Symmetry
CHECK_DEADLOCK FALSE
INVARIANTS
  TypeOK
  EachDeskWithinPaid
  PaidCommissionIsPastReturns
  CommissionFollowsReturns
  RestockedIsPaidBack
