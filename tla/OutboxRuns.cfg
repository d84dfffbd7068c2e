SPECIFICATION FairSpec
CONSTANTS
  Changes = {handoff, refund, again}
  Messages = {parcel, refunded}
  Key <- OrderKeys
  handoff = handoff
  refund = refund
  again = again
  parcel = parcel
  refunded = refunded
  Unreachable = {parcel}
  Runs = {r1, r2}
  MaxAttempts = 2
  Configured = TRUE
  MaxCrashes = 1
  MaxRetries = 1
  None = None
CHECK_DEADLOCK FALSE
INVARIANTS
  TypeOK
  OverlapSendsOnce
PROPERTIES
  SentStaysSent
  EveryMessageSettles
