SPECIFICATION Spec
CONSTANTS
  Commissions = {c1}
  Fees = {}
  Amount <- One
  Payees = {affiliate}
  affiliate = affiliate
  rider = rider
  renamed = renamed
  ann = ann
  bob = bob
  own = None
  Keys <- Affiliated
  Phone <- OwnNumber
  Shown <- Mask
  NoPhone = {}
  Admins = {ann, bob}
  Self <- AnnIsPaid
  Batches = {b1, b2}
  Tries = {1}
  HandCodes = {h1}
  Printed = {"REFERENCE"}
  MaxRows = 1
  None = None
  Alone = Alone
CHECK_DEADLOCK FALSE
INVARIANT
  NobodyPaysThemselves
