SPECIFICATION Spec
CONSTANTS
  Commissions = {c1, c2}
  Fees = {}
  Amount <- One
  Payees = {affiliate}
  affiliate = affiliate
  rider = rider
  renamed = renamed
  ann = ann
  bob = bob
  own = None
  Keys <- Affiliated
  Phone <- OwnNumber
  Shown <- Mask
  NoPhone = {}
  Admins = {ann, bob}
  Self <- NobodyIsPaid
  Batches = {b1, b2}
  Tries = {1}
  HandCodes = {h1}
  Printed = {"REFERENCE"}
  MaxRows = 1
  None = None
  Alone = Alone
SYMMETRY Files
CHECK_DEADLOCK FALSE
INVARIANTS
  OnePendingLine
  PayoutsOwnTheirItems
PROPERTIES
  PaysOnce
