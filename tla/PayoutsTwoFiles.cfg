SPECIFICATION Spec
CONSTANTS
  Commissions = {}
  Fees = {f1}
  Amount <- One
  Payees <- RiderKeys
  affiliate = affiliate
  rider = rider
  renamed = renamed
  ann = ann
  bob = bob
  own = None
  Keys <- Renamable
  Phone <- OwnNumber
  Shown <- Mask
  NoPhone = {}
  Admins = {ann, bob}
  Self <- NobodyIsPaid
  Batches = {b1, b2}
  Tries = {}
  HandCodes = {h1}
  Printed = {"REFERENCE"}
  MaxRows = 1
  None = None
  Alone = Alone
CHECK_DEADLOCK FALSE
INVARIANT
  ItemWaitsInOneFile
