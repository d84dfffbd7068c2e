SPECIFICATION Spec
CONSTANTS
  Commissions = {}
  Fees = {f1, f2}
  Amount <- One
  Payees <- Everybody
  affiliate = affiliate
  rider = rider
  renamed = renamed
  ann = ann
  bob = bob
  own = f2
  Keys <- Walking
  Phone <- OwnNumber
  Shown <- Mask
  NoPhone = {}
  Admins = {ann}
  Self <- NobodyIsPaid
  Batches = {b1}
  Tries = {1, 2}
  HandCodes = {}
  Printed = {"REFERENCE", "MASKED"}
  MaxRows = 2
  None = None
  Alone = Alone
CHECK_DEADLOCK FALSE
INVARIANT
  LineIsPaidByItsOwnReceipt
