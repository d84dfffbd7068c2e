SPECIFICATION Spec
CONSTANTS
  Items = {1, 2}
  LineTotal <- FourTwo
  Named <- NoneOrOne
  DeliveryFee = 0
  Amounts <- Steps
  Rate = 2500
  Window = 1
  Requests = {q1}
  Agents = {ann, bob}
  Receipts = {r1, r2}
  Spellings = {"UPPER", "TYPED"}
  None = None
SYMMETRY Symmetry
CHECK_DEADLOCK FALSE
\* One property at a time: TLC refutes each of them.
INVARIANT ReceiptRecordedOnce
\* INVARIANT CoveredOrderIsRefunded
\* INVARIANT ReceivedReturnCanClose
