SPECIFICATION Spec
CONSTANTS
  Orders = {o1, o2}
  Garments = {g1, g2}
  Staff = {ann}
  Supervisors = {ann}
  Nodes = {}
  Stores = {}
  Calls = {c1}
  None = None
  MaxCodes = 1
SYMMETRY Symmetry
CHECK_DEADLOCK FALSE
INVARIANTS
  ParcelHasOneOwner
  DeliveredWithItsOrder
  StockFollowsTheTask
PROPERTIES
  ClosedStaysClosed
  ImplementsParcels
