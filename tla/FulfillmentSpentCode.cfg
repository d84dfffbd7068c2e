SPECIFICATION Spec
CONSTANTS
  Orders = {o1}
  Garments = {g1}
  Staff = {ann}
  Supervisors = {ann}
  Nodes = {}
  Stores = {}
  Calls = {c1, c2}
  None = None
  MaxCodes = 2
CHECK_DEADLOCK FALSE
PROPERTIES
  SpentCodeClosesNothing
