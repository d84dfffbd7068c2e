SPECIFICATION Spec
CONSTANTS
  Orders = {o1}
  Garments = {g1}
  Staff = {ann, ben}
  Supervisors = {ann}
  Nodes = {}
  Stores = {}
  Calls = {c1, c2}
  None = None
  MaxCodes = 1
CHECK_DEADLOCK FALSE
PROPERTIES
  ClaimStays
