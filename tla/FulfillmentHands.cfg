SPECIFICATION Spec
CONSTANTS
  Orders = {o1}
  Garments = {g1, g2}
  Staff = {ann, ben}
  Supervisors = {ann}
  Nodes = {}
  Stores = {}
  Calls = {c1, c2}
  None = None
  MaxCodes = 1
SYMMETRY Symmetry
CHECK_DEADLOCK FALSE
INVARIANTS
  SealedMeansVerified
  PackingIsAssigned
