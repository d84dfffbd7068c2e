SPECIFICATION Spec
CONSTANTS
  Garments = {g1, g2}
  Bought = {g1, g2}
  Shelves = {s1, s2}
  Txs = {t1, t2}
  MaxCapacity = 2
  MaxChanges = 1
  None = None
SYMMETRY Symmetry
CHECK_DEADLOCK FALSE
INVARIANTS
  TypeOK
  OverfullIsExplained
PROPERTIES
  NothingOntoAClosedShelf
  CancellationSparesSales
