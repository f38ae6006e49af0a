SPECIFICATION Spec
CONSTANTS
  home = home
  away = away
  spring = spring
  panel = panel
  j1 = j1
  j2 = j2
  Requests = {r1, r2}
  Branches = {home, away}
  Skus = {spring}
  Orders = {}
  OrderBranch <- MCOrderBranch
  Jobs = {j2}
  JobBranch <- MCJobBranch
  Parts <- MCParts
  Qty = {1}
  MaxLines = 1
  MaxMoves = 4
  None = None
INVARIANTS
  TypeOK
  TransfersCancel
  ReservedOnce
SYMMETRY Symmetry
CHECK_DEADLOCK FALSE
