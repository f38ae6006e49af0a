SPECIFICATION Spec
CONSTANTS
  home = home
  away = away
  spring = spring
  panel = panel
  j1 = j1
  j2 = j2
  Requests = {r1}
  Branches = {home, away}
  Skus = {spring, panel}
  Orders = {o1}
  OrderBranch <- MCOrderBranch
  Jobs = {j1}
  JobBranch <- MCJobBranch
  Parts <- MCParts
  Qty = {1}
  MaxLines = 2
  MaxMoves = 3
  None = None
INVARIANTS
  BalanceKept
  PartsAccounted
  ReceivedAsMoved
  ReceivedIsComplete
  SupplierHasLines
CHECK_DEADLOCK FALSE
