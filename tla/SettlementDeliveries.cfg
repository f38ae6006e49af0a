SPECIFICATION Spec
CONSTANTS
  Desk = {d1}
  Hooks = {h1, h2}
  Users = {u1, u2}
  TwoRules = {u2}
  Intents = {p1, p2}
  RefundIds = {i1, i2}
  Totals = {0, 100, 200}
  Parts = {50, 100}
  Expanded <- MCExpanded
  MayCrash = TRUE
  None = None
INVARIANTS
  TypeOK
  CreditedOnce
  PaidInFull
  VoidIsRefunded
SYMMETRY Symmetry
CHECK_DEADLOCK FALSE
