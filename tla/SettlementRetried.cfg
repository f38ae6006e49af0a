SPECIFICATION FairSpec
CONSTANTS
  Desk = {d1}
  Hooks = {h1}
  Users = {u1}
  TwoRules = {u2}
  Intents = {p1, p2}
  RefundIds = {i1, i2}
  Totals = {100}
  Parts = {50}
  Expanded <- MCExpanded
  MayCrash = FALSE
  None = None
PROPERTIES
  PaymentEventuallyRecorded
CHECK_DEADLOCK FALSE
