SPECIFICATION RacesSpec
CONSTANTS
  Requests = {r1, r2}
  Users = {u1, u2}
  Jobs = {j1, j2}
  Intents = {p1, p2}
  Totals = {100, 200, 300}
  Keys = {quoteKey, otherKey}
  QuoteKey = quoteKey
  Expanded <- MCExpanded
  DepositPct = 30
  DepositMin = 50
  DepositMax = 55
  MayFail = TRUE
  VoiceCall = TRUE
  None = None
INVARIANTS
  TypeOK
  OneLiveBalanceInvoice
  StockMovedOnce
  AcceptedHasJob
  CommittedAtSupplier
  LedgerSound
  CloserCredited
  StampsAreTrue
SYMMETRY Symmetry
CHECK_DEADLOCK FALSE
