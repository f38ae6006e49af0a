SPECIFICATION Spec
CONSTANTS
  Requests = {r1}
  Users = {u1, u2}
  Jobs = {j1, j2}
  Intents = {p1, p2}
  Totals = {100, 200}
  Keys = {quoteKey, otherKey}
  QuoteKey = quoteKey
  Expanded <- MCExpanded
  DepositPct = 30
  DepositMin = 50
  DepositMax = 55
  MayFail = TRUE
  VoiceCall = FALSE
  None = None
INVARIANTS
  VoidUnwindsCommission
  CompletionConsumes
  BalanceAddsUp
PROPERTIES
  ImplementsContract
SYMMETRY Symmetry
CHECK_DEADLOCK FALSE
