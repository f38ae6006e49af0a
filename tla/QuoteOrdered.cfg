SPECIFICATION FairSpec
CONSTANTS
  Requests = {r1}
  Users = {u1}
  Jobs = {j1, j2}
  Intents = {p1, p2}
  Totals = {100}
  Keys = {quoteKey}
  QuoteKey = quoteKey
  Expanded <- MCExpanded
  DepositPct = 30
  DepositMin = 50
  DepositMax = 55
  MayFail = FALSE
  VoiceCall = TRUE
  None = None
PROPERTIES
  AcceptedEventuallyOrdered
CHECK_DEADLOCK FALSE
