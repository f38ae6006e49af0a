SPECIFICATION MCSpec
CONSTANTS
  r1 = r1
  r2 = r2
  i1 = i1
  i2 = i2
  ja = ja
  jb = jb
  tech = tech
  other = other
  boss = boss
  ann = ann
  bob = bob
  o1 = o1
  o2 = o2
  q1 = q1
  q2 = q2
  t1 = t1
  t2 = t2
  ca = ca
  cb = cb
  Components = {"collections", "retries", "voice", "field", "editor", "screen", "push"}
  Requests = {r1, r2}
  None = None
  Debts = {i1}
  MaxDrafts = 2
  MaxEdits = 1
  MaxMails = 1
  MaxClerks = 4
  Failing = {i1}
  MaxAttempts = 2
  MaxRetries = 2
  BoardJobs = {ja, jb}
  Techs = {tech}
  Skilled = {tech}
  Slots <- MCSlots
  Travel <- MCTravel
  Proposals <- MCProposals
  MaxCaptured = 2
  MaxSuggestions = 2
  MaxActs = 3
  People = {boss, ann, bob}
  Offices = {o1, o2}
  OfficeRoles = {"manager", "tech"}
  Founders <- MCFounders
  MaxInvites = 2
  Staff = {ann, bob}
  Sites = {o1}
  PayPlans = {p1}
  Sales <- MCSales
  MonthLength = 2
  LastDay = 2
  Rates = {1, 2}
  Bases = {0, 3}
  EndDays = {1}
  MaxRequests = 5
  Templates = {t1, t2}
  Items = {spring}
  Prices = {90, 95}
  Catalog = Catalog
  Policy = Policy
  Categories = {doors}
  Margins = {10, 60, 80, 300}
  InitialPolicy <- MCPolicy
  MaxProposals = 1
  MaxPricing = 4
  Documents = {q1, q2}
  CallerKeys = {otherKey}
  MaxTries = 2
  MaxSerial = 2
  MaxCalls = 4
  Towns = {o1, o2}
  IntakeTown = o1
  Contacts = {ann, bob}
  SourceRefs = {s1}
  Designs = {d1}
  MaxClients = 2
  MaxNotes = 2
  MaxLeads = 2
  MaxErrands = 3
  Calls = {ca, cb}
  Confidences = {85, 95}
  Totals = {400, 600}
  DollarCap = 500
  MaxSteps = 2
  MaxConversations = 2
  MaxVoiceQuotes = 1
  MaxStaff = 1
  Photos = {img}
  MaxWrites = 2
  MaxTrips = 3
  LineLists = {l1, l2}
  Blank = Blank
  MaxWire = 4
  MaxTyping = 2
  Columns = {ann, bob}
  MaxHeard = 2
  MaxReadings = 2
  MaxChanges = 3
  Browsers = {b1}
  SignIns <- MCSignIns
  MaxSubscriptions = 3
  MaxPushes = 4
INVARIANTS
  ReceivablesSound CallsSound TelephoneSound PagesSound
PROPERTIES
  CallsHandedOver
SYMMETRY CallersSymmetry
CHECK_DEADLOCK FALSE
