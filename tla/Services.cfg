SPECIFICATION ServicesSpec
CONSTANTS
  Policies <- MCPolicies
  NoMax = NoMax
  PolicyAmounts = {1, 2, 3, 4}
  Absent = Absent
  Distances = {5, 6}
  Totals = {4, 5}
  SplitLimits = {4}
  Histories <- MCHistories
  ScoreAmounts = {4, 9}
  HourlyCounts = {3, 4}
  Times = {0, 1, 2, 3}
  WindowLength = 1
  VelocityCustodians = {c1, c2}
  MaxHourly = 2
  MaxRecords = 4
  SplitCustodians = {c1, c2}
  Marks = {m1}
  EventAmounts = {1}
  SplitThreshold = 2
  MinTxCount = 2
  MaxEvents = 3
  Closings <- MCClosings
  RecTenants = {"t1", "t2"}
  Signers = {s1, s2}
  RecWorkers = {w1, w2}
  NoFeed = NoFeed
  MaxClosings = 2
  MaxSignoffs = 3
  Currencies = {"USD", "EUR", "GBP"}
  Dates = {1, 2}
  QuotedPairs <- MCQuoted
  NewRates = {5, 30}
  AskedPairs <- MCAsked
  AskedDates <- MCDates
  Money = {8}
  RateScale = 10
  NoRate = NoRate
  RateUsers = {u1, u2}
  MaxSets = 2
  Tenants = {t1, t2}
  Funds = {f1, f2}
  Custodians = {c1, c2}
  MaxAmount = 3
  NoTenant = NoTenant
  Slots = {s1, s2}
  Payloads = {x1, x2}
  Results = {r1, r2}
  EventIds = {e1}
  EventPayloads = {y1, y2}
  None = None
  MaxAgeings = 2
SYMMETRY RateUserSymmetry
INVARIANTS
  PolicyDecisive
  BlockedExactly
  WindowExact
  SplitAlertExact
  AdjustmentRestoresBalance
  SignoffsKept
  RateCacheCoherent
  TypeOK
  Conservation
  FitsInt64
  TenantIsolation
  RowsWellFormed
PROPERTIES
  TerminalResultImmutable
CHECK_DEADLOCK FALSE
