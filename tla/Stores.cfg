SPECIFICATION StoresSpec
CONSTANTS
  Tenants = {t1, t2}
  Writers = {w1, w2}
  Genesis = Genesis
  Forged = Forged
  MaxEntries = 3
  Batches <- MCBatches
  ChainTenant = "own"
  Posters = {p1, p2}
  NoHash = NoHash
  MaxBlocks = 3
  Clients = {c1, c2}
  Deltas <- MCDeltas
  Fills = {0, 2}
  FillVersions = {1, 2}
  NoKey = NoKey
  MaxVersion = 4
  Pieces = {"a", "b", "c", "f"}
  CardOrders <- MCCardOrders
  DocumentOrders <- MCDocumentOrders
  Keys = {k1}
  NoKeyGiven = NoKeyGiven
  BuiltKey = BuiltKey
  Callers = {a1, a2}
  MaxIssued = 2
  Versions <- MCVersions
  Objects <- MCObjects
  Undoable = {1, 2}
  MaxMarks = 3
  Expenses = {e1, e2}
  Syncs = {s1, s2}
  MaxCopies = 2
  w1 = w1
  w2 = w2
  w3 = w3
  p1 = p1
  p2 = p2
  settled = settled
  declined = declined
  unknown = unknown
  Slots = {s1}
  Payloads = {x1}
  EventIds = {e1}
  EventPayloads = {settled, declined, unknown}
  None = None
  MaxAgeings = 1
  Workers = {w1, w2, w3}
  Processes = {p1, p2}
  ProcessOf <- TwoProcesses
  StatusOf <- Statuses3
  CurrentStates = {"processing", "completed"}
  MaxCalls = 4
  MaxCrashes = 1
INVARIANTS
  VerdictExact
  SealedEvidenceVerifies
  LedgerSound
  VersionedIncrementSawRead
  IssuedOncePerKey
  AnswerFitsKey
  SchemaMatchesLog
  SubmissionKept
  SubmittedOnce
  TypeOK
  AcceptedOnce
  ClaimsAccountedFor
CHECK_DEADLOCK FALSE
