SPECIFICATION Spec
CONSTANTS
  w1 = w1
  w2 = w2
  w3 = w3
  p1 = p1
  p2 = p2
  settled = settled
  declined = declined
  unknown = unknown
  Slots = {s1}
  Payloads = {x1}
  EventIds = {e1}
  EventPayloads = {settled, unknown}
  None = None
  MaxAgeings = 0
  Workers = {w1}
  Processes = {p1}
  ProcessOf <- TwoProcesses
  StatusOf <- Statuses3
  CurrentStates = {"processing"}
  MaxCalls = 2
  MaxCrashes = 0
INVARIANTS
  ReplayedWasAccepted
CHECK_DEADLOCK FALSE
