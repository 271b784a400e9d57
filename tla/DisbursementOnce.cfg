SPECIFICATION FairSpec
CONSTANTS
  w1 = w1
  w2 = w2
  w3 = w3
  p1 = p1
  p2 = p2
  Slots = {s1}
  Payloads = {card1, momo1}
  CardPayloads = {card1}
  EventIds = {}
  EventPayloads = {}
  None = None
  Workers = {w1, w2, w3}
  Processes = {p1, p2}
  ProcessOf <- TwoProcesses
  MaxAgeings = 0
  MaxCalls = 3
  MaxCrashes = 1
  MaxBusy = 1
PROPERTIES
  ImplementsOncePerKey
  ReservationsSettle
CHECK_DEADLOCK FALSE
