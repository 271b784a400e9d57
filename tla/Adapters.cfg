SPECIFICATION AdaptersSpec
CONSTANTS
  Pieces = {"a", "b", "c", "f"}
  CardOrders <- MCCardOrders
  DocumentOrders <- MCDocumentOrders
  Keys = {}
  NoKeyGiven = NoKeyGiven
  BuiltKey = BuiltKey
  Callers = {a1, a2}
  MaxIssued = 2
INVARIANTS
  AnswersStayInTenant
CHECK_DEADLOCK FALSE
