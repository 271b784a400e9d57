SPECIFICATION Spec
CONSTANTS
  Requests = {r1}
  Threads = {t1}
  LoopThreads = {}
  Listeners = {}
  Roles = {"CLERK", "CFO"}
  Bridge = Bridge
  None = None
INVARIANTS
  ApprovalsAuthorised
