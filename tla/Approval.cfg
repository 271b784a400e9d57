SPECIFICATION FairSpec
CONSTANTS
  Requests = {r1}
  Threads = {t1, t2}
  LoopThreads = {}
  Listeners = {l1}
  Roles = {"CLERK", "CFO"}
  Bridge = Bridge
  None = None
INVARIANTS
  TypeOK
  TrailIsPath
  DisbursedWasApproved
  ReplyAccountsForState
  EventNotBehind
PROPERTIES
  TerminalIsFinal
  TransitionsAnnounced
