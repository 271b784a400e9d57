SPECIFICATION FairSpec
CONSTANTS
  Requests = {r1}
  Threads = {t1}
  LoopThreads = {}
  Listeners = {}
  Roles = {}
  Bridge = Bridge
  None = None
PROPERTIES
  LiveFeedPushes
