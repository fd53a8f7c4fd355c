SPECIFICATION FairSpec
CONSTANTS
  Node = {1, 2, 3}
  Runtime = {}
  NoState = NoState
  PageLimit = 3
  Initial = {1, 2, 3}
  Founder = {}
  TTL = 1
  MaxTime = 3
  MaxVersion = 3
  MaxLog = 4
  MaxCrashes = 2
  CrashUntil = 1
  Requests = {"gui"}
  Faults = {"crash"}
INVARIANTS
  OneLeaderPerTerm
PROPERTIES
  EventuallyLed
CHECK_DEADLOCK FALSE
