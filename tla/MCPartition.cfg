SPECIFICATION Spec
CONSTANTS
  Node = {1, 2, 3}
  Runtime = {10}
  NoState = NoState
  PageLimit = 3
  Initial = {1, 2, 3}
  Founder = {}
  TTL = 1
  MaxTime = 1
  MaxVersion = 5
  MaxLog = 5
  MaxCrashes = 1
  CrashUntil = 1
  Requests = {"runtime"}
  Faults = {"loss", "op_crash", "restart"}
INVARIANTS
  LeaderHoldsTerm
PROPERTIES
  StoredStateNeverRegresses
CHECK_DEADLOCK FALSE
