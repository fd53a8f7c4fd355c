SPECIFICATION FairSpec
CONSTANTS
  Node = {1, 2}
  Runtime = {10}
  NoState = NoState
  PageLimit = 1
  Initial = {}
  Founder = {1}
  TTL = 2
  MaxTime = 0
  MaxVersion = 3
  MaxLog = 4
  MaxCrashes = 1
  CrashUntil = 0
  Requests = {"join", "gui", "apply", "runtime", "revoke", "endpoints"}
  Faults = {"loss", "crash", "replay_crash", "restart"}
INVARIANTS
  TypeOK
  CaughtUpAgrees
  NeverBroken
PROPERTIES
  Replicates
  EventuallySynced
CHECK_DEADLOCK FALSE
