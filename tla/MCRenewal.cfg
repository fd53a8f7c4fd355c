SPECIFICATION Spec
CONSTANTS
  Node = {1, 2}
  Runtime = {10}
  NoState = NoState
  PageLimit = 3
  Initial = {1, 2}
  Founder = {}
  TTL = 2
  MaxTime = 1
  MaxVersion = 3
  MaxLog = 3
  MaxCrashes = 0
  CrashUntil = 0
  Requests = {"runtime"}
  Faults = {}
PROPERTIES
  RenewalKeepsMembership
CHECK_DEADLOCK FALSE
