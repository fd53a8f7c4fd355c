SPECIFICATION Spec
CONSTANTS
  Clusters = {1, 2}
  Kinds = {"Node"}
  Windows <- MCWindows
  MaxTabs = 2
  MaxAsks = 2
  MaxOps = 2
INVARIANTS
  StripSound
  ConnectionsInStep
  NoOrphanTab
  SetupReachable
