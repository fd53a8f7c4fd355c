SPECIFICATION Spec
CONSTANTS
  MaxRefreshes = 3
INVARIANTS
  BusyExact
  ReportTrue
  ShowsServices
  BundleSound
CHECK_DEADLOCK FALSE
