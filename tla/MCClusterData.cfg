SPECIFICATION FairSpec
CONSTANTS
  PageSize = 1
  MaxLog = 3
  MaxInflight = 1
  MaxEdits = 2
  MaxFails = 1
INVARIANTS
  NoHole
  NoFalseEnd
  NothingStuck
PROPERTY
  EventuallyWhole
CHECK_DEADLOCK FALSE
