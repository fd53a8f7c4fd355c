SPECIFICATION Spec
CONSTANTS
  Names = {1, 2, 3}
  Views <- MCViews
  ColumnsOf <- MCColumnsOf
  Cells <- MCCells
  Stored <- MCStored
  FirstView <- MCFirstView
  Filters <- MCFilters
  MaxLoads = 2
  MaxPresses = 1
  MaxSwitches = 1
  MaxElsewhere = 1
INVARIANTS
  SelectionListed
  PayloadCoherent
  ShowsServer
PROPERTIES
  OnlyAskedDeleted
  HiddenUntouched
CHECK_DEADLOCK FALSE
