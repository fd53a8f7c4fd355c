SPECIFICATION Spec
CONSTANTS
  Editors = {e1, e2}
  e1 = e1
  e2 = e2
  MaxHistory = 2
  MaxEdits = 1
  MaxApplies = 2
  MaxDetached = 1
INVARIANTS
  StripSound
  ApplyingHonest
  OneApplyAtATime
SYMMETRY EditorSymmetry
CHECK_DEADLOCK FALSE
