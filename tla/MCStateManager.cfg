SPECIFICATION Spec
CONSTANTS
  NodeId = {1, 2}
  Key = {1, 2}
  GroupId = {g1}
  Member <- MCMember
  Self <- MCSelf
  NoState = NoState
  MaxVersion = 2
  MaxEpoch = 2
INVARIANTS
  TypeOK
  NoReturn
PROPERTY ReplaceNeverRegresses
CHECK_DEADLOCK FALSE
