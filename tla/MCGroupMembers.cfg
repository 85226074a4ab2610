SPECIFICATION Spec
CONSTANTS
  NoSpec = NoSpec
  NoStatus <- MCNoStatus
  NoObject = NoObject
  u1 = u1
  u2 = u2
  Users = {u1, u2}
  Volatile = {u1}
  Specs <- OneOrBoth
  MaxEdits = 2
  MaxFaults = 0
  MissingDelete = {"ok"}
  Attachable = FALSE
INVARIANT AllUsersAdded
CHECK_DEADLOCK FALSE
