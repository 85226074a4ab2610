SPECIFICATION Spec
CONSTANTS
  NoSpec = NoSpec
  NoStatus <- MCNoStatus
  NoObject = NoObject
  Specs <- LoginOrNone
  MaxEdits = 3
  MaxFaults = 0
  MissingDelete = {"ok"}
  Attachable = FALSE
INVARIANT SecretsCreated
CHECK_DEADLOCK FALSE
