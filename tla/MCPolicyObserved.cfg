SPECIFICATION FairSpec
CONSTANTS
  NoSpec = NoSpec
  NoStatus <- MCNoStatus
  NoObject = 0
  Specs = {document}
  MaxEdits = 2
  MaxFaults = 0
  MissingDelete = {"ok"}
  Attachable = FALSE
PROPERTY EventuallyObserved
CHECK_DEADLOCK FALSE
