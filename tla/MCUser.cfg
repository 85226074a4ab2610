SPECIFICATION FairSpec
CONSTANTS
  NoSpec = NoSpec
  NoStatus <- MCNoStatus
  NoObject = NoObject
  Specs <- LoginOrKeys
  MaxEdits = 2
  MaxFaults = 1
  MissingDelete = {"ok"}
  Attachable = TRUE
INVARIANTS TypeOK MadeMeansOwn QuietMeansSettled
PROPERTIES WorkingSecretKept Converges DeletionCompletes
CHECK_DEADLOCK FALSE
