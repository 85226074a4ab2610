SPECIFICATION FairSpec
CONSTANTS
  NoSpec = NoSpec
  NoStatus <- MCNoStatus
  NoObject = 0
  Specs = {document}
  MaxEdits = 3
  MaxFaults = 2
  MissingDelete = {"ok"}
  Attachable = TRUE
INVARIANTS TypeOK SettledMeansApplied QuietMeansApplied
PROPERTIES NeverRolledBack EventuallyApplied DeletionCompletes
CHECK_DEADLOCK FALSE
