SPECIFICATION FairSpec
CONSTANTS
  NoSpec = NoSpec
  NoStatus <- MCNoStatus
  NoObject = NoObject
  u1 = u1
  u2 = u2
  Users = {u1, u2}
  Volatile = {u1}
  Specs <- OneOrBoth
  MaxEdits = 2
  MaxFaults = 1
  MissingDelete = {"ok"}
  Attachable = TRUE
INVARIANTS TypeOK NobodyElse QuietMeansSettled
PROPERTIES Converges DeletionCompletes
CHECK_DEADLOCK FALSE
