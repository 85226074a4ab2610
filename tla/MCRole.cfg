SPECIFICATION Spec
CONSTANTS
  NoSpec = NoSpec
  NoStatus <- MCNoStatus
  NoObject <- MCNoObject
  Specs <- IrsaOrRef
  MaxEdits = 3
  MaxFaults = 0
  OidcConfigured = TRUE
  MissingDelete = {"ok", "error"}
  Attachable = TRUE
INVARIANTS TypeOK SettledMeansApplied StatusIsTrue ServiceAccountOwned
PROPERTY ArnNeverForgotten
CHECK_DEADLOCK FALSE
