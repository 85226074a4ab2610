SPECIFICATION Spec
CONSTANTS
  NoSpec = NoSpec
  NoStatus <- MCNoStatus
  NoObject <- MCNoObject
  Specs <- InlineOrRef
  MaxEdits = 3
  MaxFaults = 0
  OidcConfigured = FALSE
  MissingDelete = {"ok", "error"}
  Attachable = FALSE
INVARIANT NothingLeftBehind
CHECK_DEADLOCK FALSE
