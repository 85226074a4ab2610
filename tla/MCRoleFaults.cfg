SPECIFICATION FairSpec
CONSTANTS
  NoSpec = NoSpec
  NoStatus <- MCNoStatus
  NoObject <- MCNoObject
  Specs <- WithInvalid
  MaxEdits = 2
  MaxFaults = 2
  OidcConfigured = FALSE
  MissingDelete = {"ok"}
  Attachable = TRUE
INVARIANTS SettledNeverDiffers LifecycleInv QuietMeansWatched
PROPERTIES LifecycleSpec Converges DeletionCompletes
CHECK_DEADLOCK FALSE
