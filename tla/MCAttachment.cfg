SPECIFICATION FairSpec
CONSTANTS
  role = role
  user = user
  policy = policy
  external = external
  Targets = {role, user}
  Policies = {policy}
  Externals = {external}
  NoPolicy = NoPolicy
  NoSpec = NoSpec
  NoStatus <- MCNoStatus
  Specs <- Mixed
  MaxEdits = 3
  MaxFaults = 1
  MissingDelete = {"ok"}
  Volatile = {role}
INVARIANTS TypeOK SettledMeansAttached OnlyFormerPairsLeft QuietMeansSettled
PROPERTIES Converges DeletionCompletes
CHECK_DEADLOCK FALSE
