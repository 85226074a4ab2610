SPECIFICATION Spec
CONSTANTS
  role = role
  user = user
  policy = policy
  external = external
  Targets = {role, user}
  Policies = {policy}
  Externals = {external}
  NoPolicy = NoPolicy
  NoSpec = NoSpec
  NoStatus <- MCNoStatus
  Specs <- Retargeted
  MaxEdits = 2
  MaxFaults = 0
  MissingDelete = {"ok"}
  Volatile = {}
INVARIANT OldTargetDetached
CHECK_DEADLOCK FALSE
