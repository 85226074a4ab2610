SPECIFICATION FairSpec
CONSTANTS
  role = role
  policy = policy
  external = external
  Targets = {role}
  Externals = {external}
  NoPolicy = NoPolicy
  NoSpec = NoSpec
  NoStatus <- MCNoStatus
  Documents = {document}
  Bindings <- MCBindings
  PolicyEdits = 1
  AttachmentEdits = 2
  MissingDelete = {"ok"}
INVARIANT SettledMeansInEffect
PROPERTIES PolicySpec AttachmentSteps TakesEffect PolicyGoes AttachmentGoes
CHECK_DEADLOCK FALSE
