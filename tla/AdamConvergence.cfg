SPECIFICATION FairSpec
INVARIANTS TypeOK RestartedOnce
PROPERTIES FollowsEdits UserEditsSurvive DeploymentConverges MapConverges
CONSTANTS
  Unset = Unset  Empty = Empty  Default = Default
  None = None  NoImage = NoImage  DefaultImage = DefaultImage
  c1 = c1  c2 = c2  v1 = v1  i1 = i1
  Fields <- MCFields
  UserSpecs <- MCSpecs
  InDefaultNamespace = TRUE
  MaxEdits = 2
  MaxSecrets = 1
  MaxFaults = 1
CHECK_DEADLOCK FALSE
