SPECIFICATION Spec
INVARIANTS TypeOK ConfigInstalled EditsAttended ConfigsAttended
PROPERTIES FollowsEdits UserEditsSurvive RestartOncePerEdit
CONSTANTS
  None = None
  a1 = a1  a2 = a2  p1 = p1  p2 = p2  p3 = p3
  u1 = u1  u2 = u2  bad = bad  i1 = i1  i2 = i2  c1 = c1
  NoImage = NoImage  DefaultImage = DefaultImage
  Unset = Unset  DefaultConf = DefaultConf
  Agents = {a1}
  UserSpecs <- MCSpecsWithInvalid
  InvalidUrls = {bad}
  PodIds = {p1}
  InDefaultNamespace = TRUE
  PodDeleteAllowed = TRUE
  MaxEdits = 2
  MaxKeys = 0
  MaxFaults = 1
CHECK_DEADLOCK FALSE
