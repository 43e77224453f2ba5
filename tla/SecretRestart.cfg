SPECIFICATION SettingsSpec
INVARIANTS AgentHasSecret
CONSTANTS
  Unset = Unset  Empty = Empty  Default = Default
  c1 = c1  c2 = c2  v1 = v1
  Fields <- MCFields
  Specs <- MCSpecs
  MaxSecrets = 2
CHECK_DEADLOCK FALSE
