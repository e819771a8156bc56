SPECIFICATION Spec
CONSTANTS
  a = a
  b = b
  Coordinators = {a, b}
  NoOne = NoOne
  MaxLevel = 1
  Delay <- MCDelay
  MaxGuardLevel = 0
  Pause <- MCPause
  LongestPause = 2
  Limit = 1
  Window = 1
  ProbeGap = 1
  AttemptTime = 1
PROPERTIES
  BlockAlwaysHonoured
