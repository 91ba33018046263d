SPECIFICATION Spec
CONSTANTS
  Options <- MCOptions
  NewPaths = {drv, dts}
  drv = drv
  dts = dts
  Creates <- MCCreates
  KSizes = {24, 33, 48}
  MaxVer = 2
  MaxRuns = 3
  MaxAborts = 1
  Absent = Absent
  Torn = Torn
CHECK_DEADLOCK FALSE
INVARIANT RootfsForTarget
