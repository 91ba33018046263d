\* 24 MiB is today's kernel, 33 is past the workflow's limit and c60's padding,
\* 48 does not fit boot_a.  Three runs: one per target and one that reuses what
\* the two left.
SPECIFICATION Spec
CONSTANTS
  Options <- MCOptions
  NewPaths = {drv, dts}
  drv = drv
  dts = dts
  Creates <- MCCreates
  KSizes = {24, 33, 48}
  MaxVer = 2
  MaxRuns = 3
  MaxAborts = 1
  Absent = Absent
  Torn = Torn
CHECK_DEADLOCK FALSE
INVARIANT TypeOK
INVARIANT SetCoherent
INVARIANT KernelFresh
INVARIANT PatchesApply
INVARIANT ReleaseSound
