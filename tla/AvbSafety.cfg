SPECIFICATION Spec
SYMMETRY PartSymmetry
CONSTANTS
  boot = boot
  dtbo = dtbo
  Parts <- MCParts
  Inputs <- MCInputs
  PadSizes = {1, 5}
  PartSizes = {3, 8, 9, 10}
  BlockSize = 2
  MaxVbmeta = 2
  VbSize = 1
  MaxFaults = 1
  MaxStops = 1
INVARIANT TypeOK
INVARIANT FooterRight
INVARIANT OriginalKept
PROPERTY DescribesPacked
