\* Every size modulo 4 for the archive, sizes on both sides of a page for the
\* boot image, command lines on both sides of 512 and 1536 bytes.
SPECIFICATION ImagesSpec
CONSTANTS
  Targets = {"tc8", "tc8-noramdisk", "c60"}
  InitSizes = {4, 5, 6, 7}
  BusyboxSizes = {20, 21, 22, 23}
  GzSizes = {2047, 2048, 2049}
  KernelSizes <- MCKernelSizes
  DtbSizes = {2048, 40000}
  CmdSizes = {0, 512, 513, 1536, 1537}
  Pages = {2048, 4096}
  HeaderVersions = {0, 1}
CHECK_DEADLOCK FALSE
INVARIANT TypeOK
INVARIANT UnpacksTree
INVARIANT LoaderFindsParts
INVARIANT PartsApart
