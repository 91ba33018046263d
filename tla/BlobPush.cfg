\* Payloads that end well below the bootloader header, right below it, on it
\* and behind it; three pushes of different lengths over each other.
SPECIFICATION Spec
CONSTANTS
  BL_HDR_OFF = 4
  PayloadSizes = {1, 3, 4, 6}
  ImageSizes = {0, 1, 2}
  Size = 8
  MaxPushes = 3
  MaxCuts = 1
CHECK_DEADLOCK FALSE
INVARIANT PushArrives
