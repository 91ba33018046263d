\* A run of four or five blocks overflows total_sz; one flash is cut.
SPECIFICATION Spec
CONSTANTS
  Contents = {0, 1, 2}
  Part = 5
  Shorts = {0, 1, 4095}
  Olds <- MCOlds
  MaxRun = 3
  NPrim = 2
  NBack = 1
  MaxCuts = 1
CHECK_DEADLOCK FALSE
INVARIANT TypeOK
INVARIANT Tiles
INVARIANT Delivered
INVARIANT AcceptedWhole
INVARIANT WholeAccepted
