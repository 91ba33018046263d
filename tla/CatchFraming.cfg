SPECIFICATION Spec
CONSTANTS
  Streams <- MCStreams
  Resp = 201
  EndResp = 202
  U1 = 6
  U2 = 7
  P = 8
  Burst <- MCBurst
  Window = 4
  TrimTo = 4
  TrimAt = 5
  MaxBytes = 3
  MaxLoops = 4
INVARIANT ProbeInSync
