\* Window, TrimTo and TrimAt are 200, 8192 and 16384 scaled down in order.  Four
\* iterations receive every stream below in pieces and trim rx_buf.
SPECIFICATION FairSpec
CONSTANTS
  Streams <- MCStreams
  Resp = 201
  EndResp = 202
  U1 = 6
  U2 = 7
  P = 8
  Burst <- MCBurst
  Window = 4
  TrimTo = 4
  TrimAt = 5
  MaxBytes = 3
  MaxLoops = 4
INVARIANT TypeOK
INVARIANT StreamIntact
INVARIANT PromptNotMissed
INVARIANT NoFrameWaits
PROPERTY Ends
