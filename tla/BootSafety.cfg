\* Two failures and one power cut: enough for a failed apply followed by a
\* failed overlay, and for a cut between any two steps.
SPECIFICATION FairSpec
CONSTANTS
  k1 = k1
  k2 = k2
  Omit = Omit
  None = None
  Vals = {"baked", "new"}
  Baked = "baked"
  Keys <- MCKeys
  Tables <- MCTables
  Payloads <- MCPayloads
  NParts = 4
  MaxTries = 2
  MaxFaults = 2
  MaxCuts = 1
INVARIANT TypeOK
INVARIANT RootAsAsked
INVARIANT FallbackBoots
INVARIANT StagedBlobAccountedFor
PROPERTY ImplementsChannel
PROPERTY BootSettles
PROPERTY StagedConverges
