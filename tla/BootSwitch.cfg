SPECIFICATION Spec
CONSTANTS
  k1 = k1
  k2 = k2
  Omit = Omit
  None = None
  Vals = {"baked", "new"}
  Baked = "baked"
  Keys <- MCKeys
  Tables <- MCTables
  Payloads <- MCPayloads
  NParts = 4
  MaxTries = 1
  MaxFaults = 1
  MaxCuts = 0
INVARIANT SwitchFailureRescues
