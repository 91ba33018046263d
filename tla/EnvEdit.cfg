\* The preset on an empty file takes (3+1)*3 + (2+1) + 1 = 16 bytes, the whole
\* block.  Three commands: fill, edit, and one that works on the result.
SPECIFICATION Spec
CONSTANTS
  Paths = {"a", "b"}
  Keys = {"slotaboot", "slotbboot", "bootcmd_ab", "slot", "x"}
  Vals = {2, 3, 4, 5}
  Latin = {5}
  Macro <- MCMacro
  Panel <- MCPanel
  ArgLists <- MCArgLists
  KeyLists <- MCKeyLists
  DataSize = 16
  MaxCmds = 3
  MaxKills = 1
  NoKey = NoKey
  Missing = Missing
  WrongSize = WrongSize
CHECK_DEADLOCK FALSE
INVARIANT TypeOK
INVARIANT EditVerifies
INVARIANT FailureKeeps
PROPERTY EditMeans
