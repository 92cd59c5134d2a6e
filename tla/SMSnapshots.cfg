SPECIFICATION Spec
CONSTANTS
  MaxStates = 1
  MaxTransitions = 1
  VersionMod = 3
  go = go
  long = long
  Names = {go}
  Trunc <- MCTrunc
  NoName = NoName
  Damage = {"name", "is_final"}
  Radix = 3
  Top = 3
  Code <- MCCode
  Buffers = {b1}
  MaxDepth = 1
  MaxCount = 0
  MaxGen = 2
 
PROPERTIES RestoreOnlyHeals LockHolds
CHECK_DEADLOCK FALSE
