SPECIFICATION Spec
CONSTANTS
  MaxStates = 2
  MaxTransitions = 1
  VersionMod = 3
  go = go
  long = long
  Names = {go, long}
  Trunc <- MCTrunc
  NoName = NoName
  Damage = {}
  Radix = 3
  Top = 3
  Code <- MCCode
  Buffers = {}
  MaxDepth = 1
  MaxCount = 1
  MaxGen = 1
PROPERTY TakenFromSource
CHECK_DEADLOCK FALSE
