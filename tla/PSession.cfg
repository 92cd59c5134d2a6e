SPECIFICATION FairPSpec
CONSTANTS
  MaxStates = 6
  MaxTransitions = 5
  VersionMod = 1
  Names <- MCNames
  Trunc <- MCTrunc
  NoName = ""
  Radix = 12
  Top = 12
  Code <- MCCode
  Damage = {}
  Buffers = {}
  MaxDepth = 2
  MaxCount = 0
  MaxGen = 1
  SeqMod = 4
  Populated = TRUE
  Api = {"start_handshake", "complete_handshake", "authenticate", "update", "send", "set_error", "cleanup", "process"}
  Lockable = {3}
  MaxWire = 2
INVARIANTS WireIncreasing OneHandshake InStep LockedOnlyFromInside
PROPERTIES EventuallyReady
CHECK_DEADLOCK FALSE
