SPECIFICATION PSpec
CONSTANTS
  BufferSize = 4
  TokenLimit = 5
  DefaultCapacity = 6
  MaxNodes = 6
  MaxChildren = 2
  Filters = {"IDENTIFIER"}
  Garbage <- GarbageDef
  Inputs <- InputsDef
  ParseInputs <- ParseInputsDef
  OpsChoices <- OpsDef
  Calls <- OwnershipCalls
CHECK_DEADLOCK FALSE
INVARIANT FreesOwnText
