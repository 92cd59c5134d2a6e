SPECIFICATION FairSpec
CONSTANTS
  MaxPrograms = 3
  MaxPorts = 2
  HistorySize = 2
  Ports = {1, 2, 3}
  ServicePorts = {0, 1, 2, 3}
  Modes = {"cli", "file", "embed"}
  MaxGiven = 7
INVARIANTS NoProgramLost MappingsServed HandlerSafe
PROPERTIES EveryProgramRuns
CHECK_DEADLOCK FALSE
