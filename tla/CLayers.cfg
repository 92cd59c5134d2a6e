SPECIFICATION Spec
CONSTANTS
  p1 = p1
  p2 = p2
  Absent = Absent
  None = None
  Procs <- ProcsDef
  Languages <- LanguagesDef
  Keys <- KeysDef
  Paths <- PathsDef
  MAX_SERVERS = 2
  MAX_VALUES = 5
  Commands <- CommandsDef
  Filesystems <- FilesystemsDef
  Editable <- EditableDef
  Drafts <- DraftsDef
  MaxEdits = 1
  Kills = TRUE
  Unreadable <- UnreadableDef
  RemovesOpen = TRUE
CHECK_DEADLOCK FALSE
INVARIANTS CTypeOK LayersOverride ValidMeansComplete  FailedMigrationLeavesNothing PartialIsPrefix
