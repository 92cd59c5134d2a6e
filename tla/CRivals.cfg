SPECIFICATION Spec
CONSTANTS
  p1 = p1
  p2 = p2
  Absent = Absent
  None = None
  Procs <- ProcsDef
  Languages <- LanguagesDef
  Keys <- KeysDef
  Paths <- PathsDef
  MAX_SERVERS = 2
  MAX_VALUES = 5
  Commands <- RivalCommands
  Filesystems <- RivalFilesystem
  Editable <- EditableDef
  Drafts <- DraftsDef
  MaxEdits = 0
  Kills = FALSE
  Unreadable <- UnreadableDef
  RemovesOpen = TRUE
CHECK_DEADLOCK FALSE
PROPERTY RefusesToOverwrite
