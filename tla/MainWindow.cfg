SPECIFICATION MCSpec
CONSTANTS
  Texts <- MCTexts
  Ftp <- MCFtp
  Batches <- MCBatches
  Room = 1
  Limit = 1
  MaxTasks = 2
  Types = {"running", "pause", "delete"}
INVARIANTS SelectionTrue
PROPERTIES MirrorsRight
CHECK_DEADLOCK FALSE
