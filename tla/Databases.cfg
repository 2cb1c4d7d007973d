SPECIFICATION MCSpec
CONSTANTS
  DBs = {"task", "proxy", "config"}
  ProxyNames = {"p", "q"}
  Paths = {"a", "b", "c"}
  HistorySize = 2
  Fields = {"sRefer"}
  MaxTasks = 2
  MaxStarts = 3
INVARIANTS ListsRight RunningHasObject DirectHasReason
PROPERTIES ReadBack
CHECK_DEADLOCK FALSE
