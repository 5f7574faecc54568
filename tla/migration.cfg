CONSTANTS
  Processes = {"p1", "p2", "p3"}
  MaxCrashes = 1
  MaxWork = 2
  Tables <- MCTables
  Declared <- MCDeclared
  Columns <- MCColumns
  Files <- MCFiles
SPECIFICATION Spec
INVARIANTS TypeOK OpenIsSound
PROPERTIES HistoryKept AllOpen
CHECK_DEADLOCK FALSE
