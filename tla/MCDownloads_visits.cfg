SPECIFICATION VisitSpec
CONSTANTS
  Calls = {a1, a2, c1, c2, c3}
  Keys = {k1, k2}
  Tasks = {t1, t2}
  Methods <- DownloadMethods
  Thens <- DownloadThens
  NoTask = none
  MaxPages = 2
  Stored = {a1, a2}
SYMMETRY Symmetry
INVARIANTS
  RecordOnlyAfterCompletion
  DialogHasTransfer
  RecordHasFile
  ButtonIsRight
  RowsMatchStore
CHECK_DEADLOCK FALSE
