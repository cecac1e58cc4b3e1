SPECIFICATION HighlightSpec
CONSTANTS
  Ids = {h1, h2}
  NoId = none
  Pages = {p1, p2}
  NoPage = nowhere
  MaxJobs = 2
  MaxExcepted = 1
SYMMETRY Symmetry
INVARIANTS
  RowInItsChapter
  StoredIsMarked
  MarkedIsStored
CHECK_DEADLOCK FALSE
