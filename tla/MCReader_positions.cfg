SPECIFICATION AgainSpec
CONSTANTS
  Calls = {a1, c1, c2, c3, c4}
  Keys = {k1, k2, null}
  Openings = {o1, o2, o3}
  NoOpening = none
  NoKey = null
  Methods <- ReaderMethods
  Thens <- ReaderThens
  MaxPages = 2
  Stored = a1
  ReadBefore = o1
SYMMETRY Symmetry
INVARIANTS
  PositionIsOwn
  ResumesWhereLeft
CHECK_DEADLOCK FALSE
