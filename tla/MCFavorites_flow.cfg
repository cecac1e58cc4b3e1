SPECIFICATION VisitSpec
CONSTANTS
  Calls = {a1, c1, c2, c3, c4}
  Keys = {k1, k2}
  Methods <- FavoriteMethods
  Thens <- FavoriteThens
  MaxPages = 2
  Stored = {a1}
SYMMETRY Symmetry
INVARIANTS
  HeartIsRight
  ListIsOneAnswer
  NoCalmDuplicate
CHECK_DEADLOCK FALSE
