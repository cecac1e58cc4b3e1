SPECIFICATION FavFairSpec
CONSTANTS
  Calls = {c1, c2, c3}
  Keys = {k1}
  Methods <- FavoriteMethods
  Thens <- FavoriteThens
  MaxPages = 1
  Stored = {}
PROPERTIES
  LoadingEnds
  CallsEnd
CHECK_DEADLOCK FALSE
