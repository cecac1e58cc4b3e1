SPECIFICATION MCSpec
CONSTANTS
  Calls = {c1, c2, c3}
  Keys = {k1, k2}
  Methods <- AllMethods
SYMMETRY Symmetry
INVARIANTS
  DurableAdd
  NoResurrection
  ReadYourWrites
  ReadYourRemoves
  OneLocatorPerBook
  LastPositionWins
  NoFabrication
CHECK_DEADLOCK FALSE
