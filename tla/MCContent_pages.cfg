SPECIFICATION ContentSpec
CONSTANTS
  l1 = l1
  Lists = {l1}
  Watched = {"carousel", "background", "random", "explores", "related"}
  MaxShown = 3
  MaxEvents = 2
INVARIANTS
  BackgroundIsPage
  ClosedWithPage
CHECK_DEADLOCK FALSE
