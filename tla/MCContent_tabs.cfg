SPECIFICATION ContentFairSpec
CONSTANTS
  l1 = l1
  Lists = {l1}
  Watched = {"carousel", "tabs", "ratings"}
  MaxShown = 2
  MaxEvents = 3
INVARIANTS
  TabsAnswerLastTap
PROPERTIES
  TabsInOrder
  EveryTapIsAsked
CHECK_DEADLOCK FALSE
