SPECIFICATION SearchFairSpec
CONSTANTS
  l1 = l1
  q1 = q1
  q2 = q2
  Lists = {l1}
  Queries = {q1, q2}
  NoQuery = none
  MaxEvents = 4
INVARIANTS
  SearchAnswersQuery
PROPERTIES
  EveryQueryIsAsked
CHECK_DEADLOCK FALSE
