\* A second query after one whose notification was refused.
CONSTANTS
  Queries = {q1, q2, q3}
  Closer = closer
  Nobody = nobody
  Files = {f1, f2}
  Texts = {ta, tb}
  OpenClose = TRUE
  Capacity = 1
  MaxRetries = 1
  MaxEdits = 1
SPECIFICATION Spec
INVARIANTS QueriesFollowOpen
CHECK_DEADLOCK FALSE
