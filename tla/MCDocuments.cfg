\* Three queries of one file, a queue that fills, and shutdown.
CONSTANTS
  Queries = {q1, q2, q3}
  Closer = closer
  Nobody = nobody
  Files = {f1}
  Texts = {ta, tb}
  OpenClose = TRUE
  Capacity = 2
  MaxRetries = 1
  MaxEdits = 3
SPECIFICATION Spec
SYMMETRY Symmetries
INVARIANTS TypeOK ServerFollowsStore StreamWellFormed QueriesSeeTheirDocument
PROPERTIES NeverSyncsBackwards
CHECK_DEADLOCK FALSE
