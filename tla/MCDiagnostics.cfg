\* Two callers, pulling or not, two versions, one refused notification, reports
\* in any order.
CONSTANTS
  Queries = {q1, q2}
  Items = {ia, ib}
  NoItems = none
  Pulls = TRUE
  MaxVersions = 2
  MaxRefused = 1
  MaxResults = 1
  MaxPublished = 2
SPECIFICATION Spec
SYMMETRY Symmetries
INVARIANTS TypeOK FullReportsAreTimely TimelyUnlessCrossed
PROPERTIES PushedReportsAreNewest
