\* Two callers of a server that answers pulls with result ids.
CONSTANTS
  Queries = {q1, q2}
  Items = {ia, ib}
  NoItems = none
  Pulls = TRUE
  MaxVersions = 2
  MaxRefused = 0
  MaxResults = 2
  MaxPublished = 0
SPECIFICATION Spec
INVARIANTS StaleNeverCurrent
