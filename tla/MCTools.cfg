SPECIFICATION Spec
CONSTANTS
  one = one
  other = other
  Callers = {one, other}
  Loads <- MCLoads
  Healths = {"ok", "error"}
  Files = {f1, f2}
  Texts = {x, y}
  Tokens = {t1}
  MaxRetries = 1
  MaxGenerations = 2
  MaxEvents = 2
  MaxPreviews = 2
  MaxBytes = 2
  Lifetime = 1
SYMMETRY Symmetry
INVARIANTS TypeOK PreviewMatchesServer GateHidesStaleServers StableEmptyWasSettled
PROPERTIES PreviewsLastUntilUsed
CHECK_DEADLOCK FALSE
