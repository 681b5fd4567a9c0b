\* Three files; every operation may fail; other programs write twice.
CONSTANTS
  N = 3
  MayFail = {"stage", "cleanup", "move", "install", "remove", "restore", "discard"}
  MaxEdits = 2
SPECIFICATION FairSpec
INVARIANTS TypeOK NothingIsLost ResidueIsReported
PROPERTIES KeepsContract ApplicationEnds
\* The transaction is over, cancelled, and nobody writes any more.
CHECK_DEADLOCK FALSE
