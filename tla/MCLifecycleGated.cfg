\* Semantic tools and renames only: every start is behind the workspace gate.
CONSTANTS
  Tools = {t1, t2}
  Probes = {}
  Appliers = {r1}
  Main = main
  MaxRestarts = 2
  Window = 2
  ReapMayTimeOut = FALSE
  MaxClock = 1
  MaxGenerations = 3
SPECIFICATION FairSpec
INVARIANTS OneGenerationAtATime
PROPERTY EveryoneReturns
