CONSTANTS
  Tools = {t1, t2}
  Probes = {p1}
  Appliers = {r1}
  Main = main
  MaxRestarts = 1
  Window = 2
  ReapMayTimeOut = TRUE
  MaxClock = 3
  MaxGenerations = 3
SPECIFICATION Spec
SYMMETRY ToolSymmetry
INVARIANTS TypeOK RestartBudget LaunchesArePaid OneOwner ShutdownLeavesNothing
PROPERTIES NoLaunchAfterShutdown
