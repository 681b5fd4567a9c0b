\* A status probe may start a server while a rename invalidates one.
CONSTANTS
  Tools = {}
  Probes = {p1}
  Appliers = {r1}
  Main = main
  MaxRestarts = 2
  Window = 2
  ReapMayTimeOut = FALSE
  MaxClock = 1
  MaxGenerations = 3
SPECIFICATION Spec
PROPERTIES FailedReapedBeforeReplacement
