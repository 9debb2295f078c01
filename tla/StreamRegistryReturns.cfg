SPECIFICATION OnceSpec
CONSTANTS
  Processes = {"a", "b", "c"}
  Removers = {"a", "b"}
  Crashing = {"c"}
  AskedSizes = {0, 2, 3}
  MinSize = 2
  MaxSize = 4
  SpaceRunsOut = TRUE
  MaxRemoves = 2
INVARIANTS
  CallsSucceed
PROPERTIES
  EveryCallReturns
CHECK_DEADLOCK FALSE
