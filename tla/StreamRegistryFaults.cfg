SPECIFICATION Spec
CONSTANTS
  Processes = {"a", "b", "c"}
  Removers = {"c"}
  Crashing = {"a"}
  AskedSizes = {1, 3}
  MinSize = 2
  MaxSize = 4
  SpaceRunsOut = TRUE
  MaxRemoves = 1
INVARIANTS
  TypeOK
  StreamsAreUsable
  OnlyRemoveSplits
CHECK_DEADLOCK FALSE
