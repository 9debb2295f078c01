SPECIFICATION Spec
CONSTANTS
  Processes = {"a", "b", "c"}
  Removers = {"a", "b"}
  Crashing = {}
  AskedSizes = {2}
  MinSize = 2
  MaxSize = 4
  SpaceRunsOut = FALSE
  MaxRemoves = 2
INVARIANTS
  ShmDoesNotExist
