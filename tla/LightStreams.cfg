SPECIFICATION LiveSpec
CONSTANTS
  Processes = {"writer", "reader"}
  Removers = {"reader"}
  Crashing = {"writer"}
  AskedSizes = {1, 2, 3}
  MinSize = 2
  MaxSize = 3
  SpaceRunsOut = FALSE
  MaxRemoves = 1
  Writer = "writer"
  Reader = "reader"
  ReaderSizes = {2}
  MaxBytes = 3
INVARIANTS
  StreamsTypeOK
  UnreadBytesAreThere
  SpansAreSound
PROPERTIES
  EverythingArrives
  EachSegmentIsAStream
CHECK_DEADLOCK FALSE
