SPECIFICATION SharedSpec
CONSTANTS
  Size = 3
  StopIndex = 9
  Stoppers = {"main"}
  Main = "main"
  Crashing = {"writer"}
INVARIANTS
  SharedTypeOK
  CallsUseLiveHandles
PROPERTIES
  ProgramEnds
CHECK_DEADLOCK FALSE
