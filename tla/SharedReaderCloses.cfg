SPECIFICATION OwnerClosesSpec
CONSTANTS
  Size = 3
  StopIndex = 9
  Stoppers = {"main"}
  Main = "main"
  Crashing = {"writer"}
INVARIANTS
  StopIsSafe
CHECK_DEADLOCK FALSE
