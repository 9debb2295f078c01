SPECIFICATION Spec
CONSTANTS
  Size = 3
  StopIndex = 9
  Stoppers = {"stopper"}
  Crashing = {}
PROPERTIES
  EmptyAfterStop
