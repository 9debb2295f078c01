SPECIFICATION Spec
CONSTANTS
  Objects = {a, b, c}
  Streams = {x, y}
  Size = 3
  StopIndex = 9
  MaxHandles = 3
SYMMETRY Symmetry
INVARIANTS
  TypeOK
  OneOwner
  ClientsAreRight
  SpansAreBacked
