SPECIFICATION Spec
CONSTANTS
  Size = 3
  StopIndex = 9
  Stoppers = {"stopper"}
  Crashing = {"writer", "reader"}
INVARIANTS
  TypeOK
  StopIsKept
  ReaderSeesStop
  ReservationsApart
  ReservationsSound
  NoLostWakeup
  NeverBothAsleep
PROPERTIES
  WaitingDelivers
