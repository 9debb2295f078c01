SPECIFICATION LiveSpec
CONSTANTS
  Size = 4
  MaxBytes = 9
INVARIANTS
  TypeOK
  BytesInOrder
  NoDataRace
  ReservationsApart
  AvailableIsThere
  Inv
PROPERTIES
  AvailableIsReservable
  StreamSpec
  EveryByteArrives
