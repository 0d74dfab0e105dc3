SPECIFICATION Spec
CONSTANTS
  MaxMisses = 2
  MaxOutages = 1
INVARIANTS
  TypeOK
  VerdictIsTrue
  StopsForAReason
PROPERTIES
  LostTransferStops
  CancelEndsPoll
