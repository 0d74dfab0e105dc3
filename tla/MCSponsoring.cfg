SPECIFICATION Spec
CONSTANTS
  c1 = c1
  c2 = c2
  Calls <- CallsDef
  MaxRequests = 2
  MaxVersion = 2
  MaxSequence = 2
  MaxRetries = 1
INVARIANTS
  TypeOK
  RefreshSupersedes
  NewestIsRegistered
  ResignsOnlyDead
SYMMETRY Interchangeable
CHECK_DEADLOCK FALSE
