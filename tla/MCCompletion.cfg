\* All operations: what success and failure mean, and that calls end.
SPECIFICATION Spec
CONSTANTS
  Operations <- AllOperations
  Timeouts <- MCTimeouts
  Floor = 2
  VerifyTime = 1
  BatchWait = 3
INVARIANTS TypeOK SuccessMeansDone SuccessMeansLanded NothingStranded FailureIsTrue
PROPERTIES CallEnds ImplementsPromise
CHECK_DEADLOCK FALSE
