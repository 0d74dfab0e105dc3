\* Is a transaction relayed only once it landed?
SPECIFICATION Spec
CONSTANTS
  Operations <- AllOperations
  Timeouts <- MCTimeouts
  Floor = 2
  VerifyTime = 1
  BatchWait = 3
INVARIANT RelaysOnlyLanded
CHECK_DEADLOCK FALSE
