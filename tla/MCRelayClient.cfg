\* The wait for a packet: safety, classification of failures, termination, and
\* the refinement of RelayPromise.
SPECIFICATION Spec
CONSTANTS
  p1 = p1
  p2 = p2
  q = q
  NaN = NaN
  Unusable = NaN
  Own <- MCOwn
  Foreign <- MCForeign
  Timeouts <- MCTimeouts
  DefaultTimeout = 4
  RequestTimeout = 3
  PollInterval = 2
  RetryDelay = 2
  MaxRetry = 3
  MaxListed = 2
INVARIANTS TypeOK FoundIsExecutedOwn DeadlineHeld FailureClassified
PROPERTIES WaitEnds ImplementsPromise
CHECK_DEADLOCK FALSE
