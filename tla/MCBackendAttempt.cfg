\* The attempt stays in its budget, reports only real success, and ends.
SPECIFICATION Spec
CONSTANTS
  Unusable = NaN
  Timeouts <- MCTimeouts
  ServiceTimeouts <- MCServiceTimeouts
  Interval = 1
INVARIANTS TypeOK AttemptBounded OutcomeIsTrue
PROPERTIES AttemptEnds ImplementsPromise
CHECK_DEADLOCK FALSE
