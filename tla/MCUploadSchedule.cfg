\* An interval of three ticks, steps of up to two intervals.
CONSTANTS
  Interval = 3
  Steps   <- SomeSteps
  MaxLag   = 10
  MaxBack  = 6
SPECIFICATION Spec
INVARIANT NeverAhead
PROPERTY KeepsReporting
CHECK_DEADLOCK FALSE
