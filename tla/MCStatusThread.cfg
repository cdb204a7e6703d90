\* Two messages of any kinds over two days; the second uptime is out of range.
\* The memory held a 0; UptimeNeverBack does not speak of what it held.
CONSTANTS
  MaxMessages = 2
  MaxDay      = 1
  HalfRange   = 2
  Unset       = {0}
SPECIFICATION Spec
INVARIANTS MeanAndMaxAgree CountedOnce StaleMeanIsMarked WindowWithinDay
PROPERTIES UptimeNeverBack EveryMessageAccounted
CHECK_DEADLOCK FALSE
