\* The first message of the second day brings rain, and a report is made after it.
CONSTANTS
  MaxMessages = 1
  MaxDay      = 1
  Speeds      = {0}
  Rains       = {1}
  Unset       = {7}
  None        = None
SPECIFICATION SafeSpec
INVARIANT RainfallIsInchesToday
CHECK_DEADLOCK FALSE
