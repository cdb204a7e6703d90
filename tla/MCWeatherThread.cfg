\* Two messages with two wind speeds (one calm) over two days; the memory of weatherData
\* held a 7.  Both threads end after a reset, so the system may stop.
CONSTANTS
  MaxMessages = 2
  MaxDay      = 1
  Speeds      = {0, 1}
  Rains       = {1}
  Unset       = {7}
  None        = None
SPECIFICATION Spec
INVARIANTS MutexOwner ReportIsSnapshot CountedOnce GustDirection RainfallAddsUp 
PROPERTY EveryMessageReported
CHECK_DEADLOCK FALSE
