\* The status branch and the CSV branch with both of its writers; the CSV file
\* may fail to open at any time.  The program may stop, so it may deadlock.
CONSTANTS
  Built = {"receive", "status", "statusUpload", "csv", "csvStatus", "csvWeather"}
  MaxBacklog     = 1
  SensorReadings = 2
  Failures       = {"udp", "open"}
SPECIFICATION Spec
INVARIANTS CsvQueueOutlivesWriters MainOutlivesThreads
PROPERTY ShutdownSettles
CHECK_DEADLOCK FALSE
