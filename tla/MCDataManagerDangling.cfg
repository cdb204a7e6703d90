\* The weather branch with csvWeather; no failure is needed.
CONSTANTS
  Built = {"receive", "weather", "weatherUpload", "csv", "csvWeather"}
  MaxBacklog     = 1
  SensorReadings = 1
  Failures       = {}
SPECIFICATION SafeSpec
INVARIANT NoPushToDestroyedQueue
CHECK_DEADLOCK FALSE
