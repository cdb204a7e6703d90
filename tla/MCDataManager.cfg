\* The weather, status and house branches; the program may stop, so it may
\* deadlock: popHead on an empty queue, or main() has returned.
CONSTANTS
  Built = {"receive", "weather", "weatherUpload", "status", "house", "houseWeather"}
  MaxBacklog     = 1
  SensorReadings = 1
  Failures       = {"udp", "multicast"}
SPECIFICATION SafeSpec
INVARIANTS TypeOK SensorQueuesNeverDangle FrameOutlivesUpload
PROPERTY CreatesOnce
CHECK_DEADLOCK FALSE
