SPECIFICATION Spec
CONSTANTS
  v0 = v0
  v1 = v1
  v2 = v2
  Version = {v0, v1, v2}
  Size <- SizeOf
  Factory = v0
  Invalid = {v2}
  OtherAlgorithm = {}
  PartitionSize = 3
  NULL = NULL
  QueueSize = 1
  TB_MQTT_TIMEOUT = 1
  DrainsQueue = FALSE
  MaxEntries = 1
  MaxAnnouncements = 2
  MaxSessions = 1
  MaxCrashes = 0
INVARIANTS
  InvalidIsNotInstalled
CHECK_DEADLOCK FALSE
