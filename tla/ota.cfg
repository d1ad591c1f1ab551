SPECIFICATION Spec
CONSTANTS
  v0 = v0
  v1 = v1
  v2 = v2
  Version = {v0, v1, v2}
  Size <- SizeOf
  Factory = v0
  Invalid = {}
  OtherAlgorithm = {}
  PartitionSize = 3
  NULL = NULL
  QueueSize = 1
  TB_MQTT_TIMEOUT = 0
  DrainsQueue = FALSE
  MaxEntries = 1
  MaxAnnouncements = 2
  MaxSessions = 1
  MaxCrashes = 1
INVARIANTS
  TypeOK
  
  ChunksAreOurs
CHECK_DEADLOCK FALSE
