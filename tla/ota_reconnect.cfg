SPECIFICATION FairSpec
CONSTANTS
  v0 = v0
  v1 = v1
  v2 = v2
  Version = {v0, v2}
  Size <- SizeOf
  Factory = v0
  Invalid = {}
  OtherAlgorithm = {}
  PartitionSize = 3
  NULL = NULL
  QueueSize = 2
  TB_MQTT_TIMEOUT = 1
  DrainsQueue = FALSE
  MaxEntries = 1
  MaxAnnouncements = 1
  MaxSessions = 2
  MaxCrashes = 0
INVARIANTS
  TopicWhileDownloading
PROPERTIES
  DownloadEnds
CHECK_DEADLOCK FALSE
