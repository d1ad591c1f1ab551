SPECIFICATION FairSpec
CONSTANTS
  a1 = a1
  a2 = a2
  c1 = c1
  p1 = p1
  p2 = p2
  Request = {c1, p1}
  KindOf <- KindByName
  Tasks = {app}
  Runner = app
  NoTask = NoTask
  NoRequest = NoRequest
  QueueSize = 1
  MaxId = 3
  TB_MQTT_TIMEOUT = 1
  MaxSessions = 2
  Copies = 1
  CallbackRequests = FALSE
PROPERTIES
  PromiseKept
