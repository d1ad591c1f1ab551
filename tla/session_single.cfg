SPECIFICATION Spec
CONSTANTS
  a1 = a1
  a2 = a2
  c1 = c1
  p1 = p1
  p2 = p2
  Request = {a1, a2}
  KindOf <- KindByName
  Tasks = {app}
  Runner = app
  NoTask = NoTask
  NoRequest = NoRequest
  QueueSize = 2
  MaxId = 3
  TB_MQTT_TIMEOUT = 1
  MaxSessions = 3
  Copies = 1
  CallbackRequests = FALSE
SYMMETRY RequestSymmetry
INVARIANTS
  TypeOK
  AtMostOneCallback
  NoLostRequest
  SubscribedUnlessStale
  AnswerIsDelivered
  SubscriptionIsUsed
