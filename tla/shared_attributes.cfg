SPECIFICATION SpecSet
CONSTANTS
  Key = {k1, k2}
  Method = {m1}
  Interests <- All
  Tasks = {app}
  Runner = app
  CallbackMay = {"unregister", "disconnect"}
  QueueSize = 1
  MaxEntries = 2
  MaxRpcs = 0
  MaxSessions = 1
  MaxMessages = 2
  MaxPerSubscribe = 1
  MaxPerRequest = 2
SYMMETRY KeySymmetry
CHECK_DEADLOCK FALSE
INVARIANTS
  TypeOKSet
  AttributesAreListed
  DeviceIsUpToDate
