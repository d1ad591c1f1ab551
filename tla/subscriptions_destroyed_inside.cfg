SPECIFICATION Spec
CONSTANTS
  k1 = k1
  Key = {k1}
  Method = {m1}
  Interests <- OneOrAll
  Tasks = {app}
  Runner = app
  CallbackMay = {"destroy"}
  QueueSize = 2
  MaxEntries = 2
  MaxRpcs = 1
  MaxSessions = 1
  MaxMessages = 1
CHECK_DEADLOCK FALSE
INVARIANT
  NoUseAfterFree
