SPECIFICATION FairSpec
CONSTANTS
  k1 = k1
  Key = {k1}
  Method = {m1}
  Interests <- OneOrAll
  Tasks = {app, task}
  Runner = app
  CallbackMay = {"unsubscribe", "disconnect"}
  QueueSize = 2
  MaxEntries = 2
  MaxRpcs = 1
  MaxSessions = 2
  MaxMessages = 2
CHECK_DEADLOCK FALSE
INVARIANTS
  TypeOK
  TopicsFollowLists
  SafeIfResultsCount
PROPERTIES
  GetsSubscribed
