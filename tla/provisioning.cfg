CONSTANTS
  Client <- const_Client
  Schemas <- const_Schemas
  Provisions <- const_Provisions
  QueueSize = 1
  MaxAttempts = 2
  MaxTicks = 1
  Rounds = 2
  MaxAnswers = 2
SPECIFICATION FairSpec
INVARIANTS
  TypeOK
  HandlerIsMissing
  NoUseAfterDestroy
  ConnectsAsProvisioned
  OneConnection
  NothingIsLeft
  UsesFreedOnlyDiscarded
PROPERTIES
  ApplicationEnds
