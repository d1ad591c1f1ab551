CONSTANTS
  k1 = k1
  k2 = k2
  a1 = a1
  Key <- const_Key
  Axis <- const_Axis
  MaxRegistered = 2
  MaxPerRequest = 1
  QueueSize = 1
  MaxChanges = 1
  MaxAccepted = 2
  MaxConnects = 2
CHECK_DEADLOCK FALSE
SPECIFICATION Spec
SYMMETRY Symmetry
INVARIANTS
  TypeOK
  
  
