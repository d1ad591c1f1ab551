\* Three messages of at most four bytes on two topics; messages of four bytes
\* are longer than MAX_TBCM_RX_MSG_LENGTH.
SPECIFICATION Spec
CONSTANTS
  Topic = {t1, t2}
  NULL = NULL
  MaxLength = 3
  MaxTotal = 4
  MaxMessages = 3
INVARIANTS
  TypeOK
  NoMixedDelivery
  DeliveredInOrderOnce
  WholeMessageIsDelivered
CHECK_DEADLOCK FALSE
