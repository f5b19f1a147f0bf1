\* Every run ends when the bounds on the characters are used up.
CONSTANTS
  XBUFLEN = 2
  RBUFLEN = 3
  Byte = 6
  MaxOut = 5
  MaxIn = 6
SPECIFICATION FairSpec
INVARIANTS
  TypeOK
  NoLostWakeup
  TxInOrder
PROPERTIES
  SbufNotOverwritten
  FifoKept
  PutcCompletes
CHECK_DEADLOCK FALSE
