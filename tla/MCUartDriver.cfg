SPECIFICATION FairSpec
CONSTANTS
  TxSize = 3
  RxSize = 3
  MaxWrite = 3
  MaxOut = 4
  MaxIn = 3
INVARIANT UartTypeOK
INVARIANT BytesInOrder
INVARIANT NeverStranded
INVARIANT ReceivedInOrder
PROPERTY AllSent
CHECK_DEADLOCK FALSE
