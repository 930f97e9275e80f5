SPECIFICATION Spec
CONSTANTS
  BUF_LEN = 3
  RxDepth = 2
  TxDepth = 1
  Threshold = 0
  Numbers = 6
  Default = 1
  INT_MAX = 3
  Timeouts = {}
  MaxCount = 2
INVARIANTS
  TypeOK
  CharactersInOrder
  InterruptsStayArmed
