SPECIFICATION Spec
CONSTANTS
  BUF_LEN = 2
  RxDepth = 2
  TxDepth = 1
  Threshold = 0
  Numbers = 1
  Default = 1
  INT_MAX = 3
  Timeouts <- MCTimeouts
  MaxCount = 2
PROPERTIES
  WriteReturns
  ReadWakesUp
