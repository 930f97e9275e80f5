SPECIFICATION Spec
CONSTANTS
  Col <- MCCol
  Zero = 0
  One = 1
  DEADBEEF = 10
  XorWord <- MCXorWord
  InvShiftRows <- MCInvShiftRows
  InvSubBytes <- MCInvSubBytes
  InvMixColumns <- MCInvMixColumns
  SubWordRcon <- MCSubWordRcon
  Bit0 <- MCBit0
  RunModes = {0}
  Requests <- MCRequests
  MaxCalls = 2
  MaxGap = 1
  MaxResets = 0
INVARIANTS
  DecryptReturnsItsMessage
