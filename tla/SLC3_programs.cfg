SPECIFICATION LiveSpec
CONSTANTS
  MemSize <- MCMemSize
  Images <- MCImages
  Switches <- MCSwitches
  Undef = Undef
CONSTRAINT InBounds
INVARIANTS
  TypeOK
  ReadsCurrentWord
  BranchDecisionIsCurrent
  CodesDescribeResult
PROPERTIES
  StoreWritesItsOperand
  RefinesISA
  InstructionCompletes
