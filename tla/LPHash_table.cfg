SPECIFICATION Spec
CHECK_DEADLOCK FALSE
CONSTANTS
  Keys <- MCKeys
  Values <- MCValues
  v0 = v0
  v1 = v1
  Default = v0
  NULL = NULL
  Uninitialised = Uninitialised
  InCall = InCall
  hash <- MChash
  findPrime <- MCfindPrime
  shouldResize <- MCshouldResize
  TableSizes <- MCTableSizes
  InitialSizes <- MCInitialSizes
  MaxElems = 4
INVARIANTS
  TypeOK
  EveryEntryIsFound
  ElemsCountsEntries
  SlotIsLeft
PROPERTIES
  RefinesMultimap
