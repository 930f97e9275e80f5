SPECIFICATION ProgramSpec
CONSTANTS
  MemSize <- MCMemSize
  Images <- MCImages
  Switches <- MCSwitches
  Starts <- MCStarts
INVARIANTS
  XorIsDisplayed
  ProductIsDisplayed
  SortKeepsData
  SortOrdersData
  DisplayShowsData
PROPERTIES
  SortReturns
