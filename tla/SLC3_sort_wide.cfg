SPECIFICATION ProgramSpec
CONSTANTS
  MemSize <- MCMemSize
  Images <- WideImages
  Switches <- WideSwitches
  Starts <- WideStarts
INVARIANTS
  SortOrdersData
