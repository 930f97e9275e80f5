SPECIFICATION Spec
CONSTANTS
  Switches <- MCSwitches
  MaxMoves = 1
INVARIANTS
  TypeOK
  ProductIsShown
PROPERTIES
  OneProductPerPress
