SPECIFICATION Spec
CONSTANTS
  shirt = shirt
  Products = {shirt}
  Columns <- ThreeSteps
  MaxTurns = 2
  MaxCalls = 1
  MaxParts = 2
  MaxEdits = 0
PROPERTIES PriceNeverRises
CHECK_DEADLOCK FALSE
