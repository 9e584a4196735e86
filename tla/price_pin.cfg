SPECIFICATION FairSpec
CONSTANTS
  shirt = shirt
  Products = {shirt}
  Columns <- Catalogue
  MaxTurns = 3
  MaxCalls = 2
  MaxParts = 2
  MaxEdits = 1
INVARIANTS TypeOK WhatWasToldIsPinned
PROPERTIES PriceHolds RunEnds
CHECK_DEADLOCK FALSE
