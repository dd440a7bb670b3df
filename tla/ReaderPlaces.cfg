CONSTANTS
  TextLen <- MCTextLen
  PageSize <- MCPageSize
  Chunk = 2
  Tick = 1
  Ahead = 3
  Margin = 1
  Capacity = 1
  TextReference = 1
  Excess = 1
  MaxFaults = 1
  MaxMoves = 4
  Claimed = {}
SPECIFICATION Spec
PROPERTY ReopensWhereItWasLeft
PROPERTY TurnsSkipNothing
PROPERTY ArrivesWhereAsked
PROPERTY PlaceKept
CHECK_DEADLOCK FALSE
