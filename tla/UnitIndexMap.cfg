CONSTANTS
  Editions = {"short", "long"}
  DocCount = 3
  Kinds <- MCKinds
  Books <- MCBooks
  SourceSize <- MCSourceSize
  MaxFaults = 0
  MaxOpens = 2
SPECIFICATION Spec
INVARIANT BookMapIsBuilt
CHECK_DEADLOCK FALSE
