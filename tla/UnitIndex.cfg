CONSTANTS
  Editions = {"short", "long"}
  DocCount = 3
  Kinds <- MCKinds
  Books <- MCBooks
  SourceSize <- MCSourceSize
  MaxFaults = 3
  MaxOpens = 3
SPECIFICATION Spec
INVARIANT AnswersAreTrue
PROPERTY IndexIsKept
CHECK_DEADLOCK FALSE
