CONSTANTS
  S = S
  E = E
  Languages = {S, E}
  NoFile = NoFile
  Junk = Junk
  MaxReleases = 3
  ChangeWhileStaged = FALSE
  MaxFaults = 3
SPECIFICATION Spec
PROPERTY NeverTradesGoodForBad
CHECK_DEADLOCK FALSE
