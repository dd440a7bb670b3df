CONSTANTS
  MaxEditions = 2
  Size <- MCSize
  NoCopy = NoCopy
  MaxJobs = 2
  CloseMayFail = FALSE
  MaxRequests = 1
  OntoACache = FALSE
  MaxFaults = 1
SPECIFICATION TSpec
INVARIANT SectionsAreOfTheFile
INVARIANT DoneIsOnTheCard
PROPERTY GivenUpForAWholeOne
CHECK_DEADLOCK FALSE
