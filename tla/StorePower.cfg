SPECIFICATION FairSpec
CONSTANTS
  Loop = Loop
  Web = Web
  Task = {Loop, Web}
  NoTask = NoTask
  Build = {1, 2}
  MaxEditions = 3
  Absent = Absent
  Torn = Torn
  WriteMayFail = FALSE
  DirOpMayFail = FALSE
  ReadMayFail = FALSE
INVARIANT AckedSaveSurvives
PROPERTIES NewerNeverReplacedByOlder UnknownFormatSurvives ImplementsDurableDoc ResaveIsMade
