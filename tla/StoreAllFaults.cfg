SPECIFICATION Spec
CONSTANTS
  Loop = Loop
  Web = Web
  Task = {Loop, Web}
  NoTask = NoTask
  Build = {1, 2}
  MaxEditions = 2
  Absent = Absent
  Torn = Torn
  WriteMayFail = TRUE
  DirOpMayFail = TRUE
  ReadMayFail = TRUE
INVARIANT PrimaryNeverTorn
PROPERTY OldKeptUntilNewComplete
