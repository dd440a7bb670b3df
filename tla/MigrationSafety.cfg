SPECIFICATION MSpec
CONSTANTS
  b1 = b1
  b2 = b2
  p1 = p1
  p2 = p2
  n1 = n1
  n2 = n2
  s1 = s1
  s2 = s2
  Sources <- MCSources
  Legacy <- MCLegacy
  LegacyNames <- MCOneName
  BookPub <- MCBookPub
  LocalPub <- MCBookPub
  Pub = {b1}
  e1 = e1
  Edition = {e1}
  Unknown = Unknown
  UnitMayFail = FALSE
  Place = {p1, p2}
  Name = {n1}
  NoName = NoName
  Absent = Absent
  MaxRaw = 2
  MaxActive = 1
  Budget = 3
  MaxTags = 1
  MaxLinks = 0
  WriteMayFail = TRUE
  RenameMayFail = FALSE
  ReadMayFail = TRUE
  MemoryMayRunOut = FALSE
  BookMayFail = TRUE
INVARIANT LedgeredIsStored
PROPERTY MigrationLosesNothing
