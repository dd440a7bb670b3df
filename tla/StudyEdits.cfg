SPECIFICATION Spec
CONSTANTS
  b1 = b1
  b2 = b2
  p1 = p1
  p2 = p2
  n1 = n1
  n2 = n2
  Pub = {b1}
  e1 = e1
  e2 = e2
  Edition = {e1, e2}
  Unknown = Unknown
  UnitMayFail = FALSE
  Place = {p1, p2}
  Name = {n1, n2}
  NoName = NoName
  Absent = Absent
  MaxRaw = 3
  MaxActive = 2
  Budget = 3
  MaxTags = 1
  MaxLinks = 1
  WriteMayFail = TRUE
  RenameMayFail = FALSE
  ReadMayFail = TRUE
  MemoryMayRunOut = FALSE
SYMMETRY MCSymmetry
INVARIANTS TagsKeepTheirMeaning WhatIsSavedLoads LinkSourceIsMarked ResidentAreStored TextIsItsOwn
PROPERTY NothingLost
