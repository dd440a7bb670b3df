CONSTANTS
  Images = {"candidate", "release", "truncated", "foreign"}
  NoImage = "nothing"
  Whole = {"candidate", "release", "foreign"}
  Ours = {"candidate", "release", "truncated"}
  Version <- MCVersion
  Rc = {"candidate"}
  Blocks = 2
  MaxJobs = 2
  MaxFaults = 2
SPECIFICATION Spec
INVARIANT NextBootIsSound
INVARIANT UpdateTakesEffect
PROPERTY SelectionIsAtomic
PROPERTY UpdateBoots
