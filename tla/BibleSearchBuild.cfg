SPECIFICATION FairSpec
CONSTANTS
    b1 = b1
    b2 = b2
    Bibles = {b1, b2}
    Books = {1, 2, 3}
    Malformed <- McMalformed
    Continues = {3}
    LostSets <- McLostSets
    CHECKPOINT_EVERY = 2
    None = None
    MaxCuts = 1
    MaxReplaced = 1
INVARIANTS IndexIsItsList SearchesThisBible HoleEndsWithTheBoot
PROPERTY ConfirmedBuildEnds
