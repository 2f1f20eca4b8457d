CONSTANTS
    one = one
    x = x
    y = y
    Pages <- OnePage
    Players <- TwoPlayers
    OddSets <- BothLeft
    None = None
    MaxGen = 2
    MaxResolves = 1
SPECIFICATION FairSpec
INVARIANTS
    TypeOK
    ResolvesAsPicked
    SettledPageIsCurrent
PROPERTIES
    PublishShows
