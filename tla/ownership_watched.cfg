SPECIFICATION Spec
CONSTANTS
    ann = ann  bob = bob  cyd = cyd  web = web  mail = mail
    Prober <- Two
    Check <- TwoChecks
    Preferred <- OwnEachOfTwo
    Rank <- RankOfTwo
    StaleAfter = 2
    MeshMaxAge = 1
    MaxFaults = 3
    Calm = 12
INVARIANTS TypeOK ChecksAreWatched TheWellAreNotBlamed OneRunner OwnersReturn
PROPERTY NoOscillation
