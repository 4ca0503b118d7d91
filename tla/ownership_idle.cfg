SPECIFICATION Spec
CONSTANTS
    ann = ann  bob = bob  cyd = cyd  web = web  mail = mail
    Prober <- Three
    Check <- OneCheck
    Preferred <- OwnOne
    Rank <- RankOfOneInThree
    StaleAfter = 2
    MeshMaxAge = 1
    MaxFaults = 2
    Calm = 10
INVARIANT ChecksAreWatched
