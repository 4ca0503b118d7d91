SPECIFICATION FairSpec
CONSTANTS
    ann = ann  bob = bob  cyd = cyd  web = web  mail = mail
    Prober <- FirstTwo
    Provider <- OwnOfTwo
    Exit <- OwnOfTwo
    DistinctProviders = TRUE
    Agree = 2
    Of = 2
    NoVote = NoVote
    Check <- TwoChecks
    Flaky <- Nobody
    Owners <- OnlyAnn
    Cuttable <- Nobody
    MaxProbe = 1
    ResultSlots = 2
    FanOutSlots = 1
    DrainedRejoin = TRUE
PROPERTY AdmittedResultsFinish
CHECK_DEADLOCK FALSE
