SPECIFICATION Spec
CONSTANTS
    ann = ann  bob = bob  cyd = cyd  web = web  mail = mail
    Prober <- FirstTwo
    Provider <- OwnOfTwo
    Exit <- OwnOfTwo
    DistinctProviders = TRUE
    Agree = 1
    Of = 1
    NoVote = NoVote
    Check <- OneCheck
    Flaky <- Nobody
    Owners <- OnlyAnn
    Cuttable <- Nobody
    MaxProbe = 2
    ResultSlots = 2
    FanOutSlots = 1
    DrainedRejoin = TRUE
PROPERTY OutagesEndTruly
CHECK_DEADLOCK FALSE
