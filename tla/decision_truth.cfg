SPECIFICATION Spec
CONSTANTS
    ann = ann  bob = bob  cyd = cyd  web = web  mail = mail
    Prober <- Three
    Provider <- Own
    Exit <- Own
    DistinctProviders = TRUE
    Agree = 2
    Of = 3
    NoVote = NoVote
    Check <- OneCheck
    Flaky <- Nobody
    Owners <- FirstTwo
    Cuttable <- FirstTwo
    MaxProbe = 1
    ResultSlots = 2
    FanOutSlots = 1
    DrainedRejoin = TRUE
INVARIANTS TypeOK 
SYMMETRY SwapFirstTwo
 
CHECK_DEADLOCK FALSE
