SPECIFICATION FairSpec
CONSTANTS
    web = web  log = log  webhook = webhook
    Subject <- OneSubject
    Destination <- TwoDestinations
    Route <- RefusingFirst
    Healthy <- OnlyLog
    Pager = log
    Statuses <- UpDown
    Emitters = 1
    MaxTransitions = 1
    MaxCrashes = 1
    MaxLostAcks = 0
    PersistMayFail = FALSE
PROPERTY EventuallyServed
CHECK_DEADLOCK FALSE
