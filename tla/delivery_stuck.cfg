SPECIFICATION Spec
CONSTANTS
    web = web  log = log  webhook = webhook
    Subject <- OneSubject
    Destination <- OneDestination
    Route <- ToWebhook
    Healthy <- OneDestination
    Pager = webhook
    Statuses <- UpDown
    Emitters = 2
    MaxTransitions = 3
    MaxCrashes = 0
    MaxLostAcks = 0
    PersistMayFail = FALSE
INVARIANT IncidentsFollowStatus
CHECK_DEADLOCK FALSE
