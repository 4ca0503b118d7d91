SPECIFICATION InstallationsSpec
CONSTANTS
    Subject <- OneSubject
    Destination <- TwoDestinations
    Route <- ByKind
    Healthy <- OnlyLog
    Pager = "webhook"
    Statuses <- AllStatuses
    Emitters = 2
    MaxTransitions = 2
    MaxCrashes = 1
    MaxLostAcks = 1
    PersistMayFail = FALSE
INVARIANTS TypeOK DeliveredInOrder InDecidedOrder EscalatedAtMostOnce
PROPERTIES EscalationsRelevant PersistedFirst
CHECK_DEADLOCK FALSE
