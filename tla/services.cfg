SPECIFICATION ServicesSpec
CONSTANTS
    Item = {i}
    Own = {o}
    Obs = {a, b}
    MaxTime = 2
    GuardedOnly = FALSE
    Faults = 2
    Every = 2
    Timeout = 1
    Grace = 3
    LookEvery = 1
    Skew = 1
    Offsets = {0, 1}
    InFlight = 2
    Name = {"web", "mail"}
    Definition = {"d"}
    Required = {"web"}
    MaxRevisions = 2
    MaxId = 4
    MaxCrashes = 1
    User = {"u", "v"}
    Token = {}
    MaxSessions = 1
    AccessFaults = 0
    User2 = {"u"}
    Token2 = {"t"}
    MaxSessions2 = 2
    AccessFaults2 = 1
    Call = {"k", "l"}
    Editor = {"e"}
    MaxNotices = 2
    MaxUpdates = 2
    NoticeRetention = 1
    MaxNoticeId = 3
    MaxExported = 2
    MaxExportedUpdates = 2
    ExportWindow = 0
    TextBudget = 4
    WindowName = {"n", "m"}
    Configured = {"n"}
    Period = {0, 2, 3}
    MaxReportTime = 4
    MaxOutages = 1
    MaxPuts = 1
    Member = {"c", "d"}
    Goroutine <- TwoResultsAndOthers
    Peer = {"p", "q"}
    Automated = {}
    Home <- NoHomes
    MaxKeys = 3
    Peer2 = {"p"}
    Automated2 = {"hub", "p"}
    Home2 <- TwoHomes
    MaxKeys2 = 4
    Address = {"a", "b"}
    MaxFaults = 1
    Probed = {}
    Version = {}
    Asked = {"r", "s"}
    Handler = {"h", "i"}
    Slots = 1
    RequestSkew = 1
    DocumentLife = 1
    RequestLife = 1
    Loop = {}
    MaxRequestTime = 3
    MaxRestarts = 1
    HistoryRetention = 1
    MaxPerCheck = 2
    CompactEvery = 2
    MaxHistoryTime = 2
    MaxObs = 4
    HistoryFaults = 2
    Checks = 2
    Reported = {"up", "down"}
    Copies = 1
    MaxAge = 1
    FetchTimeout = 1
    MaxPageTime = 3
    MaxChanges = 2
INVARIANTS
    TypesOK
    PromotionHolds RecoveryPointKept HistoryReplicated
    DeathIsNoticed CalmIsAlive
    AnsweredIsKept
    AnAdminRemains AnsweredIsStored
    TimelineKept NoticesStay 
    NewestKept PageIsCurrent
    CountedOnce CountsTheLargest NoCircle
    
    RunOnce
PROPERTY HandsOver
CHECK_DEADLOCK FALSE
