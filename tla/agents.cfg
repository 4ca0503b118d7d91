SPECIFICATION AgentsSpec
CONSTANTS
    Check = {c, d}
    Version = {1, 2}
    Request = {"r"}
    Handler = {"h"}
    Slots = 1
    Skew = 1
    DocumentLife = 0
    RequestLife = 1
    Loop = {1, 2}
    MaxTime = 0
    MaxRestarts = 0
PROPERTIES SubmitsWhatIsAssigned SchedulesRun ComponentFollows
CHECK_DEADLOCK FALSE
