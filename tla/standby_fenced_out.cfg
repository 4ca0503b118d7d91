SPECIFICATION FairSpec
CONSTANTS
    Item = {i}
    Own = {o}
    Obs = {}
    MaxTime = 1
    GuardedOnly = TRUE
    Faults = 0
PROPERTY FencedIsPromotable
CHECK_DEADLOCK FALSE
