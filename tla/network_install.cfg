SPECIFICATION Spec
CONSTANTS
    Peer <- OnePeer
    Automated <- Both
    Address <- TwoAddresses
    Home <- ByRole
    MaxKeys = 4
    MaxFaults = 1
PROPERTY InstallApplies
CHECK_DEADLOCK FALSE
