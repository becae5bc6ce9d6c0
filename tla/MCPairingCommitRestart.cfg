CONSTANTS
    s1 = s1
    s2 = s2
    s3 = s3
    Pairings <- OnePairing
    Background = {b1}
    None = None
    MaxCrashes = 1
    Outages = TRUE
    DiskFaults = TRUE
SPECIFICATION Spec
PROPERTY KeptAcrossRestarts
CHECK_DEADLOCK FALSE
