CONSTANTS
    s1 = s1
    s2 = s2
    s3 = s3
    Pairings <- OnePairing
    Background = {b1}
    None = None
    MaxCrashes = 0
    Outages = FALSE
    DiskFaults = FALSE
SPECIFICATION FairSpec
PROPERTY AbandonedIsCancelled
CHECK_DEADLOCK FALSE
