CONSTANTS
    s1 = s1
    s2 = s2
    s3 = s3
    Pairings <- TwoPairings
    Background = {b1}
    None = None
    MaxCrashes = 1
    Outages = TRUE
    DiskFaults = TRUE
SPECIFICATION FairSpec
INVARIANTS TypeOK JournaledBeforeSaved Recoverable
PROPERTIES CarriedIsResolved RefusalRestoresWhatWasKept SwitchesOnlyToSaved
CHECK_DEADLOCK FALSE
