CONSTANTS
    f1 = f1
    f2 = f2
    Flows = {f1, f2}
    Visits = {v1, v2}
    MaxTries <- OneRetries
    MaxCuts = 1
    None = None
SPECIFICATION FairSpec
INVARIANTS TypeOK RotationIsExclusive SlotIsNotAbandoned SuccessIsProven
PROPERTY FinishIsReached
CHECK_DEADLOCK FALSE
