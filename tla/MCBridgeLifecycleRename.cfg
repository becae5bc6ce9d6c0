SPECIFICATION Spec
CONSTANTS
    MaxDrops = 0
    MaxChanges = 0
INVARIANTS OldCatalogStaysCleared
CHECK_DEADLOCK FALSE
