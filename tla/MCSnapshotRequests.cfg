\* The commands are bounded, so the system comes to rest.
CONSTANTS
    Handlers = {h1, h2}
    Msgs = {m1, m2}
    e1 = e1
    e2 = e2
    e3 = e3
    Entities = {e1, e2, e3}
    Grants <- SomeGrants
    MaxSnapshotEntities = 2
    MaxReplies = 1
    None = None
    MaxCommands = 3
    MaxBreaks = 1
    MaxRegrants = 1
SYMMETRY SomeSymmetry
SPECIFICATION Spec
INVARIANTS TypeOK OneStreamAtATime SlotIsHeld CompleteIsWhole
PROPERTIES HandedUnderGrant BegunIsFinished
CHECK_DEADLOCK FALSE
