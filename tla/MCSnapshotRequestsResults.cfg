CONSTANTS
    Handlers = {h1}
    Msgs = {m1}
    e1 = e1
    e2 = e2
    e3 = e3
    Entities = {e1, e2, e3}
    Grants <- SomeGrants
    MaxSnapshotEntities = 2
    MaxReplies = 1
    None = None
    MaxCommands = 1
    MaxBreaks = 0
    MaxRegrants = 1
SPECIFICATION Spec
INVARIANT OneResultPerCommand
CHECK_DEADLOCK FALSE
