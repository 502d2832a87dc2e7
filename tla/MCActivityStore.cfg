SPECIFICATION Spec
CONSTANTS
    g1 = g1
    g2 = g2
    NoGuid = NoGuid
    Events = {g1, g2, NoGuid}
    Threads = {"ui", "net"}
    Stamps = {1, 2}
    Bytes <- MCBytes
    Limits <- MCLimits
    MaxAge = 0
    MaxNow = 1
    MaxItemID = 3
    MaxTasks = 2
INVARIANTS TypeOK PageShowsStore
PROPERTIES ImplementsHistory
CHECK_DEADLOCK FALSE
