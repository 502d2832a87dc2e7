SPECIFICATION FairSpec
CONSTANTS
    g = g
    h = h
    a = a
    b = b
    v = v
    Host = {g, h}
    Users = {g}
    Name = {a, b}
    Value = {v}
    Gone = Gone
    Absent = Absent
    None = None
    Requests <- MCRequests
    MaxCounts = {1, 2}
    MaxEvents = 2
INVARIANTS SuccessLasts FaultFreeIsExact RenameKeepsValue
PROPERTIES CommandEnds
CHECK_DEADLOCK FALSE
