SPECIFICATION SharingSpec
CONSTANTS
    w = w
    m = m
    x = x
    y = y
    s = s
    s1 = s1
    s2 = s2
    NoGuid = 0
    Host = {w, m}
    Dials <- MCDials
    Content = {x, y, s}
    Secret = {s}
    Blank = Blank
    Unreadable = Unreadable
    None = None
    Marks = {w}
    Serving = {s1, s2}
    ListLimits <- MCLimits
    SyncItems = 3
    MaxCopies = 2
    MaxEvents = 3
    MaxActions = 2
    MaxFaults = 1
CONSTRAINT MCFollowed
INVARIANTS CalmUseAgrees LossesAreReplayed
SYMMETRY MCSymmetry
CHECK_DEADLOCK FALSE
