SPECIFICATION FairSpec
CONSTANTS
    a = a
    b = b
    long = long
    n1 = n1
    n2 = n2

    Serving = {n1, n2}
    Record = {a, b, long}
    Size <- MCSize
    Starts <- MCStarts
    MaxFrame = 2
    Buffer = 3
    MaxPushes = 2
    MaxFaults = 1
INVARIANTS QueueNotStranded Accounted
PROPERTIES Converges
CHECK_DEADLOCK FALSE
