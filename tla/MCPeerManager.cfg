SPECIFICATION FairSpec
CONSTANTS
    p1 = p1
    p2 = p2
    h1 = h1
    h2 = h2
    a1 = a1
    Peers = {p1, p2}
    HostIds = {h1, h2}
    NoHost = NoHost
    Addresses = {a1}
    MaxOutgoing = 2
    MaxEstablished = 1
    MaxPending = 1
    MaxPendingPerAddress = 1
    MaxCulls = 1
INVARIANTS TypeOK NoThreadOutlivesItsPeer EstablishedIsExact ShownIsExact AdmissionBounded
PROPERTIES DeadPeersAreCulled OnlyRelaysHoldUpStop
CHECK_DEADLOCK FALSE
