SPECIFICATION Spec
CONSTANTS
    i1 = i1
    i2 = i2
    e1 = e1
    e2 = e2
    Hosts = {1, 2}
    Endpoints = {e1, e2}
    None = None
    MaxOutgoing = 1
    Instances = {i1, i2}
    Announcers <- MCAnnouncers
    MaxReports = 2
    MaxFaults = 1
INVARIANTS TypeOK EndpointFollows StoppedDialsNobody SettledIsRight
PROPERTIES KeepsHealthy
