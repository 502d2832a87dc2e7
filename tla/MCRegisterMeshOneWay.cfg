SPECIFICATION FairMeshSpec
CONSTANTS
    n1 = n1
    Hosts = {1, 2}
    Names = {n1}
    Mirror = Mirror
    NoRecord = NoRecord
    Values = {1}
    ValueFlags = {0}
    Origins = {}
    RemoteRecords <- MCRemoteRecords
    TtlMs = 9
    MaxCount = 1
    MaxWall = 2
    MaxCounter = 0
    FloorBatchMs = 1
    Dials <- MCOneDial
    Users = {1}
    MaxUses = 2
    MaxFaults = 1
PROPERTIES CatchesUp HostsImplemented
