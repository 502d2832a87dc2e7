SPECIFICATION MeshSpec
CONSTANTS
    n1 = n1
    Hosts = {1, 2}
    Names = {n1}
    Mirror = Mirror
    NoRecord = NoRecord
    Values = {1}
    ValueFlags = {0}
    Origins = {}
    RemoteRecords = {}
    TtlMs = 9
    MaxCount = 1
    MaxWall = 1
    MaxCounter = 1
    FloorBatchMs = 1
    Dials <- MCDials
    Users = {1, 2}
    MaxUses = 2
    MaxFaults = 1
INVARIANTS QuietMeansCaughtUp
VIEW MCView
